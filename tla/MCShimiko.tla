----------------------------- MODULE MCShimiko -----------------------------
(* Instances of Shimiko for TLC. *)
EXTENDS Shimiko, TLC

CONSTANTS self, x, ns, c1, c2, v1, v2

OneClient == {c1}
TwoClients == {c1, c2}
SelfAndX == {self, x}
OnlyX == {x}
SelfXAndNS == {self, x, ns}
XAndNS == {x, ns}
TwoValues == {v1, v2}
OneValue == {v1}
ClientSymmetry == Permutations(TwoClients)
XInBothSpellings == {x, AbsoluteName(x)}

=============================================================================
