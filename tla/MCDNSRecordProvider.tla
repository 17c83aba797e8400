-------------------------- MODULE MCDNSRecordProvider --------------------------
(***************************************************************************)
(* Two resources and two names that are accepted: the smallest world in    *)
(* which a name is taken over, renamed back and taken back.                *)
(***************************************************************************)
EXTENDS DNSRecordProvider

CONSTANTS a, b, invalid, r1, r2, x, y

AllKeys == {a, b, invalid}
GoodKeys == {a, b}

Input(k, rs, t, noop) == [key |-> k, records |-> rs, ttl |-> t, noopOnEmpty |-> noop]

(* A record with one address or another, with and without a ttl, and the   *)
(* noopOnEmpty record of a machine that has an address or none.            *)
SomeInputs ==
  {Input(a, rs, t, FALSE) : rs \in {x, y}, t \in {0, 1}}
  \cup {Input(a, x, 0, TRUE), Input(a, Empty, 0, TRUE), Input(a, Empty, 1, TRUE)}
  \cup {Input(k, x, 0, FALSE) : k \in {b, invalid}}
===============================================================================
