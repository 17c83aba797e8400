---------------------------- MODULE AccessKeysProofs ----------------------------
(***************************************************************************)
(* Proofs about AccessKeys, for all sets of resources, users and bounds:   *)
(* the types, that no service holds a key which an up has deleted, and     *)
(* what is left at IAM after an up that succeeded.                         *)
(***************************************************************************)
EXTENDS AccessKeys, TLAPS

(* What an up needs from the earlier ones: every key the state records is  *)
(* at IAM unless it was revoked, belongs to one resource and is not to be  *)
(* deleted; deletions start when nothing runs with another key.            *)
Distinct ==
  \A r, q \in Resource : key[r] # 0 /\ key[r] = key[q] => r = q

KeyAlive ==
  \A r \in Resource :
    key[r] # 0 => key[r] \in Ids(keys) \cup revoked /\ key[r] \notin replaced

DeletesLast ==
  phase = "delete" => \A r \in Resource : held[r] = key[r] /\ recorded[r] = program[r]

Known == Ids(keys) \subseteq orphans \cup replaced \cup {key[r] : r \in Resource}

SettledClean ==
  settled => replaced = {} /\ \A r \in Resource : recorded[r] = program[r]

IInv == TypeOK /\ Distinct /\ KeyAlive /\ DeletesLast /\ Known /\ SettledClean /\ HeldAlive

-------------------------------------------------------------------------------
LEMMA InitHolds == Init => IInv
<1> SUFFICES ASSUME Init
             PROVE  IInv
  OBVIOUS
<1>1. TypeOK
  <2>1. 0 \in 0..MaxEdits /\ 0 \in 0..MaxFaults
    BY ConstantsAssumption
  <2>2. /\ program \in [Resource -> Nat] /\ recorded \in [Resource -> Nat]
        /\ key \in [Resource -> Nat] /\ held \in [Resource -> Nat]
    BY DEF Init
  <2>3. /\ next \in Nat \ {0} /\ keys = {} /\ replaced = {} /\ orphans = {}
        /\ revoked = {} /\ edits = 0 /\ faults = 0
    BY DEF Init
  <2>4. phase \in {"idle", "apply", "delete"} /\ settled \in BOOLEAN
    BY DEF Init
  <2> QED
    BY <2>1, <2>2, <2>3, <2>4, Zenon DEF TypeOK
<1>2. Ids(keys) = {} /\ \A r \in Resource : key[r] = 0 /\ held[r] = 0
  BY DEF Init, Ids
<1>3. Distinct /\ KeyAlive /\ Known /\ HeldAlive
  BY <1>2 DEF Distinct, KeyAlive, Known, HeldAlive
<1>4. DeletesLast /\ SettledClean
  BY DEF Init, DeletesLast, SettledClean
<1> QED
  BY <1>1, <1>3, <1>4 DEF IInv

LEMMA IdsPlus ==
  ASSUME NEW S, NEW r, NEW n
  PROVE  Ids(S \cup {[of |-> r, id |-> n]}) = Ids(S) \cup {n}
<1> DEFINE new == [of |-> r, id |-> n]
<1>1. new.id = n
  OBVIOUS
<1> HIDE DEF new
<1>2. Ids(S \cup {new}) = Ids(S) \cup {n}
  BY <1>1 DEF Ids
<1> QED
  BY <1>2 DEF new

(* Steps that neither touch IAM nor the recorded keys.                     *)
LEMMA QuietSteps ==
  ASSUME IInv,
         \/ Fault \/ Begin \/ Applied \/ End
         \/ \E r \in Resource : Refused(r) \/ Edit(r) \/ Deploy(r)
  PROVE  IInv'
<1> USE ConstantsAssumption DEF IInv, Ids
<1>1. TypeOK'
  <2>1. CASE \E r \in Resource : Edit(r)
    <3>1. PICK r \in Resource : Edit(r)
      BY <2>1
    <3>2. program' \in [Resource -> Nat]
      BY <3>1 DEF TypeOK, Edit
    <3>3. edits' \in 0..MaxEdits
      BY <3>1 DEF TypeOK, Edit
    <3> QED
      BY <3>1, <3>2, <3>3 DEF TypeOK, Edit
  <2>2. CASE \E r \in Resource : Deploy(r)
    BY <2>2 DEF TypeOK, Deploy
  <2>3. CASE Fault
    BY <2>3 DEF TypeOK, Fault, Stop
  <2>4. CASE Begin \/ Applied \/ End \/ \E r \in Resource : Refused(r)
    BY <2>4 DEF TypeOK, Begin, Applied, End, Refused, Stop
  <2> QED
    BY <2>1, <2>2, <2>3, <2>4
<1>2. Distinct' /\ KeyAlive' /\ Known'
  BY DEF Distinct, KeyAlive, Known, Fault, Begin, Applied, End, Refused, Edit, Deploy, Stop
<1>3. DeletesLast'
  BY DEF TypeOK, DeletesLast, Fault, Begin, Applied, End, Refused, Edit, Deploy, Stop, Wanted
<1>4. SettledClean'
  BY DEF SettledClean, DeletesLast, Fault, Begin, Applied, End, Refused, Edit, Deploy, Stop
<1>5. HeldAlive'
  <2>1. CASE \E r \in Resource : Deploy(r)
    BY <2>1 DEF TypeOK, HeldAlive, KeyAlive, Deploy
  <2>2. CASE \/ Fault \/ Begin \/ Applied \/ End
             \/ \E r \in Resource : Refused(r) \/ Edit(r)
    BY <2>2 DEF HeldAlive, Fault, Begin, Applied, End, Refused, Edit, Stop
  <2> QED
    BY <2>1, <2>2
<1> QED
  BY <1>1, <1>2, <1>3, <1>4, <1>5

LEMMA CreateHolds ==
  ASSUME IInv, NEW r \in Resource, Create(r)
  PROVE  IInv'
<1> USE ConstantsAssumption DEF IInv
<1>0. /\ Ids(keys') = Ids(keys) \cup {next}
      /\ key' = [key EXCEPT ![r] = next] /\ next \in Nat
      /\ key \in [Resource -> Nat] /\ replaced \subseteq 1..(next - 1)
  BY IdsPlus DEF Create, TypeOK
<1>1. \A q \in Resource : key[q] # 0 => key[q] < next
  BY DEF TypeOK, KeyAlive, Ids
<1>2. TypeOK'
  <2>1. keys' \subseteq [of : Resource, id : 1..next] /\ next' = next + 1 /\ 1 <= next
    BY DEF TypeOK, Create
  <2>2. replaced' \subseteq 1..next
    <3>1. replaced' \subseteq replaced \cup ({key[r]} \ {0})
      BY DEF Create
    <3>2. key[r] # 0 => key[r] \in 1..next
      BY <1>0, <1>1
    <3>3. replaced \subseteq 1..next
      BY <1>0
    <3> QED
      BY <3>1, <3>2, <3>3
  <2> QED
    BY <2>1, <2>2 DEF TypeOK, Create
<1>3. Distinct'
  BY <1>0, <1>1 DEF Distinct
<1>4. KeyAlive'
  <2> SUFFICES ASSUME NEW q \in Resource, key'[q] # 0
               PROVE  key'[q] \in Ids(keys') \cup revoked' /\ key'[q] \notin replaced'
    BY DEF KeyAlive
  <2>1. CASE q = r
    <3>1. key'[q] = next /\ next \in Ids(keys')
      BY <2>1, <1>0
    <3>2. next \notin replaced
      BY <1>0
    <3>3. key[r] # 0 => key[r] # next
      BY <1>0, <1>1
    <3> QED
      BY <3>1, <3>2, <3>3 DEF Create
  <2>2. CASE q # r
    BY <2>2, <1>0 DEF Create, KeyAlive, Distinct
  <2> QED
    BY <2>1, <2>2
<1>5. DeletesLast' /\ SettledClean'
  BY DEF DeletesLast, SettledClean, Create, Wanted
<1>6. Known'
  <2> SUFFICES ASSUME NEW k \in Ids(keys')
               PROVE  k \in orphans' \cup replaced' \cup {key'[q] : q \in Resource}
    BY DEF Known
  <2>1. CASE k = next
    BY <2>1, <1>0
  <2>2. CASE k \in Ids(keys) /\ k \in orphans \cup replaced
    BY <2>2 DEF Create
  <2>3. CASE k \in Ids(keys) /\ \E q \in Resource : k = key[q]
    <3>1. PICK q \in Resource : k = key[q]
      BY <2>3
    <3>2. k # 0
      BY <2>3 DEF Ids, TypeOK
    <3> QED
      BY <3>1, <3>2, <1>0 DEF Create
  <2> QED
    BY <2>1, <2>2, <2>3, <1>0 DEF Known
<1>7. HeldAlive'
  BY <1>0 DEF HeldAlive, Create
<1> QED
  BY <1>2, <1>3, <1>4, <1>5, <1>6, <1>7

LEMMA CutOffHolds ==
  ASSUME IInv, NEW r \in Resource, CutOff(r)
  PROVE  IInv'
<1> USE ConstantsAssumption DEF IInv
<1>1. Ids(keys') = Ids(keys) \cup {next}
  BY IdsPlus DEF CutOff
<1>2. TypeOK'
  <2>1. keys' \subseteq [of : Resource, id : 1..next] /\ next' = next + 1 /\ 1 <= next
    BY DEF TypeOK, CutOff
  <2>2. orphans' \subseteq 1..next /\ replaced \subseteq 1..next /\ revoked \subseteq 1..next
    BY <2>1 DEF TypeOK, CutOff
  <2> QED
    BY <2>1, <2>2 DEF TypeOK, CutOff, Stop
<1>3. Distinct' /\ KeyAlive' /\ Known' /\ HeldAlive'
  BY <1>1 DEF Distinct, KeyAlive, Known, HeldAlive, CutOff
<1>4. DeletesLast' /\ SettledClean'
  BY DEF DeletesLast, SettledClean, CutOff, Stop, Wanted
<1> QED
  BY <1>2, <1>3, <1>4

LEMMA DeleteHolds ==
  ASSUME IInv, NEW k \in replaced, Delete(k)
  PROVE  IInv'
<1> USE ConstantsAssumption DEF IInv
<1>1. Ids(keys') = Ids(keys) \ {k} /\ replaced \ {k} \subseteq replaced' /\ replaced' \subseteq replaced
  <2>1. Ids(keys') = Ids(keys) \ {k}
    BY DEF Delete, Ids
  <2>2. replaced \ {k} \subseteq replaced' /\ replaced' \subseteq replaced
    BY DEF Delete
  <2> QED
    BY <2>1, <2>2
<1>2. TypeOK'
  <2>1. keys' \subseteq keys /\ replaced' \subseteq replaced
    BY DEF Delete
  <2>2. faults' \in 0..MaxFaults
    BY DEF TypeOK, Delete
  <2>3. phase' \in {"idle", "apply", "delete"}
    BY DEF TypeOK, Delete, Stop
  <2> QED
    BY <2>1, <2>2, <2>3 DEF TypeOK, Delete
<1>3. KeyAlive'
  BY <1>1 DEF KeyAlive, Delete
<1>4. Distinct' /\ DeletesLast' /\ SettledClean'
  BY DEF Distinct, DeletesLast, SettledClean, Delete, Stop
<1>5. Known'
  BY <1>1 DEF Known, Delete
<1>6. HeldAlive'
  <2> SUFFICES ASSUME NEW r \in Resource, held[r] # 0
               PROVE  held[r] \in Ids(keys') \cup revoked
    BY DEF HeldAlive, Delete
  <2>1. held[r] = key[r] /\ key[r] \notin replaced
    BY DEF Delete, DeletesLast, KeyAlive
  <2> QED
    BY <2>1, <1>1 DEF HeldAlive
<1> QED
  BY <1>2, <1>3, <1>4, <1>5, <1>6

LEMMA RevokeHolds ==
  ASSUME IInv, NEW k \in keys, Revoke(k)
  PROVE  IInv'
<1> USE ConstantsAssumption DEF IInv
<1>1. Ids(keys') \subseteq Ids(keys) /\ Ids(keys) \cup revoked \subseteq Ids(keys') \cup revoked'
  BY DEF Revoke, Ids
<1>2. TypeOK'
  BY DEF TypeOK, Revoke
<1>3. Distinct' /\ KeyAlive' /\ Known' /\ HeldAlive'
  <2>1. Distinct' /\ Known'
    BY <1>1 DEF Distinct, Known, Revoke
  <2>2. KeyAlive'
    BY <1>1 DEF KeyAlive, Revoke
  <2>3. HeldAlive'
    BY <1>1 DEF HeldAlive, Revoke
  <2> QED
    BY <2>1, <2>2, <2>3
<1>4. DeletesLast' /\ SettledClean'
  BY DEF DeletesLast, SettledClean, Revoke
<1> QED
  BY <1>2, <1>3, <1>4

LEMMA StepHolds == IInv /\ [Next]_vars => IInv'
<1> SUFFICES ASSUME IInv, [Next]_vars
             PROVE  IInv'
  OBVIOUS
<1>1. CASE UNCHANGED vars
  BY <1>1 DEF IInv, TypeOK, Distinct, KeyAlive, DeletesLast, Known, SettledClean, HeldAlive, vars, Ids
<1>2. CASE Next
  BY <1>2, QuietSteps, CreateHolds, CutOffHolds, DeleteHolds, RevokeHolds DEF Next, GoesOn
<1> QED
  BY <1>1, <1>2

LEMMA Inductive == Spec => []IInv
  BY InitHolds, StepHolds, PTL DEF Spec

(* The variables keep their types through every interleaving of ups, edits *)
(* and interruptions (RotatingAccessKey's operations).                     *)
THEOREM TypeCorrect == Spec => []TypeOK
<1>1. IInv => TypeOK
  BY DEF IInv
<1> QED
  BY <1>1, Inductive, PTL

(* However many keys, users, replacements and interruptions: a service     *)
(* runs with a key that exists, or that was deleted by hand.               *)
THEOREM HeldKeysAlive == Spec => []HeldAlive
<1>1. IInv => HeldAlive
  BY DEF IInv
<1> QED
  BY <1>1, Inductive, PTL

(* An up that succeeded leaves no key behind other than those that were    *)
(* created and never recorded.                                             *)
THEOREM SettledLeaksNothing == Spec => []NoLeaks
<1>1. IInv => NoLeaks
  BY DEF IInv, Known, SettledClean, NoLeaks
<1> QED
  BY <1>1, Inductive, PTL
===============================================================================
