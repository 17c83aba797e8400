------------------------------- MODULE AccessKeys -------------------------------
(***************************************************************************)
(* The AWS access keys of the stacks and the services that hold them:      *)
(* RotatingAccessKey (traefik on oci) and the two keys of the shimiko      *)
(* stack.  A key is replaced when its user or its trigger changes, the new *)
(* one is created before the old one is deleted, and the service that has  *)
(* the key in its environment is updated in between.  IAM (external)       *)
(* gives a user two keys at most.                                          *)
(***************************************************************************)
EXTENDS Naturals, FiniteSets

CONSTANTS
  Resource,   \* the access keys of the programs
  User,       \* [Resource -> the IAM user of each]
  Limit,      \* keys that a user may have
  MaxEdits, MaxFaults, MaxRevoked

ASSUME ConstantsAssumption ==
  /\ IsFiniteSet(Resource) /\ DOMAIN User = Resource
  /\ Limit \in Nat /\ MaxEdits \in Nat /\ MaxFaults \in Nat /\ MaxRevoked \in Nat

VARIABLES
  program,    \* version of the user and trigger of each key, in the program
  recorded,   \* version the state records with it
  key,        \* the key the state records, 0 when it has none
  replaced,   \* keys replaced and still to be deleted
  keys,       \* the keys at IAM: [of |-> resource, id |-> number]
  next,       \* the next key
  held,       \* the key each service runs with, 0 when there is none
  phase,      \* of the up: "idle", "apply" or "delete"
  settled,    \* the last up succeeded, nothing was edited since
  orphans,    \* keys that were created and not recorded
  revoked,    \* keys that somebody deleted by hand
  edits, faults

vars == <<program, recorded, key, replaced, keys, next, held, phase, settled,
          orphans, revoked, edits, faults>>

Init ==
  /\ program = [r \in Resource |-> 1] /\ recorded = [r \in Resource |-> 0]
  /\ key = [r \in Resource |-> 0] /\ held = [r \in Resource |-> 0]
  /\ replaced = {} /\ keys = {} /\ next = 1
  /\ phase = "idle" /\ settled = FALSE
  /\ orphans = {} /\ revoked = {} /\ edits = 0 /\ faults = 0

Ids(S) == {k.id : k \in S}

OfUser(r) == {k \in keys : User[k.of] = User[r]}

(* A change of user or trigger replaces the key; expiresAt does nothing.   *)
Wanted(r) == phase = "apply" /\ recorded[r] # program[r]

Full(r) == Cardinality(OfUser(r)) >= Limit

Stop == phase' = "idle"

(* A wrong variant: the old key is deleted first.                          *)
CreateAfterDelete(r) ==
  /\ Wanted(r) /\ ~Full(r)
  /\ keys' = {k \in keys : k.id # key[r]} \cup {[of |-> r, id |-> next]}
  /\ next' = next + 1
  /\ recorded' = [recorded EXCEPT ![r] = program[r]]
  /\ key' = [key EXCEPT ![r] = next]
  /\ UNCHANGED replaced
  /\ UNCHANGED <<program, held, phase, settled, orphans, revoked, edits, faults>>

(* A wrong variant: the old key stays.                                     *)
CreateForgetsOld(r) ==
  /\ Wanted(r) /\ ~Full(r)
  /\ keys' = keys \cup {[of |-> r, id |-> next]}
  /\ next' = next + 1
  /\ recorded' = [recorded EXCEPT ![r] = program[r]]
  /\ key' = [key EXCEPT ![r] = next]
  /\ UNCHANGED replaced
  /\ UNCHANGED <<program, held, phase, settled, orphans, revoked, edits, faults>>

(* A wrong variant: the first creation replaces a key as well.             *)
CreateReplacesNothing(r) ==
  /\ Wanted(r) /\ ~Full(r)
  /\ keys' = keys \cup {[of |-> r, id |-> next]}
  /\ next' = next + 1
  /\ recorded' = [recorded EXCEPT ![r] = program[r]]
  /\ key' = [key EXCEPT ![r] = next]
  /\ replaced' = replaced \cup {key[r]}
  /\ UNCHANGED <<program, held, phase, settled, orphans, revoked, edits, faults>>

Create(r) ==
  /\ Wanted(r) /\ ~Full(r)
  /\ keys' = keys \cup {[of |-> r, id |-> next]}
  /\ next' = next + 1
  /\ recorded' = [recorded EXCEPT ![r] = program[r]]
  /\ key' = [key EXCEPT ![r] = next]
  /\ replaced' = IF key[r] = 0 THEN replaced ELSE replaced \cup {key[r]}
  /\ UNCHANGED <<program, held, phase, settled, orphans, revoked, edits, faults>>

(* CreateAccessKey fails with LimitExceeded.                               *)
Refused(r) ==
  /\ Wanted(r) /\ Full(r)
  /\ Stop
  /\ UNCHANGED <<program, recorded, key, replaced, keys, next, held, settled,
                 orphans, revoked, edits, faults>>

(* The key is created, the up is cut off before the answer is recorded.    *)
CutOff(r) ==
  /\ faults < MaxFaults
  /\ Wanted(r) /\ ~Full(r)
  /\ keys' = keys \cup {[of |-> r, id |-> next]}
  /\ next' = next + 1
  /\ orphans' = orphans \cup {next}
  /\ faults' = faults + 1
  /\ Stop
  /\ UNCHANGED <<program, recorded, key, replaced, held, settled, revoked, edits>>

(* The service is created, or restarted since its environment changed.     *)
Deploy(r) ==
  /\ phase = "apply" /\ ~Wanted(r) /\ held[r] # key[r]
  /\ held' = [held EXCEPT ![r] = key[r]]
  /\ UNCHANGED <<program, recorded, key, replaced, keys, next, phase, settled,
                 orphans, revoked, edits, faults>>

(* An operation fails and changes nothing, in either part of the up.       *)
Fault ==
  /\ faults < MaxFaults
  /\ phase # "idle"
  /\ faults' = faults + 1
  /\ Stop
  /\ UNCHANGED <<program, recorded, key, replaced, keys, next, held, settled,
                 orphans, revoked, edits>>

(* A wrong variant: a key that is not there any more is an error.          *)
DeleteStrict(k) ==
  /\ phase = "delete" /\ k \in Ids(keys)
  /\ keys' = {c \in keys : c.id # k}
  /\ \/ replaced' = replaced \ {k} /\ UNCHANGED <<phase, faults>>
     \/ faults < MaxFaults /\ faults' = faults + 1 /\ Stop /\ UNCHANGED replaced
  /\ UNCHANGED <<program, recorded, key, next, held, settled, orphans, revoked,
                 edits>>

(* delete: a key that is not there any more is as good as deleted.  The up *)
(* may be cut off before that is recorded.                                 *)
Delete(k) ==
  /\ phase = "delete"
  /\ keys' = {c \in keys : c.id # k}
  /\ \/ replaced' = replaced \ {k} /\ UNCHANGED <<phase, faults>>
     \/ faults < MaxFaults /\ faults' = faults + 1 /\ Stop /\ UNCHANGED replaced
  /\ UNCHANGED <<program, recorded, key, next, held, settled, orphans, revoked,
                 edits>>
-------------------------------------------------------------------------------
(* The engine and the operator.                                            *)
Begin ==
  /\ phase = "idle"
  /\ phase' = "apply"
  /\ UNCHANGED <<program, recorded, key, replaced, keys, next, held, settled,
                 orphans, revoked, edits, faults>>

Applied ==
  /\ phase = "apply"
  /\ \A r \in Resource : ~Wanted(r) /\ held[r] = key[r]
  /\ phase' = "delete"
  /\ UNCHANGED <<program, recorded, key, replaced, keys, next, held, settled,
                 orphans, revoked, edits, faults>>

End ==
  /\ phase = "delete" /\ replaced = {}
  /\ Stop /\ settled' = TRUE
  /\ UNCHANGED <<program, recorded, key, replaced, keys, next, held, orphans,
                 revoked, edits, faults>>

Edit(r) ==
  /\ phase = "idle" /\ edits < MaxEdits
  /\ program' = [program EXCEPT ![r] = @ + 1]
  /\ settled' = FALSE /\ edits' = edits + 1
  /\ UNCHANGED <<recorded, key, replaced, keys, next, held, phase, orphans,
                 revoked, faults>>

(* Somebody deletes a key at IAM, one that is in use or one that is in the *)
(* way.                                                                    *)
Revoke(k) ==
  /\ Cardinality(revoked) < MaxRevoked
  /\ keys' = keys \ {k}
  /\ revoked' = revoked \cup {k.id}
  /\ UNCHANGED <<program, recorded, key, replaced, next, held, phase, settled,
                 orphans, edits, faults>>

GoesOn ==
  \/ Begin \/ Applied \/ End
  \/ \E r \in Resource : Create(r) \/ Refused(r) \/ Deploy(r)
  \/ \E k \in replaced : Delete(k)

Next ==
  \/ GoesOn \/ Fault
  \/ \E r \in Resource : CutOff(r) \/ Edit(r)
  \/ \E k \in keys : Revoke(k)

Spec == Init /\ [][Next]_vars

(* Ups are repeated and go on; what can be created is created even if      *)
(* another key is refused each time.                                       *)
FairSpec ==
  /\ Spec
  /\ WF_vars(GoesOn)
  /\ \A r \in Resource : SF_vars(Create(r)) /\ SF_vars(Deploy(r))
-------------------------------------------------------------------------------
TypeOK ==
  /\ program \in [Resource -> Nat] /\ recorded \in [Resource -> Nat]
  /\ key \in [Resource -> Nat] /\ held \in [Resource -> Nat]
  /\ next \in Nat \ {0} /\ phase \in {"idle", "apply", "delete"}
  /\ settled \in BOOLEAN
  /\ keys \subseteq [of : Resource, id : 1..(next - 1)]
  /\ replaced \subseteq 1..(next - 1)
  /\ orphans \subseteq 1..(next - 1) /\ revoked \subseteq 1..(next - 1)
  /\ edits \in 0..MaxEdits /\ faults \in 0..MaxFaults

(* No service is ever left with a key that an up has deleted, wherever the *)
(* up breaks off: the old key goes only after every service has taken the  *)
(* new one.  Only a key that is deleted by hand can be in use.             *)
HeldAlive ==
  \A r \in Resource : held[r] # 0 => held[r] \in Ids(keys) \cup revoked

(* An up that succeeds leaves IAM with one key for each of the program and *)
(* those that were created and never recorded, which nobody deletes.       *)
NoLeaks ==
  settled /\ phase = "idle" =>
    Ids(keys) \subseteq orphans \cup {key[r] : r \in Resource}

(* Ups that are repeated come to an end, unless a user has no place for    *)
(* one more key: two resources on one user, a key that was never recorded, *)
(* or one whose deletion was cut off before the next replacement.          *)
Crowded(r) ==
  /\ recorded[r] # program[r] /\ Full(r)
  /\ \/ \E k \in OfUser(r) : k.id \in orphans \cup replaced
     \/ \E q \in Resource \ {r} : User[q] = User[r]

Converges == <>[](settled \/ \E r \in Resource : Crowded(r))
===============================================================================
