--------------------------- MODULE DNSRecordProvider ---------------------------
(***************************************************************************)
(* The dynamic provider of src/common/pulumi/components/shimiko: the DNS   *)
(* records of a Pulumi program, what the state records of them, and the    *)
(* rows of the shimiko server.  A key stands for a type and a name.  The   *)
(* server is the upsert and delete of Shimiko, seen from outside; the      *)
(* engine (what is created, updated, replaced, deleted, and in which       *)
(* order) is external: creations and updates first, what is removed or     *)
(* replaced is deleted at the end.                                         *)
(***************************************************************************)
EXTENDS Naturals

CONSTANTS
  Resource,    \* the DNSRecord resources a program may have
  Key,         \* types with names
  ValidKey,    \* those that check accepts
  Inputs,      \* what a program may say of a record
  None, Empty, \* no record, and the empty list of addresses
  MaxEdits, MaxFaults, MaxRefreshes

KeysAssumption == ValidKey \subseteq Key

(* A ttl that is 0 is left out.                                            *)
InputsAssumption ==
  /\ None \notin Inputs
  /\ \A i \in Inputs : /\ i.key \in Key /\ i.ttl \in Nat
                       /\ i.noopOnEmpty \in BOOLEAN

(* Only records with noopOnEmpty come without an address.                  *)
EmptyAssumption == \A i \in Inputs : i.records = Empty => i.noopOnEmpty

(* The addresses a row or an output can have.                              *)
Records == {i.records : i \in Inputs} \cup {Empty}
Output == [key : ValidKey, records : Records, ttl : Nat]

NoneAssumption == None \notin Output

BoundsAssumption ==
  MaxEdits \in Nat /\ MaxFaults \in Nat /\ MaxRefreshes \in Nat

ASSUME Assumptions == /\ KeysAssumption
                      /\ InputsAssumption
                      /\ EmptyAssumption
                      /\ NoneAssumption
                      /\ BoundsAssumption

VARIABLES
  program,   \* the inputs of each resource, None when the program has none
  outs,      \* what the state records of it, None when it has none
  replaced,  \* <<resource, key>> replaced and still to be deleted
  rows,      \* the server's row of each key; a deleted one keeps its ttl
  phase,     \* of the up: "idle", "apply" or "delete"
  done,      \* resources this up has applied
  settled,   \* the last up succeeded and nothing has been changed since
  doubtful,  \* keys that had two owners, or an update or deletion cut off
  stray,     \* keys that were created and not recorded
  edits, faults, refreshes

vars == <<program, outs, replaced, rows, phase, done, settled, doubtful, stray,
          edits, faults, refreshes>>

Init ==
  /\ program = [r \in Resource |-> None]
  /\ outs = [r \in Resource |-> None]
  /\ replaced = {}
  /\ rows = [k \in Key |-> [live |-> FALSE, records |-> Empty, ttl |-> 0]]
  /\ phase = "idle" /\ done = {} /\ settled = TRUE
  /\ doubtful = {} /\ stray = {}
  /\ edits = 0 /\ faults = 0 /\ refreshes = 0
-------------------------------------------------------------------------------
(* The server: an upsert without a ttl keeps the one of the row, also of a *)
(* deleted row; a deletion of what is not there succeeds.                  *)
Upserted(i) ==
  [live |-> TRUE, records |-> i.records,
   ttl |-> IF i.ttl = 0 THEN rows[i.key].ttl ELSE i.ttl]

Deleted(k) == [rows EXCEPT ![k].live = FALSE]

(* The provider.                                                           *)
Noop(i) == i.noopOnEmpty /\ i.records = Empty

(* A wrong variant: the ttl of the answer is dropped.                      *)
OutsWithoutTtl(i, row) == [key |-> i.key, records |-> row.records, ttl |-> 0]

Outs(i, row) == [key |-> i.key, records |-> row.records, ttl |-> row.ttl]

(* A wrong variant: diff compares no ttl.                                  *)
DiffersIgnoringTtl(r) ==
  outs[r].key # program[r].key \/ outs[r].records # program[r].records

Differs(r) ==
  \/ outs[r].key # program[r].key
  \/ outs[r].records # program[r].records
  \/ outs[r].ttl # program[r].ttl

Owners(k) == {r \in Resource : outs[r] # None /\ outs[r].key = k}
             \cup {d[1] : d \in {d \in replaced : d[2] = k}}

(* What stays doubtful when the row of r is what its outs say.             *)
Settles(r) ==
  IF Owners(outs[r].key) = {r} /\ <<r, outs[r].key>> \notin replaced
  THEN doubtful \ {outs[r].key} ELSE doubtful

(* A wrong variant: what check refuses is applied.                         *)
AppliesUnchecked(r) == phase = "apply" /\ r \notin done /\ program[r] # None

Applies(r) == phase = "apply" /\ r \notin done /\ program[r] # None
              /\ program[r].key \in ValidKey

(* The up stops where it is.                                               *)
Stop == phase' = "idle" /\ done' = {}

(* check refuses the name: the up ends before the resource is touched.     *)
Check(r) ==
  /\ phase = "apply" /\ r \notin done /\ program[r] # None
  /\ program[r].key \notin ValidKey
  /\ Stop
  /\ UNCHANGED <<program, outs, replaced, rows, settled, doubtful, stray, edits,
                 faults, refreshes>>

Recorded(r, o) ==
  /\ outs' = [outs EXCEPT ![r] = o]
  /\ done' = done \cup {r}
  /\ UNCHANGED <<program, phase, settled, stray, edits, faults, refreshes>>

(* Nothing to do, says diff.                                               *)
Same(r) ==
  /\ Applies(r) /\ outs[r] # None /\ ~Differs(r)
  /\ Recorded(r, outs[r])
  /\ UNCHANGED <<replaced, rows, doubtful>>

(* create: of a new resource, or of one whose key changed, before the old  *)
(* record is deleted.                                                      *)
Creates(r) ==
  Applies(r) /\ (outs[r] # None => outs[r].key # program[r].key)

(* A wrong variant: changes of the name in place, with no replacement.     *)
CreateForgetsOld(r) ==
  LET i == program[r]
  IN  /\ Creates(r)
      /\ rows' = [rows EXCEPT ![i.key] = Upserted(i)]
      /\ Recorded(r, Outs(i, Upserted(i)))
      /\ doubtful' = IF Owners(i.key) = {} THEN doubtful ELSE doubtful \cup {i.key}
      /\ UNCHANGED replaced

Create(r) ==
  LET i == program[r]
  IN  /\ Creates(r)
      /\ \/ /\ Noop(i)
            /\ Recorded(r, [key |-> i.key, records |-> Empty, ttl |-> i.ttl])
            /\ UNCHANGED rows
         \/ /\ ~Noop(i)
            /\ rows' = [rows EXCEPT ![i.key] = Upserted(i)]
            /\ Recorded(r, Outs(i, Upserted(i)))
      /\ replaced' = IF outs[r] = None THEN replaced
                     ELSE replaced \cup {<<r, outs[r].key>>}
      /\ doubtful' = IF Owners(i.key) = {} THEN doubtful ELSE doubtful \cup {i.key}

(* update: with nothing to say and noopOnEmpty, the old outputs stay.      *)
Updates(r) ==
  Applies(r) /\ outs[r] # None /\ outs[r].key = program[r].key /\ Differs(r)

Update(r) ==
  LET i == program[r]
  IN  /\ Updates(r)
      /\ \/ /\ Noop(i)
            /\ Recorded(r, outs[r])
            /\ UNCHANGED <<rows, doubtful>>
         \/ /\ ~Noop(i)
            /\ rows' = [rows EXCEPT ![i.key] = Upserted(i)]
            /\ Recorded(r, Outs(i, Upserted(i)))
            /\ doubtful' = Settles(r)
      /\ UNCHANGED replaced

(* The request is refused, or the server stores the row and the answer is  *)
(* an error or never arrives: nothing is recorded.                         *)
Fault(r) ==
  LET i == program[r]
  IN  /\ faults < MaxFaults
      /\ Creates(r) \/ Updates(r)
      /\ ~Noop(i)
      /\ \/ UNCHANGED <<rows, stray, doubtful>>
         \/ /\ rows' = [rows EXCEPT ![i.key] = Upserted(i)]
            /\ stray' = IF Updates(r) THEN stray ELSE stray \cup {i.key}
            /\ doubtful' = IF Owners(i.key) = {} THEN doubtful
                           ELSE doubtful \cup {i.key}
      /\ faults' = faults + 1
      /\ Stop
      /\ UNCHANGED <<program, outs, replaced, settled, edits, refreshes>>

(* delete, of a resource that the program has no more ...                  *)
Delete(r) ==
  /\ phase = "delete" /\ program[r] = None /\ outs[r] # None
  /\ rows' = Deleted(outs[r].key)
  /\ \/ /\ outs' = [outs EXCEPT ![r] = None]
        /\ doubtful' = Settles(r)
        /\ UNCHANGED <<phase, done, faults>>
     \/ /\ faults < MaxFaults /\ faults' = faults + 1
        /\ doubtful' = doubtful \cup {outs[r].key}
        /\ Stop /\ UNCHANGED outs
  /\ UNCHANGED <<program, replaced, settled, stray, edits, refreshes>>

(* A wrong variant: a row that is gone is an error.                        *)
DeleteReplacedStrict(d) ==
  /\ phase = "delete" /\ rows[d[2]].live
  /\ rows' = Deleted(d[2])
  /\ \/ replaced' = replaced \ {d} /\ UNCHANGED <<phase, done, faults>>
     \/ faults < MaxFaults /\ faults' = faults + 1 /\ Stop /\ UNCHANGED replaced
  /\ UNCHANGED <<program, outs, settled, doubtful, stray, edits, refreshes>>

(* ... and of one that was replaced, by this up or by one that broke off.  *)
DeleteReplaced(d) ==
  /\ phase = "delete"
  /\ rows' = Deleted(d[2])
  /\ \/ replaced' = replaced \ {d} /\ UNCHANGED <<phase, done, faults>>
     \/ faults < MaxFaults /\ faults' = faults + 1 /\ Stop /\ UNCHANGED replaced
  /\ UNCHANGED <<program, outs, settled, doubtful, stray, edits, refreshes>>

(* read, by a refresh: a record that is not found leaves the state.        *)
Read(r) ==
  /\ phase = "idle" /\ refreshes < MaxRefreshes /\ outs[r] # None
  /\ LET k == outs[r].key
     IN  /\ outs' = [outs EXCEPT ![r] =
                       IF rows[k].live THEN Outs(outs[r], rows[k]) ELSE None]
         /\ doubtful' = Settles(r)
  /\ settled' = FALSE
  /\ refreshes' = refreshes + 1
  /\ UNCHANGED <<program, replaced, rows, phase, done, stray, edits, faults>>
-------------------------------------------------------------------------------
(* The engine and the operator.                                            *)
Edit(r, i) ==
  /\ phase = "idle" /\ edits < MaxEdits
  /\ program[r] # i
  /\ program' = [program EXCEPT ![r] = i]
  /\ edits' = edits + 1
  /\ settled' = FALSE
  /\ UNCHANGED <<outs, replaced, rows, phase, done, doubtful, stray, faults,
                 refreshes>>

Begin ==
  /\ phase = "idle"
  /\ phase' = "apply"
  /\ UNCHANGED <<program, outs, replaced, rows, done, settled, doubtful, stray,
                 edits, faults, refreshes>>

Applied ==
  /\ phase = "apply"
  /\ \A r \in Resource : program[r] = None \/ r \in done
  /\ phase' = "delete"
  /\ UNCHANGED <<program, outs, replaced, rows, done, settled, doubtful, stray,
                 edits, faults, refreshes>>

End ==
  /\ phase = "delete" /\ replaced = {}
  /\ \A r \in Resource : program[r] # None \/ outs[r] = None
  /\ Stop /\ settled' = TRUE
  /\ UNCHANGED <<program, outs, replaced, rows, doubtful, stray, edits, faults,
                 refreshes>>

GoesOn ==
  \/ Begin \/ Applied \/ End
  \/ \E r \in Resource : Check(r) \/ Same(r) \/ Create(r) \/ Update(r) \/ Delete(r)
  \/ \E d \in replaced : DeleteReplaced(d)

Next ==
  \/ GoesOn
  \/ \E r \in Resource : \/ Fault(r) \/ Read(r)
                         \/ \E i \in Inputs \cup {None} : Edit(r, i)

Spec == Init /\ [][Next]_vars

(* Ups are repeated and go on.                                             *)
FairSpec == Spec /\ WF_vars(GoesOn)
-------------------------------------------------------------------------------
TypeOK ==
  /\ program \in [Resource -> Inputs \cup {None}]
  /\ outs \in [Resource -> Output \cup {None}]
  /\ replaced \subseteq Resource \X ValidKey
  /\ rows \in [Key -> [live : BOOLEAN, records : Records, ttl : Nat]]
  /\ phase \in {"idle", "apply", "delete"} /\ done \subseteq Resource
  /\ settled \in BOOLEAN /\ doubtful \subseteq ValidKey /\ stray \subseteq ValidKey
  /\ edits \in 0..MaxEdits /\ faults \in 0..MaxFaults
  /\ refreshes \in 0..MaxRefreshes

(* After an up that succeeded, whatever ups failed or were cut off before  *)
(* it, the server answers with what the program says: creations that are   *)
(* repeated find their own row and deletions that are repeated find none.  *)
(* The exceptions: the keys that two resources had at a time (a resource   *)
(* renamed in the program is two), where the one that goes deletes the     *)
(* record of the other; and an update or a deletion that was cut off and   *)
(* then taken back.  Of these only a refresh knows.                        *)
SettledServed ==
  settled => \A r \in Resource : LET i == program[r] IN
    i # None /\ ~Noop(i) /\ i.key \notin doubtful
      => /\ rows[i.key].live /\ rows[i.key].records = i.records
         /\ (i.ttl # 0 => rows[i.key].ttl = i.ttl)

(* After an up that succeeded every row on the server belongs to a         *)
(* resource, except those of creations that were never recorded.           *)
NoOrphans ==
  settled => \A k \in Key :
    rows[k].live => k \in stray \/ \E r \in Resource :
                                     program[r] # None /\ program[r].key = k

(* The up after one that succeeded sends a request only for a record that  *)
(* has lost its ttl, or has no address left with noopOnEmpty: for those the *)
(* difference stays for ever.                                              *)
RestlessOnly ==
  settled => \A r \in Resource : LET i == program[r] IN
    i # None => /\ outs[r] # None
                /\ \/ ~Differs(r)
                   \/ i.ttl = 0 /\ outs[r].ttl # 0
                   \/ Noop(i)

(* Ups that are repeated come to an end, unless a name is refused.         *)
Converges ==
  <>[](settled \/ \E r \in Resource :
                    program[r] # None /\ program[r].key \notin ValidKey)
===============================================================================
