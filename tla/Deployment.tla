------------------------------ MODULE Deployment ------------------------------
(***************************************************************************)
(* A stack is brought up on its machine, again and again: the program is   *)
(* edited, "up" goes through its graph of resources, operations fail or    *)
(* are cut off, "up" is repeated.  The graphs are those of Stacks and      *)
(* MidComponents; the engine is external (Pulumi with the mid provider)    *)
(* and modelled from how the programs use it:                              *)
(*   - an operation starts when all it waits for is done, so independent   *)
(*     ones run in any order;                                              *)
(*   - a resource is applied when the program differs from what the state  *)
(*     records for it, or a lastChanged it refers to does, and has then a  *)
(*     lastChanged of its own;                                             *)
(*   - applying a service (re)starts it;                                   *)
(*   - an operation that fails ends the up; one that is cut off has        *)
(*     changed the machine and is not recorded.                            *)
(* A slice is a set of resources looked at together, with all they wait    *)
(* for.                                                                    *)
(***************************************************************************)
EXTENDS Naturals

CONSTANTS
  Resource,   \* the resources of all stacks
  Graph,      \* [Resource -> record of on, refresh, needs, reads, once]
  Behind,     \* [Resource -> what has been applied before, in every order]
  Slices,     \* the sets of resources to look at
  Unordered,  \* pairs <<r, n>>: r needs n and does not wait for it
  Unwatched,  \* pairs <<r, x>>: r reads x and is not refreshed by it
  MaxEdits,   \* edits of the program
  MaxFaults   \* operations that fail or are cut off

Waits(r) == Graph[r].on \cup Graph[r].refresh

GraphAssumption ==
  Graph \in [Resource -> [on : SUBSET Resource, refresh : SUBSET Resource,
                          needs : SUBSET Resource, reads : SUBSET Resource,
                          once : BOOLEAN]]

(* Nothing is behind r but what it waits for and what is behind that.      *)
BehindAssumption ==
  /\ Behind \in [Resource -> SUBSET Resource]
  /\ \A r \in Resource : \A b \in Behind[r] :
       b \in Waits(r) \/ \E w \in Waits(r) : b \in Behind[w]

SlicesAssumption == \A s \in Slices : /\ s \subseteq Resource
                                      /\ \A r \in s : Waits(r) \subseteq s

BoundsAssumption == MaxEdits \in Nat /\ MaxFaults \in Nat

ASSUME Assumptions == /\ GraphAssumption
                      /\ BehindAssumption
                      /\ SlicesAssumption
                      /\ BoundsAssumption

VARIABLES
  slice,     \* the slice of this behaviour
  program,   \* version of each resource in the program
  recorded,  \* version in the state, 0 when it is not in the state
  stamp,     \* lastChanged of each resource
  seen,      \* seen[r][x]: lastChanged of x that is recorded with r
  machine,   \* version on the machine, 0 when nothing is there
  loaded,    \* loaded[r][x]: version of x that the service r holds
  done,      \* the resources this up is through with
  up,        \* an up is running
  settled,   \* the last up succeeded, the program has not been edited since
  missed,    \* pairs <<r, n>>: r was applied when n was missing
  edits, faults

vars == <<slice, program, recorded, stamp, seen, machine, loaded, done, up,
          settled, missed, edits, faults>>

state == <<recorded, stamp, seen>>

Zero(S) == [x \in S |-> 0]

Init ==
  /\ slice \in Slices
  /\ program = [r \in slice |-> 1]
  /\ recorded = Zero(slice) /\ stamp = Zero(slice) /\ machine = Zero(slice)
  /\ seen = [r \in slice |-> Zero(Graph[r].refresh)]
  /\ loaded = [r \in slice |-> Zero(Graph[r].reads \cap slice)]
  /\ done = {} /\ up = FALSE /\ settled = FALSE /\ missed = {}
  /\ edits = 0 /\ faults = 0

Edit(r) ==
  /\ ~up /\ edits < MaxEdits
  /\ edits' = edits + 1
  /\ program' = [program EXCEPT ![r] = @ + 1]
  /\ settled' = FALSE
  /\ UNCHANGED <<slice, state, machine, loaded, done, up, missed, faults>>

Begin ==
  /\ ~up
  /\ up' = TRUE /\ done' = {}
  /\ UNCHANGED <<slice, program, state, machine, loaded, settled, missed,
                 edits, faults>>

(* The operations that may start.                                          *)
Ready == IF up THEN {r \in slice \ done : Waits(r) \subseteq done} ELSE {}

(* A wrong variant: the triggers of everything that was applied.            *)
StampsOfAll(r) == stamp

(* What the triggers of r refer to at the moment.                          *)
Stamps(r) == [x \in DOMAIN seen[r] |-> stamp[x]]

Changed(r) == recorded[r] # program[r] \/ seen[r] # Stamps(r)

Missing(r) == {n \in Graph[r].needs \cap slice : machine[n] = 0}

(* The command that creates r finds its own work of an earlier try.        *)
Stuck(r) == Graph[r].once /\ recorded[r] = 0 /\ machine[r] > 0

(* Same to Fault are for an r that is Ready.                               *)
(* Nothing to do for r.                                                    *)
Same(r) ==
  /\ ~Changed(r)
  /\ done' = done \cup {r}
  /\ UNCHANGED <<slice, program, state, machine, loaded, up, settled, missed,
                 edits, faults>>

Works(r) ==
  /\ Changed(r)
  /\ Missing(r) = {} /\ ~Stuck(r)
  /\ machine' = [machine EXCEPT ![r] = program[r]]
  /\ loaded' = [loaded EXCEPT ![r] = [x \in DOMAIN @ |-> machine[x]]]
  /\ UNCHANGED <<slice, program, missed, edits>>

(* r is created or updated, and recorded.                                  *)
Apply(r) ==
  /\ Works(r)
  /\ recorded' = [recorded EXCEPT ![r] = program[r]]
  /\ stamp' = [stamp EXCEPT ![r] = @ + 1]
  /\ seen' = [seen EXCEPT ![r] = Stamps(r)]
  /\ done' = done \cup {r}
  /\ UNCHANGED <<up, settled, faults>>

(* The up is killed, or the connection lost, after the machine changed.    *)
CutOff(r) ==
  /\ faults < MaxFaults
  /\ Works(r)
  /\ faults' = faults + 1
  /\ up' = FALSE /\ done' = {}
  /\ UNCHANGED <<state, settled>>

(* The operation fails: what it needs is missing, or its own work is there.*)
(* That takes its time on the machine: the up is by then through with what *)
(* has nothing to do.                                                      *)
Fail(r) ==
  /\ Changed(r) /\ \A q \in Ready : Changed(q)
  /\ Missing(r) # {} \/ Stuck(r)
  /\ missed' = missed \cup {<<r, n>> : n \in Missing(r)}
  /\ up' = FALSE /\ done' = {}
  /\ UNCHANGED <<slice, program, state, machine, loaded, settled, edits, faults>>

(* Something outside fails: a download, the network, the machine.          *)
Fault(r) ==
  /\ faults < MaxFaults
  /\ Changed(r)
  /\ faults' = faults + 1
  /\ up' = FALSE /\ done' = {}
  /\ UNCHANGED <<slice, program, state, machine, loaded, settled, missed, edits>>

End ==
  /\ up /\ done = slice
  /\ up' = FALSE /\ done' = {} /\ settled' = TRUE
  /\ UNCHANGED <<slice, program, state, machine, loaded, missed, edits, faults>>

Next ==
  \/ Begin \/ End
  \/ \E r \in slice : Edit(r)
  \/ \E r \in Ready : Same(r) \/ Apply(r) \/ Fail(r) \/ CutOff(r) \/ Fault(r)

Spec == Init /\ [][Next]_vars

(* An up goes on and is repeated.  It starts everything that may start at  *)
(* once: when an operation that can succeed is there again and again, one  *)
(* does, even if others fail each time.  Nobody has to edit, nothing from  *)
(* outside has to fail.                                                    *)
GoesOn == Begin \/ End \/ \E r \in Ready : Same(r) \/ Apply(r) \/ Fail(r)

FairSpec == Spec /\ WF_vars(GoesOn) /\ SF_vars(\E r \in Ready : Apply(r))
-------------------------------------------------------------------------------
TypeOK ==
  /\ \A r \in slice : Waits(r) \subseteq slice
  /\ \A v \in {program, recorded, stamp, machine} : v \in [slice -> Nat]
  /\ \A r \in slice : /\ seen[r] \in [Graph[r].refresh -> Nat]
                      /\ loaded[r] \in [Graph[r].reads \cap slice -> Nat]
  /\ done \subseteq slice /\ missed \subseteq slice \X slice
  /\ up \in BOOLEAN /\ settled \in BOOLEAN
  /\ edits \in 0..MaxEdits /\ faults \in 0..MaxFaults

(* In whatever order the operations of an up run, and however many ups     *)
(* were cut off before, nothing is applied while what it needs is missing  *)
(* from the machine, except for the pairs that no dependsOn orders.        *)
MissesOnlyUnordered == missed \subseteq Unordered

(* After an up that succeeded every service holds what the program says,   *)
(* whatever failed or was cut off on the way there, except for the pairs   *)
(* no trigger covers.                                                      *)
FreshAfterUp ==
  settled => \A r \in slice : \A x \in DOMAIN loaded[r] :
               loaded[r][x] = program[x] \/ <<r, x>> \in Unwatched

(* Ups that are repeated come to an end, unless a command that cannot be   *)
(* repeated was cut off.                                                   *)
Converges == <>[](settled \/ \E r \in slice : Stuck(r))
===============================================================================
