--------------------------- MODULE DeploymentProofs ---------------------------
(***************************************************************************)
(* What an up promises for every graph: for these stacks as they are and   *)
(* as they will be edited, whatever their size, in every order of the      *)
(* operations, with any number of edits and faults.                        *)
(***************************************************************************)
EXTENDS Deployment, TLAPS

Types ==
  /\ slice \in Slices
  /\ program \in [slice -> Nat] /\ recorded \in [slice -> Nat]
  /\ stamp \in [slice -> Nat] /\ machine \in [slice -> Nat]
  /\ DOMAIN seen = slice /\ DOMAIN loaded = slice
  /\ \A r \in slice : /\ seen[r] \in [Graph[r].refresh -> Nat]
                      /\ loaded[r] \in [Graph[r].reads \cap slice -> Nat]
  /\ done \subseteq slice /\ missed \subseteq slice \X slice
  /\ up \in BOOLEAN /\ settled \in BOOLEAN
  /\ edits \in 0..MaxEdits /\ faults \in 0..MaxFaults

LEMMA SliceClosed ==
  ASSUME Types
  PROVE  /\ slice \subseteq Resource
         /\ \A r \in slice : Waits(r) \subseteq slice /\ Graph[r].refresh \subseteq slice
BY Assumptions DEF Types, SlicesAssumption, Waits

LEMMA TypesTypeOK == Types => TypeOK
BY SliceClosed DEF Types, TypeOK

LEMMA ReadyInSlice ==
  ASSUME NEW r \in Ready
  PROVE  up /\ r \in slice /\ r \notin done /\ Waits(r) \subseteq done
BY DEF Ready

LEMMA InitTypes == Init => Types
<1> SUFFICES ASSUME Init PROVE Types
  OBVIOUS
<1>1. slice \subseteq Resource
  BY Assumptions DEF Init, SlicesAssumption
<1>2. \A r \in slice : seen[r] \in [Graph[r].refresh -> Nat]
  BY DEF Init, Zero
<1>3. \A r \in slice : loaded[r] \in [Graph[r].reads \cap slice -> Nat]
  BY DEF Init, Zero
<1>4. DOMAIN seen = slice /\ DOMAIN loaded = slice
  BY DEF Init
<1>5. edits \in 0..MaxEdits /\ faults \in 0..MaxFaults
  BY Assumptions DEF Init, BoundsAssumption
<1> QED
  BY <1>2, <1>3, <1>4, <1>5 DEF Init, Types, Zero

LEMMA StampsType ==
  ASSUME Types, NEW r \in slice
  PROVE  /\ Stamps(r) \in [Graph[r].refresh -> Nat]
         /\ \A x \in Graph[r].refresh : Stamps(r)[x] = stamp[x]
<1>1. DOMAIN seen[r] = Graph[r].refresh
  BY DEF Types
<1>2. \A x \in Graph[r].refresh : stamp[x] \in Nat
  BY SliceClosed DEF Types
<1> QED
  BY <1>1, <1>2 DEF Stamps

(* What the two actions that change the machine do to it.                  *)
LEMMA WorksTypes ==
  ASSUME Types, NEW r \in Ready, Works(r)
  PROVE  /\ slice' = slice /\ program' = program
         /\ machine' \in [slice -> Nat]
         /\ machine'[r] = program[r]
         /\ \A q \in slice \ {r} : machine'[q] = machine[q]
         /\ DOMAIN loaded' = slice
         /\ \A q \in slice \ {r} : loaded'[q] = loaded[q]
         /\ loaded'[r] \in [Graph[r].reads \cap slice -> Nat]
         /\ \A x \in Graph[r].reads \cap slice : loaded'[r][x] = machine[x]
<1>1. r \in slice
  BY ReadyInSlice
<1>2. program[r] \in Nat /\ machine \in [slice -> Nat] /\ DOMAIN loaded = slice
      /\ DOMAIN loaded[r] = Graph[r].reads \cap slice
  BY <1>1 DEF Types
<1>3. machine' = [machine EXCEPT ![r] = program[r]]
  BY DEF Works
<1>4. loaded' = [loaded EXCEPT ![r] = [x \in Graph[r].reads \cap slice |-> machine[x]]]
  BY <1>1, <1>2 DEF Works
<1>5. [x \in Graph[r].reads \cap slice |-> machine[x]]
        \in [Graph[r].reads \cap slice -> Nat]
  BY <1>2
<1>6. loaded'[r] = [x \in Graph[r].reads \cap slice |-> machine[x]]
  BY <1>1, <1>2, <1>4
<1> QED
  BY <1>1, <1>2, <1>3, <1>4, <1>5, <1>6 DEF Works

LEMMA ApplyRecords ==
  ASSUME Types, NEW r \in Ready, Apply(r)
  PROVE  /\ recorded' \in [slice -> Nat] /\ recorded'[r] = program[r]
         /\ stamp' \in [slice -> Nat] /\ stamp'[r] = stamp[r] + 1
         /\ \A q \in slice \ {r} : /\ recorded'[q] = recorded[q]
                                   /\ stamp'[q] = stamp[q]
                                   /\ seen'[q] = seen[q]
         /\ DOMAIN seen' = slice
         /\ seen'[r] = Stamps(r)
<1>1. r \in slice
  BY ReadyInSlice
<1>2. program[r] \in Nat /\ stamp[r] + 1 \in Nat
  BY <1>1 DEF Types
<1>3. recorded' \in [slice -> Nat] /\ recorded'[r] = program[r]
      /\ \A q \in slice \ {r} : recorded'[q] = recorded[q]
  BY <1>1, <1>2 DEF Apply, Types
<1>4. stamp' \in [slice -> Nat] /\ stamp'[r] = stamp[r] + 1
      /\ \A q \in slice \ {r} : stamp'[q] = stamp[q]
  BY <1>1, <1>2 DEF Apply, Types
<1>5. DOMAIN seen' = slice /\ seen'[r] = Stamps(r)
      /\ \A q \in slice \ {r} : seen'[q] = seen[q]
  BY <1>1 DEF Apply, Types
<1> QED
  BY <1>3, <1>4, <1>5

LEMMA NextTypes == Types /\ [Next]_vars => Types'
<1> SUFFICES ASSUME Types, [Next]_vars PROVE Types'
  OBVIOUS
<1>1. CASE Begin \/ End \/ UNCHANGED vars
  BY <1>1 DEF Begin, End, vars, state, Types
<1>2. ASSUME NEW r \in slice, Edit(r) PROVE Types'
  <2>1. program' \in [slice -> Nat]
    BY <1>2 DEF Edit, Types
  <2>2. edits' \in 0..MaxEdits
    BY <1>2, Assumptions DEF Edit, Types, BoundsAssumption
  <2> QED
    BY <1>2, <2>1, <2>2 DEF Edit, Types, state
<1>3. ASSUME NEW r \in Ready, Same(r) PROVE Types'
  BY <1>3, ReadyInSlice DEF Same, Types, state
<1>4. ASSUME NEW r \in Ready, Fail(r) PROVE Types'
  <2>1. missed' \subseteq slice \X slice
    BY <1>4, ReadyInSlice DEF Fail, Types, Missing
  <2> QED
    BY <1>4, <2>1 DEF Fail, Types, state
<1>5. ASSUME NEW r \in Ready, Fault(r) PROVE Types'
  <2>1. faults' \in 0..MaxFaults
    BY <1>5, Assumptions DEF Fault, Types, BoundsAssumption
  <2> QED
    BY <1>5, <2>1 DEF Fault, Types, state
<1>6. ASSUME NEW r \in Ready, Works(r) PROVE
        \A q \in slice : loaded'[q] \in [Graph[q].reads \cap slice -> Nat]
  BY <1>6, WorksTypes DEF Types
<1>7. ASSUME NEW r \in Ready, CutOff(r) PROVE Types'
  <2>1. faults' \in 0..MaxFaults
    BY <1>7, Assumptions DEF CutOff, Types, BoundsAssumption
  <2>2. Works(r)
    BY <1>7 DEF CutOff
  <2> QED
    BY <1>6, <1>7, <2>1, <2>2, WorksTypes DEF CutOff, Works, Types, state
<1>8. ASSUME NEW r \in Ready, Apply(r) PROVE Types'
  <2>1. Works(r)
    BY <1>8 DEF Apply
  <2>2. \A q \in slice : seen'[q] \in [Graph[q].refresh -> Nat]
    <3>1. r \in slice
      BY ReadyInSlice
    <3>2. seen'[r] \in [Graph[r].refresh -> Nat]
      BY <1>8, <3>1, ApplyRecords, StampsType
    <3>3. \A q \in slice \ {r} : seen'[q] = seen[q]
      BY <1>8, ApplyRecords
    <3> QED
      BY <3>2, <3>3 DEF Types
  <2>3. done' \subseteq slice
    BY <1>8, ReadyInSlice DEF Apply, Types
  <2>4. UNCHANGED <<slice, program, up, settled, missed, edits, faults>>
    BY <1>8, <2>1 DEF Apply, Works
  <2>5. recorded' \in [slice -> Nat] /\ stamp' \in [slice -> Nat]
        /\ DOMAIN seen' = slice
    BY <1>8, ApplyRecords
  <2>6. machine' \in [slice -> Nat] /\ DOMAIN loaded' = slice
    BY <2>1, WorksTypes
  <2> QED
    BY <1>6, <2>1, <2>2, <2>3, <2>4, <2>5, <2>6 DEF Types
<1> QED
  BY <1>1, <1>2, <1>3, <1>4, <1>5, <1>7, <1>8 DEF Next

(* Whatever the stack, the state of a deployment is well formed.           *)
THEOREM TypeCorrect == Spec => []TypeOK
<1>1. Spec => []Types
  BY InitTypes, NextTypes, PTL DEF Spec
<1> QED
  BY <1>1, TypesTypeOK, PTL
-------------------------------------------------------------------------------
(***************************************************************************)
(* The order of the operations.                                            *)
(***************************************************************************)
(* Every need of every resource is behind it or known not to be.           *)
Covers ==
  \A r \in Resource : \A n \in Graph[r].needs :
    n \in Behind[r] \/ <<r, n>> \in Unordered

(* What the state says is on the machine; what an up is through with is as *)
(* the program says, and so is all behind it.                              *)
Order ==
  /\ ~up => done = {}
  /\ \A r \in slice : /\ program[r] > 0
                      /\ recorded[r] <= machine[r] /\ machine[r] <= program[r]
  /\ \A r \in done : /\ recorded[r] = program[r]
                     /\ Waits(r) \subseteq done /\ Behind[r] \subseteq done

LEMMA DoneThere ==
  ASSUME Types, Order, NEW r \in slice, recorded[r] = program[r]
  PROVE  machine[r] = program[r] /\ machine[r] > 0
BY DEF Types, Order

LEMMA ReadyBehind ==
  ASSUME Types, Order, NEW r \in Ready
  PROVE  Behind[r] \subseteq done
<1>1. r \in Resource
  BY SliceClosed, ReadyInSlice
<1>2. \A b \in Behind[r] : b \in Waits(r) \/ \E w \in Waits(r) : b \in Behind[w]
  BY <1>1, Assumptions DEF BehindAssumption
<1> QED
  BY <1>2, ReadyInSlice DEF Order

LEMMA InitOrder == Init => Order
BY DEF Init, Order, Zero

LEMMA NextOrder == Types /\ Order /\ [Next]_vars => Order'
<1> SUFFICES ASSUME Types, Order, [Next]_vars PROVE Order'
  OBVIOUS
<1>1. CASE Begin \/ End \/ UNCHANGED vars
  BY <1>1 DEF Begin, End, vars, state, Order, Waits
<1>2. ASSUME NEW r \in slice, Edit(r) PROVE Order'
  <2>1. program \in [slice -> Nat] /\ program' = [program EXCEPT ![r] = @ + 1]
    BY <1>2 DEF Edit, Types
  <2>2. \A q \in slice : program'[q] >= program[q] /\ program'[q] \in Nat
    BY <2>1
  <2>3. done = {}
    BY <1>2 DEF Edit, Order
  <2> QED
    BY <1>2, <2>2, <2>3 DEF Edit, Order, Types, state
<1>3. ASSUME NEW r \in Ready, Same(r) PROVE Order'
  <2>1. recorded[r] = program[r]
    BY <1>3 DEF Same, Changed
  <2>2. Waits(r) \subseteq done' /\ Behind[r] \subseteq done'
    BY <1>3, ReadyBehind, ReadyInSlice DEF Same
  <2> QED
    BY <1>3, <2>1, <2>2, ReadyInSlice DEF Same, Order, state, Waits
<1>4. ASSUME NEW r \in Ready, Fail(r) \/ Fault(r) PROVE Order'
  BY <1>4 DEF Fail, Fault, Order, state
<1>5. ASSUME NEW r \in Ready, Works(r) PROVE
        \A q \in slice : /\ program'[q] > 0
                         /\ machine'[q] <= program'[q]
                         /\ recorded[q] <= machine'[q]
  <2>1. r \in slice /\ program[r] \in Nat /\ recorded[r] \in Nat /\ machine[r] \in Nat
    BY ReadyInSlice DEF Types
  <2>2. program' = program /\ machine'[r] = program[r]
        /\ \A q \in slice \ {r} : machine'[q] = machine[q]
    BY <1>5, WorksTypes
  <2>3. recorded[r] <= program[r]
    BY <2>1 DEF Order
  <2> QED
    BY <2>1, <2>2, <2>3 DEF Order
<1>6. ASSUME NEW r \in Ready, CutOff(r) PROVE Order'
  <2>1. Works(r) /\ slice' = slice /\ recorded' = recorded /\ done' = {}
    BY <1>6 DEF CutOff, Works, state
  <2> QED
    BY <1>5, <2>1 DEF Order
<1>7. ASSUME NEW r \in Ready, Apply(r) PROVE Order'
  <2>1. r \in slice /\ up
    BY ReadyInSlice
  <2>2. Works(r) /\ slice' = slice /\ program' = program /\ up' = up
        /\ done' = done \cup {r}
    BY <1>7 DEF Apply, Works
  <2>3. recorded'[r] = program[r] /\ \A q \in slice \ {r} : recorded'[q] = recorded[q]
    BY <1>7, ApplyRecords
  <2>4. machine'[r] = program[r]
    BY <2>2, WorksTypes
  <2>5. \A q \in slice : recorded'[q] <= machine'[q]
    BY <1>5, <2>1, <2>2, <2>3, <2>4 DEF Types
  <2>6. \A q \in done' : recorded'[q] = program'[q]
    BY <2>2, <2>3 DEF Order, Types
  <2>7. \A q \in done' : Waits(q) \subseteq done' /\ Behind[q] \subseteq done'
    BY <2>2, ReadyBehind, ReadyInSlice DEF Order
  <2> QED
    BY <1>5, <2>1, <2>2, <2>5, <2>6, <2>7 DEF Order, Waits
<1> QED
  BY <1>1, <1>2, <1>3, <1>4, <1>6, <1>7 DEF Next

LEMMA NextMisses ==
  ASSUME Covers, Types, Order, MissesOnlyUnordered, [Next]_vars
  PROVE  MissesOnlyUnordered'
<1>1. ASSUME NEW r \in Ready, Fail(r) PROVE MissesOnlyUnordered'
  <2>1. ASSUME NEW n \in Missing(r) PROVE <<r, n>> \in Unordered
    <3>1. r \in Resource /\ n \in slice /\ n \in Graph[r].needs /\ machine[n] = 0
      BY <2>1, ReadyInSlice, SliceClosed DEF Missing
    <3>2. n \notin done
      <4>1. SUFFICES ASSUME n \in done PROVE FALSE
        OBVIOUS
      <4>2. recorded[n] = program[n]
        BY <4>1 DEF Order
      <4> QED
        BY <3>1, <4>2, DoneThere
    <3>3. n \notin Behind[r]
      BY <3>2, ReadyBehind
    <3> QED
      BY <3>1, <3>3 DEF Covers
  <2> QED
    BY <1>1, <2>1 DEF Fail, MissesOnlyUnordered
<1>2. CASE Begin \/ End \/ UNCHANGED vars
  BY <1>2 DEF Begin, End, vars, MissesOnlyUnordered
<1>3. ASSUME NEW r \in slice, Edit(r) PROVE MissesOnlyUnordered'
  BY <1>3 DEF Edit, MissesOnlyUnordered
<1>4. ASSUME NEW r \in Ready, Same(r) \/ Apply(r) \/ CutOff(r) \/ Fault(r)
      PROVE  MissesOnlyUnordered'
  BY <1>4 DEF Same, Apply, CutOff, Works, Fault, MissesOnlyUnordered
<1> QED
  BY <1>1, <1>2, <1>3, <1>4 DEF Next

(* In every graph whose needs are behind it nothing is applied too early,  *)
(* in whatever order an up runs and wherever the ups before it broke off:  *)
(* the dependsOn that a resource has of its own and through others are     *)
(* enough, and a state that is ahead of or behind the machine never        *)
(* misleads them.                                                          *)
THEOREM OrderedMissesNothing == Covers => (Spec => []MissesOnlyUnordered)
<1>1. SUFFICES ASSUME Covers PROVE Spec => []MissesOnlyUnordered
  OBVIOUS
<1>2. Init => MissesOnlyUnordered
  BY DEF Init, MissesOnlyUnordered
<1>3. Types /\ Order /\ MissesOnlyUnordered /\ [Next]_vars => MissesOnlyUnordered'
  BY <1>1, NextMisses
<1> QED
  BY <1>2, <1>3, InitTypes, NextTypes, InitOrder, NextOrder, PTL DEF Spec
-------------------------------------------------------------------------------
(***************************************************************************)
(* What the services hold.                                                 *)
(***************************************************************************)
(* Every resource is refreshed by what it reads or known not to be.        *)
Watches ==
  \A r \in Resource : \A x \in Graph[r].reads :
    x \in Graph[r].refresh \/ <<r, x>> \in Unwatched

Watched(r) == Graph[r].refresh \cap Graph[r].reads

(* A lastChanged is recorded with r only by the operation that loads the   *)
(* contents it stands for; what an up is through with has not changed.     *)
Fresh ==
  /\ \A r \in slice : \A x \in Watched(r) :
       /\ seen[r][x] <= stamp[x]
       /\ seen[r][x] = stamp[x] => loaded[r][x] = recorded[x]
  /\ \A r \in done : ~Changed(r)
  /\ settled => \A r \in slice : ~Changed(r)

LEMMA WatchedInSlice ==
  ASSUME Types, NEW r \in slice, NEW x \in Watched(r)
  PROVE  x \in slice /\ x \in Waits(r) /\ x \in Graph[r].refresh
         /\ x \in Graph[r].reads \cap slice
         /\ seen[r][x] \in Nat /\ loaded[r][x] \in Nat /\ stamp[x] \in Nat
BY SliceClosed DEF Watched, Types, Waits

LEMMA InitFresh == Init => Fresh
<1> SUFFICES ASSUME Init PROVE Fresh
  OBVIOUS
<1>1. Types
  BY InitTypes
<1>2. ASSUME NEW r \in slice, NEW x \in Watched(r)
      PROVE  seen[r][x] = 0 /\ stamp[x] = 0 /\ loaded[r][x] = 0 /\ recorded[x] = 0
  BY <1>1, <1>2, WatchedInSlice DEF Init, Zero
<1>3. done = {} /\ settled = FALSE
  BY DEF Init
<1>4. 0 <= 0
  OBVIOUS
<1> QED
  BY <1>2, <1>3, <1>4 DEF Fresh

LEMMA NextFresh == Types /\ Order /\ Fresh /\ [Next]_vars => Fresh'
<1> SUFFICES ASSUME Types, Order, Fresh, [Next]_vars PROVE Fresh'
  OBVIOUS
<1>1. CASE Begin \/ UNCHANGED vars
  BY <1>1 DEF Begin, vars, state, Fresh, Changed, Stamps, Watched
<1>2. CASE End
  BY <1>2 DEF End, state, Fresh, Changed, Stamps, Watched
<1>3. ASSUME NEW r \in slice, Edit(r) PROVE Fresh'
  <2>1. done' = {} /\ ~settled'
    BY <1>3 DEF Edit, Order
  <2> QED
    BY <1>3, <2>1 DEF Edit, state, Fresh, Watched
<1>4. ASSUME NEW r \in Ready, Same(r) PROVE Fresh'
  BY <1>4 DEF Same, state, Fresh, Changed, Stamps, Watched
<1>5. ASSUME NEW r \in Ready, Fail(r) \/ Fault(r) PROVE Fresh'
  BY <1>5 DEF Fail, Fault, state, Fresh, Changed, Stamps, Watched
<1>6. ASSUME NEW r \in Ready, Works(r)
      PROVE  /\ ~settled
             /\ \A x \in Watched(r) : loaded'[r][x] = recorded[x] /\ x # r
             /\ \A q \in slice \ {r} : loaded'[q] = loaded[q]
  <2>1. r \in slice /\ r \notin done /\ Waits(r) \subseteq done
    BY ReadyInSlice
  <2>2. ~settled
    BY <1>6, <2>1 DEF Works, Fresh
  <2>3. ASSUME NEW x \in Watched(r) PROVE loaded'[r][x] = recorded[x] /\ x # r
    <3>1. x \in slice /\ x \in done /\ x \in Graph[r].reads \cap slice
      BY <2>1, WatchedInSlice
    <3>2. recorded[x] = program[x]
      BY <3>1 DEF Order
    <3>3. machine[x] = recorded[x]
      BY <3>1, <3>2, DoneThere
    <3> QED
      BY <1>6, <2>1, <3>1, <3>3, WorksTypes
  <2> QED
    BY <1>6, <2>2, <2>3, WorksTypes
<1>7. ASSUME NEW r \in Ready, CutOff(r) PROVE Fresh'
  <2>1. Works(r) /\ slice' = slice /\ UNCHANGED state /\ done' = {} /\ settled' = settled
    BY <1>7 DEF CutOff, Works
  <2> QED
    BY <1>6, <2>1 DEF Fresh, state, Watched
<1>8. ASSUME NEW r \in Ready, Apply(r) PROVE Fresh'
  <2>1. r \in slice /\ r \notin done /\ Waits(r) \subseteq done
    BY ReadyInSlice
  <2>2. Works(r) /\ slice' = slice /\ program' = program /\ settled' = settled
        /\ done' = done \cup {r}
    BY <1>8 DEF Apply, Works
  <2>3. ASSUME NEW q \in slice, NEW x \in Watched(q)
        PROVE  /\ seen'[q][x] <= stamp'[x]
               /\ seen'[q][x] = stamp'[x] => loaded'[q][x] = recorded'[x]
    <3>1. /\ x \in slice /\ x \in Graph[q].refresh
          /\ seen[q][x] \in Nat /\ stamp[x] \in Nat
          /\ seen[q][x] <= stamp[x]
          /\ seen[q][x] = stamp[x] => loaded[q][x] = recorded[x]
      BY WatchedInSlice DEF Fresh
    <3>2. CASE q = r
      <4>1. x # r /\ loaded'[r][x] = recorded[x]
        BY <1>6, <2>2, <3>2
      <4>2. seen'[r][x] = stamp[x]
        BY <1>8, <2>1, <3>1, <3>2, ApplyRecords, StampsType
      <4>3. stamp'[x] = stamp[x] /\ recorded'[x] = recorded[x]
        BY <1>8, <3>1, <4>1, ApplyRecords
      <4> QED
        BY <3>1, <3>2, <4>1, <4>2, <4>3
    <3>3. CASE q # r
      <4>1. seen'[q] = seen[q] /\ loaded'[q] = loaded[q]
        BY <1>6, <1>8, <2>2, <3>3, ApplyRecords
      <4>2. CASE x = r
        <5>1. stamp'[x] = stamp[x] + 1
          BY <1>8, <4>2, ApplyRecords
        <5> QED
          BY <3>1, <4>1, <5>1
      <4>3. CASE x # r
        <5>1. stamp'[x] = stamp[x] /\ recorded'[x] = recorded[x]
          BY <1>8, <3>1, <4>3, ApplyRecords
        <5> QED
          BY <3>1, <4>1, <5>1
      <4> QED
        BY <4>2, <4>3
    <3> QED
      BY <3>2, <3>3
  <2>4. ASSUME NEW q \in done' PROVE ~Changed(q)'
    <3>1. q \in slice /\ Graph[q].refresh \subseteq done /\ r \notin Graph[q].refresh
      BY <2>1, <2>2 DEF Order, Waits, Types
    <3>2. \A x \in Graph[q].refresh : stamp'[x] = stamp[x]
      BY <1>8, <3>1, ApplyRecords DEF Types
    <3>3. seen'[q] = Stamps(q)
      <4>1. CASE q = r
        BY <1>8, <4>1, ApplyRecords
      <4>2. CASE q # r
        BY <1>8, <2>2, <3>1, <4>2, ApplyRecords DEF Fresh, Changed
      <4> QED
        BY <4>1, <4>2
    <3>4. Stamps(q) = [x \in Graph[q].refresh |-> stamp[x]]
      BY <3>1 DEF Stamps, Types
    <3>5. DOMAIN seen'[q] = Graph[q].refresh
      BY <3>3, <3>4
    <3>6. Stamps(q)' = [x \in Graph[q].refresh |-> stamp[x]]
      BY <3>2, <3>5 DEF Stamps
    <3>7. recorded'[q] = program'[q]
      BY <1>8, <2>2, <3>1, ApplyRecords DEF Order
    <3> QED
      BY <3>3, <3>4, <3>6, <3>7 DEF Changed
  <2> QED
    BY <1>6, <2>2, <2>3, <2>4 DEF Fresh, Watched
<1> QED
  BY <1>1, <1>2, <1>3, <1>4, <1>5, <1>7, <1>8 DEF Next

LEMMA FreshFreshAfterUp ==
  ASSUME Watches, Types, Fresh
  PROVE  FreshAfterUp
<1> SUFFICES ASSUME settled, NEW r \in slice, NEW x \in DOMAIN loaded[r]
             PROVE  loaded[r][x] = program[x] \/ <<r, x>> \in Unwatched
  BY DEF FreshAfterUp
<1>1. x \in Graph[r].reads /\ x \in slice /\ r \in Resource
  BY SliceClosed DEF Types
<1>2. CASE x \in Graph[r].refresh
  <2>1. x \in Watched(r)
    BY <1>1, <1>2 DEF Watched
  <2>2. ~Changed(r) /\ ~Changed(x)
    BY <1>1 DEF Fresh
  <2>3. seen[r][x] = stamp[x] /\ recorded[x] = program[x]
    BY <1>2, <2>2, StampsType DEF Changed
  <2> QED
    BY <2>1, <2>3 DEF Fresh
<1> QED
  BY <1>1, <1>2 DEF Watches

(* In every graph whose services are refreshed by what they read, no       *)
(* service is left with an old file or binary by an up that succeeded,     *)
(* wherever the ups before it failed or were cut off: a lastChanged that   *)
(* has been seen stands for contents that have been loaded.                *)
THEOREM WatchedStaysFresh == Watches => (Spec => []FreshAfterUp)
<1>1. SUFFICES ASSUME Watches PROVE Spec => []FreshAfterUp
  OBVIOUS
<1>2. Types /\ Fresh => FreshAfterUp
  BY <1>1, FreshFreshAfterUp
<1> QED
  BY <1>2, InitTypes, NextTypes, InitOrder, NextOrder, InitFresh, NextFresh, PTL
     DEF Spec
===============================================================================
