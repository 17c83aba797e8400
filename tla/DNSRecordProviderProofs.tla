------------------------ MODULE DNSRecordProviderProofs ------------------------
(***************************************************************************)
(* What the DNS records of a program promise for any number of resources   *)
(* and names, any inputs, and any number of edits, faults and refreshes.   *)
(***************************************************************************)
EXTENDS DNSRecordProvider, TLAPS

LEMMA InputFacts ==
  ASSUME NEW i \in Inputs
  PROVE  /\ i # None /\ i.key \in Key /\ i.ttl \in Nat
         /\ i.records \in Records /\ Empty \in Records
         /\ i.records = Empty => i.noopOnEmpty
BY Assumptions DEF InputsAssumption, EmptyAssumption, Records

LEMMA InitType == Init => TypeOK
<1> SUFFICES ASSUME Init PROVE TypeOK
  OBVIOUS
<1>1. rows \in [Key -> [live : BOOLEAN, records : Records, ttl : Nat]]
  BY DEF Init, Records
<1> QED
  BY <1>1, Assumptions DEF Init, TypeOK, BoundsAssumption

LEMMA UpsertedType ==
  ASSUME TypeOK, NEW i \in Inputs
  PROVE  /\ Upserted(i) \in [live : BOOLEAN, records : Records, ttl : Nat]
         /\ Upserted(i).live /\ Upserted(i).records = i.records
         /\ Upserted(i).ttl = i.ttl \/ i.ttl = 0
<1>1. rows[i.key].ttl \in Nat
  BY InputFacts DEF TypeOK
<1> QED
  BY <1>1, InputFacts DEF Upserted

LEMMA OutsType ==
  ASSUME NEW i, i.key \in ValidKey,
         NEW row \in [live : BOOLEAN, records : Records, ttl : Nat]
  PROVE  /\ Outs(i, row) \in Output /\ Outs(i, row) # None
         /\ Outs(i, row).key = i.key
         /\ Outs(i, row).records = row.records /\ Outs(i, row).ttl = row.ttl
BY Assumptions DEF Outs, Output, NoneAssumption

LEMMA OutsFacts ==
  ASSUME TypeOK, NEW r \in Resource, outs[r] # None
  PROVE  /\ outs[r] \in Output /\ outs[r].key \in ValidKey /\ outs[r].key \in Key
         /\ rows[outs[r].key] \in [live : BOOLEAN, records : Records, ttl : Nat]
<1>1. outs[r] \in Output
  BY DEF TypeOK
<1>2. outs[r].key \in ValidKey
  BY <1>1 DEF Output
<1> QED
  BY <1>1, <1>2, Assumptions DEF TypeOK, KeysAssumption

LEMMA AppliesFacts ==
  ASSUME TypeOK, NEW r \in Resource, Applies(r)
  PROVE  program[r] \in Inputs /\ program[r].key \in ValidKey /\ program[r].key \in Key
BY Assumptions DEF TypeOK, Applies, KeysAssumption

(* What a creation without an address records.                             *)
Blank(i) == [key |-> i.key, records |-> Empty, ttl |-> i.ttl]

LEMMA BlankType ==
  ASSUME NEW i \in Inputs, i.key \in ValidKey
  PROVE  /\ Blank(i) \in Output /\ Blank(i) # None
         /\ Blank(i).key = i.key /\ Blank(i).records = Empty
BY Assumptions, InputFacts DEF Blank, Output, NoneAssumption

LEMMA SettlesType == ASSUME NEW r PROVE Settles(r) \subseteq doubtful
BY DEF Settles

LEMMA NextType == TypeOK /\ [Next]_vars => TypeOK'
<1> SUFFICES ASSUME TypeOK, [Next]_vars PROVE TypeOK'
  OBVIOUS
<1>1. CASE Begin \/ Applied \/ End \/ UNCHANGED vars
  BY <1>1 DEF Begin, Applied, End, Stop, vars, TypeOK
<1>2. ASSUME NEW r \in Resource, Check(r) \/ Same(r) PROVE TypeOK'
  <2>1. outs' = outs
    BY <1>2 DEF Check, Same, Recorded, TypeOK
  <2> QED
    BY <1>2, <2>1 DEF Check, Same, Recorded, Stop, TypeOK
<1>3. ASSUME NEW r \in Resource, NEW i \in Inputs, i.key \in Key
      PROVE  [rows EXCEPT ![i.key] = Upserted(i)]
               \in [Key -> [live : BOOLEAN, records : Records, ttl : Nat]]
  BY <1>3, UpsertedType DEF TypeOK
<1>4. ASSUME NEW k \in Key
      PROVE  Deleted(k) \in [Key -> [live : BOOLEAN, records : Records, ttl : Nat]]
  BY <1>4 DEF Deleted, TypeOK
<1>5. ASSUME NEW r \in Resource, Create(r) PROVE TypeOK'
  <2> DEFINE i == program[r]
  <2>1. Applies(r) /\ i \in Inputs /\ i.key \in ValidKey /\ i.key \in Key
    BY <1>5, AppliesFacts DEF Create, Creates
  <2>2. outs' \in [Resource -> Output \cup {None}]
    BY <1>5, <2>1, UpsertedType, OutsType, BlankType DEF Create, Recorded, Blank, TypeOK
  <2>3. rows' \in [Key -> [live : BOOLEAN, records : Records, ttl : Nat]]
    BY <1>3, <1>5, <2>1 DEF Create, TypeOK
  <2>4. replaced' \subseteq Resource \X ValidKey
    BY <1>5, OutsFacts DEF Create, TypeOK
  <2>5. doubtful' \subseteq ValidKey
    BY <1>5, <2>1 DEF Create, TypeOK
  <2>6. /\ done' \subseteq Resource
        /\ UNCHANGED <<program, phase, settled, stray, edits, faults, refreshes>>
    BY <1>5 DEF Create, Recorded, TypeOK
  <2> QED
    BY <2>2, <2>3, <2>4, <2>5, <2>6 DEF TypeOK
<1>6. ASSUME NEW r \in Resource, Update(r) PROVE TypeOK'
  <2> DEFINE i == program[r]
  <2>1. Applies(r) /\ i \in Inputs /\ i.key \in ValidKey /\ i.key \in Key
    BY <1>6, AppliesFacts DEF Update, Updates
  <2>2. outs' \in [Resource -> Output \cup {None}]
    BY <1>6, <2>1, UpsertedType, OutsType DEF Update, Recorded, TypeOK
  <2>3. rows' \in [Key -> [live : BOOLEAN, records : Records, ttl : Nat]]
    BY <1>3, <1>6, <2>1 DEF Update, TypeOK
  <2>4. /\ done' \subseteq Resource /\ doubtful' \subseteq ValidKey
        /\ UNCHANGED <<program, replaced, phase, settled, stray, edits, faults,
                       refreshes>>
    BY <1>6, SettlesType DEF Update, Recorded, TypeOK
  <2> QED
    BY <2>2, <2>3, <2>4 DEF TypeOK
<1>7. ASSUME NEW r \in Resource, Fault(r) PROVE TypeOK'
  <2> DEFINE i == program[r]
  <2>1. i \in Inputs /\ i.key \in ValidKey /\ i.key \in Key
    BY <1>7, AppliesFacts DEF Fault, Creates, Updates
  <2>2. rows' \in [Key -> [live : BOOLEAN, records : Records, ttl : Nat]]
    BY <1>3, <1>7, <2>1 DEF Fault, TypeOK
  <2>3. stray' \subseteq ValidKey /\ doubtful' \subseteq ValidKey
    BY <1>7, <2>1 DEF Fault, TypeOK
  <2>4. faults' \in 0..MaxFaults
    BY <1>7, Assumptions DEF Fault, TypeOK, BoundsAssumption
  <2> QED
    BY <1>7, <2>2, <2>3, <2>4 DEF Fault, Stop, TypeOK
<1>8. ASSUME NEW r \in Resource, Delete(r) PROVE TypeOK'
  <2>1. outs[r].key \in ValidKey /\ outs[r].key \in Key
    BY <1>8, OutsFacts DEF Delete
  <2>2. rows' \in [Key -> [live : BOOLEAN, records : Records, ttl : Nat]]
    BY <1>4, <1>8, <2>1 DEF Delete
  <2>3. doubtful' \subseteq ValidKey
    BY <1>8, <2>1, SettlesType DEF Delete, TypeOK
  <2>4. faults' \in 0..MaxFaults
    BY <1>8, Assumptions DEF Delete, TypeOK, BoundsAssumption
  <2>5. outs' \in [Resource -> Output \cup {None}]
    BY <1>8 DEF Delete, TypeOK
  <2> QED
    BY <1>8, <2>2, <2>3, <2>4, <2>5 DEF Delete, Stop, TypeOK
<1>9. ASSUME NEW d \in replaced, DeleteReplaced(d) PROVE TypeOK'
  <2>1. d[2] \in Key
    BY Assumptions DEF TypeOK, KeysAssumption
  <2>2. rows' \in [Key -> [live : BOOLEAN, records : Records, ttl : Nat]]
    BY <1>4, <1>9, <2>1 DEF DeleteReplaced
  <2>3. faults' \in 0..MaxFaults
    BY <1>9, Assumptions DEF DeleteReplaced, TypeOK, BoundsAssumption
  <2> QED
    BY <1>9, <2>2, <2>3 DEF DeleteReplaced, Stop, TypeOK
<1>10. ASSUME NEW r \in Resource, Read(r) PROVE TypeOK'
  <2>1. outs[r].key \in ValidKey
        /\ rows[outs[r].key] \in [live : BOOLEAN, records : Records, ttl : Nat]
    BY <1>10, OutsFacts DEF Read
  <2>2. outs' \in [Resource -> Output \cup {None}]
    BY <1>10, <2>1, OutsType DEF Read, TypeOK
  <2>3. doubtful' \subseteq ValidKey
    BY <1>10, SettlesType DEF Read, TypeOK
  <2>4. refreshes' \in 0..MaxRefreshes
    BY <1>10, Assumptions DEF Read, TypeOK, BoundsAssumption
  <2> QED
    BY <1>10, <2>2, <2>3, <2>4 DEF Read, TypeOK
<1>11. ASSUME NEW r \in Resource, NEW i \in Inputs \cup {None}, Edit(r, i)
       PROVE  TypeOK'
  <2>1. program' \in [Resource -> Inputs \cup {None}]
    BY <1>11 DEF Edit, TypeOK
  <2>2. edits' \in 0..MaxEdits
    BY <1>11, Assumptions DEF Edit, TypeOK, BoundsAssumption
  <2> QED
    BY <1>11, <2>1, <2>2 DEF Edit, TypeOK
<1> QED
  BY <1>1, <1>2, <1>5, <1>6, <1>7, <1>8, <1>9, <1>10, <1>11 DEF Next, GoesOn

(* The state holds well-formed records of accepted names only, whatever    *)
(* the program says and wherever ups are cut off.                          *)
THEOREM TypeCorrect == Spec => []TypeOK
BY InitType, NextType, PTL DEF Spec
-------------------------------------------------------------------------------
(* What an up leaves behind of a resource it is through with.              *)
Kept(r) ==
  /\ outs[r] # None /\ outs[r].key = program[r].key
  /\ \/ /\ outs[r].records = program[r].records
        /\ outs[r].ttl = program[r].ttl \/ program[r].ttl = 0
     \/ Noop(program[r])

Through ==
  /\ phase = "idle" => done = {}
  /\ phase = "delete" => \A r \in Resource : program[r] = None \/ r \in done
  /\ \A r \in done : program[r] # None /\ Kept(r)
  /\ settled => /\ replaced = {}
                /\ \A r \in Resource : IF program[r] = None THEN outs[r] = None
                                        ELSE Kept(r)

LEMMA InitThrough == Init => Through
BY DEF Init, Through

LEMMA CreateKeeps ==
  ASSUME TypeOK, NEW r \in Resource, Create(r)
  PROVE  Kept(r)' /\ program[r] # None /\ UNCHANGED <<program, phase, settled>>
         /\ done' = done \cup {r} /\ \A q \in Resource \ {r} : outs'[q] = outs[q]
<1> DEFINE i == program[r]
<1>1. Applies(r) /\ i \in Inputs /\ i.key \in ValidKey /\ i # None
  BY AppliesFacts DEF Create, Creates, Applies
<1>2. UNCHANGED <<program, phase, settled>> /\ done' = done \cup {r}
      /\ \A q \in Resource \ {r} : outs'[q] = outs[q]
  BY DEF Create, Recorded, TypeOK
<1>3. CASE Noop(i) /\ outs' = [outs EXCEPT ![r] = Blank(i)]
  <2>1. outs'[r] = Blank(i)
    BY <1>3 DEF TypeOK
  <2> QED
    BY <1>1, <1>2, <1>3, <2>1, BlankType DEF Kept, Noop
<1>4. CASE outs' = [outs EXCEPT ![r] = Outs(i, Upserted(i))]
  <2>1. outs'[r] = Outs(i, Upserted(i))
    BY <1>4 DEF TypeOK
  <2> QED
    BY <1>1, <1>2, <2>1, OutsType, UpsertedType DEF Kept
<1> QED
  BY <1>1, <1>2, <1>3, <1>4 DEF Create, Recorded, Blank

LEMMA UpdateKeeps ==
  ASSUME TypeOK, NEW r \in Resource, Update(r)
  PROVE  Kept(r)' /\ program[r] # None
         /\ UNCHANGED <<program, phase, settled, replaced>>
         /\ done' = done \cup {r} /\ \A q \in Resource \ {r} : outs'[q] = outs[q]
<1> DEFINE i == program[r]
<1>1. Applies(r) /\ i \in Inputs /\ i.key \in ValidKey /\ i # None
      /\ outs[r] # None /\ outs[r].key = i.key
  BY AppliesFacts DEF Update, Updates, Applies
<1>2. UNCHANGED <<program, phase, settled, replaced>> /\ done' = done \cup {r}
      /\ \A q \in Resource \ {r} : outs'[q] = outs[q]
  BY DEF Update, Recorded, TypeOK
<1>3. CASE Noop(i) /\ outs' = [outs EXCEPT ![r] = outs[r]]
  <2>1. outs'[r] = outs[r]
    BY <1>3 DEF TypeOK
  <2> QED
    BY <1>1, <1>2, <1>3, <2>1 DEF Kept, Noop
<1>4. CASE outs' = [outs EXCEPT ![r] = Outs(i, Upserted(i))]
  <2>1. outs'[r] = Outs(i, Upserted(i))
    BY <1>4 DEF TypeOK
  <2> QED
    BY <1>1, <1>2, <2>1, OutsType, UpsertedType DEF Kept
<1> QED
  BY <1>1, <1>2, <1>3, <1>4 DEF Update, Recorded

LEMMA NextThrough == TypeOK /\ Through /\ [Next]_vars => Through'
<1> SUFFICES ASSUME TypeOK, Through, [Next]_vars PROVE Through'
  OBVIOUS
<1>1. CASE Begin \/ Applied \/ UNCHANGED vars
  BY <1>1 DEF Begin, Applied, vars, Through, Kept, Noop
<1>2. CASE End
  BY <1>2 DEF End, Stop, Through, Kept, Noop
<1>3. ASSUME NEW r \in Resource, Check(r) PROVE Through'
  BY <1>3 DEF Check, Stop, Through, Kept, Noop
<1>4. ASSUME NEW r \in Resource, Same(r) PROVE Through'
  <2>1. outs' = outs /\ program[r] # None /\ Kept(r)
    BY <1>4 DEF Same, Recorded, Applies, Differs, Kept, TypeOK
  <2> QED
    BY <1>4, <2>1 DEF Same, Recorded, Applies, Through, Kept, Noop
<1>5. ASSUME NEW r \in Resource, Create(r) PROVE Through'
  <2>1. phase = "apply" /\ ~settled
    BY <1>5 DEF Create, Creates, Applies, Through, Kept
  <2> QED
    BY <1>5, <2>1, CreateKeeps DEF Through, Kept, Noop, TypeOK
<1>6. ASSUME NEW r \in Resource, Update(r) PROVE Through'
  <2>1. phase = "apply"
    BY <1>6 DEF Update, Updates, Applies
  <2> QED
    BY <1>6, <2>1, UpdateKeeps DEF Through, Kept, Noop, TypeOK
<1>7. ASSUME NEW r \in Resource, Fault(r) PROVE Through'
  BY <1>7 DEF Fault, Stop, Through, Kept, Noop
<1>8. ASSUME NEW r \in Resource, Delete(r) PROVE Through'
  <2>1. ~settled /\ r \notin done
    BY <1>8 DEF Delete, Through
  <2>2. \A q \in Resource \ {r} : outs'[q] = outs[q]
    BY <1>8 DEF Delete, TypeOK
  <2> QED
    BY <1>8, <2>1, <2>2 DEF Delete, Stop, Through, Kept, Noop, TypeOK
<1>9. ASSUME NEW d \in replaced, DeleteReplaced(d) PROVE Through'
  BY <1>9 DEF DeleteReplaced, Stop, Through, Kept, Noop
<1>10. ASSUME NEW r \in Resource, Read(r) PROVE Through'
  BY <1>10 DEF Read, Through
<1>11. ASSUME NEW r \in Resource, NEW i \in Inputs \cup {None}, Edit(r, i)
       PROVE  Through'
  BY <1>11 DEF Edit, Through
<1> QED
  BY <1>1, <1>2, <1>3, <1>4, <1>5, <1>6, <1>7, <1>8, <1>9, <1>10, <1>11
     DEF Next, GoesOn

(* An up that finds nothing changed sends nothing, except for the records  *)
(* named in RestlessOnly: what an update stores in the state is what diff  *)
(* compares with, for every input.                                         *)
THEOREM OnlyThoseRestless == Spec => []RestlessOnly
<1>1. Through => RestlessOnly
  BY DEF Through, RestlessOnly, Kept, Differs
<1> QED
  BY <1>1, InitType, NextType, InitThrough, NextThrough, PTL DEF Spec
-------------------------------------------------------------------------------
(* A resource whose key is not doubtful has it for itself, and the server  *)
(* has what the state records.                                             *)
Served ==
  \A r \in Resource : outs[r] # None /\ outs[r].key \notin doubtful =>
    LET k == outs[r].key IN
    /\ \A q \in Resource \ {r} : outs[q] # None => outs[q].key # k
    /\ \A d \in replaced : d[2] # k
    /\ outs[r].records # Empty =>
         /\ rows[k].live
         /\ rows[k].records = outs[r].records /\ rows[k].ttl = outs[r].ttl

(* The row of a key that no resource has changes nothing for the others.   *)
Alone(r, k) ==
  /\ \A q \in Resource \ {r} : outs[q] # None => outs[q].key # k
  /\ \A d \in replaced : d[2] # k

LEMMA NoOwners ==
  ASSUME TypeOK, NEW k \in Key, Owners(k) = {}
  PROVE  /\ \A q \in Resource : outs[q] # None => outs[q].key # k
         /\ \A d \in replaced : d[2] # k
BY DEF Owners

LEMMA SettledAlone ==
  ASSUME TypeOK, NEW r \in Resource, outs[r] # None,
         outs[r].key \in doubtful, outs[r].key \notin Settles(r)
  PROVE  Alone(r, outs[r].key)
<1> DEFINE k == outs[r].key
<1>1. Owners(k) = {r} /\ <<r, k>> \notin replaced
  BY DEF Settles
<1>2. \A q \in Resource \ {r} : outs[q] # None => outs[q].key # k
  BY <1>1 DEF Owners
<1>3. ASSUME NEW d \in replaced, d[2] = k PROVE FALSE
  <2>1. d[1] \in Owners(k)
    BY <1>3 DEF Owners
  <2>2. d = <<r, k>>
    BY <1>1, <1>3, <2>1 DEF TypeOK
  <2> QED
    BY <1>1, <2>2
<1> QED
  BY <1>2, <1>3 DEF Alone

(* Settles forgets the key of r only, and only if r is alone.              *)
LEMMA SettlesOnly ==
  ASSUME TypeOK, Served, NEW r \in Resource, outs[r] # None
  PROVE  /\ \A k \in doubtful : k # outs[r].key => k \in Settles(r)
         /\ outs[r].key \notin Settles(r) => Alone(r, outs[r].key)
<1>1. outs[r].key \notin doubtful => Alone(r, outs[r].key)
  BY DEF Served, Alone
<1> QED
  BY <1>1, SettledAlone DEF Settles

LEMMA InitServed == Init => Served
BY DEF Init, Served

LEMMA CreateServed ==
  ASSUME TypeOK, Served, NEW r \in Resource, Create(r)
  PROVE  Served'
<1> DEFINE i == program[r]
<1>1. Applies(r) /\ i \in Inputs /\ i.key \in ValidKey /\ i.key \in Key
      /\ (outs[r] # None => outs[r].key # i.key)
  BY AppliesFacts DEF Create, Creates
<1>2. \A q \in Resource \ {r} : outs'[q] = outs[q]
  BY CreateKeeps
<1>3. outs'[r] # None /\ outs'[r].key = i.key
  BY CreateKeeps DEF Kept
<1>4. /\ doubtful \subseteq doubtful'
      /\ i.key \notin doubtful' => Owners(i.key) = {}
      /\ \A k \in Key : k # i.key => rows'[k] = rows[k]
      /\ replaced' = IF outs[r] = None THEN replaced
                     ELSE replaced \cup {<<r, outs[r].key>>}
  BY DEF Create, TypeOK
<1>5. i.key \notin doubtful' /\ outs'[r].records # Empty =>
        /\ rows'[i.key].live /\ rows'[i.key].records = outs'[r].records
        /\ rows'[i.key].ttl = outs'[r].ttl
  <2>1. CASE outs' = [outs EXCEPT ![r] = Blank(i)]
    BY <1>1, <2>1, BlankType DEF TypeOK
  <2>2. CASE /\ rows' = [rows EXCEPT ![i.key] = Upserted(i)]
             /\ outs' = [outs EXCEPT ![r] = Outs(i, Upserted(i))]
    <3>1. rows'[i.key] = Upserted(i) /\ outs'[r] = Outs(i, Upserted(i))
      BY <1>1, <2>2 DEF TypeOK
    <3> QED
      BY <1>1, <3>1, UpsertedType, OutsType
  <2> QED
    BY <2>1, <2>2 DEF Create, Recorded, Blank
<1>6. ASSUME NEW q \in Resource \ {r}, outs[q] # None, outs[q].key \notin doubtful'
      PROVE  /\ outs[q].key # i.key /\ outs[q].key \in Key
             /\ \A d \in replaced' : d[2] # outs[q].key
  <2>1. outs[q].key \in Key
    BY <1>6, OutsFacts
  <2>2. outs[q].key # i.key
    BY <1>1, <1>4, <1>6, NoOwners
  <2>3. \A d \in replaced : d[2] # outs[q].key
    BY <1>4, <1>6 DEF Served
  <2>4. outs[r] # None => outs[r].key # outs[q].key
    BY <1>4, <1>6 DEF Served
  <2> QED
    BY <1>4, <2>1, <2>2, <2>3, <2>4
<1>7. ASSUME i.key \notin doubtful'
      PROVE  /\ \A q \in Resource \ {r} : outs'[q] # None => outs'[q].key # i.key
             /\ \A d \in replaced' : d[2] # i.key
  BY <1>1, <1>2, <1>4, <1>7, NoOwners
<1>8. ASSUME NEW q \in Resource, outs'[q] # None, outs'[q].key \notin doubtful'
      PROVE  LET k == outs'[q].key IN
             /\ \A p \in Resource \ {q} : outs'[p] # None => outs'[p].key # k
             /\ \A d \in replaced' : d[2] # k
             /\ outs'[q].records # Empty =>
                  /\ rows'[k].live
                  /\ rows'[k].records = outs'[q].records
                  /\ rows'[k].ttl = outs'[q].ttl
  <2>1. CASE q = r
    BY <1>3, <1>5, <1>7, <1>8, <2>1
  <2>2. CASE q # r
    BY <1>2, <1>3, <1>4, <1>6, <1>8, <2>2 DEF Served
  <2> QED
    BY <2>1, <2>2
<1> QED
  BY <1>8 DEF Served

LEMMA UpdateServed ==
  ASSUME TypeOK, Served, NEW r \in Resource, Update(r)
  PROVE  Served'
<1> DEFINE i == program[r]
<1>1. Applies(r) /\ i \in Inputs /\ i.key \in ValidKey /\ i.key \in Key
      /\ outs[r] # None /\ outs[r].key = i.key
  BY AppliesFacts DEF Update, Updates
<1>2. \A q \in Resource \ {r} : outs'[q] = outs[q]
  BY UpdateKeeps
<1>3. CASE outs' = [outs EXCEPT ![r] = outs[r]] /\ UNCHANGED <<rows, doubtful>>
  <2>1. outs' = outs /\ UNCHANGED replaced
    BY <1>3 DEF Update, TypeOK
  <2> QED
    BY <1>3, <2>1 DEF Served
<1>4. CASE /\ rows' = [rows EXCEPT ![i.key] = Upserted(i)]
           /\ outs' = [outs EXCEPT ![r] = Outs(i, Upserted(i))]
           /\ doubtful' = Settles(r)
  <2>1. rows'[i.key] = Upserted(i) /\ outs'[r] = Outs(i, Upserted(i))
        /\ \A k \in Key : k # i.key => rows'[k] = rows[k]
    BY <1>1, <1>4 DEF TypeOK
  <2>2. /\ outs'[r] # None /\ outs'[r].key = i.key /\ rows'[i.key].live
        /\ rows'[i.key].records = outs'[r].records
        /\ rows'[i.key].ttl = outs'[r].ttl
    BY <1>1, <2>1, UpsertedType, OutsType
  <2>3. replaced' = replaced
    BY DEF Update
  <2>4. i.key \notin doubtful' => Alone(r, i.key)
    BY <1>1, <1>4, SettlesOnly
  <2>5. \A k : k # i.key /\ k \notin doubtful' => k \notin doubtful
    BY <1>1, <1>4, SettlesOnly
  <2>6. ASSUME NEW q \in Resource \ {r}, outs[q] # None, outs[q].key \notin doubtful'
        PROVE  outs[q].key # i.key /\ outs[q].key \notin doubtful /\ outs[q].key \in Key
    <3>1. outs[q].key # i.key
      BY <1>1, <2>4, <2>6, SettlesOnly DEF Alone, Served
    <3> QED
      BY <2>5, <2>6, <3>1, OutsFacts
  <2>7. ASSUME NEW q \in Resource, outs'[q] # None, outs'[q].key \notin doubtful'
        PROVE  LET k == outs'[q].key IN
               /\ \A p \in Resource \ {q} : outs'[p] # None => outs'[p].key # k
               /\ \A d \in replaced' : d[2] # k
               /\ outs'[q].records # Empty =>
                    /\ rows'[k].live
                    /\ rows'[k].records = outs'[q].records
                    /\ rows'[k].ttl = outs'[q].ttl
    <3>1. CASE q = r
      BY <1>2, <2>2, <2>3, <2>4, <2>7, <3>1 DEF Alone
    <3>2. CASE q # r
      BY <1>1, <1>2, <2>1, <2>2, <2>3, <2>6, <2>7, <3>2 DEF Served
    <3> QED
      BY <3>1, <3>2
  <2> QED
    BY <2>7 DEF Served
<1> QED
  BY <1>3, <1>4 DEF Update, Recorded

LEMMA FaultServed ==
  ASSUME TypeOK, Served, NEW r \in Resource, Fault(r)
  PROVE  Served'
<1> DEFINE i == program[r]
<1>1. i \in Inputs /\ i.key \in Key /\ UNCHANGED <<outs, replaced>>
  BY AppliesFacts DEF Fault, Creates, Updates
<1>2. CASE UNCHANGED <<rows, doubtful>>
  BY <1>1, <1>2 DEF Served
<1>3. CASE /\ rows' = [rows EXCEPT ![i.key] = Upserted(i)]
           /\ doubtful' = IF Owners(i.key) = {} THEN doubtful
                          ELSE doubtful \cup {i.key}
  <2>1. \A k \in Key : k # i.key => rows'[k] = rows[k]
    BY <1>1, <1>3 DEF TypeOK
  <2>2. ASSUME NEW q \in Resource, outs[q] # None, outs[q].key \notin doubtful'
        PROVE  outs[q].key # i.key /\ outs[q].key \in Key /\ outs[q].key \notin doubtful
    BY <1>1, <1>3, <2>2, NoOwners, OutsFacts
  <2> QED
    BY <1>1, <2>1, <2>2 DEF Served
<1> QED
  BY <1>2, <1>3 DEF Fault

LEMMA DeleteServed ==
  ASSUME TypeOK, Served, NEW r \in Resource, Delete(r)
  PROVE  Served'
<1> DEFINE k == outs[r].key
<1>1. outs[r] # None /\ k \in Key /\ UNCHANGED replaced
  BY OutsFacts DEF Delete
<1>2. \A c \in Key : c # k => rows'[c] = rows[c]
  BY <1>1 DEF Delete, Deleted, TypeOK
<1>3. \A q \in Resource \ {r} : outs'[q] = outs[q]
  BY DEF Delete, TypeOK
<1>4. outs'[r] = None \/ (outs' = outs /\ k \in doubtful')
  BY DEF Delete, TypeOK
<1>5. doubtful' = Settles(r) \/ doubtful' = doubtful \cup {k}
  BY DEF Delete
<1>6. ASSUME NEW q \in Resource, outs'[q] # None, outs'[q].key \notin doubtful'
      PROVE  /\ outs'[q] = outs[q] /\ outs[q].key # k /\ outs[q].key \in Key
             /\ outs[q].key \notin doubtful
  <2>1. outs'[q] = outs[q] /\ outs[q] # None
    BY <1>3, <1>4, <1>6
  <2>2. outs[q].key # k
    <3>1. CASE q = r
      BY <1>4, <1>6, <2>1, <3>1
    <3>2. CASE q # r
      BY <1>1, <1>5, <1>6, <2>1, <3>2, SettlesOnly DEF Alone
    <3> QED
      BY <3>1, <3>2
  <2> QED
    BY <1>1, <1>5, <1>6, <2>1, <2>2, SettlesOnly, OutsFacts
<1>7. \A p \in Resource : outs'[p] # None => outs'[p] = outs[p]
  BY <1>3, <1>4
<1> QED
  BY <1>1, <1>2, <1>6, <1>7 DEF Served

LEMMA ReadServed ==
  ASSUME TypeOK, Served, NEW r \in Resource, Read(r)
  PROVE  Served'
<1> DEFINE k == outs[r].key
<1>1. /\ outs[r] # None /\ k \in Key /\ k \in ValidKey
      /\ rows[k] \in [live : BOOLEAN, records : Records, ttl : Nat]
      /\ UNCHANGED <<rows, replaced>> /\ doubtful' = Settles(r)
  BY OutsFacts DEF Read
<1>2. \A q \in Resource \ {r} : outs'[q] = outs[q]
  BY DEF Read, TypeOK
<1>3. outs'[r] = IF rows[k].live THEN Outs(outs[r], rows[k]) ELSE None
  BY DEF Read, TypeOK
<1>4. outs'[r] # None => /\ outs'[r].key = k /\ rows[k].live
                         /\ outs'[r].records = rows[k].records
                         /\ outs'[r].ttl = rows[k].ttl
  BY <1>1, <1>3, OutsType
<1>5. k \notin doubtful' => Alone(r, k)
  BY <1>1, SettlesOnly
<1>6. ASSUME NEW q \in Resource \ {r}, outs[q] # None, outs[q].key \notin doubtful'
      PROVE  outs[q].key # k /\ outs[q].key \notin doubtful
  <2>1. outs[q].key # k
    BY <1>5, <1>6 DEF Alone
  <2> QED
    BY <1>1, <1>6, <2>1, SettlesOnly
<1>7. ASSUME NEW q \in Resource, outs'[q] # None, outs'[q].key \notin doubtful'
      PROVE  LET c == outs'[q].key IN
             /\ \A p \in Resource \ {q} : outs'[p] # None => outs'[p].key # c
             /\ \A d \in replaced' : d[2] # c
             /\ outs'[q].records # Empty =>
                  /\ rows'[c].live
                  /\ rows'[c].records = outs'[q].records
                  /\ rows'[c].ttl = outs'[q].ttl
  <2>1. CASE q = r
    BY <1>1, <1>2, <1>4, <1>5, <1>7, <2>1 DEF Alone
  <2>2. CASE q # r
    BY <1>1, <1>2, <1>4, <1>6, <1>7, <2>2 DEF Served
  <2> QED
    BY <2>1, <2>2
<1> QED
  BY <1>7 DEF Served

LEMMA NextServed == TypeOK /\ Served /\ [Next]_vars => Served'
<1> SUFFICES ASSUME TypeOK, Served, [Next]_vars PROVE Served'
  OBVIOUS
<1>1. CASE Begin \/ Applied \/ End \/ UNCHANGED vars
  BY <1>1 DEF Begin, Applied, End, vars, Served
<1>2. ASSUME NEW r \in Resource, Check(r) \/ Same(r) PROVE Served'
  <2>1. UNCHANGED <<outs, replaced, rows, doubtful>>
    BY <1>2 DEF Check, Same, Recorded, TypeOK
  <2> QED
    BY <2>1 DEF Served
<1>3. ASSUME NEW d \in replaced, DeleteReplaced(d) PROVE Served'
  <2>1. /\ UNCHANGED <<outs, doubtful>> /\ replaced' \subseteq replaced
        /\ \A k \in Key : k # d[2] => rows'[k] = rows[k]
    BY <1>3 DEF DeleteReplaced, Deleted, TypeOK
  <2>2. \A r \in Resource : outs[r] # None /\ outs[r].key \notin doubtful
          => outs[r].key # d[2] /\ outs[r].key \in Key
    BY OutsFacts DEF Served
  <2> QED
    BY <2>1, <2>2 DEF Served
<1>4. ASSUME NEW r \in Resource, NEW i \in Inputs \cup {None}, Edit(r, i)
      PROVE  Served'
  BY <1>4 DEF Edit, Served
<1> QED
  BY <1>1, <1>2, <1>3, <1>4, CreateServed, UpdateServed, FaultServed, DeleteServed,
     ReadServed DEF Next, GoesOn

(* For any number of resources and names: an up that succeeds leaves the   *)
(* server with what the program says, but for the names that were passed   *)
(* on from one resource to another and the updates and deletions that were *)
(* cut off and taken back.                                                 *)
THEOREM SettledIsServed == Spec => []SettledServed
<1>1. TypeOK /\ Through /\ Served => SettledServed
  <2> SUFFICES ASSUME TypeOK, Through, Served, settled,
                      NEW r \in Resource, program[r] # None, ~Noop(program[r]),
                      program[r].key \notin doubtful
               PROVE  LET i == program[r] IN
                      /\ rows[i.key].live /\ rows[i.key].records = i.records
                      /\ (i.ttl # 0 => rows[i.key].ttl = i.ttl)
    BY DEF SettledServed
  <2>1. Kept(r) /\ program[r] \in Inputs
    BY DEF Through, TypeOK
  <2>2. program[r].records # Empty
    BY <2>1, InputFacts DEF Noop
  <2> QED
    BY <2>1, <2>2 DEF Kept, Served
<1> QED
  BY <1>1, InitType, NextType, InitThrough, NextThrough, InitServed, NextServed, PTL
     DEF Spec
-------------------------------------------------------------------------------
(* Every row that answers belongs to somebody or was never recorded.       *)
Accounted ==
  \A k \in Key : rows[k].live =>
    \/ k \in stray
    \/ \E r \in Resource : outs[r] # None /\ outs[r].key = k
    \/ \E d \in replaced : d[2] = k

LEMMA NextAccounted == TypeOK /\ Accounted /\ [Next]_vars => Accounted'
<1> SUFFICES ASSUME TypeOK, Accounted, [Next]_vars PROVE Accounted'
  OBVIOUS
<1>1. CASE Begin \/ Applied \/ End \/ UNCHANGED vars
  BY <1>1 DEF Begin, Applied, End, vars, Accounted
<1>2. ASSUME NEW r \in Resource, Check(r) \/ Same(r) PROVE Accounted'
  <2>1. UNCHANGED <<outs, replaced, rows, stray>>
    BY <1>2 DEF Check, Same, Recorded, TypeOK
  <2> QED
    BY <2>1 DEF Accounted
<1>3. ASSUME NEW r \in Resource, Create(r) PROVE Accounted'
  <2>1. /\ outs'[r] # None /\ outs'[r].key = program[r].key
        /\ \A q \in Resource \ {r} : outs'[q] = outs[q]
    BY <1>3, CreateKeeps DEF Kept
  <2>2. /\ \A k \in Key : k # program[r].key => rows'[k] = rows[k]
        /\ stray' = stray
        /\ replaced' = IF outs[r] = None THEN replaced
                       ELSE replaced \cup {<<r, outs[r].key>>}
    BY <1>3 DEF Create, Recorded, TypeOK
  <2>3. ASSUME NEW k \in Key, rows'[k].live
        PROVE  \/ k \in stray'
               \/ \E q \in Resource : outs'[q] # None /\ outs'[q].key = k
               \/ \E d \in replaced' : d[2] = k
    <3>1. CASE k = program[r].key
      BY <2>1, <3>1
    <3>2. CASE k # program[r].key
      <4>1. rows[k].live
        BY <2>2, <2>3, <3>2
      <4>2. CASE outs[r] # None /\ outs[r].key = k
        <5>1. <<r, k>> \in replaced' /\ <<r, k>>[2] = k
          BY <2>2, <4>2
        <5> QED
          BY <5>1
      <4>3. CASE \E q \in Resource \ {r} : outs[q] # None /\ outs[q].key = k
        BY <2>1, <4>3
      <4>4. CASE k \in stray \/ \E d \in replaced : d[2] = k
        BY <2>2, <4>4
      <4> QED
        BY <4>1, <4>2, <4>3, <4>4 DEF Accounted
    <3> QED
      BY <3>1, <3>2
  <2> QED
    BY <2>3 DEF Accounted
<1>4. ASSUME NEW r \in Resource, Update(r) PROVE Accounted'
  <2>1. /\ outs'[r] # None /\ outs'[r].key = program[r].key
        /\ outs[r] # None /\ outs[r].key = program[r].key
        /\ \A q \in Resource \ {r} : outs'[q] = outs[q]
    BY <1>4, UpdateKeeps DEF Kept, Update, Updates
  <2>2. /\ \A k \in Key : k # program[r].key => rows'[k] = rows[k]
        /\ stray' = stray /\ replaced' = replaced
    BY <1>4 DEF Update, Recorded, TypeOK
  <2> QED
    BY <2>1, <2>2 DEF Accounted
<1>5. ASSUME NEW r \in Resource, Fault(r) PROVE Accounted'
  <2>1. /\ \A k \in Key : k # program[r].key => rows'[k] = rows[k]
        /\ UNCHANGED <<outs, replaced>> /\ stray \subseteq stray'
    BY <1>5 DEF Fault, TypeOK
  <2>2. rows' = rows \/ program[r].key \in stray'
        \/ (outs[r] # None /\ outs[r].key = program[r].key)
    BY <1>5 DEF Fault, Creates, Updates
  <2> QED
    BY <2>1, <2>2 DEF Accounted
<1>6. ASSUME NEW r \in Resource, Delete(r) PROVE Accounted'
  <2>1. /\ outs[r].key \in Key
        /\ \A q \in Resource \ {r} : outs'[q] = outs[q]
        /\ UNCHANGED <<replaced, stray>>
    BY <1>6, OutsFacts DEF Delete, TypeOK
  <2>2. /\ \A k \in Key : k # outs[r].key => rows'[k] = rows[k]
        /\ ~rows'[outs[r].key].live
    BY <1>6, <2>1 DEF Delete, Deleted, TypeOK
  <2> QED
    BY <2>1, <2>2 DEF Accounted
<1>7. ASSUME NEW d \in replaced, DeleteReplaced(d) PROVE Accounted'
  <2>1. /\ d[2] \in Key /\ UNCHANGED <<outs, stray>>
        /\ \A e \in replaced : e = d \/ e \in replaced'
    BY <1>7, Assumptions DEF DeleteReplaced, TypeOK, KeysAssumption
  <2>2. /\ \A k \in Key : k # d[2] => rows'[k] = rows[k]
        /\ ~rows'[d[2]].live
    BY <1>7, <2>1 DEF DeleteReplaced, Deleted, TypeOK
  <2> QED
    BY <2>1, <2>2 DEF Accounted
<1>8. ASSUME NEW r \in Resource, Read(r) PROVE Accounted'
  <2>1. /\ outs[r] # None /\ UNCHANGED <<rows, replaced, stray>>
        /\ \A q \in Resource \ {r} : outs'[q] = outs[q]
    BY <1>8 DEF Read, TypeOK
  <2>2. rows[outs[r].key].live => outs'[r] # None /\ outs'[r].key = outs[r].key
    BY <1>8, OutsFacts, OutsType DEF Read, TypeOK
  <2> QED
    BY <2>1, <2>2 DEF Accounted
<1>9. ASSUME NEW r \in Resource, NEW i \in Inputs \cup {None}, Edit(r, i)
      PROVE  Accounted'
  BY <1>9 DEF Edit, Accounted
<1> QED
  BY <1>1, <1>2, <1>3, <1>4, <1>5, <1>6, <1>7, <1>8, <1>9 DEF Next, GoesOn

(* For any number of resources and names: an up that succeeds leaves no    *)
(* row behind but those of creations that were never recorded; a replaced  *)
(* name is remembered until its row is gone, through any number of ups     *)
(* that break off.                                                         *)
THEOREM SettledLeavesNoOrphans == Spec => []NoOrphans
<1>1. Init => Accounted
  BY DEF Init, Accounted
<1>2. Through /\ Accounted => NoOrphans
  BY DEF Through, Kept, Accounted, NoOrphans
<1> QED
  BY <1>1, <1>2, InitType, NextType, InitThrough, NextThrough, NextAccounted, PTL
     DEF Spec
===============================================================================
