------------------------------ MODULE RecordStore ------------------------------
(***************************************************************************)
(* What the record table promises, without sessions, mirrors, rows or ids: *)
(* a store of values by name.  Workers take tasks and carry them out name  *)
(* by name, each name at most once, in any order and between those of      *)
(* others; a task may break off, and a restart ends them all.  Only a      *)
(* clean-up removes what nobody asked it to, and only what was absent when *)
(* it looked.  Shimiko implements this.                                    *)
(***************************************************************************)

CONSTANTS
  Names, Absent,
  Workers,
  Requests,      \* the tasks that write or delete
  AtStart        \* those a worker may have from the start

VARIABLES
  stored,        \* [name -> value]
  task           \* [worker -> what it has left to do]

vars == <<stored, task>>

NoTask == [kind |-> "none", names |-> {}, value |-> Absent]

Init ==
  /\ stored \in [Names -> {Absent} \cup {t.value : t \in Requests}]
  /\ task \in [Workers -> AtStart \cup {NoTask}]

Becomes(w, t) == task' = [task EXCEPT ![w] = t]
DoneWith(w, n) == Becomes(w, [task[w] EXCEPT !.names = @ \ {n}])

Take(w) ==
  /\ task[w] = NoTask
  /\ \E t \in Requests : Becomes(w, t)
  /\ UNCHANGED stored

\* A clean-up takes note of what is absent.
Look(w) ==
  /\ task[w] = NoTask
  /\ \E T \in SUBSET {n \in Names : stored[n] = Absent} :
        Becomes(w, [kind |-> "clean up", names |-> T, value |-> Absent])
  /\ UNCHANGED stored

Write(w, n) ==
  /\ task[w].kind = "write" /\ n \in task[w].names
  /\ stored' = [stored EXCEPT ![n] = task[w].value]
  /\ DoneWith(w, n)

Remove(w, n) ==
  /\ task[w].kind \in {"delete", "clean up"} /\ n \in task[w].names
  /\ stored' = [stored EXCEPT ![n] = Absent]
  /\ DoneWith(w, n)

\* Names are left out, without a trace.
Skip(w) ==
  /\ \E T \in SUBSET task[w].names : Becomes(w, [task[w] EXCEPT !.names = T])
  /\ UNCHANGED stored

\* The task has been carried out, or broke off.
End(w) == Becomes(w, NoTask) /\ UNCHANGED stored

Restart == task' \in [Workers -> AtStart \cup {NoTask}] /\ UNCHANGED stored

Next ==
  \/ \E w \in Workers : \/ Take(w) \/ Look(w) \/ Skip(w) \/ End(w)
                        \/ \E n \in Names : Write(w, n) \/ Remove(w, n)
  \/ Restart

Spec == Init /\ [][Next]_vars
================================================================================
