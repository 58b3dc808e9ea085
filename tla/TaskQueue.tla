----------------------------- MODULE TaskQueue -----------------------------
(***************************************************************************)
(* What the thread pool promises its callers, with no thread, lock or      *)
(* counter in sight: a bounded first-in-first-out queue of tasks.  A task  *)
(* is handed over at most once, a worker takes the oldest one, and only a  *)
(* pool that is shutting down turns a task away.                           *)
(***************************************************************************)
EXTENDS Sequences, Naturals

CONSTANTS Tasks,     (* the tasks callers may hand to threadPoolAdd *)
          Capacity   (* queueSize argument of threadPoolCreate      *)

VARIABLES todo,      (* tasks no caller has handed over yet         *)
          queue,     (* tasks accepted and not yet taken            *)
          running    (* tasks taken by a worker and not yet ended   *)

vars == <<todo, queue, running>>

Init == todo = Tasks /\ queue = <<>> /\ running = {}

Submit(t) == /\ t \in todo
             /\ Len(queue) < Capacity
             /\ todo' = todo \ {t}
             /\ queue' = Append(queue, t)
             /\ UNCHANGED running

Refuse(t) == /\ t \in todo
             /\ todo' = todo \ {t}
             /\ UNCHANGED <<queue, running>>

Take == /\ queue # <<>>
        /\ running' = running \cup {Head(queue)}
        /\ queue' = Tail(queue)
        /\ UNCHANGED todo

Finish(t) == /\ t \in running
             /\ running' = running \ {t}
             /\ UNCHANGED <<todo, queue>>

Next == \/ \E t \in Tasks : Submit(t) \/ Refuse(t) \/ Finish(t)
        \/ Take

Spec == Init /\ [][Next]_vars
=============================================================================
