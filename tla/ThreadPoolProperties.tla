------------------------ MODULE ThreadPoolProperties ------------------------
(* What the thread pool must satisfy. *)
EXTENDS ThreadPool, Sequences

(* The tasks accepted and not yet taken, oldest first. *)
Queue == [k \in 1..queueSize |-> taskQ[(queueFront + k - 1) % QueueCapacity]]
Queued(t) == \E k \in 1..queueSize : Queue[k] = t

(* Threads that serve a task now or will do so later; those that run one;   *)
(* those a task has ended behind worker's back; those that will look at the *)
(* queue before they can block again.                                       *)
At(w, P) == {i \in Slots : w[i] \in P}
Serving == At(wpc, {"lock", "check", "wait", "blocked", "woken", "start", "run",
                    "finish"})
Running == At(wpc, {"run", "finish"})
Ended == At(wpc, {"dead"})
Seeking == At(wpc, {"lock", "check", "woken"})

WorkerPC == {"none", "lock", "check", "wait", "blocked", "woken", "start",
             "run", "finish", "retire", "quit", "dead"}
CallerPC == {"idle", "check", "wait", "blocked", "woken"}
ManagerPC == {"top", "sampleQueue", "sampleBusy", "decideGrow", "grow",
              "decideShrink", "shrink", "done"}

(* Every variable has its type: the ring indices stay inside the ring, the  *)
(* counters of pthreadpool.h inside the sizes given to threadPoolCreate.    *)
TypeOK ==
  /\ taskQ \in [0..QueueCapacity-1 -> Tasks \cup {NoTask}]
  /\ queueFront \in 0..QueueCapacity-1 /\ queueRear \in 0..QueueCapacity-1
  /\ queueSize \in 0..QueueCapacity
  /\ busyNum \in 0..MaxNum /\ liveNum \in MinNum..MaxNum
  /\ exitNum \in 0..NUMBERE /\ shutdown \in BOOLEAN
  /\ threadIDs \in [Slots -> BOOLEAN]
  /\ mutexPool \in Slots \cup Producers \cup {NoOne, Manager}
  /\ wpc \in [Slots -> WorkerPC] /\ task \in [Slots -> Tasks \cup {NoTask}]
  /\ ppc \in [Producers -> CallerPC]
  /\ arg \in [Producers -> Tasks \cup {NoTask}]
  /\ todo \subseteq Tasks
  /\ mpc \in ManagerPC
  /\ snap \in [queueSize : 0..QueueCapacity, liveNum : 0..MaxNum,
               busyNum : 0..MaxNum]
  /\ mi \in 0..MaxNum+NUMBERE /\ counter \in 0..NUMBERE
  /\ dpc \in {"idle", "join", "signal", "freed"} /\ di \in 0..MaxNum

(* busyNum and liveNum, which pthreadpool.h calls the number of busy and of *)
(* live threads, are wrong by exactly the threads that thread_read ended,   *)
(* and by nothing else, although three parties change them and decide on    *)
(* numbers that may be old.  If every task returns they are true.           *)
CountsWrongByEnded ==
  /\ busyNum = Cardinality(Running) + Cardinality(Ended)
  /\ ~shutdown => liveNum = Cardinality(Serving) + Cardinality(Ended)

(* Until it is shut down the pool has at most MaxNum threads, and MinNum or *)
(* more but for those a task ended, which it never replaces.  The manager   *)
(* decides on numbers it read earlier, and asks for two threads to leave    *)
(* whether or not there are two too many.                                   *)
PoolBounds ==
  ~shutdown => /\ Cardinality(Serving) + Cardinality(Ended) <= MaxNum
               /\ Cardinality(Serving) >= MinNum - Cardinality(Ended)

(* When a thread is blocked on notEmpty, for every task in the queue there  *)
(* is a thread on its way to it.                                            *)
NoTaskStranded ==
  ~shutdown /\ Blocked(wpc) # {} => Cardinality(Seeking) >= queueSize

(* No wakeup is lost between a test of the queue and the wait: a task is    *)
(* left with nobody on its way to it, while a thread sleeps, only by a      *)
(* thread that was woken and takes exitNum > 0 for an order to leave.       *)
Leaves(i) == wpc[i] = "woken" /\ wpc'[i] = "retire"
StrandedByLeaver ==
  [][NoTaskStranded => NoTaskStranded' \/ \E i \in Slots : Leaves(i)]_vars

(* A task that was accepted is taken by a worker. *)
TaskServed == \A t \in Tasks : Queued(t) ~> ~Queued(t)

(* threadPoolAdd returns, also when it had to wait for room in the queue. *)
AddReturns == \A p \in Producers : ppc[p] # "idle" ~> ppc[p] = "idle"

(* threadPoolDestroy returns: the manager sees `shutdown' and can be joined. *)
DestroyReturns == dpc = "join" ~> dpc = "freed"

(* The ring buffer, its two conditions and its callers implement TaskQueue:  *)
(* no task is lost, taken twice, or overtaken in the queue.                 *)
TQ == INSTANCE TaskQueue WITH
        Capacity <- QueueCapacity,
        todo <- todo \cup {t \in Tasks : \E p \in Producers : arg[p] = t},
        queue <- Queue,
        running <- {t \in Tasks : \E i \in Slots : task[i] = t}
QueueSpec == TQ!Spec
=============================================================================
