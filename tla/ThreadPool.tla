----------------------------- MODULE ThreadPool -----------------------------
(***************************************************************************)
(* server/pthreadpool/pthreadpool.c: the worker threads, the manager that  *)
(* grows and shrinks their number, the callers of threadPoolAdd and the    *)
(* owner that may call threadPoolDestroy, interleaved wherever one of them *)
(* takes or drops mutexPool or touches shared state without it.            *)
(*                                                                         *)
(* A worker is named by its entry of threadIDs.  A critical section that   *)
(* touches only data its mutex protects is one step (so mutexBusy needs no *)
(* variable).  mutexPool is a variable because worker and threadPoolAdd    *)
(* read `shutdown', which threadPoolDestroy writes without the lock,       *)
(* between taking the lock and blocking on a condition variable, and       *)
(* because the manager scans threadIDs, which threadExit writes without    *)
(* the lock.                                                               *)
(***************************************************************************)
EXTENDS Integers, FiniteSets

CONSTANTS
  MinNum, MaxNum, QueueCapacity,  (* the arguments of threadPoolCreate         *)
  NUMBERE,                        (* pthreadpool.h: threads per manager round  *)
  Tasks, NoTask,                  (* tasks, and what an unwritten slot holds   *)
  Producers,                      (* the threads that call threadPoolAdd       *)
  NoOne, Manager,                 (* mutexPool is free, or held by the manager *)
  Enders,                         (* the tasks that end their thread, as
                                     thread_read does, and do not return       *)
  MayDestroy                      (* may the owner call threadPoolDestroy?     *)

Slots == 0..MaxNum-1

ASSUME SizesAssumption ==
  /\ MinNum \in Nat \ {0} /\ MaxNum \in Nat /\ MinNum <= MaxNum
  /\ QueueCapacity \in Nat \ {0}
  /\ NUMBERE \in Nat \ {0}

ASSUME NamesAssumption ==
  /\ NoTask \notin Tasks
  /\ Producers \cap Slots = {}
  /\ NoOne \notin Slots \cup Producers
  /\ Manager \notin Slots \cup Producers \cup {NoOne}

ASSUME FlagsAssumption == Enders \subseteq Tasks /\ MayDestroy \in BOOLEAN

VARIABLES
  taskQ, queueFront, queueRear, queueSize,  (* the ring buffer                 *)
  busyNum, liveNum, exitNum, shutdown,      (* the counters and the flag       *)
  threadIDs,   (* threadIDs[i]: is entry i non-zero?                           *)
  mutexPool,   (* who holds it                                                 *)
  wpc, task,   (* workers: where they are, and their local `task'              *)
  ppc, arg,    (* callers of threadPoolAdd: where they are, and their task     *)
  todo,        (* tasks not yet passed to threadPoolAdd                        *)
  mpc, snap,   (* manager: where it is, and the three numbers it sampled       *)
  mi, counter, (* manager: its loop index and the threads created this round   *)
  dpc, di      (* threadPoolDestroy: where it is, and its loop index           *)

queueVars == <<taskQ, queueFront, queueRear, queueSize>>
countVars == <<busyNum, liveNum, exitNum>>
workerVars == <<wpc, task>>
callerVars == <<ppc, arg, todo>>
managerVars == <<mpc, snap, mi, counter>>
ownerVars == <<dpc, di>>
vars == <<queueVars, countVars, shutdown, threadIDs, mutexPool,
          workerVars, callerVars, managerVars, ownerVars>>

NoSnap == [queueSize |-> 0, liveNum |-> 0, busyNum |-> 0]

(* threadPoolCreate, once every pthread_create has returned. *)
Init ==
  /\ taskQ = [k \in 0..QueueCapacity-1 |-> NoTask]
  /\ queueFront = 0 /\ queueRear = 0 /\ queueSize = 0
  /\ busyNum = 0 /\ liveNum = MinNum /\ exitNum = 0 /\ shutdown = FALSE
  /\ threadIDs = [i \in Slots |-> i < MinNum]
  /\ mutexPool = NoOne
  /\ wpc = [i \in Slots |-> IF i < MinNum THEN "lock" ELSE "none"]
  /\ task = [i \in Slots |-> NoTask]
  /\ ppc = [p \in Producers |-> "idle"]
  /\ arg = [p \in Producers |-> NoTask]
  /\ todo = Tasks
  /\ mpc = "top" /\ snap = NoSnap /\ mi = 0 /\ counter = 0
  /\ dpc = "idle" /\ di = 0

-----------------------------------------------------------------------------
(* The operations of pthreads the code uses.  pthread_cond_signal: one of   *)
(* the threads blocked on the condition, if there is one, leaves it and     *)
(* goes on to take mutexPool again.                                         *)

Acquire(x) == mutexPool = NoOne /\ mutexPool' = x
Release == mutexPool' = NoOne

Blocked(pc) == {x \in DOMAIN pc : pc[x] = "blocked"}

Signal(pc, pcNext) ==
  \/ Blocked(pc) = {} /\ pcNext = pc
  \/ \E x \in Blocked(pc) : pcNext = [pc EXCEPT ![x] = "woken"]

(* Slips the properties are tested against: no signal for workers, none for *)
(* callers, one entry too many.                                             *)
SignalNoWorker == wpc' = wpc
SignalNobody == ppc' = ppc
QueueOverfull == queueSize > QueueCapacity

SignalNotEmpty == Signal(wpc, wpc')
SignalNotFull == Signal(ppc, ppc')

NextIndex(k) == (k + 1) % QueueCapacity
QueueFull == queueSize = QueueCapacity

-----------------------------------------------------------------------------
(* worker *)

Goto(i, from, to) == wpc[i] = from /\ wpc' = [wpc EXCEPT ![i] = to]

Lock(i) ==
  /\ Goto(i, "lock", "check")
  /\ Acquire(i)
  /\ UNCHANGED <<queueVars, countVars, threadIDs, task, ppc>>

(* Slip: the lock is dropped between the test and the wait. *)
DecideUnlocked(i) ==
  /\ queueSize = 0 /\ ~shutdown
  /\ Goto(i, "check", "wait")
  /\ Release
  /\ UNCHANGED <<queueVars, countVars, threadIDs, task, ppc>>

(* The condition of the inner loop holds; the thread still has the lock. *)
DecideToWait(i) ==
  /\ queueSize = 0 /\ ~shutdown
  /\ Goto(i, "check", "wait")
  /\ UNCHANGED <<queueVars, countVars, threadIDs, mutexPool, task, ppc>>

Block(i) ==
  /\ Goto(i, "wait", "blocked")
  /\ Release
  /\ UNCHANGED <<queueVars, countVars, threadIDs, task, ppc>>

(* Slips: leaving without looking at liveNum again, counting below zero. *)
LeaveUnchecked == exitNum > 0
LeaverAlwaysLess == exitNum - 1

(* Read after pthread_cond_wait returns, with the lock. *)
MustLeave == exitNum > 0 /\ liveNum > MinNum
OneLeaverLess == IF exitNum > 0 THEN exitNum - 1 ELSE exitNum

Resume(i) ==
  /\ ~MustLeave
  /\ Goto(i, "woken", "check")
  /\ Acquire(i)
  /\ exitNum' = OneLeaverLess
  /\ UNCHANGED <<queueVars, busyNum, liveNum, threadIDs, task, ppc>>

Retire(i) ==
  /\ mutexPool = NoOne
  /\ MustLeave
  /\ Goto(i, "woken", "retire")
  /\ exitNum' = OneLeaverLess
  /\ liveNum' = liveNum - 1
  /\ UNCHANGED <<queueVars, busyNum, threadIDs, mutexPool, task, ppc>>

Quit(i) ==
  /\ shutdown
  /\ Goto(i, "check", "quit")
  /\ Release
  /\ UNCHANGED <<queueVars, countVars, threadIDs, task, ppc>>

Take(i) ==
  /\ queueSize > 0 /\ ~shutdown
  /\ Goto(i, "check", "start")
  /\ task' = [task EXCEPT ![i] = taskQ[queueFront]]
  /\ queueFront' = NextIndex(queueFront)
  /\ queueSize' = queueSize - 1
  /\ SignalNotFull
  /\ Release
  /\ UNCHANGED <<taskQ, queueRear, countVars, threadIDs>>

Begin(i) ==
  /\ Goto(i, "start", "run")
  /\ busyNum' = busyNum + 1
  /\ UNCHANGED <<queueVars, liveNum, exitNum, threadIDs, mutexPool, task, ppc>>

(* Slip: back to the loop with busyNum as it was. *)
EndStillBusy(i) ==
  /\ Goto(i, "finish", "lock")
  /\ UNCHANGED <<queueVars, countVars, threadIDs, mutexPool, task, ppc>>

End(i) ==
  /\ Goto(i, "finish", "lock")
  /\ busyNum' = busyNum - 1
  /\ UNCHANGED <<queueVars, liveNum, exitNum, threadIDs, mutexPool, task, ppc>>

(* Called without mutexPool. *)
threadExit(i) ==
  /\ Goto(i, "retire", "none") \/ Goto(i, "quit", "none")
  /\ threadIDs' = [threadIDs EXCEPT ![i] = FALSE]
  /\ UNCHANGED <<queueVars, countVars, mutexPool, task, ppc>>

worker(i) ==
  /\ \/ Lock(i) \/ DecideToWait(i) \/ Block(i) \/ Resume(i) \/ Retire(i)
     \/ Quit(i) \/ Take(i) \/ Begin(i) \/ End(i) \/ threadExit(i)
  /\ UNCHANGED <<shutdown, arg, todo, managerVars, ownerVars>>

(* What the task itself does.  Either task.function returns, or it ends the *)
(* thread: thread_read has no return, it calls pthread_exit when the peer   *)
(* is gone and cancels itself after relaying a block of a file, and worker  *)
(* gets no chance to correct busyNum, liveNum and threadIDs.                *)
EndTask(i) ==
  /\ Goto(i, "run", IF task[i] \in Enders THEN "dead" ELSE "finish")
  /\ task' = [task EXCEPT ![i] = NoTask]
  /\ UNCHANGED <<queueVars, countVars, shutdown, threadIDs, mutexPool,
                 callerVars, managerVars, ownerVars>>

(* pthread_cond_wait may return with no signal. *)
WakeWorker(i) ==
  /\ Goto(i, "blocked", "woken")
  /\ UNCHANGED <<queueVars, countVars, shutdown, threadIDs, mutexPool, task,
                 callerVars, managerVars, ownerVars>>

-----------------------------------------------------------------------------
(* threadPoolAdd.  Call is the caller's decision to hand over t. *)

CallerGoto(p, from, to) == ppc[p] = from /\ ppc' = [ppc EXCEPT ![p] = to]

Call(p, t) ==
  /\ t \in todo
  /\ CallerGoto(p, "idle", "check")
  /\ Acquire(p)
  /\ arg' = [arg EXCEPT ![p] = t]
  /\ todo' = todo \ {t}
  /\ UNCHANGED <<queueVars, wpc>>

CallerDecidesToWait(p) ==
  /\ QueueFull /\ ~shutdown
  /\ CallerGoto(p, "check", "wait")
  /\ UNCHANGED <<queueVars, mutexPool, wpc, arg, todo>>

CallerBlocks(p) ==
  /\ CallerGoto(p, "wait", "blocked")
  /\ Release
  /\ UNCHANGED <<queueVars, wpc, arg, todo>>

CallerResumes(p) ==
  /\ CallerGoto(p, "woken", "check")
  /\ Acquire(p)
  /\ UNCHANGED <<queueVars, wpc, arg, todo>>

(* The pool is shutting down: the task is not added. *)
GiveUp(p) ==
  /\ shutdown
  /\ CallerGoto(p, "check", "idle")
  /\ Release
  /\ arg' = [arg EXCEPT ![p] = NoTask]
  /\ UNCHANGED <<queueVars, wpc, todo>>

Add(p) ==
  /\ ~QueueFull /\ ~shutdown
  /\ CallerGoto(p, "check", "idle")
  /\ taskQ' = [taskQ EXCEPT ![queueRear] = arg[p]]
  /\ queueRear' = NextIndex(queueRear)
  /\ queueSize' = queueSize + 1
  /\ SignalNotEmpty
  /\ Release
  /\ arg' = [arg EXCEPT ![p] = NoTask]
  /\ UNCHANGED <<queueFront, todo>>

callerFrame ==
  UNCHANGED <<countVars, shutdown, threadIDs, task, managerVars, ownerVars>>

threadPoolAdd(p) ==
  /\ \/ CallerDecidesToWait(p) \/ CallerBlocks(p) \/ CallerResumes(p)
     \/ GiveUp(p) \/ Add(p)
  /\ callerFrame

WakeCaller(p) ==
  /\ CallerGoto(p, "blocked", "woken")
  /\ UNCHANGED <<queueVars, mutexPool, wpc, arg, todo>>
  /\ callerFrame

-----------------------------------------------------------------------------
(* manager *)

ManagerGoto(from, to) == mpc = from /\ mpc' = to

(* Slip: a loop that never looks at shutdown. *)
NeverStop ==
  /\ ManagerGoto("top", "sampleQueue")
  /\ UNCHANGED <<liveNum, exitNum, threadIDs, mutexPool, wpc, snap, mi, counter>>

(* The test of the outer loop, and the three seconds of sleep. *)
TestShutdown ==
  /\ IF shutdown THEN ManagerGoto("top", "done")
                 ELSE ManagerGoto("top", "sampleQueue")
  /\ UNCHANGED <<liveNum, exitNum, threadIDs, mutexPool, wpc, snap, mi, counter>>

SampleQueue ==
  /\ mutexPool = NoOne
  /\ ManagerGoto("sampleQueue", "sampleBusy")
  /\ snap' = [snap EXCEPT !.queueSize = queueSize, !.liveNum = liveNum]
  /\ UNCHANGED <<liveNum, exitNum, threadIDs, mutexPool, wpc, mi, counter>>

SampleBusy ==
  /\ ManagerGoto("sampleBusy", "decideGrow")
  /\ snap' = [snap EXCEPT !.busyNum = busyNum]
  /\ UNCHANGED <<liveNum, exitNum, threadIDs, mutexPool, wpc, mi, counter>>

Overloaded == snap.queueSize > snap.liveNum /\ snap.liveNum < MaxNum
Underused == snap.busyNum * 2 < snap.liveNum /\ snap.liveNum > MinNum

BeginGrow ==
  /\ Overloaded
  /\ ManagerGoto("decideGrow", "grow")
  /\ Acquire(Manager)
  /\ UNCHANGED <<liveNum, exitNum, threadIDs, wpc, snap, mi, counter>>

MoreToGrow == mi < MaxNum /\ counter < NUMBERE /\ liveNum < MaxNum

(* One turn of the loop: a free entry of threadIDs gets a new thread. *)
CreateThread ==
  /\ mpc = "grow" /\ MoreToGrow
  /\ ~threadIDs[mi]
  /\ threadIDs' = [threadIDs EXCEPT ![mi] = TRUE]
  /\ wpc' = [wpc EXCEPT ![mi] = "lock"]
  /\ counter' = counter + 1
  /\ liveNum' = liveNum + 1
  /\ mi' = mi + 1
  /\ UNCHANGED <<exitNum, mutexPool, mpc, snap>>

SkipEntry ==
  /\ mpc = "grow" /\ MoreToGrow
  /\ threadIDs[mi]
  /\ mi' = mi + 1
  /\ UNCHANGED <<liveNum, exitNum, threadIDs, mutexPool, wpc, mpc, snap, counter>>

EndGrow ==
  /\ ~MoreToGrow
  /\ ManagerGoto("grow", "decideShrink")
  /\ Release
  /\ mi' = 0 /\ counter' = 0
  /\ UNCHANGED <<liveNum, exitNum, threadIDs, wpc, snap>>

SkipGrow ==
  /\ ~Overloaded
  /\ ManagerGoto("decideGrow", "decideShrink")
  /\ UNCHANGED <<liveNum, exitNum, threadIDs, mutexPool, wpc, snap, mi, counter>>

BeginShrink ==
  /\ Underused
  /\ mutexPool = NoOne
  /\ ManagerGoto("decideShrink", "shrink")
  /\ exitNum' = NUMBERE
  /\ UNCHANGED <<liveNum, threadIDs, mutexPool, wpc, snap, mi, counter>>

(* The signals are sent without mutexPool: each may find nobody blocked. *)
SignalShrink ==
  /\ mpc = "shrink" /\ mi < NUMBERE
  /\ SignalNotEmpty
  /\ mi' = mi + 1
  /\ UNCHANGED <<liveNum, exitNum, threadIDs, mutexPool, mpc, snap, counter>>

EndRound ==
  /\ \/ ~Underused /\ ManagerGoto("decideShrink", "top")
     \/ mi = NUMBERE /\ ManagerGoto("shrink", "top")
  /\ snap' = NoSnap /\ mi' = 0
  /\ UNCHANGED <<liveNum, exitNum, threadIDs, mutexPool, wpc, counter>>

manager ==
  /\ \/ TestShutdown \/ SampleQueue \/ SampleBusy
     \/ BeginGrow \/ CreateThread \/ SkipEntry \/ EndGrow \/ SkipGrow
     \/ BeginShrink \/ SignalShrink \/ EndRound
  /\ UNCHANGED <<queueVars, busyNum, shutdown, task, callerVars, ownerVars>>

-----------------------------------------------------------------------------
(* threadPoolDestroy, called at most once, and never with mutexPool held. *)

BeginDestroy ==
  /\ MayDestroy
  /\ dpc = "idle" /\ dpc' = "join"
  /\ shutdown' = TRUE
  /\ UNCHANGED <<wpc, di>>

JoinManager ==
  /\ mpc = "done"
  /\ dpc = "join" /\ dpc' = "signal"
  /\ UNCHANGED <<shutdown, wpc, di>>

SignalDestroy ==
  /\ dpc = "signal" /\ di < liveNum
  /\ SignalNotEmpty
  /\ di' = di + 1
  /\ UNCHANGED <<shutdown, dpc>>

(* The two arrays, the mutexes, the conditions and the pool itself go. *)
FreePool ==
  /\ di >= liveNum
  /\ dpc = "signal" /\ dpc' = "freed"
  /\ UNCHANGED <<shutdown, wpc, di>>

ownerFrame ==
  UNCHANGED <<queueVars, countVars, threadIDs, mutexPool, task, callerVars,
              managerVars>>

threadPoolDestroy == (JoinManager \/ SignalDestroy \/ FreePool) /\ ownerFrame

-----------------------------------------------------------------------------
(* A thread that uses the pool after it is freed has no defined behaviour:  *)
(* the behaviours modelled end there.                                       *)
InUse == dpc # "freed"

Next ==
  /\ InUse
  /\ \/ \E i \in Slots : worker(i) \/ EndTask(i) \/ WakeWorker(i)
     \/ \E p \in Producers : \/ threadPoolAdd(p) \/ WakeCaller(p)
                             \/ \E t \in Tasks : Call(p, t) /\ callerFrame
     \/ manager
     \/ (BeginDestroy /\ ownerFrame) \/ threadPoolDestroy

Spec == Init /\ [][Next]_vars

(* A thread that can go on, again and again, does: the kernel schedules it  *)
(* and a mutex that keeps becoming free is obtained.  Tasks end.  Nothing   *)
(* makes a caller call, or a wait end without a signal.                     *)
Fairness ==
  /\ \A i \in Slots : /\ SF_vars(InUse /\ worker(i))
                      /\ WF_vars(InUse /\ EndTask(i))
  /\ \A p \in Producers : SF_vars(InUse /\ threadPoolAdd(p))
  /\ SF_vars(InUse /\ manager)
  /\ WF_vars(InUse /\ threadPoolDestroy)

FairSpec == Spec /\ Fairness

=============================================================================
