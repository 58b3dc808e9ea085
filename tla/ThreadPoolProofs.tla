-------------------------- MODULE ThreadPoolProofs --------------------------
(***************************************************************************)
(* Theorems about ThreadPool for every pool size, queue capacity, number   *)
(* of callers and set of tasks.                                            *)
(***************************************************************************)
EXTENDS ThreadPoolProperties, FiniteSetTheorems, SequenceTheorems, TLAPS

(* The number of workers at a location in P is between 0 and MaxNum, and    *)
(* moving one worker changes it by what that worker contributes.            *)
LEMMA CountRange ==
  ASSUME NEW w, NEW P
  PROVE  IsFiniteSet(At(w, P)) /\ Cardinality(At(w, P)) \in 0..MaxNum
<1>1. IsFiniteSet(Slots) /\ Cardinality(Slots) = MaxNum
  BY FS_Interval, SizesAssumption DEF Slots
<1>2. At(w, P) \subseteq Slots
  BY DEF At
<1>3. IsFiniteSet(At(w, P)) /\ Cardinality(At(w, P)) <= MaxNum
  BY <1>1, <1>2, FS_Subset
<1>. QED
  BY <1>3, FS_CardinalityType, SizesAssumption

LEMMA CountMove ==
  ASSUME NEW w, NEW i \in Slots, NEW b, NEW P,
         NEW v, v[i] = b, \A j \in Slots \ {i} : v[j] = w[j]
  PROVE  Cardinality(At(v, P)) =
           Cardinality(At(w, P)) + (IF b \in P THEN 1 ELSE 0)
                                 - (IF w[i] \in P THEN 1 ELSE 0)
<1>. DEFINE A == At(w, P)
            B == At(v, P)
<1>1. IsFiniteSet(A) /\ Cardinality(A) \in Nat /\ Cardinality(B) \in Nat
  BY CountRange, SizesAssumption
<1>2. CASE b \in P /\ w[i] \in P
  <2>1. A = B
    BY <1>2 DEF At
  <2>2. Cardinality(B) = Cardinality(A)
    BY <2>1, Zenon
  <2>. QED  BY <2>2, <1>2, <1>1
<1>3. CASE b \in P /\ w[i] \notin P
  <2>1. B = A \cup {i} /\ i \notin A
    BY <1>3 DEF At
  <2>2. Cardinality(A \cup {i}) = Cardinality(A) + 1
    BY <2>1, <1>1, FS_AddElement
  <2>3. Cardinality(B) = Cardinality(A \cup {i})
    BY <2>1, Zenon
  <2>. QED  BY <2>2, <2>3, <1>3, <1>1
<1>4. CASE b \notin P /\ w[i] \in P
  <2>1. B = A \ {i} /\ i \in A
    BY <1>4 DEF At
  <2>2. Cardinality(A \ {i}) = Cardinality(A) - 1
    BY <2>1, <1>1, FS_RemoveElement
  <2>3. Cardinality(B) = Cardinality(A \ {i})
    BY <2>1, Zenon
  <2>. QED  BY <2>2, <2>3, <1>4, <1>1
<1>5. CASE b \notin P /\ w[i] \notin P
  <2>1. A = B
    BY <1>5 DEF At
  <2>2. Cardinality(B) = Cardinality(A)
    BY <2>1, Zenon
  <2>. QED  BY <2>2, <1>5, <1>1
<1>. QED  BY <1>2, <1>3, <1>4, <1>5

-----------------------------------------------------------------------------
(* The inductive invariant.  mutexPool is held by exactly the thread whose  *)
(* location says so; an entry of threadIDs is non-zero exactly while it has *)
(* a thread; nobody quits, or is told to by the owner, before shutdown; the *)
(* counters count threads, those whose task ended them included.            *)
LockInv ==
  /\ \A i \in Slots : (wpc[i] \in {"check", "wait"}) <=> (mutexPool = i)
  /\ \A p \in Producers : (ppc[p] \in {"check", "wait"}) <=> (mutexPool = p)
  /\ (mpc = "grow") <=> (mutexPool = Manager)
EntryInv == \A i \in Slots : threadIDs[i] <=> (wpc[i] # "none")
StopInv ==
  /\ \A i \in Slots : wpc[i] = "quit" => shutdown
  /\ dpc # "idle" => shutdown

BusyPC == {"run", "finish", "dead"}
LivePC == WorkerPC \ {"none", "retire", "quit"}
CountInv ==
  /\ busyNum = Cardinality(At(wpc, BusyPC))
  /\ ~shutdown => liveNum = Cardinality(At(wpc, LivePC))

IInv == TypeOK /\ LockInv /\ EntryInv /\ StopInv /\ CountInv

LEMMA InitInv == Init => IInv
<1>. SUFFICES ASSUME Init PROVE IInv
  OBVIOUS
<1>. USE SizesAssumption, NamesAssumption, FlagsAssumption
<1>1. At(wpc, BusyPC) = {} /\ At(wpc, LivePC) = 0..MinNum-1
  BY DEF Init, At, BusyPC, LivePC, WorkerPC, Slots
<1>2. Cardinality({}) = 0 /\ Cardinality(0..MinNum-1) = MinNum
  BY FS_EmptySet, FS_Interval
<1>3. Cardinality(At(wpc, BusyPC)) = 0 /\ Cardinality(At(wpc, LivePC)) = MinNum
  BY <1>1, <1>2, Zenon
<1>4. CountInv
  BY <1>3 DEF Init, CountInv
<1>5. TypeOK
  <2>1. snap \in [queueSize : 0..QueueCapacity, liveNum : 0..MaxNum,
                 busyNum : 0..MaxNum]
    BY DEF Init, NoSnap
  <2>2. mi \in 0..MaxNum+NUMBERE
    BY DEF Init
  <2>3. wpc \in [Slots -> WorkerPC] /\ ppc \in [Producers -> CallerPC]
    BY DEF Init, WorkerPC, CallerPC
  <2>4. threadIDs \in [Slots -> BOOLEAN]
    BY DEF Init, Slots
  <2>5. /\ taskQ \in [0..QueueCapacity-1 -> Tasks \cup {NoTask}]
        /\ task \in [Slots -> Tasks \cup {NoTask}]
        /\ arg \in [Producers -> Tasks \cup {NoTask}]
    BY DEF Init
  <2>6. mutexPool \in Slots \cup Producers \cup {NoOne, Manager}
    BY DEF Init
  <2>7. busyNum \in 0..MaxNum /\ liveNum \in MinNum..MaxNum /\ exitNum \in 0..NUMBERE
     /\ queueFront \in 0..QueueCapacity-1 /\ queueRear \in 0..QueueCapacity-1
    BY DEF Init
  <2>8. todo \subseteq Tasks /\ shutdown \in BOOLEAN
    BY Zenon DEF Init
  <2>10. queueSize \in 0..QueueCapacity
    BY DEF Init
  <2>9. mpc \in ManagerPC
     /\ counter \in 0..NUMBERE /\  dpc \in {"idle", "join", "signal", "freed"}
     /\ di \in 0..MaxNum
    BY DEF Init, ManagerPC
  <2>. QED  BY <2>1, <2>2, <2>3, <2>4, <2>5, <2>6, <2>7, <2>8, <2>9, <2>10,
               Zenon DEF TypeOK
<1>6. LockInv /\ EntryInv /\ StopInv
  BY DEF Init, LockInv, EntryInv, StopInv, Slots
<1>. QED  BY <1>4, <1>5, <1>6 DEF IInv

(* busyNum and liveNum after a step that moves worker i from a to b. *)
LEMMA WorkerCounts ==
  ASSUME IInv, NEW i \in Slots, NEW a, NEW b, Goto(i, a, b),
         busyNum' = busyNum + (IF b \in BusyPC THEN 1 ELSE 0)
                            - (IF a \in BusyPC THEN 1 ELSE 0),
         ~shutdown => liveNum' = liveNum + (IF b \in LivePC THEN 1 ELSE 0)
                                         - (IF a \in LivePC THEN 1 ELSE 0),
         shutdown' = shutdown
  PROVE  CountInv' /\ busyNum' \in 0..MaxNum
<1>0. wpc[i] = a /\ wpc'[i] = b /\ \A j \in Slots \ {i} : wpc'[j] = wpc[j]
  BY DEF Goto, IInv, TypeOK
<1>1. /\ Cardinality(At(wpc', BusyPC)) =
           Cardinality(At(wpc, BusyPC)) + (IF b \in BusyPC THEN 1 ELSE 0)
                                        - (IF a \in BusyPC THEN 1 ELSE 0)
      /\ Cardinality(At(wpc', LivePC)) =
           Cardinality(At(wpc, LivePC)) + (IF b \in LivePC THEN 1 ELSE 0)
                                        - (IF a \in LivePC THEN 1 ELSE 0)
  BY <1>0, CountMove
<1>2. CountInv'
  BY <1>1 DEF IInv, CountInv
<1>3. Cardinality(At(wpc', BusyPC)) \in 0..MaxNum
  BY CountRange
<1>. QED  BY <1>2, <1>3 DEF CountInv

(* Each step of a worker keeps the invariant. *)
LEMMA WorkerInv ==
  ASSUME IInv, NEW i \in Slots, worker(i)
  PROVE  IInv'
<1>. USE SizesAssumption, NamesAssumption
<1>1. CASE Lock(i)
  <2>1. CountInv' /\ busyNum' \in 0..MaxNum
    <3>1. Goto(i, "lock", "check") /\ UNCHANGED shutdown
      BY <1>1 DEF Lock, worker
    <3>. QED
      BY <1>1, <3>1, WorkerCounts DEF Lock, IInv, TypeOK, BusyPC, LivePC,
         WorkerPC, countVars
  <2>2. TypeOK'
    BY <1>1, <2>1 DEF Lock, Acquire, worker, queueVars, countVars, managerVars,
       ownerVars, Goto, IInv, TypeOK, WorkerPC
  <2>3. LockInv' /\ EntryInv' /\ StopInv'
    BY <1>1 DEF Lock, Acquire, worker, queueVars, countVars, managerVars,
       ownerVars, Goto, IInv, TypeOK, LockInv, EntryInv, StopInv
  <2>. QED  BY <2>1, <2>2, <2>3 DEF IInv
<1>2. CASE DecideToWait(i)
  <2>1. CountInv' /\ busyNum' \in 0..MaxNum
    <3>1. Goto(i, "check", "wait") /\ UNCHANGED shutdown
      BY <1>2 DEF DecideToWait, worker
    <3>. QED
      BY <1>2, <3>1, WorkerCounts DEF DecideToWait, IInv, TypeOK, BusyPC,
         LivePC, WorkerPC, countVars
  <2>2. TypeOK'
    BY <1>2, <2>1 DEF DecideToWait, worker, queueVars, countVars, managerVars,
       ownerVars, Goto, IInv, TypeOK, WorkerPC
  <2>3. LockInv' /\ EntryInv' /\ StopInv'
    BY <1>2 DEF DecideToWait, worker, queueVars, countVars, managerVars,
       ownerVars, Goto, IInv, TypeOK, LockInv, EntryInv, StopInv
  <2>. QED  BY <2>1, <2>2, <2>3 DEF IInv
<1>3. CASE Block(i)
  <2>1. CountInv' /\ busyNum' \in 0..MaxNum
    <3>1. Goto(i, "wait", "blocked") /\ UNCHANGED shutdown
      BY <1>3 DEF Block, worker
    <3>. QED
      BY <1>3, <3>1, WorkerCounts DEF Block, IInv, TypeOK, BusyPC, LivePC,
         WorkerPC, countVars
  <2>2. TypeOK'
    BY <1>3, <2>1 DEF Block, Release, worker, queueVars, countVars, managerVars,
       ownerVars, Goto, IInv, TypeOK, WorkerPC
  <2>3. LockInv' /\ EntryInv' /\ StopInv'
    BY <1>3 DEF Block, Release, worker, queueVars, countVars, managerVars,
       ownerVars, Goto, IInv, TypeOK, LockInv, EntryInv, StopInv
  <2>. QED  BY <2>1, <2>2, <2>3 DEF IInv
<1>4. CASE Resume(i)
  <2>1. CountInv' /\ busyNum' \in 0..MaxNum
    <3>1. Goto(i, "woken", "check") /\ UNCHANGED shutdown
      BY <1>4 DEF Resume, worker
    <3>. QED
      BY <1>4, <3>1, WorkerCounts DEF Resume, IInv, TypeOK, BusyPC, LivePC,
         WorkerPC, countVars
  <2>2. TypeOK'
    BY <1>4, <2>1 DEF Resume, Acquire, OneLeaverLess, MustLeave, worker,
       queueVars, countVars, managerVars, ownerVars, Goto, IInv, TypeOK,
       WorkerPC
  <2>3. LockInv' /\ EntryInv' /\ StopInv'
    BY <1>4 DEF Resume, Acquire, OneLeaverLess, MustLeave, worker, queueVars,
       countVars, managerVars, ownerVars, Goto, IInv, TypeOK, LockInv, EntryInv,
       StopInv
  <2>. QED  BY <2>1, <2>2, <2>3 DEF IInv
<1>5. CASE Retire(i)
  <2>1. CountInv' /\ busyNum' \in 0..MaxNum
    <3>1. Goto(i, "woken", "retire") /\ UNCHANGED shutdown
      BY <1>5 DEF Retire, worker
    <3>. QED
      BY <1>5, <3>1, WorkerCounts DEF Retire, IInv, TypeOK, BusyPC, LivePC,
         WorkerPC, countVars
  <2>2. TypeOK'
    BY <1>5, <2>1 DEF Retire, MustLeave, OneLeaverLess, worker, queueVars,
       countVars, managerVars, ownerVars, Goto, IInv, TypeOK, WorkerPC
  <2>3. LockInv' /\ EntryInv' /\ StopInv'
    BY <1>5 DEF Retire, MustLeave, OneLeaverLess, worker, queueVars, countVars,
       managerVars, ownerVars, Goto, IInv, TypeOK, LockInv, EntryInv, StopInv
  <2>. QED  BY <2>1, <2>2, <2>3 DEF IInv
<1>6. CASE Quit(i)
  <2>1. CountInv' /\ busyNum' \in 0..MaxNum
    <3>1. Goto(i, "check", "quit") /\ UNCHANGED <<shutdown, busyNum>> /\ shutdown
      BY <1>6 DEF Quit, worker, countVars
    <3>2. busyNum' = busyNum + (IF "quit" \in BusyPC THEN 1 ELSE 0)
                             - (IF "check" \in BusyPC THEN 1 ELSE 0)
      BY <3>1 DEF IInv, TypeOK, BusyPC
    <3>. QED
      BY <3>1, <3>2, WorkerCounts
  <2>2. TypeOK'
    BY <1>6, <2>1 DEF Quit, Release, worker, queueVars, countVars, managerVars,
       ownerVars, Goto, IInv, TypeOK, WorkerPC
  <2>3. LockInv' /\ EntryInv' /\ StopInv'
    BY <1>6 DEF Quit, Release, worker, queueVars, countVars, managerVars,
       ownerVars, Goto, IInv, TypeOK, LockInv, EntryInv, StopInv
  <2>. QED  BY <2>1, <2>2, <2>3 DEF IInv
<1>7. CASE Take(i)
  <2>1. CountInv' /\ busyNum' \in 0..MaxNum
    <3>1. Goto(i, "check", "start") /\ UNCHANGED shutdown
      BY <1>7 DEF Take, worker
    <3>. QED
      BY <1>7, <3>1, WorkerCounts DEF Take, IInv, TypeOK, BusyPC, LivePC,
         WorkerPC, countVars
  <2>4. queueFront' \in 0..QueueCapacity-1 /\ queueSize' \in 0..QueueCapacity
    BY <1>7 DEF Take, NextIndex, IInv, TypeOK
  <2>5. ppc' \in [Producers -> CallerPC]
    BY <1>7 DEF Take, SignalNotFull, Signal, Blocked, IInv, TypeOK, CallerPC
  <2>6. task' \in [Slots -> Tasks \cup {NoTask}]
    BY <1>7 DEF Take, IInv, TypeOK
  <2>2. TypeOK'
    BY <1>7, <2>1, <2>4, <2>5, <2>6 DEF Take, Release, worker, queueVars,
       countVars, managerVars, ownerVars, Goto, IInv, TypeOK, WorkerPC
  <2>3. LockInv' /\ EntryInv' /\ StopInv'
    BY <1>7 DEF Take, Release, NextIndex, SignalNotFull, Signal, Blocked,
       worker, queueVars, countVars, managerVars, ownerVars, Goto, IInv, TypeOK,
       LockInv, EntryInv, StopInv
  <2>. QED  BY <2>1, <2>2, <2>3 DEF IInv
<1>8. CASE Begin(i)
  <2>1. CountInv' /\ busyNum' \in 0..MaxNum
    <3>1. Goto(i, "start", "run") /\ UNCHANGED shutdown
      BY <1>8 DEF Begin, worker
    <3>. QED
      BY <1>8, <3>1, WorkerCounts DEF Begin, IInv, TypeOK, BusyPC, LivePC,
         WorkerPC, countVars
  <2>2. TypeOK'
    BY <1>8, <2>1 DEF Begin, worker, queueVars, countVars, managerVars,
       ownerVars, Goto, IInv, TypeOK, WorkerPC
  <2>3. LockInv' /\ EntryInv' /\ StopInv'
    BY <1>8 DEF Begin, worker, queueVars, countVars, managerVars, ownerVars,
       Goto, IInv, TypeOK, LockInv, EntryInv, StopInv
  <2>. QED  BY <2>1, <2>2, <2>3 DEF IInv
<1>9. CASE End(i)
  <2>1. CountInv' /\ busyNum' \in 0..MaxNum
    <3>1. Goto(i, "finish", "lock") /\ UNCHANGED shutdown
      BY <1>9 DEF End, worker
    <3>. QED
      BY <1>9, <3>1, WorkerCounts DEF End, IInv, TypeOK, BusyPC, LivePC,
         WorkerPC, countVars
  <2>2. TypeOK'
    BY <1>9, <2>1 DEF End, worker, queueVars, countVars, managerVars, ownerVars,
       Goto, IInv, TypeOK, WorkerPC
  <2>3. LockInv' /\ EntryInv' /\ StopInv'
    BY <1>9 DEF End, worker, queueVars, countVars, managerVars, ownerVars, Goto,
       IInv, TypeOK, LockInv, EntryInv, StopInv
  <2>. QED  BY <2>1, <2>2, <2>3 DEF IInv
<1>10. CASE threadExit(i)
  <2>1. CountInv' /\ busyNum' \in 0..MaxNum
    <3>1. (Goto(i, "retire", "none") \/ Goto(i, "quit", "none")) /\ UNCHANGED shutdown
      BY <1>10 DEF threadExit, worker
    <3>. QED
      BY <1>10, <3>1, WorkerCounts DEF threadExit, IInv, TypeOK, BusyPC, LivePC,
         WorkerPC, countVars
  <2>2. TypeOK'
    BY <1>10, <2>1 DEF threadExit, worker, queueVars, countVars, managerVars,
       ownerVars, Goto, IInv, TypeOK, WorkerPC
  <2>3. LockInv' /\ EntryInv' /\ StopInv'
    BY <1>10 DEF threadExit, worker, queueVars, countVars, managerVars,
       ownerVars, Goto, IInv, TypeOK, LockInv, EntryInv, StopInv
  <2>. QED  BY <2>1, <2>2, <2>3 DEF IInv
<1>. QED  BY <1>1, <1>2, <1>3, <1>4, <1>5, <1>6, <1>7, <1>8, <1>9, <1>10
             DEF worker

(* So does a task that ends, and a wait that ends by itself. *)
LEMMA TaskInv ==
  ASSUME IInv, NEW i \in Slots, EndTask(i) \/ WakeWorker(i)
  PROVE  IInv'
<1>. USE SizesAssumption, NamesAssumption, FlagsAssumption
<1>1. CASE EndTask(i)
  <2>1. PICK b \in {"dead", "finish"} : Goto(i, "run", b)
    BY <1>1 DEF EndTask
  <2>2. UNCHANGED <<shutdown, busyNum, liveNum>>
    BY <1>1 DEF EndTask, countVars
  <2>3. CountInv' /\ busyNum' \in 0..MaxNum
    BY <2>1, <2>2, WorkerCounts DEF IInv, TypeOK, BusyPC, LivePC, WorkerPC
  <2>4. TypeOK'
    BY <1>1, <2>1, <2>3 DEF EndTask, queueVars, countVars, callerVars,
       managerVars, ownerVars, Goto, IInv, TypeOK, WorkerPC
  <2>5. LockInv' /\ EntryInv' /\ StopInv'
    BY <1>1, <2>1 DEF EndTask, queueVars, countVars, callerVars, managerVars,
       ownerVars, Goto, IInv, TypeOK, LockInv, EntryInv, StopInv
  <2>. QED  BY <2>3, <2>4, <2>5 DEF IInv
<1>2. CASE WakeWorker(i)
  <2>1. Goto(i, "blocked", "woken") /\ UNCHANGED <<shutdown, busyNum, liveNum>>
    BY <1>2 DEF WakeWorker, countVars
  <2>2. CountInv' /\ busyNum' \in 0..MaxNum
    BY <2>1, WorkerCounts DEF IInv, TypeOK, BusyPC, LivePC, WorkerPC
  <2>3. TypeOK'
    BY <1>2, <2>2 DEF WakeWorker, queueVars, countVars, callerVars, managerVars,
       ownerVars, Goto, IInv, TypeOK, WorkerPC
  <2>4. LockInv' /\ EntryInv' /\ StopInv'
    BY <1>2 DEF WakeWorker, queueVars, countVars, callerVars, managerVars,
       ownerVars, Goto, IInv, TypeOK, LockInv, EntryInv, StopInv
  <2>. QED  BY <2>2, <2>3, <2>4 DEF IInv
<1>. QED  BY <1>1, <1>2

(* A signal on notEmpty moves one blocked worker, or none. *)
LEMMA SignalInv ==
  ASSUME IInv, SignalNotEmpty, UNCHANGED <<shutdown, busyNum, liveNum>>
  PROVE  /\ CountInv' /\ wpc' \in [Slots -> WorkerPC]
         /\ \A i \in Slots : \/ wpc'[i] = wpc[i]
                             \/ wpc[i] = "blocked" /\ wpc'[i] = "woken"
<1>1. CASE wpc' = wpc
  BY <1>1 DEF IInv, TypeOK, CountInv
<1>2. CASE \E i \in Slots : Goto(i, "blocked", "woken")
  <2>1. PICK i \in Slots : Goto(i, "blocked", "woken")
    BY <1>2
  <2>2. CountInv'
    BY <2>1, WorkerCounts DEF IInv, TypeOK, BusyPC, LivePC, WorkerPC
  <2>. QED  BY <2>1, <2>2 DEF Goto, IInv, TypeOK, WorkerPC
<1>. QED
  BY <1>1, <1>2 DEF SignalNotEmpty, Signal, Blocked, Goto, IInv, TypeOK

(* Each step of a caller of threadPoolAdd keeps the invariant. *)
LEMMA CallerInv ==
  ASSUME IInv, NEW p \in Producers,
         \/ threadPoolAdd(p)
         \/ WakeCaller(p)
         \/ \E t \in Tasks : Call(p, t) /\ callerFrame
  PROVE  IInv'
<1>. USE SizesAssumption, NamesAssumption
<1>1. CASE CallerDecidesToWait(p) /\ callerFrame
  <2>1. TypeOK'
    BY <1>1 DEF CallerDecidesToWait, callerFrame, queueVars, countVars,
       managerVars, ownerVars, CallerGoto, IInv, TypeOK, CallerPC
  <2>2. LockInv' /\ EntryInv' /\ StopInv' /\ CountInv'
    BY <1>1 DEF CallerDecidesToWait, callerFrame, queueVars, countVars,
       managerVars, ownerVars, CallerGoto, IInv, TypeOK, LockInv, EntryInv,
       StopInv, CountInv
  <2>. QED  BY <2>1, <2>2 DEF IInv
<1>2. CASE CallerBlocks(p) /\ callerFrame
  <2>1. TypeOK'
    BY <1>2 DEF CallerBlocks, Release, callerFrame, queueVars, countVars,
       managerVars, ownerVars, CallerGoto, IInv, TypeOK, CallerPC
  <2>2. LockInv' /\ EntryInv' /\ StopInv' /\ CountInv'
    BY <1>2 DEF CallerBlocks, Release, callerFrame, queueVars, countVars,
       managerVars, ownerVars, CallerGoto, IInv, TypeOK, LockInv, EntryInv,
       StopInv, CountInv
  <2>. QED  BY <2>1, <2>2 DEF IInv
<1>3. CASE CallerResumes(p) /\ callerFrame
  <2>1. TypeOK'
    BY <1>3 DEF CallerResumes, Acquire, callerFrame, queueVars, countVars,
       managerVars, ownerVars, CallerGoto, IInv, TypeOK, CallerPC
  <2>2. LockInv' /\ EntryInv' /\ StopInv' /\ CountInv'
    BY <1>3 DEF CallerResumes, Acquire, callerFrame, queueVars, countVars,
       managerVars, ownerVars, CallerGoto, IInv, TypeOK, LockInv, EntryInv,
       StopInv, CountInv
  <2>. QED  BY <2>1, <2>2 DEF IInv
<1>4. CASE GiveUp(p) /\ callerFrame
  <2>1. TypeOK'
    BY <1>4 DEF GiveUp, Release, callerFrame, queueVars, countVars, managerVars,
       ownerVars, CallerGoto, IInv, TypeOK, CallerPC
  <2>2. LockInv' /\ EntryInv' /\ StopInv' /\ CountInv'
    BY <1>4 DEF GiveUp, Release, callerFrame, queueVars, countVars, managerVars,
       ownerVars, CallerGoto, IInv, TypeOK, LockInv, EntryInv, StopInv, CountInv
  <2>. QED  BY <2>1, <2>2 DEF IInv
<1>5. CASE Add(p) /\ callerFrame
  <2>1. /\ CountInv' /\ wpc' \in [Slots -> WorkerPC]
        /\ \A i \in Slots : \/ wpc'[i] = wpc[i]
                            \/ wpc[i] = "blocked" /\ wpc'[i] = "woken"
    BY <1>5, SignalInv DEF Add, callerFrame, countVars
  <2>2. queueRear' \in 0..QueueCapacity-1 /\ queueSize' \in 0..QueueCapacity
    BY <1>5 DEF Add, QueueFull, NextIndex, IInv, TypeOK
  <2>3. taskQ' \in [0..QueueCapacity-1 -> Tasks \cup {NoTask}]
    BY <1>5 DEF Add, IInv, TypeOK
  <2>4. TypeOK'
    BY <1>5, <2>1, <2>2, <2>3 DEF Add, Release, CallerGoto, callerFrame,
       countVars, managerVars, ownerVars, IInv, TypeOK, CallerPC
  <2>5. LockInv' /\ EntryInv' /\ StopInv'
    BY <1>5, <2>1 DEF Add, Release, CallerGoto, callerFrame, countVars,
       managerVars, ownerVars, IInv, TypeOK, LockInv, EntryInv, StopInv
  <2>. QED  BY <2>1, <2>4, <2>5 DEF IInv
<1>6. CASE WakeCaller(p)
  <2>1. TypeOK'
    BY <1>6 DEF WakeCaller, callerFrame, queueVars, countVars, managerVars,
       ownerVars, CallerGoto, IInv, TypeOK, CallerPC
  <2>2. LockInv' /\ EntryInv' /\ StopInv' /\ CountInv'
    BY <1>6 DEF WakeCaller, callerFrame, queueVars, countVars, managerVars,
       ownerVars, CallerGoto, IInv, TypeOK, LockInv, EntryInv, StopInv, CountInv
  <2>. QED  BY <2>1, <2>2 DEF IInv
<1>7. CASE \E t \in Tasks : Call(p, t) /\ callerFrame
  <2>1. TypeOK'
    BY <1>7 DEF Call, Acquire, callerFrame, queueVars, countVars, managerVars,
       ownerVars, CallerGoto, IInv, TypeOK, CallerPC
  <2>2. LockInv' /\ EntryInv' /\ StopInv' /\ CountInv'
    BY <1>7 DEF Call, Acquire, callerFrame, queueVars, countVars, managerVars,
       ownerVars, CallerGoto, IInv, TypeOK, LockInv, EntryInv, StopInv, CountInv
  <2>. QED  BY <2>1, <2>2 DEF IInv
<1>. QED  BY <1>1, <1>2, <1>3, <1>4, <1>5, <1>6, <1>7 DEF threadPoolAdd

(* Each step of the manager keeps the invariant. *)
LEMMA ManagerInv ==
  ASSUME IInv, manager
  PROVE  IInv'
<1>. USE SizesAssumption, NamesAssumption
<1>1. CASE TestShutdown
  <2>1. TypeOK'
    BY <1>1 DEF TestShutdown, manager, queueVars, callerVars, ownerVars,
       ManagerGoto, IInv, TypeOK, ManagerPC
  <2>2. LockInv' /\ EntryInv' /\ StopInv' /\ CountInv'
    BY <1>1 DEF TestShutdown, manager, queueVars, callerVars, ownerVars,
       ManagerGoto, IInv, TypeOK, LockInv, EntryInv, StopInv, CountInv
  <2>. QED  BY <2>1, <2>2 DEF IInv
<1>2. CASE SampleQueue
  <2>3. snap' \in [queueSize : 0..QueueCapacity, liveNum : 0..MaxNum,
                  busyNum : 0..MaxNum]
    <3>1. liveNum \in 0..MaxNum /\ queueSize \in 0..QueueCapacity
      BY DEF IInv, TypeOK
    <3>2. snap' = [snap EXCEPT !.queueSize = queueSize, !.liveNum = liveNum]
      BY <1>2 DEF SampleQueue
    <3>. QED  BY <3>1, <3>2 DEF IInv, TypeOK
  <2>1. TypeOK'
    BY <1>2, <2>3 DEF SampleQueue, manager, queueVars, callerVars, ownerVars,
       ManagerGoto, IInv, TypeOK, ManagerPC
  <2>2. LockInv' /\ EntryInv' /\ StopInv' /\ CountInv'
    BY <1>2 DEF SampleQueue, manager, queueVars, callerVars, ownerVars,
       ManagerGoto, IInv, TypeOK, LockInv, EntryInv, StopInv, CountInv
  <2>. QED  BY <2>1, <2>2 DEF IInv
<1>3. CASE SampleBusy
  <2>1. TypeOK'
    BY <1>3 DEF SampleBusy, manager, queueVars, callerVars, ownerVars,
       ManagerGoto, IInv, TypeOK, ManagerPC
  <2>2. LockInv' /\ EntryInv' /\ StopInv' /\ CountInv'
    BY <1>3 DEF SampleBusy, manager, queueVars, callerVars, ownerVars,
       ManagerGoto, IInv, TypeOK, LockInv, EntryInv, StopInv, CountInv
  <2>. QED  BY <2>1, <2>2 DEF IInv
<1>4. CASE BeginGrow
  <2>1. TypeOK'
    BY <1>4 DEF BeginGrow, Acquire, manager, queueVars, callerVars, ownerVars,
       ManagerGoto, IInv, TypeOK, ManagerPC
  <2>2. LockInv' /\ EntryInv' /\ StopInv' /\ CountInv'
    BY <1>4 DEF BeginGrow, Acquire, manager, queueVars, callerVars, ownerVars,
       ManagerGoto, IInv, TypeOK, LockInv, EntryInv, StopInv, CountInv
  <2>. QED  BY <2>1, <2>2 DEF IInv
<1>5. CASE SkipEntry
  <2>1. TypeOK'
    BY <1>5 DEF SkipEntry, MoreToGrow, manager, queueVars, callerVars,
       ownerVars, ManagerGoto, IInv, TypeOK, ManagerPC, Slots
  <2>2. LockInv' /\ EntryInv' /\ StopInv' /\ CountInv'
    BY <1>5 DEF SkipEntry, MoreToGrow, manager, queueVars, callerVars,
       ownerVars, ManagerGoto, IInv, TypeOK, LockInv, EntryInv, StopInv,
       CountInv
  <2>. QED  BY <2>1, <2>2 DEF IInv
<1>6. CASE EndGrow
  <2>1. TypeOK'
    BY <1>6 DEF EndGrow, Release, manager, queueVars, callerVars, ownerVars,
       ManagerGoto, IInv, TypeOK, ManagerPC
  <2>2. LockInv' /\ EntryInv' /\ StopInv' /\ CountInv'
    BY <1>6 DEF EndGrow, Release, manager, queueVars, callerVars, ownerVars,
       ManagerGoto, IInv, TypeOK, LockInv, EntryInv, StopInv, CountInv
  <2>. QED  BY <2>1, <2>2 DEF IInv
<1>7. CASE SkipGrow
  <2>1. TypeOK'
    BY <1>7 DEF SkipGrow, manager, queueVars, callerVars, ownerVars,
       ManagerGoto, IInv, TypeOK, ManagerPC
  <2>2. LockInv' /\ EntryInv' /\ StopInv' /\ CountInv'
    BY <1>7 DEF SkipGrow, manager, queueVars, callerVars, ownerVars,
       ManagerGoto, IInv, TypeOK, LockInv, EntryInv, StopInv, CountInv
  <2>. QED  BY <2>1, <2>2 DEF IInv
<1>8. CASE BeginShrink
  <2>1. TypeOK'
    BY <1>8 DEF BeginShrink, manager, queueVars, callerVars, ownerVars,
       ManagerGoto, IInv, TypeOK, ManagerPC
  <2>2. LockInv' /\ EntryInv' /\ StopInv' /\ CountInv'
    BY <1>8 DEF BeginShrink, manager, queueVars, callerVars, ownerVars,
       ManagerGoto, IInv, TypeOK, LockInv, EntryInv, StopInv, CountInv
  <2>. QED  BY <2>1, <2>2 DEF IInv
<1>9. CASE EndRound
  <2>1. TypeOK'
    BY <1>9 DEF EndRound, manager, queueVars, callerVars, ownerVars,
       ManagerGoto, IInv, TypeOK, ManagerPC, NoSnap
  <2>2. LockInv' /\ EntryInv' /\ StopInv' /\ CountInv'
    BY <1>9 DEF EndRound, manager, queueVars, callerVars, ownerVars,
       ManagerGoto, IInv, TypeOK, LockInv, EntryInv, StopInv, CountInv
  <2>. QED  BY <2>1, <2>2 DEF IInv
<1>10. CASE CreateThread
  <2>1. mi \in Slots /\ liveNum < MaxNum /\ counter < NUMBERE
    BY <1>10 DEF CreateThread, MoreToGrow, IInv, TypeOK, Slots
  <2>2. Goto(mi, "none", "lock") /\ UNCHANGED <<shutdown, busyNum>>
        /\ liveNum' = liveNum + 1
    BY <1>10, <2>1 DEF CreateThread, manager, Goto, IInv, EntryInv
  <2>3. CountInv'
    BY <2>1, <2>2, WorkerCounts DEF IInv, TypeOK, BusyPC, LivePC, WorkerPC
  <2>4. mi' \in 0..MaxNum+NUMBERE /\ counter' \in 0..NUMBERE /\ liveNum' \in MinNum..MaxNum
    BY <1>10, <2>1 DEF CreateThread, IInv, TypeOK, Slots
  <2>5. TypeOK'
    BY <1>10, <2>1, <2>4 DEF CreateThread, manager, queueVars, callerVars,
       ownerVars, IInv, TypeOK, WorkerPC
  <2>6. LockInv' /\ EntryInv' /\ StopInv'
    BY <1>10, <2>1, <2>2 DEF CreateThread, Goto, manager, queueVars, callerVars,
       ownerVars, IInv, TypeOK, LockInv, EntryInv, StopInv
  <2>. QED  BY <2>3, <2>5, <2>6 DEF IInv
<1>11. CASE SignalShrink
  <2>1. /\ CountInv' /\ wpc' \in [Slots -> WorkerPC]
        /\ \A i \in Slots : \/ wpc'[i] = wpc[i]
                            \/ wpc[i] = "blocked" /\ wpc'[i] = "woken"
    BY <1>11, SignalInv DEF SignalShrink, manager
  <2>2. TypeOK'
    BY <1>11, <2>1 DEF SignalShrink, manager, queueVars, callerVars, ownerVars,
       IInv, TypeOK
  <2>3. LockInv' /\ EntryInv' /\ StopInv'
    BY <1>11, <2>1 DEF SignalShrink, manager, queueVars, callerVars, ownerVars,
       IInv, TypeOK, LockInv, EntryInv, StopInv
  <2>. QED  BY <2>1, <2>2, <2>3 DEF IInv
<1>. QED
  BY <1>1, <1>2, <1>3, <1>4, <1>5, <1>6, <1>7, <1>8, <1>9, <1>10, <1>11
     DEF manager

(* Each step of the owner keeps the invariant. *)
LEMMA OwnerInv ==
  ASSUME IInv, (BeginDestroy /\ ownerFrame) \/ threadPoolDestroy
  PROVE  IInv'
<1>. USE SizesAssumption, NamesAssumption
<1>1. CASE BeginDestroy /\ ownerFrame
  <2>1. TypeOK'
    BY <1>1 DEF BeginDestroy, ownerFrame, queueVars, countVars, callerVars,
       managerVars, IInv, TypeOK
  <2>2. LockInv' /\ EntryInv' /\ StopInv' /\ CountInv'
    BY <1>1 DEF BeginDestroy, ownerFrame, queueVars, countVars, callerVars,
       managerVars, IInv, TypeOK, LockInv, EntryInv, StopInv, CountInv
  <2>. QED  BY <2>1, <2>2 DEF IInv
<1>2. CASE JoinManager /\ ownerFrame
  <2>1. TypeOK'
    BY <1>2 DEF JoinManager, ownerFrame, queueVars, countVars, callerVars,
       managerVars, IInv, TypeOK
  <2>2. LockInv' /\ EntryInv' /\ StopInv' /\ CountInv'
    BY <1>2 DEF JoinManager, ownerFrame, queueVars, countVars, callerVars,
       managerVars, IInv, TypeOK, LockInv, EntryInv, StopInv, CountInv
  <2>. QED  BY <2>1, <2>2 DEF IInv
<1>3. CASE FreePool /\ ownerFrame
  <2>1. TypeOK'
    BY <1>3 DEF FreePool, ownerFrame, queueVars, countVars, callerVars,
       managerVars, IInv, TypeOK
  <2>2. LockInv' /\ EntryInv' /\ StopInv' /\ CountInv'
    BY <1>3 DEF FreePool, ownerFrame, queueVars, countVars, callerVars,
       managerVars, IInv, TypeOK, LockInv, EntryInv, StopInv, CountInv
  <2>. QED  BY <2>1, <2>2 DEF IInv
<1>4. CASE SignalDestroy /\ ownerFrame
  <2>1. /\ CountInv' /\ wpc' \in [Slots -> WorkerPC]
        /\ \A i \in Slots : \/ wpc'[i] = wpc[i]
                            \/ wpc[i] = "blocked" /\ wpc'[i] = "woken"
    BY <1>4, SignalInv DEF SignalDestroy, ownerFrame, countVars
  <2>2. TypeOK'
    BY <1>4, <2>1 DEF SignalDestroy, ownerFrame, queueVars, countVars,
       callerVars, managerVars, IInv, TypeOK
  <2>3. LockInv' /\ EntryInv' /\ StopInv'
    BY <1>4, <2>1 DEF SignalDestroy, ownerFrame, queueVars, countVars,
       callerVars, managerVars, IInv, TypeOK, LockInv, EntryInv, StopInv
  <2>. QED  BY <2>1, <2>2, <2>3 DEF IInv
<1>. QED  BY <1>1, <1>2, <1>3, <1>4 DEF threadPoolDestroy

LEMMA Inductive == Spec => []IInv
<1>1. IInv /\ [Next]_vars => IInv'
  <2>. SUFFICES ASSUME IInv, [Next]_vars PROVE IInv'
    OBVIOUS
  <2>1. CASE Next
    BY <2>1, WorkerInv, TaskInv, CallerInv, ManagerInv, OwnerInv DEF Next
  <2>2. CASE UNCHANGED vars
    BY <2>2 DEF vars, queueVars, countVars, workerVars, callerVars, managerVars,
         ownerVars, IInv, TypeOK, LockInv, EntryInv, StopInv, CountInv
  <2>. QED  BY <2>1, <2>2
<1>. QED  BY <1>1, InitInv, PTL DEF Spec

-----------------------------------------------------------------------------
(* Every variable keeps its type: in particular the indices stay in the    *)
(* ring, the manager's loop in threadIDs, and liveNum between the sizes     *)
(* given to threadPoolCreate, whatever the manager, the workers and the     *)
(* owner do in between.                                                     *)
THEOREM Types == Spec => []TypeOK
<1>1. IInv => TypeOK
  BY DEF IInv
<1>. QED  BY <1>1, Inductive, PTL

(* busyNum and liveNum are the numbers of busy and of live threads, but for *)
(* those a task has ended, at every moment, for every number of workers and *)
(* callers, whichever tasks end their thread.                               *)
THEOREM Counts == Spec => []CountsWrongByEnded
<1>1. IInv => CountsWrongByEnded
  <2>. SUFFICES ASSUME IInv PROVE CountsWrongByEnded
    OBVIOUS
  <2>1. /\ At(wpc, BusyPC) = Running \cup Ended /\ Running \cap Ended = {}
        /\ At(wpc, LivePC) = Serving \cup Ended /\ Serving \cap Ended = {}
    BY DEF Running, Serving, Ended, At, BusyPC, LivePC, WorkerPC, IInv, TypeOK
  <2>2. /\ IsFiniteSet(Running) /\ IsFiniteSet(Serving) /\ IsFiniteSet(Ended)
        /\ Cardinality(Running) \in Nat /\ Cardinality(Serving) \in Nat
        /\ Cardinality(Ended) \in Nat
    BY CountRange, SizesAssumption DEF Running, Serving, Ended
  <2>3. /\ Cardinality(Running \cup Ended) =
             Cardinality(Running) + Cardinality(Ended)
        /\ Cardinality(Serving \cup Ended) =
             Cardinality(Serving) + Cardinality(Ended)
    <3>1. /\ Cardinality(Running \cup Ended) =
               Cardinality(Running) + Cardinality(Ended)
                                    - Cardinality(Running \cap Ended)
          /\ Cardinality(Serving \cup Ended) =
               Cardinality(Serving) + Cardinality(Ended)
                                    - Cardinality(Serving \cap Ended)
      BY <2>2, FS_Union
    <3>2. /\ Cardinality(Running \cap Ended) = 0
          /\ Cardinality(Serving \cap Ended) = 0
      BY <2>1, FS_EmptySet, Zenon
    <3>. QED  BY <2>2, <3>1, <3>2
  <2>4. /\ Cardinality(At(wpc, BusyPC)) = Cardinality(Running \cup Ended)
        /\ Cardinality(At(wpc, LivePC)) = Cardinality(Serving \cup Ended)
    BY <2>1, Zenon
  <2>. QED  BY <2>3, <2>4 DEF CountsWrongByEnded, IInv, CountInv
<1>. QED  BY <1>1, Inductive, PTL

(* The pool has at most MaxNum threads until it is shut down, and MinNum    *)
(* but for those a task has ended: the manager, which acts on numbers that  *)
(* may be out of date, can neither overshoot nor undershoot.                *)
THEOREM Bounds == Spec => []PoolBounds
<1>1. TypeOK /\ CountsWrongByEnded => PoolBounds
  <2>. SUFFICES ASSUME TypeOK, CountsWrongByEnded PROVE PoolBounds
    OBVIOUS
  <2>1. Cardinality(Serving) \in 0..MaxNum /\ Cardinality(Ended) \in 0..MaxNum
    BY CountRange DEF Serving, Ended
  <2>. QED
    BY <2>1, SizesAssumption DEF TypeOK, CountsWrongByEnded, PoolBounds
<1>. QED  BY <1>1, Types, Counts, PTL

-----------------------------------------------------------------------------
(* A thread that is about to block has seen an empty queue, and nobody has  *)
(* added a task since: it still has mutexPool.                              *)
WaitInv == \A i \in Slots : wpc[i] = "wait" => queueSize = 0
Kept == NoTaskStranded => NoTaskStranded' \/ \E i \in Slots : Leaves(i)

SeekPC == {"lock", "check", "woken"}

(* Worker i moves from a to b: enough threads are still on their way when   *)
(* the queue shrinks by what leaves them, or is empty when i blocks.        *)
LEMMA StrandedMove ==
  ASSUME IInv, NoTaskStranded, NEW i \in Slots, NEW a, NEW b, Goto(i, a, b),
         a # "blocked" \/ b # "blocked",
         queueSize' \in Nat,
         \/ queueSize' = 0
         \/ /\ b # "blocked"
            /\ queueSize' <= queueSize + (IF b \in SeekPC THEN 1 ELSE 0)
                                       - (IF a \in SeekPC THEN 1 ELSE 0),
         shutdown' = shutdown
  PROVE  NoTaskStranded'
<1>. SUFFICES ASSUME ~shutdown, Blocked(wpc') # {}
              PROVE  Cardinality(Seeking') >= queueSize'
  BY DEF NoTaskStranded, IInv, TypeOK
<1>1. wpc[i] = a /\ wpc'[i] = b /\ \A j \in Slots \ {i} : wpc'[j] = wpc[j]
  BY DEF Goto, IInv, TypeOK
<1>2. Cardinality(At(wpc', SeekPC)) =
        Cardinality(At(wpc, SeekPC)) + (IF b \in SeekPC THEN 1 ELSE 0)
                                     - (IF a \in SeekPC THEN 1 ELSE 0)
  BY <1>1, CountMove
<1>3. /\ Cardinality(At(wpc, SeekPC)) \in Nat
      /\ Cardinality(At(wpc', SeekPC)) \in Nat
  BY CountRange, SizesAssumption
<1>4. Seeking' = At(wpc', SeekPC) /\ Seeking = At(wpc, SeekPC)
  BY DEF Seeking, SeekPC
<1>5. CASE queueSize' = 0
  BY <1>5, <1>3, <1>4
<1>6. CASE b # "blocked" /\ queueSize' # 0
  <2>1. Blocked(wpc) # {}
    BY <1>1, <1>6 DEF Blocked, Goto, IInv, TypeOK
  <2>2. Cardinality(At(wpc, SeekPC)) >= queueSize
    BY <2>1, <1>4 DEF NoTaskStranded
  <2>3. queueSize \in Nat
    BY SizesAssumption DEF IInv, TypeOK
  <2>4. Cardinality(At(wpc', SeekPC)) >= queueSize'
    BY <2>2, <2>3, <1>2, <1>3, <1>6
  <2>. QED  BY <2>4, <1>4
<1>. QED  BY <1>5, <1>6

(* Where neither the queue nor the workers move. *)
LEMMA StillKept ==
  ASSUME IInv, WaitInv, UNCHANGED <<queueSize, wpc, shutdown>>
  PROVE  WaitInv' /\ Kept
BY DEF WaitInv, Kept, NoTaskStranded, Seeking, At, Blocked

(* The steps of the workers. *)
LEMMA WorkerKeeps ==
  ASSUME IInv, WaitInv, NEW i \in Slots,
         worker(i) \/ EndTask(i) \/ WakeWorker(i)
  PROVE  WaitInv' /\ Kept
<1>. USE SizesAssumption, NamesAssumption
<1>2. queueSize \in Nat
  BY DEF IInv, TypeOK
<1>3. WaitInv'
  BY DEF worker, EndTask, WakeWorker, Lock, DecideToWait, Block, Resume, Retire,
     Quit, Take, Begin, End, threadExit, queueVars, Goto, IInv, TypeOK, LockInv,
     WaitInv
<1>4. ASSUME NoTaskStranded, ~Leaves(i) PROVE NoTaskStranded'
  <2>1. CASE worker(i) /\ Lock(i)
    <3>1. Goto(i, "lock", "check") /\ UNCHANGED <<queueSize, shutdown>>
      BY <2>1 DEF Lock, worker, queueVars
    <3>. QED  BY <3>1, <1>2, <1>4, StrandedMove DEF SeekPC
  <2>2. CASE worker(i) /\ DecideToWait(i)
    <3>1. Goto(i, "check", "wait") /\ queueSize' = 0 /\ UNCHANGED shutdown
      BY <2>2 DEF DecideToWait, worker, queueVars
    <3>. QED  BY <3>1, <1>4, StrandedMove
  <2>3. CASE worker(i) /\ Block(i)
    <3>1. Goto(i, "wait", "blocked") /\ queueSize' = 0 /\ UNCHANGED shutdown
      BY <2>3 DEF Block, Goto, worker, queueVars, WaitInv
    <3>. QED  BY <3>1, <1>4, StrandedMove
  <2>4. CASE worker(i) /\ Resume(i)
    <3>1. Goto(i, "woken", "check") /\ UNCHANGED <<queueSize, shutdown>>
      BY <2>4 DEF Resume, worker, queueVars
    <3>. QED  BY <3>1, <1>2, <1>4, StrandedMove DEF SeekPC
  <2>5. CASE worker(i) /\ Retire(i)
    <3>1. Leaves(i)
      BY <2>5 DEF Retire, Goto, Leaves, IInv, TypeOK
    <3>. QED  BY <3>1, <1>4
  <2>6. CASE worker(i) /\ Quit(i)
    BY <2>6 DEF Quit, worker, NoTaskStranded
  <2>7. CASE worker(i) /\ Take(i)
    <3>1. /\ Goto(i, "check", "start") /\ queueSize > 0
          /\ queueSize' = queueSize - 1 /\ UNCHANGED shutdown
      BY <2>7 DEF Take, worker
    <3>. QED  BY <3>1, <1>2, <1>4, StrandedMove DEF SeekPC
  <2>8. CASE worker(i) /\ Begin(i)
    <3>1. Goto(i, "start", "run") /\ UNCHANGED <<queueSize, shutdown>>
      BY <2>8 DEF Begin, worker, queueVars
    <3>. QED  BY <3>1, <1>2, <1>4, StrandedMove DEF SeekPC
  <2>9. CASE worker(i) /\ End(i)
    <3>1. Goto(i, "finish", "lock") /\ UNCHANGED <<queueSize, shutdown>>
      BY <2>9 DEF End, worker, queueVars
    <3>. QED  BY <3>1, <1>2, <1>4, StrandedMove DEF SeekPC
  <2>10. CASE worker(i) /\ threadExit(i)
    <3>1. /\ Goto(i, "retire", "none") \/ Goto(i, "quit", "none")
          /\ UNCHANGED <<queueSize, shutdown>>
      BY <2>10 DEF threadExit, worker, queueVars
    <3>. QED  BY <3>1, <1>2, <1>4, StrandedMove DEF SeekPC
  <2>11. CASE EndTask(i)
    <3>1. /\ Goto(i, "run", "dead") \/ Goto(i, "run", "finish")
          /\ UNCHANGED <<queueSize, shutdown>>
      BY <2>11 DEF EndTask, queueVars
    <3>. QED  BY <3>1, <1>2, <1>4, StrandedMove DEF SeekPC
  <2>12. CASE WakeWorker(i)
    <3>1. Goto(i, "blocked", "woken") /\ UNCHANGED <<queueSize, shutdown>>
      BY <2>12 DEF WakeWorker, queueVars
    <3>. QED  BY <3>1, <1>2, <1>4, StrandedMove DEF SeekPC
  <2>. QED
    BY <2>1, <2>2, <2>3, <2>4, <2>5, <2>6, <2>7, <2>8, <2>9, <2>10, <2>11,
       <2>12 DEF worker
<1>. QED  BY <1>3, <1>4 DEF Kept

(* The steps of callers. *)
LEMMA CallerKeeps ==
  ASSUME IInv, WaitInv, NEW p \in Producers,
         \/ threadPoolAdd(p) \/ WakeCaller(p)
         \/ \E t \in Tasks : Call(p, t) /\ callerFrame
  PROVE  WaitInv' /\ Kept
<1>. USE SizesAssumption, NamesAssumption
<1>1. queueSize \in Nat
  BY DEF IInv, TypeOK
<1>2. ASSUME Add(p), callerFrame PROVE WaitInv' /\ Kept
  <2>1. shutdown' = shutdown /\ queueSize' = queueSize + 1 /\ SignalNotEmpty
    BY <1>2 DEF Add, callerFrame
  <2>2. \A j \in Slots : wpc[j] # "wait"
    BY <1>2 DEF Add, CallerGoto, IInv, LockInv
  <2>3. CASE Blocked(wpc) = {} /\ wpc' = wpc
    BY <2>1, <2>2, <2>3 DEF WaitInv, Kept, NoTaskStranded
  <2>4. CASE \E i \in Slots : Goto(i, "blocked", "woken")
    <3>1. PICK i \in Slots : Goto(i, "blocked", "woken")
      BY <2>4
    <3>2. Kept
      BY <2>1, <3>1, <1>1, StrandedMove DEF SeekPC, Kept
    <3>. QED  BY <2>2, <3>1, <3>2 DEF WaitInv, Goto, IInv, TypeOK
  <2>. QED
    BY <2>1, <2>3, <2>4 DEF SignalNotEmpty, Signal, Blocked, Goto, IInv, TypeOK
<1>3. ASSUME callerFrame,
             \/ CallerDecidesToWait(p) \/ CallerBlocks(p) \/ CallerResumes(p)
             \/ GiveUp(p) \/ WakeCaller(p) \/ \E t \in Tasks : Call(p, t)
      PROVE  WaitInv' /\ Kept
  <2>1. UNCHANGED <<queueSize, wpc, shutdown>>
    BY <1>3 DEF callerFrame, queueVars, CallerDecidesToWait, CallerBlocks,
       CallerResumes, GiveUp, WakeCaller, Call
  <2>. QED  BY <2>1, StillKept
<1>. QED  BY <1>2, <1>3 DEF threadPoolAdd, WakeCaller

(* The steps of the manager. *)
LEMMA ManagerKeeps ==
  ASSUME IInv, WaitInv, manager
  PROVE  WaitInv' /\ Kept
<1>. USE SizesAssumption, NamesAssumption
<1>1. queueSize \in Nat
  BY DEF IInv, TypeOK
<1>2. UNCHANGED <<queueSize, shutdown>>
  BY DEF manager, queueVars
<1>3. CASE wpc' = wpc
  BY <1>2, <1>3, StillKept
<1>4. CASE \E i \in Slots : \/ Goto(i, "none", "lock")
                             \/ Goto(i, "blocked", "woken")
  <2>1. PICK i \in Slots : \/ Goto(i, "none", "lock")
                           \/ Goto(i, "blocked", "woken")
    BY <1>4
  <2>2. Kept
    BY <1>1, <1>2, <2>1, StrandedMove DEF SeekPC, Kept
  <2>. QED  BY <1>2, <2>1, <2>2 DEF WaitInv, Goto, IInv, TypeOK
<1>5. CreateThread => mi \in Slots /\ Goto(mi, "none", "lock")
  BY DEF CreateThread, MoreToGrow, Goto, IInv, TypeOK, EntryInv, Slots
<1>6. SignalShrink => \/ wpc' = wpc
                      \/ \E i \in Slots : Goto(i, "blocked", "woken")
  BY DEF SignalShrink, SignalNotEmpty, Signal, Blocked, Goto, IInv, TypeOK
<1>. QED
  BY <1>3, <1>4, <1>5, <1>6 DEF manager, TestShutdown, SampleQueue,
     SampleBusy, BeginGrow, SkipEntry, EndGrow, SkipGrow, BeginShrink, EndRound

(* The steps of the owner: from its first one on the pool is shut down. *)
LEMMA OwnerKeeps ==
  ASSUME IInv, WaitInv, (BeginDestroy /\ ownerFrame) \/ threadPoolDestroy
  PROVE  WaitInv' /\ Kept
<1>1. shutdown'
  BY DEF threadPoolDestroy, BeginDestroy, JoinManager, SignalDestroy, FreePool,
     IInv, StopInv
<1>2. UNCHANGED queueSize
  BY DEF threadPoolDestroy, ownerFrame, queueVars
<1>3. \A j \in Slots : wpc'[j] = "wait" => wpc[j] = "wait"
  BY DEF threadPoolDestroy, BeginDestroy, JoinManager, SignalDestroy, FreePool,
     SignalNotEmpty, Signal, Blocked, IInv, TypeOK
<1>. QED  BY <1>1, <1>2, <1>3 DEF WaitInv, Kept, NoTaskStranded

(* No wakeup is lost, in a pool of any size that grows and shrinks, with    *)
(* any number of callers and of workers: when a thread sleeps and a task    *)
(* has nobody on its way to it, then since a thread left that was woken.    *)
THEOREM NothingStranded == Spec => StrandedByLeaver
<1>1. Init => WaitInv
  BY SizesAssumption DEF Init, WaitInv
<1>2. IInv /\ WaitInv /\ [Next]_vars => WaitInv' /\ Kept
  <2>. SUFFICES ASSUME IInv, WaitInv, [Next]_vars PROVE WaitInv' /\ Kept
    OBVIOUS
  <2>1. CASE Next
    BY <2>1, WorkerKeeps, CallerKeeps, ManagerKeeps, OwnerKeeps DEF Next
  <2>2. CASE UNCHANGED vars
    BY <2>2, StillKept DEF vars, queueVars, workerVars
  <2>. QED  BY <2>1, <2>2
<1>3. Kept => [NoTaskStranded => NoTaskStranded'
                                   \/ \E i \in Slots : Leaves(i)]_vars
  BY DEF Kept
<1>. QED  BY <1>1, <1>2, <1>3, Inductive, PTL DEF Spec, StrandedByLeaver

-----------------------------------------------------------------------------
(* The ring buffer is a sequence.  Ring(f, k) is the entry of the k-th      *)
(* task when the oldest one is in entry f.                                  *)
Ring(f, k) == (f + k - 1) % QueueCapacity

LEMMA RingValue ==
  ASSUME NEW f \in 0..QueueCapacity-1, NEW k \in 1..QueueCapacity+1
  PROVE  Ring(f, k) = IF f + k - 1 < QueueCapacity THEN f + k - 1
                      ELSE f + k - 1 - QueueCapacity
<1>1. \A n \in Nat \ {0} : \A x \in 0..n-1 : x % n = x
  OBVIOUS
<1>2. \A n \in Nat \ {0} : \A x \in n..2*n-1 : x % n = x - n
  OBVIOUS
<1>3. /\ QueueCapacity \in Nat \ {0}
      /\ f + k - 1 \in 0..2*QueueCapacity-1
  BY SizesAssumption
<1>4. CASE f + k - 1 < QueueCapacity
  BY <1>1, <1>3, <1>4 DEF Ring
<1>5. CASE f + k - 1 >= QueueCapacity
  <2>1. f + k - 1 \in QueueCapacity..2*QueueCapacity-1
    BY <1>3, <1>5
  <2> QED BY <1>2, <1>3, <1>5, <2>1 DEF Ring
<1> QED BY <1>3, <1>4, <1>5

LEMMA RingInjective ==
  ASSUME NEW f \in 0..QueueCapacity-1, NEW j \in 1..QueueCapacity,
         NEW k \in 1..QueueCapacity, Ring(f, j) = Ring(f, k)
  PROVE  j = k
  BY RingValue, SizesAssumption

LEMMA RingNext ==
  ASSUME NEW f \in 0..QueueCapacity-1, NEW k \in 1..QueueCapacity
  PROVE  /\ Ring(NextIndex(f), k) = Ring(f, k + 1)
         /\ NextIndex(Ring(f, k)) = Ring(f, k + 1)
         /\ Ring(f, k) \in 0..QueueCapacity-1
<1>1. \A x \in 0..QueueCapacity-1 :
        NextIndex(x) = IF x + 1 < QueueCapacity THEN x + 1 ELSE 0
  BY SizesAssumption DEF NextIndex
<1> QED BY <1>1, RingValue, SizesAssumption

(* Queue as a sequence, before and after a step.                            *)
Content == Tasks \cup {NoTask}
Inside(r, f, n) == /\ r \in [0..QueueCapacity-1 -> Content]
                   /\ f \in 0..QueueCapacity-1 /\ n \in 0..QueueCapacity

LEMMA RingSequence ==
  ASSUME NEW r, NEW f, NEW n, Inside(r, f, n),
         NEW s, s = [k \in 1..n |-> r[(f + k - 1) % QueueCapacity]]
  PROVE  /\ s \in Seq(Content) /\ Len(s) = n
         /\ \A k \in 1..n : s[k] = r[Ring(f, k)]
<1>1. n \in Nat /\ \A k \in 1..n : Ring(f, k) \in 0..QueueCapacity-1
  BY RingNext, SizesAssumption DEF Inside
<1>2. \A k \in 1..n : s[k] = r[Ring(f, k)]
  BY DEF Ring
<1>3. s \in [1..n -> Content]
  BY <1>1, <1>2 DEF Inside
<1> QED BY <1>1, <1>2, <1>3

LEMMA QueueSequence ==
  ASSUME TypeOK
  PROVE  /\ Queue \in Seq(Content) /\ Len(Queue) = queueSize
         /\ \A k \in 1..queueSize : Queue[k] = taskQ[Ring(queueFront, k)]
         /\ queueSize \in Nat
         /\ queueSize > 0 => /\ Queue # <<>> /\ Head(Queue) = Queue[1]
                             /\ Queue[1] = taskQ[queueFront]
<1>1. Inside(taskQ, queueFront, queueSize)
  BY DEF TypeOK, Inside, Content
<1>2. /\ Queue \in Seq(Content) /\ Len(Queue) = queueSize
      /\ \A k \in 1..queueSize : Queue[k] = taskQ[Ring(queueFront, k)]
  BY <1>1, RingSequence DEF Queue
<1>3. queueSize \in Nat /\ Ring(queueFront, 1) = queueFront
  BY <1>1, RingValue, SizesAssumption DEF Inside
<1>4. queueSize > 0 => Queue # <<>> /\ Head(Queue) = Queue[1]
  BY <1>2, <1>3
<1> QED BY <1>2, <1>3, <1>4

LEMMA QueueSequenceNext ==
  ASSUME TypeOK'
  PROVE  /\ Queue' \in Seq(Content) /\ Len(Queue') = queueSize'
         /\ \A k \in 1..queueSize' : Queue'[k] = taskQ'[Ring(queueFront', k)]
<1>1. Inside(taskQ', queueFront', queueSize')
  BY DEF TypeOK, Inside, Content
<1>2. Queue' = [k \in 1..queueSize' |->
                 taskQ'[(queueFront' + k - 1) % QueueCapacity]]
  BY DEF Queue
<1> QED BY <1>1, <1>2, RingSequence

LEMMA QueueTakes ==
  ASSUME TypeOK, TypeOK', queueSize > 0, UNCHANGED taskQ,
         queueFront' = NextIndex(queueFront), queueSize' = queueSize - 1
  PROVE  Queue' = Tail(Queue)
<1>1. /\ Queue' \in Seq(Content) /\ Len(Queue') = queueSize - 1
      /\ \A k \in 1..queueSize-1 : Queue'[k] = taskQ[Ring(queueFront', k)]
  BY QueueSequenceNext
<1>2. ASSUME NEW k \in 1..queueSize-1
      PROVE  Ring(queueFront', k) = Ring(queueFront, k + 1)
  <2>1. queueFront \in 0..QueueCapacity-1 /\ queueSize \in 0..QueueCapacity
    BY DEF TypeOK
  <2>2. k \in 1..QueueCapacity
    BY <2>1, SizesAssumption
  <2> QED BY <2>1, <2>2, RingNext
<1>3. /\ Tail(Queue) \in Seq(Content) /\ Len(Tail(Queue)) = queueSize - 1
      /\ \A k \in 1..queueSize-1 : Tail(Queue)[k] = Queue[k + 1]
  BY QueueSequence, HeadTailProperties
<1>4. \A k \in 1..queueSize-1 : Queue'[k] = Tail(Queue)[k]
  BY <1>1, <1>2, <1>3, QueueSequence
<1> QED BY <1>1, <1>3, <1>4, SeqEqual

LEMMA QueueAdds ==
  ASSUME TypeOK, TypeOK', queueSize < QueueCapacity, UNCHANGED queueFront,
         queueRear = Ring(queueFront, queueSize + 1),
         NEW t \in Content, taskQ' = [taskQ EXCEPT ![queueRear] = t],
         queueSize' = queueSize + 1
  PROVE  Queue' = Append(Queue, t)
<1>1. /\ Queue' \in Seq(Content) /\ Len(Queue') = queueSize + 1
      /\ \A k \in 1..queueSize+1 : Queue'[k] = taskQ'[Ring(queueFront, k)]
  BY QueueSequenceNext
<1>2. queueSize \in Nat /\ queueRear \in 0..QueueCapacity-1
  BY QueueSequence DEF TypeOK
<1>3. ASSUME NEW k \in 1..queueSize
      PROVE  taskQ'[Ring(queueFront, k)] = taskQ[Ring(queueFront, k)]
  <2>1. k \in 1..QueueCapacity /\ queueSize + 1 \in 1..QueueCapacity
    BY <1>2, SizesAssumption
  <2>2. Ring(queueFront, k) # queueRear
    <3>1. queueFront \in 0..QueueCapacity-1 /\ k # queueSize + 1
      BY <1>2 DEF TypeOK
    <3> QED BY <2>1, <3>1, RingInjective
  <2>3. Ring(queueFront, k) \in 0..QueueCapacity-1
    BY <2>1, RingNext DEF TypeOK
  <2> QED BY <2>2, <2>3 DEF TypeOK
<1>4. taskQ'[queueRear] = t
  BY <1>2 DEF TypeOK
<1>5. /\ Append(Queue, t) \in Seq(Content)
      /\ Len(Append(Queue, t)) = queueSize + 1
      /\ \A k \in 1..queueSize : Append(Queue, t)[k] = Queue[k]
      /\ Append(Queue, t)[queueSize + 1] = t
  BY QueueSequence, AppendProperties
<1>6. \A k \in 1..queueSize+1 : Queue'[k] = Append(Queue, t)[k]
  BY <1>1, <1>2, <1>3, <1>4, <1>5, QueueSequence
<1> QED BY <1>1, <1>5, <1>6, SeqEqual

-----------------------------------------------------------------------------
(* Where a task is: with nobody, with a caller of threadPoolAdd, in the     *)
(* queue, or with a worker; and it is in one place only.                    *)
Handed(t) == \E p \in Producers : arg[p] = t
Held(t) == \E i \in Slots : task[i] = t

(* The first n elements of s.                                               *)
Among(s, n, u) == \E k \in 1..n : s[k] = u
Single(s, n) == \A j, k \in 1..n : s[j] = s[k] => j = k

RearInv == queueRear = Ring(queueFront, queueSize + 1)
HandsInv ==
  /\ \A p \in Producers : arg[p] = NoTask <=> ppc[p] = "idle"
  /\ \A i \in Slots : task[i] # NoTask <=> wpc[i] \in {"start", "run"}
  /\ ~Queued(NoTask)
OneWayInv ==
  \A t \in Tasks : /\ t \in todo => ~Handed(t) /\ ~Queued(t) /\ ~Held(t)
                   /\ Handed(t) => ~Queued(t) /\ ~Held(t)
                   /\ Queued(t) => ~Held(t)
(* No task is held twice.                                                   *)
Apart(f, S) == \A x, y \in S : f[x] = f[y] => x = y \/ f[x] = NoTask
ApartInv ==
  Apart(arg, Producers) /\ Apart(task, Slots) /\ Single(Queue, queueSize)

PlaceInv == RearInv /\ HandsInv /\ OneWayInv /\ ApartInv

LEMMA InitPlace == Init => PlaceInv
<1> SUFFICES ASSUME Init PROVE PlaceInv
  OBVIOUS
<1>1. RearInv
  BY RingValue, SizesAssumption DEF Init, RearInv
<1>2. \A t : ~Queued(t)
  BY DEF Init, Queued
<1>3. \A t \in Tasks : ~Handed(t) /\ ~Held(t)
  BY NamesAssumption DEF Init, Handed, Held
<1>4. HandsInv /\ OneWayInv
  BY <1>2, <1>3 DEF Init, HandsInv, OneWayInv
<1>5. ApartInv
  BY DEF Init, ApartInv, Apart, Single
<1> QED BY <1>1, <1>4, <1>5 DEF PlaceInv

(* What an element added to a sequence, or taken from it, changes there.    *)
LEMMA AmongAdds ==
  ASSUME NEW s, NEW v, NEW n \in Nat, \A k \in 1..n : v[k] = s[k]
  PROVE  /\ \A u : Among(v, n + 1, u) <=> Among(s, n, u) \/ u = v[n + 1]
         /\ Single(s, n) /\ ~Among(s, n, v[n + 1]) => Single(v, n + 1)
<1>1. \A k \in 1..n+1 : k \in 1..n \/ k = n + 1
  OBVIOUS
<1>2. 1..n \subseteq 1..n+1 /\ n + 1 \in 1..n+1 /\ n + 1 \notin 1..n
  OBVIOUS
<1> QED BY <1>1, <1>2, Zenon DEF Among, Single

LEMMA AmongTakes ==
  ASSUME NEW s, NEW v, NEW n \in Nat \ {0},
         \A k \in 1..n-1 : v[k] = s[k + 1], Single(s, n)
  PROVE  /\ \A u : Among(v, n - 1, u) <=> Among(s, n, u) /\ u # s[1]
         /\ Single(v, n - 1)
         /\ Among(s, n, s[1])
<1>1. \A k \in 1..n-1 : k + 1 \in 1..n /\ k + 1 # 1 /\ v[k] = s[k + 1]
  OBVIOUS
<1>2. 1 \in 1..n
  OBVIOUS
<1>3. ASSUME NEW u, Among(v, n - 1, u)
      PROVE  Among(s, n, u) /\ u # s[1]
  BY <1>1, <1>2, <1>3 DEF Among, Single
<1>4. ASSUME NEW u, Among(s, n, u), u # s[1]
      PROVE  Among(v, n - 1, u)
  <2>1. PICK k \in 1..n : s[k] = u
    BY <1>4 DEF Among
  <2>2. k - 1 \in 1..n-1 /\ (k - 1) + 1 = k
    BY <1>4, <2>1
  <2>3. v[k - 1] = u
    BY <2>1, <2>2
  <2> QED BY <2>2, <2>3 DEF Among
<1>5. ASSUME NEW j \in 1..n-1, NEW k \in 1..n-1, v[j] = v[k]
      PROVE  j = k
  <2>1. j + 1 = k + 1
    BY <1>1, <1>5 DEF Single
  <2> QED BY <2>1
<1> QED BY <1>2, <1>3, <1>4, <1>5 DEF Among, Single

LEMMA QueuedAdds ==
  ASSUME TypeOK, NEW t \in Content, Queue' = Append(Queue, t),
         queueSize' = queueSize + 1
  PROVE  /\ \A u : Queued(u)' <=> Queued(u) \/ u = t
         /\ Single(Queue, queueSize) /\ ~Queued(t)
              => Single(Queue', queueSize')
<1>1. /\ queueSize \in Nat
      /\ \A k \in 1..queueSize : Queue'[k] = Queue[k]
      /\ Queue'[queueSize + 1] = t
  BY QueueSequence, AppendProperties
<1>2. \A u : (Queued(u) <=> Among(Queue, queueSize, u))
             /\ (Queued(u)' <=> Among(Queue', queueSize', u))
  BY Zenon DEF Queued, Among
<1>3. /\ \A u : Among(Queue', queueSize + 1, u)
                    <=> Among(Queue, queueSize, u) \/ u = Queue'[queueSize + 1]
      /\ Single(Queue, queueSize)
           /\ ~Among(Queue, queueSize, Queue'[queueSize + 1])
           => Single(Queue', queueSize + 1)
  BY <1>1, AmongAdds
<1> QED BY <1>1, <1>2, <1>3

LEMMA QueuedTakes ==
  ASSUME TypeOK, queueSize > 0, Queue' = Tail(Queue),
         queueSize' = queueSize - 1, Single(Queue, queueSize)
  PROVE  /\ \A u : Queued(u)' <=> Queued(u) /\ u # Head(Queue)
         /\ Single(Queue', queueSize')
         /\ Queued(Head(Queue))
<1>1. /\ queueSize \in Nat \ {0} /\ Head(Queue) = Queue[1]
      /\ \A k \in 1..queueSize-1 : Queue'[k] = Queue[k + 1]
  <2>1. /\ Queue \in Seq(Content) /\ Queue # <<>> /\ Len(Queue) = queueSize
        /\ queueSize \in Nat /\ Head(Queue) = Queue[1]
    BY QueueSequence
  <2> QED BY <2>1, HeadTailProperties
<1>2. \A u : (Queued(u) <=> Among(Queue, queueSize, u))
             /\ (Queued(u)' <=> Among(Queue', queueSize', u))
  BY Zenon DEF Queued, Among
<1>3. /\ \A u : Among(Queue', queueSize - 1, u)
                    <=> Among(Queue, queueSize, u) /\ u # Queue[1]
      /\ Single(Queue', queueSize - 1)
      /\ Among(Queue, queueSize, Queue[1])
  BY <1>1, AmongTakes
<1> QED BY <1>1, <1>2, <1>3

(* A step that leaves the tasks where they are.                             *)
Quiet ==
  /\ UNCHANGED <<todo, arg, task, queueVars>>
  /\ \A p \in Producers : ppc'[p] = "idle" <=> ppc[p] = "idle"
  /\ \A i \in Slots : wpc'[i] \in {"start", "run"}
                        <=> wpc[i] \in {"start", "run"}

(* A step that does not moves one task.                                     *)
LEMMA MovesOneTask ==
  ASSUME IInv, Next
  PROVE  \/ Quiet
         \/ \E i \in Slots : Take(i) /\ worker(i)
         \/ \E i \in Slots : EndTask(i)
         \/ \E p \in Producers : (Add(p) \/ GiveUp(p)) /\ callerFrame
         \/ \E p \in Producers, t \in Tasks : Call(p, t) /\ callerFrame
<1> USE DEF Quiet
<1>0. /\ wpc \in [Slots -> WorkerPC] /\ ppc \in [Producers -> CallerPC]
      /\ \A i \in Slots : ~threadIDs[i] => wpc[i] = "none"
  BY DEF IInv, TypeOK, EntryInv
<1>1. ASSUME SignalNotEmpty
      PROVE  \A i \in Slots : wpc'[i] \in {"start", "run"}
                                <=> wpc[i] \in {"start", "run"}
  BY <1>0, <1>1 DEF SignalNotEmpty, Signal, Blocked
<1>2. ASSUME NEW i \in Slots, \/ worker(i) /\ ~Take(i)
                              \/ WakeWorker(i)
      PROVE  Quiet
  <2>1. UNCHANGED <<todo, arg, task, queueVars, ppc>>
    BY <1>2 DEF worker, WakeWorker, Lock, DecideToWait, Block, Resume, Retire,
       Quit, Begin, End, threadExit, callerVars
  <2>2. PICK to \in WorkerPC : /\ wpc' = [wpc EXCEPT ![i] = to]
                               /\ to \in {"start", "run"}
                                    <=> wpc[i] \in {"start", "run"}
    BY <1>0, <1>2 DEF worker, WakeWorker, Lock, DecideToWait, Block, Resume,
       Retire, Quit, Begin, End, threadExit, Goto, WorkerPC
  <2> QED BY <1>0, <2>1, <2>2
<1>3. ASSUME NEW p \in Producers, threadPoolAdd(p) \/ WakeCaller(p),
             ~Add(p), ~GiveUp(p)
      PROVE  Quiet
  <2>1. UNCHANGED <<todo, arg, task, queueVars, wpc>>
    BY <1>3 DEF threadPoolAdd, WakeCaller, CallerDecidesToWait, CallerBlocks,
       CallerResumes, callerFrame
  <2>2. PICK to \in CallerPC \ {"idle"} :
          ppc' = [ppc EXCEPT ![p] = to] /\ ppc[p] # "idle"
    BY <1>0, <1>3 DEF threadPoolAdd, WakeCaller, CallerDecidesToWait,
       CallerBlocks, CallerResumes, CallerGoto, CallerPC
  <2> QED BY <1>0, <2>1, <2>2
<1>4. CASE manager
  <2>1. UNCHANGED <<todo, arg, task, queueVars, ppc>>
    BY <1>4 DEF manager, callerVars
  <2>2. CASE CreateThread
    <3>1. mi \in 0..MaxNum+NUMBERE
      BY DEF IInv, TypeOK
    <3>2. mi \in Slots
      BY <2>2, <3>1, SizesAssumption DEF CreateThread, MoreToGrow, Slots
    <3>3. wpc' = [wpc EXCEPT ![mi] = "lock"] /\ wpc[mi] = "none"
      BY <1>0, <2>2, <3>2 DEF CreateThread
    <3> QED BY <1>0, <2>1, <3>2, <3>3
  <2>3. CASE SignalShrink
    BY <1>1, <2>1, <2>3 DEF SignalShrink
  <2>4. CASE ~CreateThread /\ ~SignalShrink
    <3>1. wpc' = wpc
      BY <1>4, <2>4 DEF manager, TestShutdown, SampleQueue, SampleBusy,
         BeginGrow, SkipEntry, EndGrow, SkipGrow, BeginShrink, EndRound
    <3> QED BY <2>1, <3>1
  <2> QED BY <2>2, <2>3, <2>4
<1>5. CASE (BeginDestroy /\ ownerFrame) \/ threadPoolDestroy
  <2>1. UNCHANGED <<todo, arg, task, queueVars, ppc>>
    BY <1>5 DEF threadPoolDestroy, ownerFrame, callerVars
  <2>2. wpc' = wpc \/ SignalNotEmpty
    BY <1>5 DEF threadPoolDestroy, BeginDestroy, JoinManager, FreePool,
       SignalDestroy
  <2> QED BY <1>1, <2>1, <2>2
<1>6. \A p \in Producers : threadPoolAdd(p) \/ WakeCaller(p) => callerFrame
  BY DEF threadPoolAdd, WakeCaller
<1> HIDE DEF Quiet
<1> QED BY <1>2, <1>3, <1>4, <1>5, <1>6 DEF Next

(* The step of the abstract queue that a step of the pool is.               *)
Simulated == PlaceInv' /\ [TQ!Next]_TQ!vars
AllTodo == todo \cup {t \in Tasks : Handed(t)}
AllHeld == {t \in Tasks : Held(t)}

LEMMA QuietSimulated ==
  ASSUME PlaceInv, Quiet
  PROVE  Simulated
<1>1. UNCHANGED Queue
  BY DEF Quiet, queueVars, Queue
<1>2. \A t : /\ Handed(t)' <=> Handed(t)
             /\ Queued(t)' <=> Queued(t)
             /\ Held(t)' <=> Held(t)
  BY <1>1 DEF Quiet, queueVars, Handed, Queued, Held
<1>3. PlaceInv'
  BY <1>1, <1>2 DEF Quiet, queueVars, PlaceInv, RearInv, HandsInv, OneWayInv,
     ApartInv, Apart, Single
<1>4. UNCHANGED TQ!vars
  BY <1>1 DEF Quiet, TQ!vars
<1> QED BY <1>3, <1>4 DEF Simulated

(* Held and Handed, when one of those who hold something changes it.        *)
LEMMA HeldGains ==
  ASSUME NEW S, NEW f \in [S -> Content], NEW i \in S, NEW t \in Tasks,
         f[i] = NoTask, NEW g, g = [f EXCEPT ![i] = t], NEW u \in Tasks
  PROVE  (\E j \in S : g[j] = u) <=> (\E j \in S : f[j] = u) \/ u = t
  BY NamesAssumption

LEMMA HeldLoses ==
  ASSUME NEW S, NEW f \in [S -> Content], NEW i \in S, f[i] \in Tasks,
         NEW g, g = [f EXCEPT ![i] = NoTask], NEW u \in Tasks,
         Apart(f, S)
  PROVE  (\E j \in S : g[j] = u) <=> (\E j \in S : f[j] = u) /\ u # f[i]
  BY NamesAssumption DEF Apart

(* A worker takes the oldest task.                                          *)
LEMMA TakeSimulated ==
  ASSUME IInv, TypeOK', PlaceInv, NEW i \in Slots, worker(i), Take(i)
  PROVE  Simulated
<1> DEFINE t == Head(Queue)
<1>0. TypeOK /\ RearInv /\ HandsInv /\ OneWayInv /\ ApartInv
  BY DEF IInv, PlaceInv
<1>1. /\ queueSize > 0 /\ queueSize' = queueSize - 1
      /\ queueFront' = NextIndex(queueFront)
      /\ task' = [task EXCEPT ![i] = taskQ[queueFront]]
      /\ wpc' = [wpc EXCEPT ![i] = "start"] /\ wpc[i] = "check"
      /\ UNCHANGED <<taskQ, queueRear, arg, todo>>
  BY DEF worker, Take, Goto
<1>2. Queue' = Tail(Queue)
  BY <1>0, <1>1, QueueTakes
<1>3. /\ \A u : Queued(u)' <=> Queued(u) /\ u # t
      /\ Single(Queue', queueSize') /\ Queued(t)
  BY <1>0, <1>1, <1>2, QueuedTakes DEF ApartInv
<1>4. t = taskQ[queueFront] /\ t \in Tasks /\ Queue # <<>>
  <2>1. t = taskQ[queueFront] /\ Queue # <<>>
    BY <1>0, <1>1, QueueSequence
  <2>2. taskQ[queueFront] \in Tasks \cup {NoTask}
    BY <1>0 DEF TypeOK
  <2> QED BY <1>0, <1>3, <2>1, <2>2 DEF HandsInv
<1>5. task[i] = NoTask
  BY <1>0, <1>1 DEF HandsInv
<1>6. \A u \in Tasks : /\ Handed(u)' <=> Handed(u)
                       /\ Held(u)' <=> Held(u) \/ u = t
  <2>1. task \in [Slots -> Content]
    BY <1>0 DEF TypeOK, Content
  <2>2. task' = [task EXCEPT ![i] = t]
    BY <1>1, <1>4
  <2>3. \A u \in Tasks : (\E j \in Slots : task'[j] = u)
                           <=> (\E j \in Slots : task[j] = u) \/ u = t
    BY <1>4, <1>5, <2>1, <2>2, HeldGains
  <2> QED BY <1>1, <2>3 DEF Handed, Held
<1>7. RearInv'
  <2>1. queueRear = Ring(NextIndex(queueFront), queueSize)
    <3>1. queueFront \in 0..QueueCapacity-1 /\ queueSize \in 1..QueueCapacity
      BY <1>0, <1>1, SizesAssumption DEF TypeOK
    <3> QED BY <1>0, <3>1, RingNext DEF RearInv
  <2>2. queueSize - 1 + 1 = queueSize
    BY <1>0, SizesAssumption DEF TypeOK
  <2> QED BY <1>1, <2>1, <2>2 DEF RearInv
<1>8. HandsInv'
  <2>1. \A p \in Producers : ppc'[p] = "idle" <=> ppc[p] = "idle"
    <3>1. ppc \in [Producers -> CallerPC]
      BY <1>0 DEF TypeOK
    <3>2. \/ UNCHANGED ppc
          \/ \E q \in Producers :
               ppc[q] = "blocked" /\ ppc' = [ppc EXCEPT ![q] = "woken"]
      BY <3>1 DEF Take, SignalNotFull, Signal, Blocked
    <3> QED BY <3>1, <3>2
  <2>2. \A j \in Slots : task'[j] # NoTask <=> wpc'[j] \in {"start", "run"}
    <3>1. task \in [Slots -> Content] /\ wpc \in [Slots -> WorkerPC]
      BY <1>0 DEF TypeOK, Content
    <3>2. task'[i] = t /\ wpc'[i] = "start" /\ t # NoTask
      BY <1>1, <1>4, <3>1, NamesAssumption
    <3>3. \A j \in Slots \ {i} : task'[j] = task[j] /\ wpc'[j] = wpc[j]
      BY <1>1, <3>1
    <3> QED BY <1>0, <3>2, <3>3 DEF HandsInv
  <2>3. ~Queued(NoTask)'
    BY <1>0, <1>3 DEF HandsInv
  <2>4. \A p \in Producers : arg'[p] = NoTask <=> ppc'[p] = "idle"
    BY <1>0, <1>1, <2>1 DEF HandsInv
  <2> QED BY <2>2, <2>3, <2>4 DEF HandsInv
<1>9. OneWayInv'
  BY <1>0, <1>1, <1>3, <1>4, <1>6 DEF OneWayInv
<1>10. ApartInv'
  <2>1. ~Held(t)
    BY <1>0, <1>3, <1>4 DEF OneWayInv
  <2>2. Apart(task', Slots)
    BY <1>0, <1>1, <1>4, <2>1 DEF ApartInv, Apart, Held, TypeOK
  <2> QED BY <1>0, <1>1, <1>3, <2>2 DEF ApartInv
<1>11. TQ!Take
  <2>1. AllTodo' = AllTodo
    BY <1>1, <1>6 DEF AllTodo
  <2>2. AllHeld' = AllHeld \cup {t}
    BY <1>4, <1>6 DEF AllHeld
  <2> QED
    BY <1>2, <1>4, <2>1, <2>2 DEF TQ!Take, AllTodo, AllHeld, Handed, Held
<1> QED
  BY <1>7, <1>8, <1>9, <1>10, <1>11 DEF Simulated, PlaceInv, TQ!Next

(* A task ends.                                                             *)
LEMMA EndSimulated ==
  ASSUME IInv, TypeOK', PlaceInv, NEW i \in Slots, EndTask(i)
  PROVE  Simulated
<1>0. TypeOK /\ RearInv /\ HandsInv /\ OneWayInv /\ ApartInv
  BY DEF IInv, PlaceInv
<1>1. /\ task' = [task EXCEPT ![i] = NoTask] /\ wpc[i] = "run"
      /\ \E to \in {"dead", "finish"} : wpc' = [wpc EXCEPT ![i] = to]
      /\ UNCHANGED <<queueVars, arg, todo, ppc>>
  BY DEF EndTask, Goto, callerVars
<1>2. UNCHANGED Queue /\ \A u : Queued(u)' <=> Queued(u)
  BY <1>1 DEF Queue, Queued, queueVars
<1>3. PICK t \in Tasks : t = task[i]
  BY <1>0, <1>1 DEF HandsInv, TypeOK
<1>4. \A u \in Tasks : /\ Handed(u)' <=> Handed(u)
                       /\ Held(u)' <=> Held(u) /\ u # t
  <2>1. task \in [Slots -> Content]
    BY <1>0 DEF TypeOK, Content
  <2>2. \A u \in Tasks : (\E j \in Slots : task'[j] = u)
                           <=> (\E j \in Slots : task[j] = u) /\ u # t
    <3>1. Apart(task, Slots)
      BY <1>0 DEF ApartInv
    <3>2. task' = [task EXCEPT ![i] = NoTask] /\ task[i] \in Tasks
      BY <1>1, <1>3
    <3> QED BY <1>3, <2>1, <3>1, <3>2, HeldLoses
  <2> QED BY <1>1, <2>2 DEF Handed, Held
<1>5. RearInv' /\ HandsInv'
  BY <1>0, <1>1, <1>2 DEF RearInv, HandsInv, queueVars, TypeOK
<1>6. OneWayInv'
  BY <1>0, <1>1, <1>2, <1>4 DEF OneWayInv
<1>7. ApartInv'
  <2>1. Single(Queue', queueSize')
    BY <1>0, <1>1, <1>2 DEF ApartInv, Single, queueVars
  <2> QED BY <1>0, <1>1, <2>1 DEF ApartInv, Apart, TypeOK
<1>8. TQ!Finish(t)
  <2>1. AllTodo' = AllTodo
    BY <1>1, <1>4 DEF AllTodo
  <2>2. AllHeld' = AllHeld \ {t} /\ t \in AllHeld
    BY <1>3, <1>4 DEF AllHeld, Held
  <2> QED
    BY <1>2, <2>1, <2>2 DEF TQ!Finish, AllTodo, AllHeld, Handed, Held
<1>9. [TQ!Next]_TQ!vars
  BY <1>3, <1>8 DEF TQ!Next
<1> QED BY <1>5, <1>6, <1>7, <1>9 DEF Simulated, PlaceInv

(* A caller's task enters the queue, or is turned away.                     *)
LEMMA AddSimulated ==
  ASSUME IInv, TypeOK', PlaceInv, NEW p \in Producers, Add(p), callerFrame
  PROVE  Simulated
<1>0. TypeOK /\ RearInv /\ HandsInv /\ OneWayInv /\ ApartInv
  BY DEF IInv, PlaceInv
<1>1. /\ queueSize < QueueCapacity /\ queueSize' = queueSize + 1
      /\ queueRear' = NextIndex(queueRear)
      /\ taskQ' = [taskQ EXCEPT ![queueRear] = arg[p]]
      /\ arg' = [arg EXCEPT ![p] = NoTask]
      /\ ppc' = [ppc EXCEPT ![p] = "idle"] /\ ppc[p] = "check"
      /\ UNCHANGED <<queueFront, task, todo>>
  BY <1>0, SizesAssumption DEF Add, QueueFull, CallerGoto, callerFrame, TypeOK
<1>2. PICK t \in Tasks : t = arg[p]
  BY <1>0, <1>1 DEF HandsInv, TypeOK
<1>3. Queue' = Append(Queue, t)
  BY <1>0, <1>1, <1>2, QueueAdds DEF RearInv, Content
<1>4. ~Queued(t) /\ ~Held(t) /\ t \notin todo
  BY <1>0, <1>2 DEF OneWayInv, Handed
<1>5. (\A u : Queued(u)' <=> Queued(u) \/ u = t) /\ Single(Queue', queueSize')
  BY <1>0, <1>1, <1>2, <1>3, <1>4, QueuedAdds DEF ApartInv, Content
<1>6. \A u \in Tasks : /\ Handed(u)' <=> Handed(u) /\ u # t
                       /\ Held(u)' <=> Held(u)
  <2>1. arg \in [Producers -> Content]
    BY <1>0 DEF TypeOK, Content
  <2>2. \A u \in Tasks : (\E q \in Producers : arg'[q] = u)
                           <=> (\E q \in Producers : arg[q] = u) /\ u # t
    <3>1. Apart(arg, Producers)
      BY <1>0 DEF ApartInv
    <3>2. arg' = [arg EXCEPT ![p] = NoTask] /\ arg[p] \in Tasks
      BY <1>1, <1>2
    <3> QED BY <1>2, <2>1, <3>1, <3>2, HeldLoses
  <2> QED BY <1>1, <2>2 DEF Handed, Held
<1>7. RearInv'
  <2>1. queueFront \in 0..QueueCapacity-1 /\ queueSize+1 \in 1..QueueCapacity
    BY <1>0, <1>1, SizesAssumption DEF TypeOK
  <2> QED BY <1>0, <1>1, <2>1, RingNext DEF RearInv
<1>8. HandsInv'
  <2>1. \A i \in Slots : wpc'[i] \in {"start", "run"}
                           <=> wpc[i] \in {"start", "run"}
    BY <1>0 DEF Add, SignalNotEmpty, Signal, Blocked, TypeOK
  <2>2. \A q \in Producers : arg'[q] = NoTask <=> ppc'[q] = "idle"
    BY <1>0, <1>1 DEF HandsInv, TypeOK
  <2> QED BY <1>0, <1>1, <1>5, <2>1, <2>2, NamesAssumption DEF HandsInv
<1>9. OneWayInv'
  <2>1. \A u \in Tasks : (Handed(u) \/ u = t => ~Held(u))
    BY <1>0, <1>4 DEF OneWayInv
  <2> QED BY <1>0, <1>1, <1>4, <1>5, <1>6, <2>1 DEF OneWayInv
<1>10. ApartInv'
  BY <1>0, <1>1, <1>5 DEF ApartInv, Apart, TypeOK
<1>11. TQ!Submit(t)
  <2>1. AllTodo' = AllTodo \ {t} /\ t \in AllTodo
    BY <1>1, <1>2, <1>4, <1>6 DEF AllTodo, Handed
  <2>2. AllHeld' = AllHeld
    BY <1>6 DEF AllHeld
  <2>3. Len(Queue) < QueueCapacity
    BY <1>0, <1>1, QueueSequence
  <2> QED
    BY <1>3, <2>1, <2>2, <2>3 DEF TQ!Submit, AllTodo, AllHeld, Handed, Held
<1>12. [TQ!Next]_TQ!vars
  BY <1>11 DEF TQ!Next
<1> QED BY <1>7, <1>8, <1>9, <1>10, <1>12 DEF Simulated, PlaceInv

LEMMA GiveUpSimulated ==
  ASSUME IInv, TypeOK', PlaceInv, NEW p \in Producers, GiveUp(p), callerFrame
  PROVE  Simulated
<1>0. TypeOK /\ RearInv /\ HandsInv /\ OneWayInv /\ ApartInv
  BY DEF IInv, PlaceInv
<1>1. /\ arg' = [arg EXCEPT ![p] = NoTask]
      /\ ppc' = [ppc EXCEPT ![p] = "idle"] /\ ppc[p] = "check"
      /\ UNCHANGED <<queueVars, wpc, task, todo>>
  BY DEF GiveUp, CallerGoto, callerFrame
<1>2. PICK t \in Tasks : t = arg[p]
  BY <1>0, <1>1 DEF HandsInv, TypeOK
<1>3. UNCHANGED Queue /\ \A u : Queued(u)' <=> Queued(u)
  BY <1>1 DEF Queue, Queued, queueVars
<1>4. ~Queued(t) /\ ~Held(t) /\ t \notin todo
  BY <1>0, <1>2 DEF OneWayInv, Handed
<1>5. \A u \in Tasks : /\ Handed(u)' <=> Handed(u) /\ u # t
                       /\ Held(u)' <=> Held(u)
  <2>1. arg \in [Producers -> Content]
    BY <1>0 DEF TypeOK, Content
  <2>2. \A u \in Tasks : (\E q \in Producers : arg'[q] = u)
                           <=> (\E q \in Producers : arg[q] = u) /\ u # t
    <3>1. Apart(arg, Producers)
      BY <1>0 DEF ApartInv
    <3>2. arg' = [arg EXCEPT ![p] = NoTask] /\ arg[p] \in Tasks
      BY <1>1, <1>2
    <3> QED BY <1>2, <2>1, <3>1, <3>2, HeldLoses
  <2> QED BY <1>1, <2>2 DEF Handed, Held
<1>6. RearInv' /\ HandsInv'
  BY <1>0, <1>1, <1>3 DEF RearInv, HandsInv, queueVars, TypeOK
<1>7. OneWayInv'
  BY <1>0, <1>1, <1>3, <1>5 DEF OneWayInv
<1>8. ApartInv'
  <2>1. Single(Queue', queueSize')
    BY <1>0, <1>1, <1>3 DEF ApartInv, Single, queueVars
  <2> QED BY <1>0, <1>1, <2>1 DEF ApartInv, Apart, TypeOK
<1>9. TQ!Refuse(t)
  <2>1. AllTodo' = AllTodo \ {t} /\ t \in AllTodo
    BY <1>1, <1>2, <1>4, <1>5 DEF AllTodo, Handed
  <2>2. AllHeld' = AllHeld
    BY <1>5 DEF AllHeld
  <2> QED
    BY <1>3, <2>1, <2>2 DEF TQ!Refuse, AllTodo, AllHeld, Handed, Held
<1>10. [TQ!Next]_TQ!vars
  BY <1>9 DEF TQ!Next
<1> QED BY <1>6, <1>7, <1>8, <1>10 DEF Simulated, PlaceInv

(* A caller takes up a task: the abstract queue does not see it.            *)
LEMMA CallSimulated ==
  ASSUME IInv, TypeOK', PlaceInv, NEW p \in Producers, NEW t \in Tasks,
         Call(p, t), callerFrame
  PROVE  Simulated
<1>0. TypeOK /\ RearInv /\ HandsInv /\ OneWayInv /\ ApartInv
  BY DEF IInv, PlaceInv
<1>1. /\ arg' = [arg EXCEPT ![p] = t]
      /\ ppc' = [ppc EXCEPT ![p] = "check"] /\ ppc[p] = "idle"
      /\ t \in todo /\ todo' = todo \ {t}
      /\ UNCHANGED <<queueVars, wpc, task>>
  BY DEF Call, CallerGoto, callerFrame
<1>2. UNCHANGED Queue /\ \A u : Queued(u)' <=> Queued(u)
  BY <1>1 DEF Queue, Queued, queueVars
<1>3. ~Queued(t) /\ ~Held(t) /\ ~Handed(t)
  BY <1>0, <1>1 DEF OneWayInv
<1>4. \A u \in Tasks : /\ Handed(u)' <=> Handed(u) \/ u = t
                       /\ Held(u)' <=> Held(u)
  <2>1. arg \in [Producers -> Content] /\ arg[p] = NoTask
    BY <1>0, <1>1 DEF TypeOK, Content, HandsInv
  <2>2. \A u \in Tasks : (\E q \in Producers : arg'[q] = u)
                           <=> (\E q \in Producers : arg[q] = u) \/ u = t
    <3>1. arg' = [arg EXCEPT ![p] = t]
      BY <1>1
    <3> QED BY <2>1, <3>1, HeldGains
  <2> QED BY <1>1, <2>2 DEF Handed, Held
<1>5. RearInv' /\ HandsInv'
  BY <1>0, <1>1, <1>2, NamesAssumption
  DEF RearInv, HandsInv, queueVars, TypeOK
<1>6. OneWayInv'
  BY <1>0, <1>1, <1>2, <1>3, <1>4 DEF OneWayInv
<1>7. ApartInv'
  <2>1. Single(Queue', queueSize')
    BY <1>0, <1>1, <1>2 DEF ApartInv, Single, queueVars
  <2>2. Apart(arg', Producers)
    BY <1>0, <1>1, <1>3 DEF ApartInv, Apart, TypeOK, Handed
  <2> QED BY <1>0, <1>1, <2>1, <2>2 DEF ApartInv
<1>8. UNCHANGED TQ!vars
  <2>1. AllTodo' = AllTodo
    BY <1>1, <1>4 DEF AllTodo
  <2>2. AllHeld' = AllHeld
    BY <1>4 DEF AllHeld
  <2> QED BY <1>2, <2>1, <2>2 DEF TQ!vars, AllTodo, AllHeld, Handed, Held
<1> QED BY <1>5, <1>6, <1>7, <1>8 DEF Simulated, PlaceInv

(* The ring buffer, its two conditions and its callers implement TaskQueue, *)
(* for any number of workers and callers and any capacity: no task is lost, *)
(* taken twice or overtaken, and only a pool shutting down refuses one.     *)
THEOREM QueueImplemented == Spec => QueueSpec
<1>1. Init => TQ!Init
  <2> SUFFICES ASSUME Init PROVE TQ!Init
    OBVIOUS
  <2>1. TypeOK /\ queueSize = 0
    BY InitInv DEF Init, IInv
  <2>2. Queue = <<>>
    BY <2>1, QueueSequence
  <2>3. todo = Tasks /\ \A t \in Tasks : \A i \in Slots : task[i] # t
    BY NamesAssumption DEF Init
  <2> QED BY <2>2, <2>3 DEF TQ!Init
<1>2. IInv /\ IInv' /\ PlaceInv /\ [Next]_vars => Simulated
  <2> SUFFICES ASSUME IInv, IInv', PlaceInv, [Next]_vars PROVE Simulated
    OBVIOUS
  <2>0. TypeOK'
    BY DEF IInv
  <2>1. CASE Quiet
    BY <2>1, QuietSimulated
  <2>2. CASE UNCHANGED vars
    BY <2>2, QuietSimulated DEF vars, Quiet, callerVars, workerVars
  <2>3. CASE \E i \in Slots : Take(i) /\ worker(i)
    BY <2>0, <2>3, TakeSimulated
  <2>4. CASE \E i \in Slots : EndTask(i)
    BY <2>0, <2>4, EndSimulated
  <2>5. CASE \E p \in Producers : (Add(p) \/ GiveUp(p)) /\ callerFrame
    BY <2>0, <2>5, AddSimulated, GiveUpSimulated
  <2>6. CASE \E p \in Producers, t \in Tasks : Call(p, t) /\ callerFrame
    BY <2>0, <2>6, CallSimulated
  <2> QED BY <2>1, <2>2, <2>3, <2>4, <2>5, <2>6, MovesOneTask
<1> QED
  BY <1>1, <1>2, Inductive, InitPlace, PTL
  DEF Spec, QueueSpec, TQ!Spec, Simulated
=============================================================================
