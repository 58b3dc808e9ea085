------------------------- MODULE BlockHandoffProofs -------------------------
(***************************************************************************)
(* The hand-off of block headers, for any number of them: what holds at    *)
(* any moment between the receiver and the threads it starts, and that the *)
(* hand-off is a place for one header.  ChatClientProofs carries this over *)
(* to the client.                                                          *)
(***************************************************************************)
EXTENDS BlockHandoff, FiniteSetTheorems, TLAPS

(* The last thread that was started. *)
Last == IF rpc = "recv" THEN arrived ELSE arrived - 1
(* The place is free unless that thread has still to take its header. *)
Idle == Last = 0 \/ tpc[Last] = "started"

(* Threads take their headers in the order in which they were started: only *)
(* the last one may still be busy.                                          *)
InOrder ==
  /\ rpc # "recv" => arrived > 0
  /\ \A k \in Threads : /\ k > Last => tpc[k] = "none"
                        /\ k < Last => tpc[k] = "started"
                        /\ k = Last => tpc[k] # "none"

(* What the semaphores stand for: free, and full. *)
Semaphores ==
  /\ sem[0] = 1 <=> rpc \notin {"copy", "post", "create"} /\ Idle
  /\ rpc \in {"copy", "post", "create"} => Idle
  /\ sem[1] = 1 <=> rpc = "create" \/ (Last > 0 /\ tpc[Last] = "wait")

(* Whose header is in omsg, and who has his own. *)
Contents ==
  /\ omsg = IF rpc \in {"wait", "copy"} THEN arrived - 1 ELSE arrived
  /\ \A k \in Threads :
       copied[k] = IF tpc[k] \in {"post", "started"} THEN k ELSE 0

HandoffInv == TypeOK /\ InOrder /\ Semaphores /\ Contents

-----------------------------------------------------------------------------
LEMMA InitHandoff == ASSUME Headers \in Nat PROVE Init => HandoffInv
  BY DEF Init, HandoffInv, TypeOK, InOrder, Semaphores, Contents, Last, Idle,
         Threads

LEMMA ReceiverHandoff ==
  ASSUME Headers \in Nat, HandoffInv, Receiver PROVE HandoffInv'
<1> USE DEF HandoffInv, TypeOK, InOrder, Semaphores, Contents, Last, Idle,
            Threads, ReceiverGoes, SemWait, SemPost
<1>1. CASE Arrive BY <1>1 DEF Arrive
<1>2. CASE WaitFree BY <1>2 DEF WaitFree
<1>3. CASE CopyIn BY <1>3 DEF CopyIn
<1>4. CASE PostFull BY <1>4 DEF PostFull
<1>5. CASE CreateThread BY <1>5 DEF CreateThread
<1> QED BY <1>1, <1>2, <1>3, <1>4, <1>5 DEF Receiver

LEMMA ThreadHandoff ==
  ASSUME Headers \in Nat, HandoffInv, NEW k \in Threads, recv_file(k)
  PROVE  HandoffInv'
<1> USE DEF HandoffInv, TypeOK, InOrder, Semaphores, Contents, Last, Idle,
            Threads, ThreadGoes, SemWait, SemPost
<1>1. CASE WaitFull(k) BY <1>1 DEF WaitFull
<1>2. CASE CopyOut(k) BY <1>2 DEF CopyOut
<1>3. CASE PostFree(k) BY <1>3 DEF PostFree
<1> QED BY <1>1, <1>2, <1>3 DEF recv_file

(* The invariant is inductive. *)
LEMMA NextHandoff ==
  ASSUME Headers \in Nat PROVE HandoffInv /\ [Next]_vars => HandoffInv'
<1> SUFFICES ASSUME HandoffInv, [Next]_vars PROVE HandoffInv'
  OBVIOUS
<1>1. CASE Receiver BY <1>1, ReceiverHandoff
<1>2. CASE \E k \in Threads : recv_file(k) BY <1>2, ThreadHandoff
<1>3. CASE UNCHANGED vars
  BY <1>3 DEF HandoffInv, TypeOK, InOrder, Semaphores, Contents, Last, Idle, vars
<1> QED BY <1>1, <1>2, <1>3 DEF Next
-----------------------------------------------------------------------------
LEMMA HandoffSafe == HandoffInv => TypeOK /\ OneCopies /\ OwnHeader
<1> SUFFICES ASSUME HandoffInv PROVE OneCopies /\ OwnHeader
  BY DEF HandoffInv
<1>1. OneCopies
  BY DEF HandoffInv, TypeOK, InOrder, Semaphores, Contents, Last, Idle,
         Threads, OneCopies
<1>2. OwnHeader
  BY DEF HandoffInv, Contents, OwnHeader
<1> QED BY <1>1, <1>2

(* How many headers were put into omsg, and how many of them were taken.    *)
PutCount == IF rpc \in {"wait", "copy"} THEN arrived - 1 ELSE arrived
TakenCount == IF Idle THEN Last
              ELSE IF tpc[Last] = "post" THEN Last ELSE Last - 1

(* The threads that have a header are those up to TakenCount. *)
LEMMA TakenIs ==
  ASSUME Headers \in Nat
  PROVE  HandoffInv => Cardinality({k \in Threads : copied[k] # 0}) = TakenCount
<1> SUFFICES ASSUME HandoffInv
             PROVE  Cardinality({k \in Threads : copied[k] # 0}) = TakenCount
  OBVIOUS
<1> DEFINE T == {k \in Threads : copied[k] # 0}
<1>1. TakenCount \in Nat /\ T = 1..TakenCount
  BY DEF HandoffInv, TypeOK, InOrder, Contents, Last, Idle, Threads, TakenCount
<1>2. Cardinality(1..TakenCount) = TakenCount
  BY <1>1, FS_Interval
<1> QED BY <1>1, <1>2

(* The hand-off begins as an empty place. *)
LEMMA InitPlace == ASSUME Headers \in Nat PROVE Init => Place!Init
<1> SUFFICES ASSUME Init PROVE PutCount = 0 /\ TakenCount = 0
  BY InitHandoff, TakenIs DEF Place!Init, PutCount
<1> QED BY DEF Init, PutCount, TakenCount, Idle, Last

(* A step of the receiver puts a header or does nothing to the place; the   *)
(* place was empty then.                                                    *)
LEMMA ReceiverPlace ==
  ASSUME Headers \in Nat, HandoffInv, Receiver
  PROVE  /\ TakenCount' = TakenCount
         /\ PutCount' = PutCount \/ (PutCount = TakenCount /\ PutCount' = PutCount + 1)
<1> USE DEF HandoffInv, TypeOK, InOrder, Semaphores, Contents, Last, Idle,
            Threads, ReceiverGoes, SemWait, SemPost, PutCount, TakenCount
<1>1. CASE Arrive BY <1>1 DEF Arrive
<1>2. CASE WaitFree BY <1>2 DEF WaitFree
<1>3. CASE CopyIn BY <1>3 DEF CopyIn
<1>4. CASE PostFull BY <1>4 DEF PostFull
<1>5. CASE CreateThread BY <1>5 DEF CreateThread
<1> QED BY <1>1, <1>2, <1>3, <1>4, <1>5 DEF Receiver

(* A step of a thread takes the header or does nothing to the place. *)
LEMMA ThreadPlace ==
  ASSUME Headers \in Nat, HandoffInv, NEW k \in Threads, recv_file(k)
  PROVE  /\ PutCount' = PutCount
         /\ \/ TakenCount' = TakenCount
            \/ TakenCount < PutCount /\ TakenCount' = TakenCount + 1
<1> USE DEF HandoffInv, TypeOK, InOrder, Semaphores, Contents, Last, Idle,
            Threads, ThreadGoes, SemWait, SemPost, PutCount, TakenCount
<1>1. CASE WaitFull(k) BY <1>1 DEF WaitFull
<1>2. CASE CopyOut(k) BY <1>2 DEF CopyOut
<1>3. CASE PostFree(k) BY <1>3 DEF PostFree
<1> QED BY <1>1, <1>2, <1>3 DEF recv_file

(* Every step of the hand-off is a step of the place, or none. *)
LEMMA NextPlace ==
  ASSUME Headers \in Nat
  PROVE  HandoffInv /\ HandoffInv' /\ [Next]_vars
           => [Place!Next]_<<PutCount, Cardinality({k \in Threads : copied[k] # 0})>>
<1> DEFINE T == Cardinality({k \in Threads : copied[k] # 0})
<1>1. HandoffInv => T = TakenCount BY TakenIs
<1>2. (HandoffInv => T = TakenCount)' BY <1>1, PTL
<1> SUFFICES ASSUME HandoffInv, HandoffInv', [Next]_vars
             PROVE  [Place!Next]_<<PutCount, T>>
  OBVIOUS
<1> USE <1>1, <1>2 DEF Place!Next, Place!Put, Place!Take
<1> HIDE DEF T
<1>3. CASE Receiver
  <2>1. TakenCount' = TakenCount /\ (PutCount' = PutCount
          \/ (PutCount = TakenCount /\ PutCount' = PutCount + 1))
    BY <1>3, ReceiverPlace
  <2> QED BY <2>1 DEF PutCount, T
<1>4. CASE \E k \in Threads : recv_file(k) BY <1>4, ThreadPlace DEF PutCount, T
<1>5. CASE UNCHANGED vars
  BY <1>5 DEF vars, T, PutCount
<1> QED BY <1>3, <1>4, <1>5 DEF Next
=============================================================================
