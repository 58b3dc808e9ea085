---------------------------- MODULE BlockHandoff ----------------------------
(***************************************************************************)
(* client/work/work.c: how the receiver thread gives the header of a block *)
(* to the recv_file thread it starts for it.  The header is copied to a    *)
(* local variable of case 5, omsg, whose address is the argument of every  *)
(* recv_file thread; two semaphores say when it may be written (sem[0])    *)
(* and when it may be read (sem[1]).                                       *)
(***************************************************************************)
EXTENDS Integers, FiniteSets

CONSTANT Headers      (* how many headers arrive in this instance: a number *)

Threads == 1..Headers  (* thread k is the one started for header k *)

VARIABLES
  sem,                (* the two semaphores of init_sem                *)
  arrived,            (* headers received, and the number of the last  *)
  omsg,               (* the header in the local variable              *)
  rpc,                (* where the receiver is; "recv": not in case 5  *)
  tpc, copied         (* recv_file threads, and the header each copied *)

vars == <<sem, arrived, omsg, rpc, tpc, copied>>

(* Slip: init_sem with both semaphores at 1. *)
InitBothPosted ==
  /\ sem = [i \in {0, 1} |-> 1]
  /\ arrived = 0 /\ omsg = 0 /\ rpc = "recv"
  /\ tpc = [k \in Threads |-> "none"] /\ copied = [k \in Threads |-> 0]
Init ==
  /\ sem = [i \in {0, 1} |-> 1 - i]
  /\ arrived = 0 /\ omsg = 0 /\ rpc = "recv"
  /\ tpc = [k \in Threads |-> "none"] /\ copied = [k \in Threads |-> 0]

SemWait(i) == sem[i] > 0 /\ sem' = [sem EXCEPT ![i] = @ - 1]
SemPost(i) == sem' = [sem EXCEPT ![i] = @ + 1]

-----------------------------------------------------------------------------
(* The receiver: case 5 of thread_read.                                     *)

ReceiverGoes(from, to) == rpc = from /\ rpc' = to

Arrive ==
  /\ ReceiverGoes("recv", "wait")
  /\ arrived < Headers /\ arrived' = arrived + 1
  /\ UNCHANGED <<sem, omsg, tpc, copied>>

(* Slip: no sem_wait before the header is written. *)
WaitFreeNot ==
  /\ ReceiverGoes("wait", "copy")
  /\ UNCHANGED <<sem, arrived, omsg, tpc, copied>>
WaitFree ==
  /\ ReceiverGoes("wait", "copy") /\ SemWait(0)
  /\ UNCHANGED <<arrived, omsg, tpc, copied>>

(* memcpy; while rpc = "copy" omsg is being written *)
CopyIn ==
  /\ ReceiverGoes("copy", "post") /\ omsg' = arrived
  /\ UNCHANGED <<sem, arrived, tpc, copied>>

(* Slip: the wrong semaphore. *)
PostFullWrong ==
  /\ ReceiverGoes("post", "create") /\ SemPost(0)
  /\ UNCHANGED <<arrived, omsg, tpc, copied>>
PostFull ==
  /\ ReceiverGoes("post", "create") /\ SemPost(1)
  /\ UNCHANGED <<arrived, omsg, tpc, copied>>

CreateThread ==
  /\ ReceiverGoes("create", "recv")
  /\ tpc' = [tpc EXCEPT ![arrived] = "wait"]
  /\ UNCHANGED <<sem, arrived, omsg, copied>>

Receiver == Arrive \/ WaitFree \/ CopyIn \/ PostFull \/ CreateThread

-----------------------------------------------------------------------------
(* A recv_file thread, up to its connection to the server.                  *)

ThreadGoes(k, from, to) == tpc[k] = from /\ tpc' = [tpc EXCEPT ![k] = to]

(* Slip: sem[0] is posted before the header is copied. *)
WaitFullEarlyPost(k) ==
  /\ ThreadGoes(k, "wait", "copy")
  /\ sem[1] > 0 /\ sem' = [sem EXCEPT ![0] = 1, ![1] = @ - 1]
  /\ UNCHANGED <<arrived, omsg, rpc, copied>>
WaitFull(k) ==
  /\ ThreadGoes(k, "wait", "copy") /\ SemWait(1)
  /\ UNCHANGED <<arrived, omsg, rpc, copied>>

(* memcpy; while tpc[k] = "copy" omsg is being read *)
CopyOut(k) ==
  /\ ThreadGoes(k, "copy", "post") /\ copied' = [copied EXCEPT ![k] = omsg]
  /\ UNCHANGED <<sem, arrived, omsg, rpc>>

PostFree(k) ==
  /\ ThreadGoes(k, "post", "started") /\ SemPost(0)
  /\ UNCHANGED <<arrived, omsg, rpc, copied>>

recv_file(k) == WaitFull(k) \/ CopyOut(k) \/ PostFree(k)

Next == Receiver \/ \E k \in Threads : recv_file(k)

Spec == Init /\ [][Next]_vars

-----------------------------------------------------------------------------
(* What the variables hold. *)
TypeOK ==
  /\ sem \in [{0, 1} -> {0, 1}] /\ arrived \in 0..Headers /\ omsg \in 0..Headers
  /\ rpc \in {"recv", "wait", "copy", "post", "create"}
  /\ tpc \in [Threads -> {"none", "wait", "copy", "post", "started"}]
  /\ copied \in [Threads -> 0..Headers]

(* Threads share the address of omsg, and a thread may start late: still    *)
(* nobody reads omsg while the receiver writes it or another thread reads.  *)
OneCopies ==
  \A k \in Threads : tpc[k] = "copy" =>
    rpc # "copy" /\ \A j \in Threads \ {k} : tpc[j] # "copy"

(* A recv_file thread works on the header it was started for: none is taken *)
(* twice, none is overwritten before it is taken.                           *)
OwnHeader == \A k \in Threads : tpc[k] \in {"post", "started"} => copied[k] = k

(* The semaphores and the shared variable are a place for one header. *)
Place == INSTANCE OnePlace WITH
           put <- IF rpc \in {"wait", "copy"} THEN arrived - 1 ELSE arrived,
           taken <- Cardinality({k \in Threads : copied[k] # 0})
PlaceSpec == Place!Spec
=============================================================================
