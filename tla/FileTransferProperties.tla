----------------------- MODULE FileTransferProperties -----------------------
(***************************************************************************)
(* What a transfer owes to its sender and its receiver.                    *)
(***************************************************************************)
EXTENDS FileTransfer

(* What the variables hold; the entries of find_cfd in use are within its   *)
(* bounds, and are open connections whose handler has gone back to recv.    *)
TypeOK ==
  /\ spc \in [Clients -> {"idle", "asked", "idwait", "woken"}]
  /\ file \in [Clients -> {0} \cup Transfers] /\ mbegin \in [Clients -> {0} \cup Transfers]
  /\ sfile_id \in [Clients -> Ids] /\ hid \in [Clients -> Ids] /\ addr \subseteq Ids
  /\ hpc \in [Clients -> {"idle", "find", "take", "reply", "prepare"}]
  /\ gconn \in [Clients -> SUBSET Ids]
  /\ tpc \in [AllBlocks -> {"none", "connect", "opened", "sent"}]
  /\ id \in [AllBlocks -> Ids]
  /\ rpc \in [AllBlocks -> {"none", "connect", "opened", "mapped", "unmapped",
                            "stored", "failed"}]
  /\ \A h \in AllBlocks : {data[h], got[h]} \subseteq (Transfers \X Nat) \cup {None}
  /\ size \in [Clients -> Nat] /\ free \in Nat
  /\ s5 \in [AllBlocks -> {"none", "tell", "scan", "relay", "end"}]
  /\ r5 \in [AllBlocks -> {"none", "store", "read", "closed"}]
  /\ find_cfd \subseteq {h \in AllBlocks : r5[h] = "read"}
  /\ Cardinality(find_cfd) <= Slots
  /\ sofd \in [AllBlocks -> AllBlocks \cup {None}]

(* Handlers scan find_cfd at the same time, and two blocks of two transfers *)
(* have the same offset: still a connection is taken by one handler only.   *)
OneRelay ==
  \A g, h \in AllBlocks : g # h /\ sofd[g] # None => sofd[g] # sofd[h]

(* What is stored as block b is block b of some file.                       *)
OffsetKept == \A h \in AllBlocks : got[h] # None => got[h][2] = h[2]

(* A handler waits for its block's connection while that connection waits   *)
(* for a worker.                                                            *)
Starved == queue # <<>> /\ free = 0

(* In the end every block that was sent is with the thread that stores it,  *)
(* or that thread failed: no pairing, slot or hand-over blocks for ever,    *)
(* unless there are too few threads for the two connections of each block.  *)
BlockArrives ==
  <>[](Starved \/ \A h \in AllBlocks :
                    tpc[h] = "none" \/ rpc[h] \in {"stored", "failed"})

(* What a recv_file thread stores is the block it was started for: of its   *)
(* own transfer, from the file its sender named.                            *)
RightBlock == \A h \in AllBlocks : got[h] \in {None, h}
=============================================================================
