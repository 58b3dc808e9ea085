---------------------------- MODULE FileTransfer ----------------------------
(***************************************************************************)
(* A file from one client to another: send_file, send_filedata, recv_file  *)
(* and the receiver thread of client/work/work.c with cases 3, 5 and -5 of *)
(* the server's thread_read.  Each block has two connections of its own,   *)
(* one from the sender (action 5) and one from the receiver (action -5);   *)
(* each takes a thread of the pool, and find_cfd pairs them.               *)
(*                                                                         *)
(* A block is a pair <<t, b>>: block b of transfer t.  The threads and the *)
(* connections made for it are named by it.  Moving its bytes is one step  *)
(* here, and FileBlocks in detail; so is the hand-off of its header to a   *)
(* recv_file thread, BlockHandoff in detail.                               *)
(***************************************************************************)
EXTENDS Integers, Sequences, FiniteSets

CONSTANTS
  Clients,
  Sender, Receiver,     (* of transfer t; a sender offers its files in order *)
  Blocks,               (* the number of blocks of transfer t                *)
  Slots,                (* the entries of find_cfd that are used             *)
  Workers,              (* how many threads the pool may have left           *)
  Spurious              (* transfers whose wait may end without a signal     *)

Transfers == DOMAIN Blocks
AllBlocks == UNION {{t} \X (0..Blocks[t]-1) : t \in Transfers}
Ids == 0..Cardinality(Transfers)-1

ASSUME TransferAssumption ==
  /\ Transfers \subseteq Nat /\ IsFiniteSet(Transfers)
  /\ Sender \in [Transfers -> Clients] /\ Receiver \in [Transfers -> Clients]
  /\ \A t \in Transfers : Blocks[t] \in Nat
  /\ Slots \in Nat \ {0} /\ Workers \subseteq Nat
  /\ Spurious \subseteq Transfers

None == <<0, -1>>       (* no block; the file of transfer 0 is no file *)

VARIABLES
  spc, file, mbegin,    (* sender's main: where, its transfer, what it maps *)
  sfile_id,             (* the id of the last answer 3                      *)
  hpc, hid,             (* its handler: case 3, and the id it took          *)
  addr, inbox,          (* ids in use; main connections to the clients      *)
  gconn,                (* of each client: the ids with a mapped file       *)
  tpc, id, data,        (* send_filedata threads: where, sfile_id, what the *)
                        (* thread sends                                     *)
  rpc, got,             (* recv_file threads: where, what they were sent    *)
  copy, size,           (* the file "copy" of each client, block by block,  *)
                        (* and how many blocks long it is                   *)
  queue, free,          (* connections no worker has taken; workers left    *)
  s5, r5, find_cfd, sofd   (* handlers of action 5 and -5; the slots; the   *)
                           (* connection a handler of 5 has found           *)

senderVars == <<spc, file, mbegin, sfile_id>>
offerVars == <<hpc, hid, addr>>
sendVars == <<tpc, id, data>>
recvVars == <<rpc, got, copy, size>>
poolVars == <<queue, free>>
relayVars == <<s5, r5, find_cfd, sofd>>
vars == <<senderVars, offerVars, inbox, gconn, sendVars, recvVars, poolVars, relayVars>>

Init ==
  /\ spc = [c \in Clients |-> "idle"] /\ file = [c \in Clients |-> 0]
  /\ mbegin = [c \in Clients |-> 0] /\ sfile_id = [c \in Clients |-> 0]
  /\ hpc = [c \in Clients |-> "idle"] /\ hid = [c \in Clients |-> 0] /\ addr = {}
  /\ inbox = [c \in Clients |-> <<>>] /\ gconn = [c \in Clients |-> {}]
  /\ tpc = [h \in AllBlocks |-> "none"] /\ id = [h \in AllBlocks |-> 0]
  /\ data = [h \in AllBlocks |-> None]
  /\ rpc = [h \in AllBlocks |-> "none"] /\ got = [h \in AllBlocks |-> None]
  /\ copy = [c \in Clients |-> {}] /\ size = [c \in Clients |-> 0]
  /\ queue = <<>> /\ free \in Workers
  /\ s5 = [h \in AllBlocks |-> "none"] /\ r5 = [h \in AllBlocks |-> "none"]
  /\ find_cfd = {} /\ sofd = [h \in AllBlocks |-> None]

Goes(pc, x, from, to) == pc[x] = from /\ pc' = [pc EXCEPT ![x] = to]
Write(c, m) == inbox' = [inbox EXCEPT ![c] = Append(@, m)]
Msg(kind, i, h) == [kind |-> kind, id |-> i, block |-> h]

-----------------------------------------------------------------------------
(* send_file of the sender: the offer, the wait for the id, one thread for  *)
(* each block.  The threads are detached, so pthread_join does not wait.    *)

Offer(c, t) ==
  /\ Goes(spc, c, "idle", "asked") /\ Sender[t] = c
  /\ \A u \in Transfers : Sender[u] = c => (u <= file[c] <=> u < t)
  /\ file' = [file EXCEPT ![c] = t]
  /\ Goes(hpc, c, "idle", "find")
  /\ UNCHANGED <<mbegin, sfile_id, hid, addr, inbox, gconn, sendVars, recvVars,
                 poolVars, relayVars>>

WaitForId(c) ==
  /\ Goes(spc, c, "asked", "idwait")
  /\ UNCHANGED <<file, mbegin, sfile_id, offerVars, inbox, gconn, sendVars,
                 recvVars, poolVars, relayVars>>

(* The wait tests no condition: it may return without an answer, and the    *)
(* id is then that of the transfer before.                                  *)
SpuriousWake(c) ==
  /\ Goes(spc, c, "idwait", "woken") /\ file[c] \in Spurious
  /\ UNCHANGED <<file, mbegin, sfile_id, offerVars, inbox, gconn, sendVars,
                 recvVars, poolVars, relayVars>>

StartBlocks(c) ==
  /\ Goes(spc, c, "woken", "idle")
  /\ mbegin' = [mbegin EXCEPT ![c] = file[c]]
  /\ tpc' = [h \in AllBlocks |-> IF h[1] = file[c] THEN "connect" ELSE tpc[h]]
  /\ id' = [h \in AllBlocks |-> IF h[1] = file[c] THEN sfile_id[c] ELSE id[h]]
  /\ UNCHANGED <<file, sfile_id, offerVars, inbox, gconn, data, recvVars,
                 poolVars, relayVars>>

(* send_filedata: connects, sends the header, and only then looks where the *)
(* file is mapped; its data is under way when it ends.                      *)
SendHeader(h) ==
  /\ Goes(tpc, h, "connect", "opened")
  /\ queue' = Append(queue, [act |-> 5, block |-> h])
  /\ UNCHANGED <<senderVars, offerVars, inbox, gconn, id, data, recvVars, free,
                 relayVars>>

SendData(h) ==
  /\ Goes(tpc, h, "opened", "sent")
  /\ data' = [data EXCEPT ![h] = <<mbegin[Sender[h[1]]], h[2]>>]
  /\ UNCHANGED <<senderVars, offerVars, inbox, gconn, id, recvVars, poolVars,
                 relayVars>>

-----------------------------------------------------------------------------
(* Case 3 at the server, in the handler of the sender's main connection.    *)

FindAddr(c) ==
  /\ Goes(hpc, c, "find", "take")
  /\ \E i \in Ids : /\ i \notin addr /\ \A j \in 0..i-1 : j \in addr
                    /\ hid' = [hid EXCEPT ![c] = i]
  /\ UNCHANGED <<senderVars, addr, inbox, gconn, sendVars, recvVars, poolVars,
                 relayVars>>

TakeAddr(c) ==
  /\ Goes(hpc, c, "take", "reply")
  /\ addr' = addr \cup {hid[c]}
  /\ UNCHANGED <<senderVars, hid, inbox, gconn, sendVars, recvVars, poolVars,
                 relayVars>>

ReplyId(c) ==
  /\ Goes(hpc, c, "reply", "prepare")
  /\ Write(c, Msg(3, hid[c], None))
  /\ UNCHANGED <<senderVars, hid, addr, gconn, sendVars, recvVars, poolVars,
                 relayVars>>

Prepare(c) ==
  /\ Goes(hpc, c, "prepare", "idle")
  /\ Write(Receiver[file[c]], Msg(-3, hid[c], <<file[c], Blocks[file[c]]>>))
  /\ UNCHANGED <<senderVars, hid, addr, gconn, sendVars, recvVars, poolVars,
                 relayVars>>

(* find_fd does not find the receiver: the sender is told -2.               *)
Absent(c) ==
  /\ Goes(hpc, c, "find", "idle")
  /\ Write(c, Msg(-2, 0, None))
  /\ UNCHANGED <<senderVars, hid, addr, gconn, sendVars, recvVars, poolVars,
                 relayVars>>

-----------------------------------------------------------------------------
(* The receiver thread of a client.                                         *)

Receive(c, kind) ==
  inbox[c] # <<>> /\ Head(inbox[c]).kind = kind /\ inbox' = [inbox EXCEPT ![c] = Tail(@)]

(* Case 3: a signal that nobody waits for is lost. *)
FileId(c) ==
  /\ Receive(c, 3)
  /\ sfile_id' = [sfile_id EXCEPT ![c] = Head(inbox[c]).id]
  /\ spc' = [spc EXCEPT ![c] = IF @ = "idwait" THEN "woken" ELSE @]
  /\ UNCHANGED <<file, mbegin, offerVars, gconn, sendVars, recvVars, poolVars,
                 relayVars>>

(* Case -3: every transfer is mapped to the one file "copy", which gets the *)
(* length of the last of them.                                              *)
MapFile(c) ==
  /\ Receive(c, -3)
  /\ gconn' = [gconn EXCEPT ![c] = @ \cup {Head(inbox[c]).id}]
  /\ size' = [size EXCEPT ![c] = Head(inbox[c]).block[2]]
  /\ copy' = [copy EXCEPT ![c] = {x \in @ : x[2] < size'[c]}]
  /\ UNCHANGED <<senderVars, offerVars, sendVars, rpc, got, poolVars, relayVars>>

(* Case 5: a recv_file thread for the block. *)
Header(c) ==
  /\ Receive(c, 5)
  /\ rpc' = [rpc EXCEPT ![Head(inbox[c]).block] = "connect"]
  /\ UNCHANGED <<senderVars, offerVars, gconn, sendVars, got, copy, size,
                 poolVars, relayVars>>

NotOnline(c) ==
  /\ Receive(c, -2)
  /\ UNCHANGED <<senderVars, offerVars, gconn, sendVars, recvVars, poolVars,
                 relayVars>>

(* recv_file: connects and sends the header back as -5; where to write is   *)
(* fixed before anything is read.  With no mapping recv fails.              *)
RecvHeader(h) ==
  /\ Goes(rpc, h, "connect", "opened")
  /\ queue' = Append(queue, [act |-> -5, block |-> h])
  /\ UNCHANGED <<senderVars, offerVars, inbox, gconn, sendVars, got, copy, size,
                 free, relayVars>>

RecvBase(h) ==
  /\ \/ id[h] \in gconn[Receiver[h[1]]] /\ Goes(rpc, h, "opened", "mapped")
     \/ id[h] \notin gconn[Receiver[h[1]]] /\ Goes(rpc, h, "opened", "unmapped")
  /\ UNCHANGED <<senderVars, offerVars, inbox, gconn, sendVars, got, copy, size,
                 poolVars, relayVars>>

(* Past the end of the file a mapping cannot be written: recv fails.        *)
RecvData(h) ==
  /\ got[h] # None
  /\ \/ /\ h[2] < size[Receiver[h[1]]] /\ Goes(rpc, h, "mapped", "stored")
        /\ copy' = [copy EXCEPT ![Receiver[h[1]]] =
                      {x \in @ : x[2] # h[2]} \cup {got[h]}]
     \/ /\ h[2] >= size[Receiver[h[1]]] /\ Goes(rpc, h, "mapped", "failed")
        /\ UNCHANGED copy
     \/ Goes(rpc, h, "unmapped", "failed") /\ UNCHANGED copy
  /\ UNCHANGED <<senderVars, offerVars, inbox, gconn, sendVars, got, size,
                 poolVars, relayVars>>

-----------------------------------------------------------------------------
(* The handlers of the connections for blocks.  A worker takes the oldest   *)
(* connection.  None comes back: thread_read ends its thread (ThreadPool).  *)

Take ==
  /\ queue # <<>> /\ free > 0 /\ queue' = Tail(queue) /\ free' = free - 1
  /\ LET h == Head(queue).block IN
       \/ Head(queue).act = 5 /\ Goes(s5, h, "none", "tell") /\ UNCHANGED r5
       \/ Head(queue).act = -5 /\ Goes(r5, h, "none", "store") /\ UNCHANGED s5
  /\ UNCHANGED <<senderVars, offerVars, inbox, gconn, sendVars, recvVars,
                 find_cfd, sofd>>

(* Slip: no write to find_fd. *)
TellReceiverNot(h) ==
  /\ Goes(s5, h, "tell", "scan")
  /\ UNCHANGED <<senderVars, offerVars, inbox, gconn, sendVars, recvVars, poolVars,
                 r5, find_cfd, sofd>>

(* Case 5: the header goes to the receiver's main connection. *)
TellReceiver(h) ==
  /\ Goes(s5, h, "tell", "scan")
  /\ Write(Receiver[h[1]], Msg(5, id[h], h))
  /\ UNCHANGED <<senderVars, offerVars, gconn, sendVars, recvVars, poolVars,
                 r5, find_cfd, sofd>>

(* Slip: the slot stays in use. *)
MatchKeepsSlot(h, w) ==
  /\ Goes(s5, h, "scan", "relay")
  /\ w \in find_cfd /\ w[2] = h[2]
  /\ sofd' = [sofd EXCEPT ![h] = w]
  /\ UNCHANGED <<senderVars, offerVars, inbox, gconn, sendVars, recvVars,
                 poolVars, r5, find_cfd>>
(* Slip: any slot in use. *)
MatchAny(h, w) ==
  /\ Goes(s5, h, "scan", "relay")
  /\ w \in find_cfd
  /\ find_cfd' = find_cfd \ {w} /\ sofd' = [sofd EXCEPT ![h] = w]
  /\ UNCHANGED <<senderVars, offerVars, inbox, gconn, sendVars, recvVars,
                 poolVars, r5>>

(* The loop over find_cfd: a slot in use with the offset of the block. *)
Match(h, w) ==
  /\ Goes(s5, h, "scan", "relay")
  /\ w \in find_cfd /\ w[2] = h[2]
  /\ find_cfd' = find_cfd \ {w} /\ sofd' = [sofd EXCEPT ![h] = w]
  /\ UNCHANGED <<senderVars, offerVars, inbox, gconn, sendVars, recvVars,
                 poolVars, r5>>

(* Slip: no look for a slot that is not in use. *)
RegisterAnywhere(h) ==
  /\ Goes(r5, h, "store", "read")
  /\ find_cfd' = find_cfd \cup {h}
  /\ UNCHANGED <<senderVars, offerVars, inbox, gconn, sendVars, recvVars,
                 poolVars, s5, sofd>>

(* Case -5: a slot not in use; then the handler goes back to recv. *)
Register(h) ==
  /\ Goes(r5, h, "store", "read")
  /\ Cardinality(find_cfd) < Slots /\ find_cfd' = find_cfd \cup {h}
  /\ UNCHANGED <<senderVars, offerVars, inbox, gconn, sendVars, recvVars,
                 poolVars, s5, sofd>>

(* send_file: the block goes to the connection found, which is closed under *)
(* the handler that registered it, and the thread ends.                     *)
Relay(h) ==
  /\ Goes(s5, h, "relay", "end") /\ tpc[h] = "sent"
  /\ got' = [got EXCEPT ![sofd[h]] = data[h]]
  /\ r5' = [r5 EXCEPT ![sofd[h]] = "closed"]
  /\ UNCHANGED <<senderVars, offerVars, inbox, gconn, sendVars, rpc, copy, size,
                 poolVars, find_cfd, sofd>>

-----------------------------------------------------------------------------
client(c) ==
  \/ WaitForId(c) \/ StartBlocks(c)
  \/ FileId(c) \/ MapFile(c) \/ Header(c) \/ NotOnline(c)
handler(c) == FindAddr(c) \/ TakeAddr(c) \/ ReplyId(c) \/ Prepare(c) \/ Absent(c)
send_filedata(h) == SendHeader(h) \/ SendData(h)
recv_file(h) == RecvHeader(h) \/ RecvBase(h) \/ RecvData(h)
relay(h) ==
  TellReceiver(h) \/ Register(h) \/ Relay(h) \/ \E w \in AllBlocks : Match(h, w)

Offers == \E c \in Clients, t \in Transfers : Offer(c, t)
Threads ==
  \/ \E c \in Clients : client(c) \/ handler(c)
  \/ \E h \in AllBlocks : send_filedata(h) \/ recv_file(h) \/ relay(h)
  \/ Take
Next == Offers \/ (\E c \in Clients : SpuriousWake(c)) \/ Threads

Spec == Init /\ [][Next]_vars
(* While a thread can go on, one does: no thread has a loop to go round in  *)
(* for ever, so that this is as much as fairness to each of them.  Nobody   *)
(* has to offer a file, or to wake without a signal.                        *)
FairSpec == Spec /\ WF_vars(Threads)
=============================================================================
