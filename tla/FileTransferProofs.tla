------------------------- MODULE FileTransferProofs -------------------------
(***************************************************************************)
(* Theorems about FileTransfer, for any clients, transfers and threads:    *)
(* what find_cfd keeps right, although every handler uses it at once.      *)
(***************************************************************************)
EXTENDS FileTransferProperties, FiniteSetTheorems, TLAPS

(* Where a handler of action 5 has found a connection, it is one that no    *)
(* other handler has, for a block of the same number.                       *)
Found ==
  /\ \A h \in AllBlocks : s5[h] = "relay" => sofd[h] # None
  /\ \A h \in AllBlocks : sofd[h] # None =>
       /\ sofd[h] \in AllBlocks /\ sofd[h][2] = h[2]
       /\ r5[sofd[h]] \in {"read", "closed"} /\ sofd[h] \notin find_cfd
  /\ OneRelay

(* What is sent for a block, and stored for one, is a block of its number.  *)
Numbered ==
  /\ \A h \in AllBlocks : data[h] # None => data[h][2] = h[2]
  /\ OffsetKept

Functions ==
  /\ DOMAIN s5 = AllBlocks /\ DOMAIN r5 = AllBlocks /\ DOMAIN sofd = AllBlocks
  /\ DOMAIN data = AllBlocks /\ DOMAIN got = AllBlocks
  /\ \A w \in find_cfd : w \in AllBlocks /\ r5[w] = "read"

PairInv == Functions /\ Found /\ Numbered

LEMMA NoneIsNoBlock == None \notin AllBlocks
  BY TransferAssumption DEF None, AllBlocks

LEMMA InitPair == Init => PairInv
  BY NoneIsNoBlock
  DEF Init, PairInv, Functions, Found, Numbered, OneRelay, OffsetKept

(* Most steps do not touch find_cfd or the blocks under way.                *)
LEMMA OtherSteps ==
  ASSUME PairInv, UNCHANGED <<relayVars, data, got>> PROVE PairInv'
  BY DEF PairInv, Functions, Found, Numbered, OneRelay, OffsetKept, relayVars

LEMMA TakePair == ASSUME PairInv, Take PROVE PairInv'
<1>1. UNCHANGED <<data, got, find_cfd, sofd>> BY DEF Take, sendVars, recvVars
<1>2. PICK h : \/ Goes(s5, h, "none", "tell") /\ UNCHANGED r5
               \/ Goes(r5, h, "none", "store") /\ UNCHANGED s5
  BY DEF Take
<1>3. Functions'
  BY <1>1, <1>2 DEF PairInv, Functions, Goes
<1>4. Found'
  BY <1>1, <1>2 DEF PairInv, Functions, Found, OneRelay, Goes
<1>5. Numbered' BY <1>1 DEF PairInv, Numbered, OffsetKept
<1> QED BY <1>3, <1>4, <1>5 DEF PairInv

LEMMA SendDataPair ==
  ASSUME PairInv, NEW h \in AllBlocks, SendData(h) PROVE PairInv'
<1>1. UNCHANGED <<relayVars, got>> BY DEF SendData, recvVars
<1>2. Functions' /\ Found'
  BY <1>1 DEF SendData, PairInv, Functions, Found, OneRelay, relayVars
<1>3. \A g \in AllBlocks : data'[g] # None => data'[g][2] = g[2]
  BY DEF SendData, PairInv, Functions, Numbered
<1>4. Numbered' BY <1>1, <1>3 DEF PairInv, Numbered, OffsetKept
<1> QED BY <1>2, <1>4 DEF PairInv

LEMMA TellPair ==
  ASSUME PairInv, NEW h \in AllBlocks, TellReceiver(h) PROVE PairInv'
<1>1. UNCHANGED <<r5, find_cfd, sofd, data, got>>
  BY DEF TellReceiver, sendVars, recvVars
<1>2. Functions' /\ Found'
  BY <1>1 DEF TellReceiver, Goes, PairInv, Functions, Found, OneRelay
<1>3. Numbered' BY <1>1 DEF PairInv, Numbered, OffsetKept
<1> QED BY <1>2, <1>3 DEF PairInv

(* The connection found leaves find_cfd in the step that gives it to h.     *)
LEMMA MatchPair ==
  ASSUME PairInv, NEW h \in AllBlocks, NEW w \in AllBlocks, Match(h, w)
  PROVE  PairInv'
<1>1. UNCHANGED <<r5, data, got>> BY DEF Match, sendVars, recvVars
<1>2. /\ w \in find_cfd /\ w[2] = h[2] /\ r5[w] = "read" /\ w # None
      /\ find_cfd' = find_cfd \ {w} /\ sofd' = [sofd EXCEPT ![h] = w]
      /\ s5' = [s5 EXCEPT ![h] = "relay"]
  BY NoneIsNoBlock DEF Match, Goes, PairInv, Functions
<1>3. Functions' BY <1>1, <1>2 DEF PairInv, Functions
<1>4. \A g \in AllBlocks : g # h => sofd'[g] = sofd[g] /\ sofd[g] # w
  BY <1>2 DEF PairInv, Functions, Found
<1>5. sofd'[h] = w BY <1>2 DEF PairInv, Functions
<1>6. OneRelay' BY <1>2, <1>4, <1>5 DEF PairInv, Found, OneRelay
<1>7. Found' BY <1>1, <1>2, <1>4, <1>5, <1>6 DEF PairInv, Functions, Found
<1>8. Numbered' BY <1>1 DEF PairInv, Numbered, OffsetKept
<1> QED BY <1>3, <1>7, <1>8 DEF PairInv

(* A connection is put into find_cfd once. *)
LEMMA RegisterPair ==
  ASSUME PairInv, NEW h \in AllBlocks, Register(h) PROVE PairInv'
<1>1. UNCHANGED <<s5, sofd, data, got>> BY DEF Register, sendVars, recvVars
<1>2. /\ r5[h] = "store" /\ r5' = [r5 EXCEPT ![h] = "read"]
      /\ find_cfd' = find_cfd \cup {h}
  BY DEF Register, Goes
<1>3. Functions' BY <1>1, <1>2 DEF PairInv, Functions
<1>4. Found' BY <1>1, <1>2 DEF PairInv, Functions, Found, OneRelay
<1>5. Numbered' BY <1>1 DEF PairInv, Numbered, OffsetKept
<1> QED BY <1>3, <1>4, <1>5 DEF PairInv

LEMMA RelayPair ==
  ASSUME PairInv, NEW h \in AllBlocks, Relay(h) PROVE PairInv'
<1>1. UNCHANGED <<find_cfd, sofd, data>> BY DEF Relay, sendVars
<1>2. /\ s5' = [s5 EXCEPT ![h] = "end"] /\ s5[h] = "relay"
      /\ got' = [got EXCEPT ![sofd[h]] = data[h]]
      /\ r5' = [r5 EXCEPT ![sofd[h]] = "closed"]
  BY DEF Relay, Goes
<1>5. sofd[h] \in AllBlocks /\ sofd[h][2] = h[2] /\ sofd[h] \notin find_cfd
  BY <1>2 DEF PairInv, Found
<1>3. Functions' BY <1>1, <1>2, <1>5 DEF PairInv, Functions
<1>4. Found' BY <1>1, <1>2, <1>5 DEF PairInv, Functions, Found, OneRelay
<1>6. OffsetKept'
  BY <1>2, <1>5 DEF PairInv, Functions, Numbered, OffsetKept
<1>7. Numbered' BY <1>1, <1>6 DEF PairInv, Numbered
<1> QED BY <1>3, <1>4, <1>7 DEF PairInv

LEMMA NextPair == PairInv /\ [Next]_vars => PairInv'
<1> SUFFICES ASSUME PairInv, [Next]_vars PROVE PairInv'
  OBVIOUS
<1>1. CASE Offers
  BY <1>1, OtherSteps DEF Offers, Offer, sendVars, recvVars
<1>2. ASSUME NEW c \in Clients, client(c) PROVE PairInv'
  BY <1>2, OtherSteps
  DEF client, WaitForId, StartBlocks, FileId, MapFile, Header, NotOnline,
      sendVars, recvVars
<1>8. CASE \E c \in Clients : SpuriousWake(c)
  BY <1>8, OtherSteps DEF SpuriousWake, sendVars, recvVars
<1>3. ASSUME NEW c \in Clients, handler(c) PROVE PairInv'
  BY <1>3, OtherSteps
  DEF handler, FindAddr, TakeAddr, ReplyId, Prepare, Absent, sendVars, recvVars
<1>4. ASSUME NEW h \in AllBlocks, send_filedata(h) PROVE PairInv'
  <2>1. CASE SendHeader(h)
    BY <2>1, OtherSteps DEF SendHeader, recvVars
  <2> QED BY <1>4, <2>1, SendDataPair DEF send_filedata
<1>5. ASSUME NEW h \in AllBlocks, recv_file(h) PROVE PairInv'
  BY <1>5, OtherSteps DEF recv_file, RecvHeader, RecvBase, RecvData, sendVars
<1>6. ASSUME NEW h \in AllBlocks, relay(h) PROVE PairInv'
  BY <1>6, TellPair, RegisterPair, RelayPair, MatchPair DEF relay
<1>7. CASE UNCHANGED vars
  BY <1>7, OtherSteps DEF vars, sendVars, recvVars
<1> QED
  BY <1>1, <1>2, <1>3, <1>4, <1>5, <1>6, <1>7, <1>8, TakePair
  DEF Next, Threads

THEOREM Pairing == Spec => []PairInv
  BY InitPair, NextPair, PTL DEF Spec

(* The scans of find_cfd give a receiver's connection to one handler only.  *)
THEOREM OneRelayThm == Spec => []OneRelay
<1>1. PairInv => OneRelay BY DEF PairInv, Found
<1> QED BY <1>1, Pairing, PTL

(* A recv_file thread stores a block at the place that its number has, for  *)
(* whatever transfer the block is.                                          *)
THEOREM OffsetKeptThm == Spec => []OffsetKept
<1>1. PairInv => OffsetKept BY DEF PairInv, Numbered
<1> QED BY <1>1, Pairing, PTL

-----------------------------------------------------------------------------
(* With a single transfer nothing can be crossed.                           *)

(* t is the transfer: main of its sender has it until its blocks are sent,  *)
(* and what is sent for a block, or stored for it, is that block.           *)
Single(t) ==
  /\ DOMAIN spc = Clients /\ DOMAIN file = Clients /\ DOMAIN mbegin = Clients
  /\ \A c \in Clients : spc[c] # "idle" => file[c] = t /\ Sender[t] = c
  /\ \A h \in AllBlocks : tpc[h] # "none" => mbegin[Sender[t]] = t
  /\ \A h \in AllBlocks : data[h] \in {None, h}
  /\ RightBlock

LEMMA BlockIs ==
  ASSUME NEW t, Transfers = {t}, NEW h \in AllBlocks
  PROVE  h = <<t, h[2]>>
  BY DEF AllBlocks

LEMMA SingleStart ==
  ASSUME NEW t, Transfers = {t}, Single(t), NEW c \in Clients, StartBlocks(c)
  PROVE  Single(t)'
<1>1. /\ spc[c] = "woken" /\ spc' = [spc EXCEPT ![c] = "idle"]
      /\ mbegin' = [mbegin EXCEPT ![c] = file[c]]
      /\ UNCHANGED <<file, data, got>>
  BY DEF StartBlocks, Goes, recvVars
<1>2. file[c] = t /\ Sender[t] = c BY <1>1 DEF Single
<1>3. mbegin'[Sender[t]] = t BY <1>1, <1>2 DEF Single
<1> QED BY <1>1, <1>3 DEF Single, RightBlock

LEMMA SingleOffer ==
  ASSUME NEW t, Transfers = {t}, Single(t), NEW c \in Clients, Offer(c, t)
  PROVE  Single(t)'
  BY DEF Offer, Goes, Single, RightBlock, sendVars, recvVars

LEMMA SingleData ==
  ASSUME NEW t, Transfers = {t}, PairInv, Single(t), NEW h \in AllBlocks,
         SendData(h)
  PROVE  Single(t)'
<1>1. h[1] = t /\ h = <<t, h[2]>> BY BlockIs
<1>2. mbegin[Sender[h[1]]] = t BY <1>1 DEF SendData, Goes, Single
<1>3. /\ data' = [data EXCEPT ![h] = h] /\ tpc' = [tpc EXCEPT ![h] = "sent"]
      /\ tpc[h] # "none" /\ UNCHANGED <<senderVars, got>>
  BY <1>1, <1>2 DEF SendData, Goes, recvVars
<1> QED BY <1>3 DEF PairInv, Functions, Single, RightBlock, senderVars

LEMMA SingleRelay ==
  ASSUME NEW t, Transfers = {t}, PairInv, Single(t), NEW h \in AllBlocks,
         Relay(h)
  PROVE  Single(t)'
<1>1. sofd[h] \in AllBlocks /\ sofd[h][2] = h[2]
  BY DEF Relay, Goes, PairInv, Found
<1>2. sofd[h] = h BY <1>1, BlockIs
<1>3. got' = [got EXCEPT ![h] = data[h]] /\ UNCHANGED <<senderVars, sendVars>>
  BY <1>2 DEF Relay
<1> QED
  BY <1>3 DEF PairInv, Functions, Single, RightBlock, senderVars, sendVars

LEMMA SingleOther ==
  ASSUME NEW t, Single(t), UNCHANGED <<file, mbegin, data, got>>,
         DOMAIN spc' = DOMAIN spc,
         \A c \in Clients : spc'[c] # "idle" => spc[c] # "idle",
         \A h \in AllBlocks : tpc'[h] # "none" => tpc[h] # "none"
  PROVE  Single(t)'
  BY DEF Single, RightBlock

LEMMA SingleNext ==
  ASSUME NEW t, Transfers = {t}
  PROVE  PairInv /\ Single(t) /\ [Next]_vars => Single(t)'
<1> SUFFICES ASSUME PairInv, Single(t), [Next]_vars PROVE Single(t)'
  OBVIOUS
<1> USE DEF senderVars, sendVars, recvVars
<1>1. CASE Offers BY <1>1, SingleOffer DEF Offers
<1>2. ASSUME NEW c \in Clients, client(c) PROVE Single(t)'
  <2>1. CASE StartBlocks(c) BY <2>1, SingleStart
  <2>2. CASE WaitForId(c) BY <2>2, SingleOther DEF WaitForId, Goes
  <2>3. CASE FileId(c) BY <2>3, SingleOther DEF FileId, Single
  <2>4. CASE MapFile(c) \/ Header(c) \/ NotOnline(c)
    BY <2>4, SingleOther DEF MapFile, Header, NotOnline
  <2> QED BY <1>2, <2>1, <2>2, <2>3, <2>4 DEF client
<1>3. ASSUME NEW c \in Clients, handler(c) PROVE Single(t)'
  BY <1>3, SingleOther DEF handler, FindAddr, TakeAddr, ReplyId, Prepare, Absent
<1>4. ASSUME NEW h \in AllBlocks, send_filedata(h) PROVE Single(t)'
  <2>1. CASE SendHeader(h) BY <2>1, SingleOther DEF SendHeader, Goes
  <2> QED BY <1>4, <2>1, SingleData DEF send_filedata
<1>5. ASSUME NEW h \in AllBlocks, recv_file(h) PROVE Single(t)'
  BY <1>5, SingleOther DEF recv_file, RecvHeader, RecvBase, RecvData
<1>6. ASSUME NEW h \in AllBlocks, relay(h) PROVE Single(t)'
  <2>1. CASE TellReceiver(h) \/ Register(h) \/ \E w \in AllBlocks : Match(h, w)
    BY <2>1, SingleOther DEF TellReceiver, Register, Match
  <2> QED BY <1>6, <2>1, SingleRelay DEF relay
<1>7. CASE Take BY <1>7, SingleOther DEF Take
<1>8. CASE UNCHANGED vars BY <1>8, SingleOther DEF vars
<1>9. CASE \E c \in Clients : SpuriousWake(c)
  BY <1>9, SingleOther DEF SpuriousWake, Goes
<1> QED
  BY <1>1, <1>2, <1>3, <1>4, <1>5, <1>6, <1>7, <1>8, <1>9 DEF Next, Threads

(* As long as there is one transfer, every recv_file thread gets the block  *)
(* it was started for: what FileCrossed finds takes two of them.            *)
THEOREM OneTransferRight ==
  ASSUME NEW t, Transfers = {t} PROVE Spec => []RightBlock
<1>1. Init => Single(t)
  BY DEF Init, Single, RightBlock
<1>2. Single(t) => RightBlock BY DEF Single
<1> QED BY <1>1, <1>2, SingleNext, Pairing, PTL DEF Spec

-----------------------------------------------------------------------------
(* Type correctness, and with it the bound of find_cfd.                     *)

Message ==
  {m \in [kind : {3, -3, 5, -2}, id : Ids, block : (Transfers \X Nat) \cup {None}] :
     m.kind = -3 => m.block \in Transfers \X Nat}
Connection == [act : {5, -5}, block : AllBlocks]

(* What the type invariant does not say: what is under way, and that a file *)
(* is mapped before a thread that sends it starts.                          *)
Underway ==
  /\ inbox \in [Clients -> Seq(Message)] /\ queue \in Seq(Connection)
  /\ IsFiniteSet(find_cfd) /\ 0 \in Ids
  /\ \A c \in Clients : spc[c] # "idle" => file[c] \in Transfers /\ Sender[file[c]] = c
  /\ \A c \in Clients : hpc[c] # "idle" => file[c] \in Transfers
  /\ \A h \in AllBlocks : tpc[h] # "none" => mbegin[Sender[h[1]]] \in Transfers

TypeInv == TypeOK /\ Underway

LEMMA BlockParts ==
  \A h \in AllBlocks : /\ h[1] \in Transfers /\ h[2] \in Nat
                       /\ h \in Transfers \X Nat
                       /\ Sender[h[1]] \in Clients /\ Receiver[h[1]] \in Clients
  BY TransferAssumption DEF AllBlocks

LEMMA InitTypes == ASSUME 0 \in Ids PROVE Init => TypeInv
<1> SUFFICES ASSUME Init PROVE TypeInv
  OBVIOUS
<1>1. find_cfd = {} BY DEF Init
<1>2. IsFiniteSet(find_cfd) /\ Cardinality(find_cfd) <= Slots
  BY <1>1, FS_EmptySet, TransferAssumption
<1>3. TypeOK BY <1>1, <1>2, TransferAssumption DEF Init, TypeOK
<1>4. Underway BY <1>2 DEF Init, Underway
<1> QED BY <1>3, <1>4 DEF TypeInv

LEMMA WriteTypes ==
  ASSUME inbox \in [Clients -> Seq(Message)], NEW c, NEW m \in Message, Write(c, m)
  PROVE  inbox' \in [Clients -> Seq(Message)]
<1>1. CASE c \in Clients
  <2>1. Append(inbox[c], m) \in Seq(Message) BY <1>1
  <2> QED BY <2>1 DEF Write
<1>2. CASE c \notin Clients BY <1>2 DEF Write
<1> QED BY <1>1, <1>2

LEMMA ReceiveTypes ==
  ASSUME inbox \in [Clients -> Seq(Message)], NEW c \in Clients, NEW k,
         Receive(c, k)
  PROVE  /\ inbox' \in [Clients -> Seq(Message)]
         /\ Head(inbox[c]).id \in Ids
         /\ Head(inbox[c]).block \in (Transfers \X Nat) \cup {None}
         /\ k = -3 => Head(inbox[c]).block \in Transfers \X Nat
<1>1. inbox[c] \in Seq(Message) /\ inbox[c] # <<>> BY DEF Receive
<1>2. Head(inbox[c]) \in Message /\ Tail(inbox[c]) \in Seq(Message) BY <1>1
<1> QED BY <1>2 DEF Receive, Message

LEMMA ClientTypes ==
  ASSUME TypeInv, NEW c \in Clients, client(c) PROVE TypeInv'
<1> USE BlockParts
    DEF TypeInv, TypeOK, Underway, Goes, senderVars, offerVars, sendVars,
        recvVars, poolVars, relayVars
<1>1. CASE WaitForId(c) BY <1>1 DEF WaitForId
<1>2. CASE StartBlocks(c) BY <1>2 DEF StartBlocks
<1>3. CASE FileId(c) BY <1>3, ReceiveTypes DEF FileId
<1>4. CASE MapFile(c)
  <2>1. Head(inbox[c]).block[2] \in Nat
    BY <1>4, ReceiveTypes DEF MapFile
  <2>2. gconn' \in [Clients -> SUBSET Ids] /\ size' \in [Clients -> Nat]
    BY <1>4, <2>1, ReceiveTypes DEF MapFile
  <2>3. inbox' \in [Clients -> Seq(Message)]
    BY <1>4, ReceiveTypes DEF MapFile
  <2>4. UNCHANGED <<senderVars, offerVars, sendVars, rpc, got, poolVars,
                    relayVars>>
    BY <1>4 DEF MapFile
  <2> QED BY <2>2, <2>3, <2>4
<1>5. CASE Header(c)
  <2>1. inbox' \in [Clients -> Seq(Message)] BY <1>5, ReceiveTypes DEF Header
  <2>2. rpc' = [rpc EXCEPT ![Head(inbox[c]).block] = "connect"]
    BY <1>5 DEF Header
  <2>3. rpc' \in [AllBlocks -> {"none", "connect", "opened", "mapped",
                                "unmapped", "stored", "failed"}]
    BY <2>2
  <2>4. UNCHANGED <<senderVars, offerVars, gconn, sendVars, got, copy, size,
                    poolVars, relayVars>>
    BY <1>5 DEF Header
  <2> QED BY <2>1, <2>3, <2>4
<1>6. CASE NotOnline(c) BY <1>6, ReceiveTypes DEF NotOnline
<1> QED BY <1>1, <1>2, <1>3, <1>4, <1>5, <1>6 DEF client

LEMMA HandlerTypes ==
  ASSUME TypeInv, NEW c \in Clients, handler(c) PROVE TypeInv'
<1> USE DEF TypeInv, TypeOK, Underway, Goes, senderVars, offerVars, sendVars,
            recvVars, poolVars, relayVars
<1>1. CASE FindAddr(c) BY <1>1 DEF FindAddr
<1>2. CASE TakeAddr(c) BY <1>2 DEF TakeAddr
<1>3. ASSUME inbox' \in [Clients -> Seq(Message)],
             hpc' \in [Clients -> {"idle", "find", "take", "reply", "prepare"}],
             \A d \in Clients : hpc'[d] # "idle" => hpc[d] # "idle",
             UNCHANGED <<senderVars, hid, addr, gconn, sendVars, recvVars,
                         poolVars, relayVars>>
      PROVE  TypeInv'
  BY <1>3
<1>4. CASE ReplyId(c)
  <2>1. Msg(3, hid[c], None) \in Message BY DEF Msg, Message
  <2> QED BY <1>3, <1>4, <2>1, WriteTypes DEF ReplyId
<1>5. CASE Prepare(c)
  <2>1. file[c] \in Transfers BY <1>5 DEF Prepare
  <2>2. Msg(-3, hid[c], <<file[c], Blocks[file[c]]>>) \in Message
    BY <2>1, TransferAssumption DEF Msg, Message
  <2> QED BY <1>3, <1>5, <2>2, WriteTypes DEF Prepare
<1>6. CASE Absent(c)
  <2>1. Msg(-2, 0, None) \in Message BY DEF Msg, Message
  <2> QED BY <1>3, <1>6, <2>1, WriteTypes DEF Absent
<1> QED BY <1>1, <1>2, <1>4, <1>5, <1>6 DEF handler

LEMMA OfferTypes == ASSUME TypeInv, Offers PROVE TypeInv'
  BY DEF Offers, Offer, TypeInv, TypeOK, Underway, Goes, sendVars, recvVars,
         poolVars, relayVars

LEMMA SendTypes ==
  ASSUME TypeInv, NEW h \in AllBlocks, send_filedata(h) \/ recv_file(h)
  PROVE  TypeInv'
<1> USE BlockParts
    DEF TypeInv, TypeOK, Underway, Goes, senderVars, offerVars, sendVars,
        recvVars, poolVars, relayVars, Connection
<1>1. CASE SendHeader(h) BY <1>1 DEF SendHeader
<1>2. CASE SendData(h) BY <1>2 DEF SendData
<1>3. CASE RecvHeader(h) BY <1>3 DEF RecvHeader
<1>4. CASE RecvBase(h) \/ RecvData(h)
  <2>1. rpc' \in [AllBlocks -> {"none", "connect", "opened", "mapped",
                                "unmapped", "stored", "failed"}]
    <3>1. PICK to \in {"mapped", "unmapped", "stored", "failed"} :
            rpc' = [rpc EXCEPT ![h] = to]
      BY <1>4 DEF RecvBase, RecvData
    <3> HIDE <1>4
    <3> QED BY <3>1
  <2>2. UNCHANGED <<senderVars, offerVars, inbox, gconn, sendVars, got, size,
                    poolVars, relayVars>>
    BY <1>4 DEF RecvBase, RecvData
  <2> QED BY <2>1, <2>2
<1> QED BY <1>1, <1>2, <1>3, <1>4 DEF send_filedata, recv_file

LEMMA RelayTypes ==
  ASSUME TypeInv, PairInv, NEW h \in AllBlocks, relay(h) PROVE TypeInv'
<1> USE BlockParts
    DEF TypeInv, TypeOK, Underway, Goes, senderVars, offerVars, sendVars,
        recvVars, poolVars, relayVars
<1>1. CASE TellReceiver(h)
  <2>1. Msg(5, id[h], h) \in Message BY DEF Msg, Message
  <2>2. inbox' \in [Clients -> Seq(Message)] BY <1>1, <2>1, WriteTypes DEF TellReceiver
  <2> QED BY <1>1, <2>2 DEF TellReceiver
<1>2. CASE Register(h)
  <2>1. /\ IsFiniteSet(find_cfd \cup {h})
        /\ Cardinality(find_cfd \cup {h}) \in {Cardinality(find_cfd), Cardinality(find_cfd) + 1}
    BY FS_AddElement
  <2>2. Cardinality(find_cfd) \in Nat BY FS_CardinalityType
  <2>3. IsFiniteSet(find_cfd') /\ Cardinality(find_cfd') <= Slots
    BY <1>2, <2>1, <2>2, TransferAssumption DEF Register
  <2> QED BY <1>2, <2>3 DEF Register
<1>3. ASSUME NEW w \in AllBlocks, Match(h, w) PROVE TypeInv'
  <2>1. /\ IsFiniteSet(find_cfd \ {w})
        /\ Cardinality(find_cfd \ {w}) \in {Cardinality(find_cfd), Cardinality(find_cfd) - 1}
    BY FS_RemoveElement
  <2>2. Cardinality(find_cfd) \in Nat BY FS_CardinalityType
  <2>3. IsFiniteSet(find_cfd') /\ Cardinality(find_cfd') <= Slots
    BY <1>3, <2>1, <2>2, TransferAssumption DEF Match
  <2> QED BY <1>3, <2>3 DEF Match
<1>4. CASE Relay(h)
  <2>1. /\ s5' = [s5 EXCEPT ![h] = "end"]
        /\ got' = [got EXCEPT ![sofd[h]] = data[h]]
        /\ r5' = [r5 EXCEPT ![sofd[h]] = "closed"]
    BY <1>4 DEF Relay
  <2>2. sofd[h] \notin find_cfd
    BY <1>4, NoneIsNoBlock DEF Relay, PairInv, Functions, Found
  <2>3. find_cfd \subseteq {g \in AllBlocks : r5'[g] = "read"}
    BY <2>1, <2>2
  <2>4. \A g \in AllBlocks : got'[g] \in {got[g], data[h]}
    BY <2>1 DEF PairInv, Functions
  <2>5. UNCHANGED <<senderVars, offerVars, inbox, gconn, sendVars, rpc, copy,
                    size, poolVars, find_cfd, sofd>>
    BY <1>4 DEF Relay
  <2>6. s5' \in [AllBlocks -> {"none", "tell", "scan", "relay", "end"}]
    BY <2>1
  <2>7. r5' \in [AllBlocks -> {"none", "store", "read", "closed"}]
    BY <2>1
  <2>8. \A g \in AllBlocks :
          {data'[g], got'[g]} \subseteq (Transfers \X Nat) \cup {None}
    <3> DEFINE X == (Transfers \X Nat) \cup {None}
    <3>1. \A g \in AllBlocks : data[g] \in X /\ got[g] \in X
      OBVIOUS
    <3>2. data' = data
      BY <2>5
    <3> HIDE DEF X
    <3>3. \A g \in AllBlocks : data'[g] \in X /\ got'[g] \in X
      BY <2>4, <3>1, <3>2
    <3> QED BY <3>3 DEF X
  <2>9. Underway' BY <2>5
  <2> HIDE DEF Underway, Goes
  <2>10. TypeOK' BY <2>3, <2>5, <2>6, <2>7, <2>8
  <2> QED BY <2>9, <2>10
<1> QED BY <1>1, <1>2, <1>3, <1>4 DEF relay

LEMMA HandlerGoes ==
  ASSUME s5 \in [AllBlocks -> {"none", "tell", "scan", "relay", "end"}],
         r5 \in [AllBlocks -> {"none", "store", "read", "closed"}], NEW h,
         \/ Goes(s5, h, "none", "tell") /\ UNCHANGED r5
         \/ Goes(r5, h, "none", "store") /\ UNCHANGED s5
  PROVE  /\ s5' \in [AllBlocks -> {"none", "tell", "scan", "relay", "end"}]
         /\ r5' \in [AllBlocks -> {"none", "store", "read", "closed"}]
         /\ \A g \in AllBlocks : r5[g] = "read" => r5'[g] = "read"
  BY DEF Goes

LEMMA TakeTypes == ASSUME TypeInv, Take PROVE TypeInv'
<1> USE DEF TypeInv, TypeOK, Underway, Goes, senderVars, offerVars, sendVars,
            recvVars, Connection
<1>1. queue' \in Seq(Connection) /\ free' \in Nat BY DEF Take
<1>2. PICK h : \/ Goes(s5, h, "none", "tell") /\ UNCHANGED r5
               \/ Goes(r5, h, "none", "store") /\ UNCHANGED s5
  BY DEF Take
<1>3. /\ s5' \in [AllBlocks -> {"none", "tell", "scan", "relay", "end"}]
      /\ r5' \in [AllBlocks -> {"none", "store", "read", "closed"}]
      /\ \A g \in AllBlocks : r5[g] = "read" => r5'[g] = "read"
  BY <1>2, HandlerGoes
<1>4. UNCHANGED <<senderVars, offerVars, inbox, gconn, sendVars, recvVars,
                  find_cfd, sofd>>
  BY DEF Take
<1>5. find_cfd' \subseteq {g \in AllBlocks : r5'[g] = "read"}
  BY <1>3, <1>4
<1>6. TypeOK' BY <1>1, <1>3, <1>4, <1>5
<1>7. Underway' BY <1>1, <1>4
<1> QED BY <1>6, <1>7

LEMMA NextTypes == TypeInv /\ PairInv /\ [Next]_vars => TypeInv'
<1> SUFFICES ASSUME TypeInv, PairInv, [Next]_vars PROVE TypeInv'
  OBVIOUS
<1>1. CASE UNCHANGED vars
  BY <1>1 DEF vars, TypeInv, TypeOK, Underway, senderVars, offerVars, sendVars,
     recvVars, poolVars, relayVars
<1>2. CASE \E c \in Clients : SpuriousWake(c)
  BY <1>2 DEF SpuriousWake, Goes, TypeInv, TypeOK, Underway, senderVars,
     offerVars, sendVars, recvVars, poolVars, relayVars
<1> QED
  BY <1>1, <1>2, OfferTypes, ClientTypes, HandlerTypes, SendTypes, RelayTypes,
     TakeTypes
  DEF Next, Threads

(* The entries of find_cfd in use never run out of its bounds and are       *)
(* connections whose handlers are back in recv; every id is one of addr.    *)
THEOREM TransferTypes == ASSUME 0 \in Ids PROVE Spec => []TypeOK
<1>1. TypeInv => TypeOK BY DEF TypeInv
<1> QED BY <1>1, InitTypes, NextTypes, Pairing, PTL DEF Spec
=============================================================================
