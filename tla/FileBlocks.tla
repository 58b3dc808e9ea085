----------------------------- MODULE FileBlocks -----------------------------
(***************************************************************************)
(* How a file is cut into blocks (send_file and new_fb_head of the client) *)
(* and how the bytes of one block get from the thread that sends it        *)
(* (send_filedata) through the server (send_file of the server) to the     *)
(* thread that stores it (recv_file).  The three read and write pieces of  *)
(* their own sizes, and none is told where a piece ends.                   *)
(*                                                                         *)
(* A connection is the number of bytes under way: TCP keeps their order.   *)
(* What one write gives is there for recv as a whole, since all programs   *)
(* are on one machine (Create_sock connects to 127.0.0.1).                 *)
(***************************************************************************)
EXTENDS Integers

CONSTANTS
  BLOCKSIZE, SEND_SIZE, RECVBUF_SIZE,
  MaxSize,       (* the largest file of this instance                    *)
  MayDie         (* may the sending client end in the middle of a block? *)

ASSUME SizesAssumption ==
  /\ BLOCKSIZE \in Nat \ {0} /\ SEND_SIZE \in Nat \ {0}
  /\ RECVBUF_SIZE = SEND_SIZE /\ MaxSize \in Nat \ {0} /\ MayDie \in BOOLEAN

(* send_file: how many blocks, the size of the last one unless it is full,  *)
(* and the header of block i (the offset of new_fb_head grows by BLOCKSIZE).*)
Full(size) == size \div BLOCKSIZE
LastBs(size) == size - BLOCKSIZE * Full(size)
(* Slip: one block more, also when the last one is full. *)
CountOneMore(size) == Full(size) + 1
Count(size) == Full(size) + (IF LastBs(size) = 0 THEN 0 ELSE 1)
Offset(i) == BLOCKSIZE * i
Bs(size, i) == IF i < Full(size) THEN BLOCKSIZE ELSE LastBs(size)

Least(m, n) == IF m < n THEN m ELSE n

VARIABLES
  size, block,           (* the file, and the number of the block          *)
  spc, num, sfp, left,   (* send_filedata: i counted down, fp, omsg->bs    *)
  up, closed,            (* sender to server: bytes under way; closed      *)
  wpc, remain,           (* send_file of the server: remain_size           *)
  down, eof,             (* server to receiver                             *)
  cpc, cfp, landed       (* recv_file: fp, and how much of the block is     *)
                         (* in the file, from its first byte on            *)

fileVars == <<size, block>>
senderVars == <<spc, num, sfp, left>>
relayVars == <<wpc, remain>>
receiverVars == <<cpc, cfp, landed>>
vars == <<fileVars, senderVars, up, closed, relayVars, down, eof, receiverVars>>

bs == Bs(size, block)
err == bs % RECVBUF_SIZE

(* Slip: i <= num. *)
InitOneMore ==
  /\ size \in 1..MaxSize /\ block \in 0..Count(size)-1
  /\ spc = "chunks" /\ num = bs \div SEND_SIZE + 1 /\ sfp = 0 /\ left = bs
  /\ up = 0 /\ closed = FALSE
  /\ wpc = "chunk" /\ remain = bs
  /\ down = 0 /\ eof = FALSE
  /\ cpc = "recv" /\ cfp = 0 /\ landed = 0
Init ==
  /\ size \in 1..MaxSize /\ block \in 0..Count(size)-1
  /\ spc = "chunks" /\ num = bs \div SEND_SIZE /\ sfp = 0 /\ left = bs
  /\ up = 0 /\ closed = FALSE
  /\ wpc = "chunk" /\ remain = bs
  /\ down = 0 /\ eof = FALSE
  /\ cpc = "recv" /\ cfp = 0 /\ landed = 0

-----------------------------------------------------------------------------
(* The sending client: num pieces of SEND_SIZE, then what is left.          *)

(* Slip: omsg->bs is not reduced. *)
SendChunkKeepsBs ==
  /\ spc = "chunks" /\ num > 0
  /\ up' = up + SEND_SIZE /\ num' = num - 1 /\ sfp' = sfp + SEND_SIZE
  /\ UNCHANGED <<fileVars, spc, left, closed, relayVars, down, eof, receiverVars>>
SendChunk ==
  /\ spc = "chunks" /\ num > 0
  /\ up' = up + SEND_SIZE
  /\ num' = num - 1 /\ sfp' = sfp + SEND_SIZE /\ left' = left - SEND_SIZE
  /\ UNCHANGED <<fileVars, spc, closed, relayVars, down, eof, receiverVars>>

SendRest ==
  /\ spc = "chunks" /\ num = 0
  /\ up' = up + left /\ sfp' = sfp + left /\ left' = 0 /\ spc' = "close"
  /\ UNCHANGED <<fileVars, num, closed, relayVars, down, eof, receiverVars>>

(* Slip: no close. *)
SendCloseNot ==
  /\ spc = "close" /\ spc' = "end"
  /\ UNCHANGED <<fileVars, num, sfp, left, up, closed, relayVars, down, eof,
                 receiverVars>>
SendClose ==
  /\ spc = "close" /\ spc' = "end" /\ closed' = TRUE
  /\ UNCHANGED <<fileVars, num, sfp, left, up, relayVars, down, eof, receiverVars>>

send_filedata == SendChunk \/ SendRest \/ SendClose

(* The process of the sender ends: its connections are closed. *)
SenderDies ==
  /\ MayDie /\ spc \in {"chunks", "close"} /\ spc' = "died" /\ closed' = TRUE
  /\ UNCHANGED <<fileVars, num, sfp, left, up, relayVars, down, eof, receiverVars>>

-----------------------------------------------------------------------------
(* The server.  A piece with MSG_WAITALL while the block is not read up;    *)
(* what is left is read apart once it is no more than err: with nothing     *)
(* left, a recv of 0 bytes that returns when the sender closes.             *)

Forward(n) == up' = up - n /\ down' = down + n /\ remain' = remain - n

RelayChunk ==
  /\ wpc = "chunk" /\ remain > 0
  /\ up >= RECVBUF_SIZE \/ closed
  /\ Forward(Least(up, RECVBUF_SIZE))
  /\ wpc' = IF remain' <= err THEN "rest" ELSE "chunk"
  /\ UNCHANGED <<fileVars, senderVars, closed, eof, receiverVars>>

(* Slip: remain_size is not reduced by the last read. *)
RelayRestKeeps ==
  /\ wpc = "rest" /\ wpc' = "chunk"
  /\ up > 0 \/ closed
  /\ up' = up - Least(up, remain) /\ down' = down + Least(up, remain)
  /\ UNCHANGED <<fileVars, senderVars, closed, remain, eof, receiverVars>>
RelayRest ==
  /\ wpc = "rest" /\ wpc' = "chunk"
  /\ up > 0 \/ closed
  /\ Forward(Least(up, remain))
  /\ UNCHANGED <<fileVars, senderVars, closed, eof, receiverVars>>

(* close(tofd) ends the connection to the receiver only if no other thread  *)
(* is in a recv on it: the handler of that connection is, or will be.       *)
RelayClose ==
  /\ wpc = "chunk" /\ remain = 0 /\ wpc' = "end"
  /\ eof' \in BOOLEAN
  /\ UNCHANGED <<fileVars, senderVars, up, closed, remain, down, receiverVars>>

send_file == RelayChunk \/ RelayRest \/ RelayClose

-----------------------------------------------------------------------------
(* The receiving client.  A read of fewer than RECVBUF_SIZE bytes is taken  *)
(* for the end of the block.                                                *)

Store(n) == down' = down - n /\ landed' = IF n > 0 THEN cfp + n ELSE landed

RecvChunk ==
  /\ cpc = "recv" /\ down >= RECVBUF_SIZE
  /\ Store(RECVBUF_SIZE) /\ cfp' = cfp + RECVBUF_SIZE
  /\ UNCHANGED <<fileVars, senderVars, up, closed, relayVars, eof, cpc>>

(* Slip: a full read ends the block too. *)
RecvLastFull ==
  /\ cpc = "recv" /\ (down > 0 \/ eof)
  /\ Store(Least(down, RECVBUF_SIZE)) /\ cpc' = "end"
  /\ UNCHANGED <<fileVars, senderVars, up, closed, relayVars, eof, cfp>>
RecvLast ==
  /\ cpc = "recv" /\ down < RECVBUF_SIZE /\ (down > 0 \/ eof)
  /\ Store(down) /\ cpc' = "end"
  /\ UNCHANGED <<fileVars, senderVars, up, closed, relayVars, eof, cfp>>

recv_file == RecvChunk \/ RecvLast

Next == send_filedata \/ SenderDies \/ send_file \/ recv_file

Spec == Init /\ [][Next]_vars
(* Every thread runs when it can; no program has to end early. *)
FairSpec ==
  Spec /\ WF_vars(send_filedata) /\ WF_vars(send_file) /\ WF_vars(recv_file)
=============================================================================
