-------------------------- MODULE FileBlocksProofs --------------------------
(***************************************************************************)
(* Theorems about FileBlocks, for every size of file, of block and of      *)
(* piece: no byte is lost or doubled, and a receiver that takes a short    *)
(* read for the end of the block is right unless the sender died.          *)
(***************************************************************************)
EXTENDS FileBlocksProperties, TLAPS

-----------------------------------------------------------------------------
(* Arithmetic.                                                              *)

(* x is a number of whole pieces. *)
Whole(x) == \E k \in Nat : x = k * SEND_SIZE

LEMMA DivMod ==
  ASSUME NEW a \in Nat, NEW b \in Nat \ {0}
  PROVE  /\ a \div b \in Nat /\ a % b \in 0..b-1
         /\ a = b * (a \div b) + (a % b)
  OBVIOUS

LEMMA WholeSteps ==
  ASSUME NEW x \in Nat, Whole(x)
  PROVE  /\ Whole(x + SEND_SIZE)
         /\ x > 0 => x >= SEND_SIZE
         /\ x >= SEND_SIZE => Whole(x - SEND_SIZE)
<1> USE SizesAssumption
<1>1. PICK k \in Nat : x = k * SEND_SIZE BY DEF Whole
<1>2. (k + 1) * SEND_SIZE = x + SEND_SIZE BY <1>1
<1>3. Whole(x + SEND_SIZE) BY <1>2 DEF Whole
<1>4. CASE k = 0 BY <1>1, <1>3, <1>4
<1>5. CASE k > 0
  <2>1. k - 1 \in Nat /\ (k - 1) * SEND_SIZE = x - SEND_SIZE BY <1>1, <1>5
  <2>2. x - SEND_SIZE >= 0 BY <2>1
  <2>3. Whole(x - SEND_SIZE) BY <2>1 DEF Whole
  <2> QED BY <1>3, <2>2, <2>3
<1> QED BY <1>4, <1>5

LEMMA WholePlus ==
  ASSUME NEW x \in Nat, NEW y \in Nat, Whole(x), Whole(y)
  PROVE  Whole(x + y)
<1>1. PICK k \in Nat : x = k * SEND_SIZE BY DEF Whole
<1>2. PICK j \in Nat : y = j * SEND_SIZE BY DEF Whole
<1>3. (k + j) * SEND_SIZE = x + y BY <1>1, <1>2, SizesAssumption
<1> QED BY <1>3 DEF Whole

LEMMA WholeMinus ==
  ASSUME NEW x \in Nat, NEW y \in Nat, Whole(x), Whole(y), y <= x
  PROVE  Whole(x - y)
<1>1. PICK k \in Nat : x = k * SEND_SIZE BY DEF Whole
<1>2. PICK j \in Nat : y = j * SEND_SIZE BY DEF Whole
<1>3. (k - j) * SEND_SIZE = x - y BY <1>1, <1>2, SizesAssumption
<1>4. k >= j BY <1>1, <1>2, <1>3, SizesAssumption
<1> QED BY <1>3, <1>4 DEF Whole

LEMMA FullOf ==
  ASSUME NEW s \in Nat \ {0}
  PROVE  /\ Full(s) \in Nat /\ Count(s) \in Nat
         /\ LastBs(s) \in 0..BLOCKSIZE-1
         /\ s = BLOCKSIZE * Full(s) + LastBs(s)
<1>1. Full(s) \in Nat /\ s % BLOCKSIZE \in 0..BLOCKSIZE-1
      /\ s = BLOCKSIZE * Full(s) + (s % BLOCKSIZE)
  BY DivMod, SizesAssumption DEF Full
<1>2. BLOCKSIZE * Full(s) \in Nat BY <1>1, SizesAssumption
<1>3. LastBs(s) = s % BLOCKSIZE BY <1>1, <1>2 DEF LastBs
<1>4. Count(s) \in Nat BY <1>1 DEF Count
<1> QED BY <1>1, <1>3, <1>4

(* The size of a block. *)
LEMMA BlockSize ==
  ASSUME NEW s \in Nat \ {0}, NEW i \in 0..Count(s)-1
  PROVE  Bs(s, i) \in 1..BLOCKSIZE
<1>1. Full(s) \in Nat /\ LastBs(s) \in 0..BLOCKSIZE-1 BY FullOf
<1> QED BY <1>1, SizesAssumption DEF Bs, Count

-----------------------------------------------------------------------------
(* The invariant.                                                           *)

(* What the variables hold, without the bounds that the sums below give. *)
Kinds ==
  /\ size \in Nat \ {0} /\ block \in 0..Count(size)-1
  /\ spc \in {"chunks", "close", "end", "died"}
  /\ num \in Nat /\ sfp \in Nat /\ left \in Nat
  /\ up \in Nat /\ closed \in BOOLEAN
  /\ wpc \in {"chunk", "rest", "end"} /\ remain \in Nat
  /\ down \in Nat /\ eof \in BOOLEAN
  /\ cpc \in {"recv", "end"} /\ cfp \in Nat /\ landed \in Nat

(* The sender has num pieces and err bytes before it. *)
SenderInv ==
  /\ sfp + left = bs
  /\ spc = "chunks" => left = num * SEND_SIZE + err
  /\ spc \in {"close", "end"} => left = 0
  /\ closed <=> spc \in {"end", "died"}

(* What the server has still to read are whole pieces and err bytes, or     *)
(* nothing, as long as the sender lives.                                    *)
RelayInv ==
  /\ wpc = "end" \/ eof => remain = 0
  /\ spc # "died" =>
       /\ remain > 0 => remain >= err /\ Whole(remain - err)
       /\ wpc = "rest" => remain <= err

(* The receiver has stored whole pieces until the block ends. *)
ReceiverInv == cfp <= landed /\ (cpc = "recv" => landed = cfp /\ Whole(cfp))

BlockInv ==
  Kinds /\ EachByteOnce /\ SenderInv /\ RelayInv /\ ReceiverInv /\ WholeBlock

LEMMA Numbers ==
  Kinds => bs \in Nat \ {0} /\ err \in 0..SEND_SIZE-1
<1> SUFFICES ASSUME Kinds PROVE bs \in Nat \ {0} /\ err \in 0..SEND_SIZE-1
  OBVIOUS
<1>1. bs \in 1..BLOCKSIZE BY BlockSize DEF Kinds, bs
<1>2. err \in 0..SEND_SIZE-1 BY <1>1, DivMod, SizesAssumption DEF err
<1> QED BY <1>1, <1>2, SizesAssumption

(* The bounds of the type invariant are those of the sums. *)
LEMMA Bounds == BlockInv => TypeOK
<1> SUFFICES ASSUME BlockInv PROVE TypeOK
  OBVIOUS
<1>1. bs \in Nat BY Numbers DEF BlockInv
<1>2. /\ sfp \in 0..bs /\ left \in 0..bs /\ up \in 0..bs /\ remain \in 0..bs
      /\ down \in 0..bs /\ landed \in 0..bs /\ cfp \in 0..bs
  BY <1>1 DEF BlockInv, Kinds, EachByteOnce, SenderInv, ReceiverInv
<1> QED BY <1>2 DEF BlockInv, Kinds, TypeOK

(* The file and the block do not change, nor does what depends on them.     *)
LEMMA SameBlock == UNCHANGED fileVars => bs' = bs /\ err' = err
  BY DEF fileVars, bs, err

(* A block is whole pieces and err bytes. *)
LEMMA WholeBs ==
  ASSUME bs \in Nat PROVE err <= bs /\ Whole(bs - err)
<1>1. SEND_SIZE \in Nat \ {0} /\ RECVBUF_SIZE = SEND_SIZE
  BY SizesAssumption
<1>2. /\ bs \div SEND_SIZE \in Nat /\ err \in 0..SEND_SIZE-1
      /\ bs = SEND_SIZE * (bs \div SEND_SIZE) + err
  BY <1>1, DivMod DEF err
<1>3. SEND_SIZE * (bs \div SEND_SIZE) = (bs \div SEND_SIZE) * SEND_SIZE
      /\ SEND_SIZE * (bs \div SEND_SIZE) \in Nat
  BY <1>1, <1>2
<1>4. bs - err = (bs \div SEND_SIZE) * SEND_SIZE BY <1>2, <1>3
<1> QED BY <1>2, <1>3, <1>4 DEF Whole

LEMMA InitBlock == Init => BlockInv
<1> SUFFICES ASSUME Init PROVE BlockInv
  OBVIOUS
<1>1. size \in Nat \ {0} /\ block \in 0..Count(size)-1
  BY SizesAssumption DEF Init
<1>2. bs \in Nat \ {0} BY <1>1, BlockSize, SizesAssumption DEF bs
<1>3. /\ bs \div SEND_SIZE \in Nat /\ err \in 0..SEND_SIZE-1
      /\ bs = SEND_SIZE * (bs \div SEND_SIZE) + err
  <2>1. SEND_SIZE \in Nat \ {0} /\ RECVBUF_SIZE = SEND_SIZE
    BY SizesAssumption
  <2> QED BY <1>2, <2>1, DivMod DEF err
<1>4. SEND_SIZE * (bs \div SEND_SIZE) = (bs \div SEND_SIZE) * SEND_SIZE
      /\ SEND_SIZE * (bs \div SEND_SIZE) \in Nat
  BY <1>3, SizesAssumption
<1>5. err <= bs /\ Whole(bs - err) BY <1>2, WholeBs
<1>6. Whole(0) BY SizesAssumption DEF Whole
<1>7. num = bs \div SEND_SIZE /\ left = bs /\ sfp = 0 /\ remain = bs
      /\ up = 0 /\ down = 0 /\ landed = 0 /\ cfp = 0 /\ spc = "chunks"
      /\ wpc = "chunk" /\ cpc = "recv" /\ closed = FALSE /\ eof = FALSE
  BY DEF Init
<1>8. Kinds
  <2>1. num \in Nat BY <1>3, <1>7
  <2> QED BY <1>1, <1>2, <1>7, <2>1 DEF Kinds
<1>9. EachByteOnce /\ SenderInv
  BY <1>2, <1>3, <1>4, <1>7 DEF EachByteOnce, SenderInv
<1>10. RelayInv
  <2>1. remain >= err /\ Whole(remain - err) BY <1>2, <1>3, <1>5, <1>7
  <2> QED BY <1>7, <2>1 DEF RelayInv
<1>11. ReceiverInv /\ WholeBlock
  BY <1>6, <1>7 DEF ReceiverInv, WholeBlock
<1> QED BY <1>8, <1>9, <1>10, <1>11 DEF BlockInv
-----------------------------------------------------------------------------
(* The steps.                                                               *)

LEMMA SenderStep == ASSUME BlockInv, send_filedata \/ SenderDies PROVE BlockInv'
<1> USE DEF BlockInv
<1>1. SEND_SIZE \in Nat \ {0} /\ RECVBUF_SIZE = SEND_SIZE BY SizesAssumption
<1>2. /\ UNCHANGED <<fileVars, relayVars, down, eof, receiverVars>>
      /\ bs' = bs /\ err' = err
  BY SameBlock DEF send_filedata, SendChunk, SendRest, SendClose, SenderDies,
     fileVars
<1>3. ReceiverInv' BY <1>2 DEF ReceiverInv, Whole, receiverVars
<1>4. RelayInv'
  <2>1. spc' # "died" => spc # "died"
    BY DEF send_filedata, SendChunk, SendRest, SendClose, SenderDies
  <2> QED BY <1>2, <2>1 DEF RelayInv, Whole, relayVars
<1>5. WholeBlock'
  BY <1>2 DEF WholeBlock, receiverVars, send_filedata, SendChunk, SendRest,
     SendClose, SenderDies
<1>6. Kinds' /\ EachByteOnce' /\ SenderInv'
  <2> USE <1>1, <1>2, Numbers
      DEF Kinds, EachByteOnce, SenderInv, fileVars, relayVars, receiverVars
  <2>1. CASE SendChunk
    <3>1. left = num * SEND_SIZE + err /\ num > 0 BY <2>1 DEF SendChunk
    <3>2. num - 1 \in Nat /\ num * SEND_SIZE = (num - 1) * SEND_SIZE + SEND_SIZE
          /\ (num - 1) * SEND_SIZE \in Nat
      BY <3>1
    <3>3. left - SEND_SIZE = (num - 1) * SEND_SIZE + err
          /\ left - SEND_SIZE \in Nat
      BY <3>1, <3>2
    <3>4. Kinds' BY <2>1, <3>2, <3>3 DEF SendChunk
    <3>5. EachByteOnce' BY <2>1, <3>2, <3>3 DEF SendChunk
    <3>6. SenderInv' BY <2>1, <3>2, <3>3 DEF SendChunk
    <3> QED BY <3>4, <3>5, <3>6
  <2>2. CASE SendRest BY <2>2 DEF SendRest
  <2>3. CASE SendClose BY <2>3 DEF SendClose
  <2>4. CASE SenderDies BY <2>4 DEF SenderDies
  <2> QED BY <2>1, <2>2, <2>3, <2>4 DEF send_filedata
<1> QED BY <1>3, <1>4, <1>5, <1>6

(* As long as the sender lives, the server reads whole pieces, or all that  *)
(* is left: a piece is short only when the sender has sent everything.      *)
LEMMA RelayStep == ASSUME BlockInv, send_file PROVE BlockInv'
<1> USE DEF BlockInv
<1>1. SEND_SIZE \in Nat \ {0} /\ RECVBUF_SIZE = SEND_SIZE BY SizesAssumption
<1>2. /\ UNCHANGED <<fileVars, senderVars, closed, receiverVars>>
      /\ bs' = bs /\ err' = err
  BY SameBlock DEF send_file, RelayChunk, RelayRest, RelayClose, fileVars
<1>3. ReceiverInv' /\ WholeBlock'
  BY <1>2 DEF ReceiverInv, WholeBlock, Whole, senderVars, receiverVars
<1>4. /\ bs \in Nat /\ err \in 0..SEND_SIZE-1 /\ up \in Nat /\ left \in Nat
      /\ remain \in Nat /\ down \in Nat /\ landed \in Nat
      /\ left + up = remain /\ remain + down + landed = bs
  BY Numbers DEF Kinds, EachByteOnce
(* The sender has sent all: what is left of the block is on the connection. *)
<1>5. closed /\ spc # "died" => up = remain
  BY <1>4 DEF SenderInv
<1>6. CASE RelayChunk
  <2> DEFINE n == Least(up, RECVBUF_SIZE)
  <2>1. n \in Nat /\ n <= up /\ n <= SEND_SIZE /\ (up >= SEND_SIZE => n = SEND_SIZE)
        /\ (up < SEND_SIZE => n = up)
    BY <1>1, <1>4 DEF Least
  <2>2. /\ up' = up - n /\ down' = down + n /\ remain' = remain - n
        /\ wpc' = IF remain' <= err THEN "rest" ELSE "chunk"
        /\ eof' = eof /\ remain > 0 /\ wpc = "chunk"
        /\ (up >= SEND_SIZE \/ closed)
    BY <1>6, <1>1 DEF RelayChunk, Forward
  <2> HIDE DEF n
  <2>3. Kinds' BY <1>2, <1>4, <2>1, <2>2 DEF Kinds, fileVars, senderVars, receiverVars
  <2>4. EachByteOnce' /\ SenderInv'
    BY <1>2, <1>4, <2>1, <2>2 DEF EachByteOnce, SenderInv, senderVars, receiverVars
  <2>5. RelayInv'
    <3>1. spc' = spc BY <1>2 DEF senderVars
    <3>2. CASE spc # "died"
      <4>1. remain >= err /\ Whole(remain - err) BY <2>2, <3>2 DEF RelayInv
      <4>2. CASE up >= SEND_SIZE
        <5>1. remain - err \in Nat /\ remain - err > 0 BY <1>1, <1>4, <4>1, <4>2
        <5>2. remain - err >= SEND_SIZE
          BY <5>1, <4>1, WholeSteps
        <5>3. Whole((remain - err) - SEND_SIZE)
          BY <5>1, <5>2, <4>1, WholeSteps
        <5>4. (remain - err) - SEND_SIZE = remain' - err /\ remain' >= err
          BY <1>1, <1>4, <2>1, <2>2, <4>2, <5>2
        <5>5. eof => remain = 0 BY DEF RelayInv
        <5>6. Whole(remain' - err) BY <5>3, <5>4
        <5>7. Whole(remain' - err') BY <1>2, <5>6
        <5>8. remain' >= err' /\ (wpc' = "rest" => remain' <= err') /\ wpc' # "end"
          BY <1>2, <5>4, <2>2
        <5>9. ~eof' BY <2>2, <5>5
        <5> QED BY <5>7, <5>8, <5>9 DEF RelayInv, Whole
      <4>3. CASE up < SEND_SIZE
        <5>1. up = remain BY <1>1, <1>4, <1>5, <2>2, <3>2, <4>3
        <5>2. remain' = 0 BY <1>4, <2>1, <2>2, <4>3, <5>1
        <5>3. wpc' = "rest" BY <1>4, <2>2, <5>2
        <5>4. remain' <= err' BY <1>2, <1>4, <5>2
        <5> QED BY <5>2, <5>3, <5>4 DEF RelayInv
      <4> QED BY <1>1, <1>4, <4>2, <4>3
    <3>3. CASE spc = "died" BY <3>1, <3>3, <2>2 DEF RelayInv
    <3> QED BY <3>2, <3>3
  <2> QED BY <1>3, <2>3, <2>4, <2>5
<1>7. CASE RelayRest
  <2> DEFINE n == Least(up, remain)
  <2>1. n = up BY <1>4 DEF Least
  <2>2. /\ up' = 0 /\ down' = down + up /\ remain' = remain - up
        /\ wpc' = "chunk" /\ wpc = "rest" /\ eof' = eof /\ (up > 0 \/ closed)
    BY <1>7, <1>4, <2>1 DEF RelayRest, Forward
  <2>3. Kinds' BY <1>2, <1>4, <2>2 DEF Kinds, fileVars, senderVars, receiverVars
  <2>4. EachByteOnce' /\ SenderInv'
    BY <1>2, <1>4, <2>2 DEF EachByteOnce, SenderInv, senderVars, receiverVars
  <2>5. spc # "died" => remain' = 0
    <3>1. CASE closed BY <1>4, <1>5, <2>2, <3>1
    <3>2. CASE up > 0 /\ spc = "chunks"
      <4>1. num \in Nat /\ left = num * SEND_SIZE + err
        BY <3>2 DEF SenderInv, Kinds
      <4>2. num * SEND_SIZE \in Nat BY <1>1, <4>1
      <4>3. left >= err BY <1>1, <1>4, <4>1, <4>2
      <4>4. remain <= err BY <1>4, <2>2, <3>2 DEF RelayInv
      <4> QED BY <1>1, <1>4, <3>2, <4>3, <4>4
    <3>3. CASE up > 0 /\ spc \in {"close", "end"}
      <4>1. left = 0 BY <3>3 DEF SenderInv
      <4> QED BY <1>4, <2>2, <4>1
    <3>4. spc \in {"chunks", "close", "end", "died"} BY DEF Kinds
    <3> QED BY <2>2, <3>1, <3>2, <3>3, <3>4
  <2>6. RelayInv'
    <3>1. spc' = spc BY <1>2 DEF senderVars
    <3>2. eof => remain = 0 BY DEF RelayInv
    <3>3. eof => up = 0 BY <1>4, <3>2
    <3>4. eof' => remain' = 0 BY <1>4, <2>2, <3>2, <3>3
    <3> QED BY <2>2, <2>5, <3>1, <3>4 DEF RelayInv
  <2> QED BY <1>3, <2>3, <2>4, <2>6
<1>8. CASE RelayClose
  <2>1. /\ remain = 0 /\ wpc' = "end" /\ eof' \in BOOLEAN
        /\ UNCHANGED <<up, remain, down>>
    BY <1>8 DEF RelayClose
  <2>2. Kinds' BY <1>2, <2>1 DEF Kinds, fileVars, senderVars, receiverVars
  <2>3. EachByteOnce' /\ SenderInv'
    BY <1>2, <2>1 DEF EachByteOnce, SenderInv, senderVars, receiverVars
  <2>4. RelayInv' BY <2>1 DEF RelayInv
  <2> QED BY <1>3, <2>2, <2>3, <2>4
<1> QED BY <1>6, <1>7, <1>8 DEF send_file

(* A read is short only at the end of the block: before that, whole pieces  *)
(* lie before the receiver, since whole pieces are behind it.               *)
LEMMA ReceiverStep == ASSUME BlockInv, recv_file PROVE BlockInv'
<1> USE DEF BlockInv
<1>1. SEND_SIZE \in Nat \ {0} /\ RECVBUF_SIZE = SEND_SIZE BY SizesAssumption
<1>2. /\ UNCHANGED <<fileVars, senderVars, up, closed, relayVars, eof>>
      /\ bs' = bs /\ err' = err
  BY SameBlock DEF recv_file, RecvChunk, RecvLast, fileVars
<1>3. RelayInv' BY <1>2 DEF RelayInv, Whole, senderVars, relayVars
<1>4. /\ bs \in Nat /\ err \in 0..SEND_SIZE-1 /\ remain \in Nat /\ down \in Nat
      /\ landed \in Nat /\ cfp \in Nat /\ remain + down + landed = bs
  BY Numbers DEF Kinds, EachByteOnce
<1>5. landed = cfp /\ Whole(cfp)
  BY DEF ReceiverInv, recv_file, RecvChunk, RecvLast
<1>6. CASE RecvChunk
  <2>1. /\ down >= SEND_SIZE /\ down' = down - SEND_SIZE
        /\ landed' = cfp + SEND_SIZE /\ cfp' = cfp + SEND_SIZE
        /\ cpc' = cpc /\ cpc = "recv"
    BY <1>1, <1>6 DEF RecvChunk, Store
  <2>2. Kinds' BY <1>1, <1>2, <1>4, <2>1 DEF Kinds, fileVars, senderVars, relayVars
  <2>3. EachByteOnce' /\ SenderInv'
    BY <1>1, <1>2, <1>4, <1>5, <2>1
    DEF EachByteOnce, SenderInv, senderVars, relayVars
  <2>4. Whole(cfp + SEND_SIZE) BY <1>4, <1>5, WholeSteps
  <2>5. cfp' <= landed' BY <1>1, <1>4, <2>1
  <2>6. Whole(cfp') BY <2>1, <2>4
  <2>7. ReceiverInv' BY <2>1, <2>5, <2>6 DEF ReceiverInv, Whole
  <2>8. WholeBlock' BY <2>1 DEF WholeBlock
  <2> QED BY <1>3, <2>2, <2>3, <2>7, <2>8
<1>7. CASE RecvLast
  <2>1. /\ down < SEND_SIZE /\ down' = 0 /\ cfp' = cfp /\ cpc' = "end"
        /\ landed' = cfp + down /\ (down > 0 \/ eof)
    BY <1>1, <1>4, <1>5, <1>7 DEF RecvLast, Store
  <2>2. Kinds' BY <1>2, <1>4, <2>1 DEF Kinds, fileVars, senderVars, relayVars
  <2>3. EachByteOnce' /\ SenderInv'
    BY <1>2, <1>4, <1>5, <2>1
    DEF EachByteOnce, SenderInv, senderVars, relayVars
  <2>4. ReceiverInv' BY <1>4, <2>1 DEF ReceiverInv
  <2>5. ASSUME spc # "died" PROVE remain = 0
    <3> SUFFICES ASSUME remain > 0 PROVE FALSE
      BY <1>4
    <3>1. remain >= err /\ Whole(remain - err) BY <2>5 DEF RelayInv
    <3>2. bs - err \in Nat /\ Whole(bs - err) BY <1>4, <3>1, WholeBs
    <3>3. remain - err \in Nat /\ remain - err <= bs - err
          /\ down + landed = (bs - err) - (remain - err)
      BY <1>4, <3>1, <3>2
    <3>4. Whole(down + landed) BY <3>1, <3>2, <3>3, WholeMinus
    <3>5. down = (down + landed) - landed /\ landed <= down + landed
      BY <1>4
    <3>6. Whole(down) BY <1>4, <1>5, <3>4, <3>5, WholeMinus
    <3>7. down = 0 BY <1>1, <1>4, <2>1, <3>6, WholeSteps
    <3>8. ~eof BY DEF RelayInv
    <3> QED BY <2>1, <3>7, <3>8
  <2>6. WholeBlock'
    <3>1. spc' = spc BY <1>2 DEF senderVars
    <3>2. remain = 0 => landed' = bs' BY <1>2, <1>4, <1>5, <2>1
    <3> QED BY <2>5, <3>1, <3>2 DEF WholeBlock
  <2> QED BY <1>3, <2>2, <2>3, <2>4, <2>6
<1> QED BY <1>6, <1>7 DEF recv_file

LEMMA NextBlock == BlockInv /\ [Next]_vars => BlockInv'
<1> SUFFICES ASSUME BlockInv, [Next]_vars PROVE BlockInv'
  OBVIOUS
<1>1. CASE UNCHANGED vars
  BY <1>1 DEF vars, fileVars, senderVars, relayVars, receiverVars, BlockInv,
     Kinds, EachByteOnce, SenderInv, RelayInv, ReceiverInv, WholeBlock, Whole,
     bs, err
<1> QED BY <1>1, SenderStep, RelayStep, ReceiverStep DEF Next

THEOREM BlockInvariant == Spec => []BlockInv
  BY InitBlock, NextBlock, PTL DEF Spec

(* No loop of the three programs runs past the block: neither the mapped    *)
(* file nor the buffers are left, for every size of block and of piece.     *)
THEOREM BlockTypes == Spec => []TypeOK
  BY BlockInvariant, Bounds, PTL

(* send_filedata, send_file and recv_file neither lose nor double a byte.   *)
THEOREM EachByteOnceThm == Spec => []EachByteOnce
<1>1. BlockInv => EachByteOnce BY DEF BlockInv
<1> QED BY <1>1, BlockInvariant, PTL

(* recv_file takes a short read for the end of its block, and is right as   *)
(* long as the sender does not die.                                         *)
THEOREM WholeBlockThm == Spec => []WholeBlock
<1>1. BlockInv => WholeBlock BY DEF BlockInv
<1> QED BY <1>1, BlockInvariant, PTL

-----------------------------------------------------------------------------
(* How a file is cut.                                                       *)

LEMMA OffsetsApart ==
  ASSUME NEW i \in Nat, NEW j \in Nat, i < j
  PROVE  Offset(i) \in Nat /\ Offset(j) \in Nat /\ Offset(i) + BLOCKSIZE <= Offset(j)
<1> DEFINE d == (j - i) - 1
<1>1. d \in Nat /\ BLOCKSIZE \in Nat BY SizesAssumption
<1>2. BLOCKSIZE * d \in Nat BY <1>1
<1>3. j = (i + 1) + d BY <1>1
<1>4. BLOCKSIZE * j = (BLOCKSIZE * i + BLOCKSIZE) + BLOCKSIZE * d
  BY <1>1, <1>3
<1> HIDE DEF d
<1>5. BLOCKSIZE * i \in Nat BY <1>1
<1> QED BY <1>1, <1>2, <1>4, <1>5 DEF Offset

(* A byte is in the block whose number is its place by the size of blocks.  *)
LEMMA ByteHasBlock ==
  ASSUME size \in Nat \ {0}, NEW x \in 0..size-1
  PROVE  \E i \in 0..Count(size)-1 : In(x, i)
<1> DEFINE i == x \div BLOCKSIZE
<1>1. BLOCKSIZE \in Nat \ {0} /\ x \in Nat BY SizesAssumption
<1>2. /\ i \in Nat /\ x % BLOCKSIZE \in 0..BLOCKSIZE-1
      /\ x = BLOCKSIZE * i + (x % BLOCKSIZE)
  BY <1>1, DivMod
<1>3. /\ Full(size) \in Nat /\ LastBs(size) \in 0..BLOCKSIZE-1
      /\ size = Offset(Full(size)) + LastBs(size) /\ Count(size) \in Nat
  BY FullOf DEF Offset
<1> HIDE DEF i
<1>4. Offset(i) \in Nat /\ Offset(i) <= x /\ x < Offset(i) + BLOCKSIZE
  BY <1>1, <1>2 DEF Offset
<1>5. Offset(Full(size)) \in Nat BY <1>1, <1>3 DEF Offset
<1>6. CASE i < Full(size)
  BY <1>1, <1>2, <1>3, <1>4, <1>6 DEF In, Bs, Count
<1>7. CASE i = Full(size)
  <2>1. LastBs(size) > 0 /\ x < Offset(i) + LastBs(size)
    BY <1>1, <1>3, <1>4, <1>5, <1>7
  <2>2. i \in 0..Count(size)-1 BY <1>3, <1>7, <2>1 DEF Count
  <2>3. Bs(size, i) = LastBs(size) BY <1>3, <1>7 DEF Bs
  <2> QED BY <1>4, <2>1, <2>2, <2>3 DEF In
<1>8. CASE i > Full(size)
  <2>1. Offset(Full(size)) + BLOCKSIZE <= Offset(i)
    BY <1>2, <1>3, <1>8, OffsetsApart
  <2> QED BY <1>1, <1>3, <1>4, <1>5, <2>1
<1> QED BY <1>2, <1>3, <1>6, <1>7, <1>8

(* A block ends before the next one starts, and within the file.            *)
LEMMA BlockEnds ==
  ASSUME size \in Nat \ {0}, NEW i \in 0..Count(size)-1
  PROVE  /\ Bs(size, i) \in 1..BLOCKSIZE /\ Offset(i) \in Nat
         /\ Offset(i) + Bs(size, i) <= size
<1>1. BLOCKSIZE \in Nat \ {0} BY SizesAssumption
<1>2. /\ Full(size) \in Nat /\ LastBs(size) \in 0..BLOCKSIZE-1
      /\ size = Offset(Full(size)) + LastBs(size) /\ Count(size) \in Nat
  BY FullOf DEF Offset
<1>3. Offset(Full(size)) \in Nat /\ Offset(i) \in Nat BY <1>1, <1>2 DEF Offset
<1>4. Bs(size, i) \in 1..BLOCKSIZE BY BlockSize
<1>5. i \in Nat /\ i <= Full(size) BY <1>2 DEF Count
<1>6. CASE i < Full(size)
  <2>1. Offset(i) + BLOCKSIZE <= Offset(Full(size))
    BY <1>2, <1>5, <1>6, OffsetsApart
  <2> QED BY <1>1, <1>2, <1>3, <1>4, <1>6, <2>1
<1>7. CASE i = Full(size)
  <2>1. Bs(size, i) = LastBs(size) BY <1>2, <1>7 DEF Bs
  <2> QED BY <1>1, <1>2, <1>3, <1>4, <1>7, <2>1
<1> QED BY <1>2, <1>5, <1>6, <1>7

LEMMA OneBlock ==
  ASSUME size \in Nat \ {0}, NEW i \in 0..Count(size)-1,
         NEW j \in 0..Count(size)-1, i < j, NEW x \in Nat, In(x, i), In(x, j)
  PROVE  FALSE
<1>1. i \in Nat /\ j \in Nat BY FullOf
<1>2. Offset(i) + BLOCKSIZE <= Offset(j) /\ Offset(i) \in Nat /\ Offset(j) \in Nat
  BY <1>1, OffsetsApart
<1>3. Bs(size, i) \in 1..BLOCKSIZE BY BlockEnds
<1>4. x < Offset(i) + Bs(size, i) /\ Offset(j) <= x BY DEF In
<1> QED BY <1>2, <1>3, <1>4, SizesAssumption

(* send_file cuts a file of any size so that each of its bytes goes out     *)
(* once: the last block is the shorter one, if there is one.                *)
THEOREM BlocksCoverThm == Spec => []BlocksCover
<1>1. BlockInv => BlocksCover
  <2> SUFFICES ASSUME size \in Nat \ {0}, block \in 0..Count(size)-1
               PROVE  BlocksCover
    BY DEF BlockInv, Kinds
  <2>1. \A x \in 0..size-1 : \E i \in 0..Count(size)-1 : In(x, i)
    BY ByteHasBlock
  <2>2. ASSUME NEW i \in 0..Count(size)-1, NEW j \in 0..Count(size)-1, i # j,
               NEW x \in 0..size-1
        PROVE  ~(In(x, i) /\ In(x, j))
    <3>1. i \in Nat /\ j \in Nat /\ x \in Nat BY FullOf
    <3>2. i < j \/ j < i BY <2>2, <3>1
    <3> QED BY <3>1, <3>2, OneBlock
  <2> QED BY <2>1, <2>2, BlockEnds DEF BlocksCover
<1> QED BY <1>1, BlockInvariant, PTL
=============================================================================
