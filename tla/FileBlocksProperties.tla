------------------------ MODULE FileBlocksProperties ------------------------
(* What cutting a file into blocks, and moving a block, must achieve. *)
EXTENDS FileBlocks

(* What the variables hold: no loop runs past the block, whatever the       *)
(* remainder of its size by the sizes of the pieces.                        *)
TypeOK ==
  /\ size \in Nat \ {0} /\ block \in 0..Count(size)-1
  /\ spc \in {"chunks", "close", "end", "died"}
  /\ num \in Nat /\ sfp \in 0..bs /\ left \in 0..bs
  /\ up \in 0..bs /\ closed \in BOOLEAN
  /\ wpc \in {"chunk", "rest", "end"} /\ remain \in 0..bs
  /\ down \in 0..bs /\ eof \in BOOLEAN
  /\ cpc \in {"recv", "end"} /\ cfp \in 0..bs /\ landed \in 0..bs

(* The blocks cover the file: every byte is in one block and only in one,   *)
(* and no block reaches past the end.                                       *)
In(x, i) == Offset(i) <= x /\ x < Offset(i) + Bs(size, i)
BlocksCover ==
  /\ \A x \in 0..size-1 : \E i \in 0..Count(size)-1 : In(x, i)
  /\ \A i, j \in 0..Count(size)-1 :
       i # j => \A x \in 0..size-1 : ~(In(x, i) /\ In(x, j))
  /\ Bs(size, block) \in 1..BLOCKSIZE /\ Offset(block) + Bs(size, block) <= size

(* At any moment each byte of the block is in one place: with the sender,   *)
(* on one of the two connections, or in the file, in this order.            *)
EachByteOnce ==
  /\ left + up = remain
  /\ remain + down + landed = bs

(* recv_file stops only when it has the whole block, unless the sender died *)
(* on the way: a short read never comes earlier than the end of the block.  *)
WholeBlock == cpc = "end" /\ spc # "died" => landed = bs

(* If the sender survives, the block gets into the receiver's file. *)
BlockLands == <>(landed = bs \/ spc = "died")

(* send_file of the server ends, and both ends are closed, if the sender    *)
(* survives.                                                                *)
RelayEnds == <>(wpc = "end" \/ spc = "died")

=============================================================================
