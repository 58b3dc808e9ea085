--------------------------- MODULE MCFileTransfer ---------------------------
(* Instances of FileTransfer for TLC. *)
EXTENDS FileTransferProperties

CONSTANTS a, b, c, d

(* One client sends a file of a single block, then one of two blocks, to    *)
(* the same client.                                                         *)
FromAA == <<a, a>>
ToBB == <<b, b>>
OneTwo == <<1, 2>>

(* Two clients send a file of one block each, to two others. *)
FromAB == <<a, b>>
ToCD == <<c, d>>
OneEach == <<1, 1>>
=============================================================================
