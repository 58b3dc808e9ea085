------------------------- MODULE LogFilesProperties -------------------------
(* What the log owes to whoever reads the files. *)
EXTENDS LogFiles

Numbers(f) == {files[f][i].num : i \in DOMAIN files[f]}
Kept == UNION {Numbers(f) : f \in FileNos}
OfThisRun == {n \in first..next-1 : init}

(* What the variables hold; whoever writes, rotates or is about to unlock   *)
(* holds the lock.                                                          *)
TypeOK ==
  /\ files \in [FileNos -> Seq([num : 1..MaxLines, end : Nat])]
  /\ up \in BOOLEAN /\ runs \in 0..MaxRuns
  /\ first \in 1..next /\ next \in 1..MaxLines+1
  /\ place \in Places \cup {0} /\ debug \in {0, 1} /\ init \in BOOLEAN
  /\ size \in {0, FileSize} /\ no \in FileNos /\ pFile \in BOOLEAN
  /\ synced \in 0..Len(files[no])
  /\ pc \in [Threads -> {"idle", "print", "lock", "put", "rotate", "unlock"}]
  /\ \A t \in Threads : pc[t] \in {"put", "rotate", "unlock"} <=> mutex = t

(* No file grows past its limit by more than the line that reached it, over *)
(* any number of restarts that continue a file: every line begins below it. *)
Bounded ==
  \A f \in FileNos : \A i \in DOMAIN files[f] :
    End(files[f], i - 1) < FileSize

(* The lines lost to a truncated file are the oldest of this process, and   *)
(* then every other file is full: no line goes while there is room.         *)
OldestLost ==
  /\ \A n \in Kept \cap OfThisRun : n..next-1 \subseteq Kept
  /\ ~(OfThisRun \subseteq Kept) =>
       \A f \in FileNos \ {no} : Length(files[f]) >= FileSize

=============================================================================
