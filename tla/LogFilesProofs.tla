--------------------------- MODULE LogFilesProofs ---------------------------
(* Theorems about LogFiles, for any threads, files, limits and lengths. *)
EXTENDS LogFilesProperties, TLAPS

Line == [num : 1..MaxLines, end : Nat]
Filed == files \in [FileNos -> Seq(Line)] /\ synced \in 0..Len(files[no])
Locations == {"idle", "print", "lock", "put", "rotate", "unlock"}

(* The rest of TypeOK: everything but the contents of the files. *)
Scalars ==
  /\ up \in BOOLEAN /\ runs \in 0..MaxRuns
  /\ first \in 1..next /\ next \in 1..MaxLines+1
  /\ place \in Places \cup {0} /\ debug \in {0, 1} /\ init \in BOOLEAN
  /\ size \in {0, FileSize} /\ no \in FileNos /\ pFile \in BOOLEAN
  /\ pc \in [Threads -> Locations]
  /\ \A t \in Threads : pc[t] \in {"put", "rotate", "unlock"} <=> mutex = t

LEMMA Split == TypeOK <=> Filed /\ Scalars
  BY Zenon DEF TypeOK, Filed, Scalars, Line, Locations

LEMMA InitTypes == Init => Filed /\ Scalars
<1> SUFFICES ASSUME Init PROVE Filed /\ Scalars
  OBVIOUS
<1>1. 0 \in FileNos BY LogAssumption DEF FileNos
<1>2. files = [f \in FileNos |-> <<>>] /\ synced = 0 /\ no = 0 BY DEF Init
<1>3. Filed BY <1>1, <1>2 DEF Filed
<1>4. Scalars BY <1>1, LogAssumption DEF Init, Scalars, Locations
<1> QED BY <1>3, <1>4

(* A process that ends gives back the lock and the file. *)
LEMMA ExitTypes ==
  ASSUME Scalars, Exit, files' \in [FileNos -> Seq(Line)]
  PROVE  Filed' /\ Scalars'
<1>1. 0 \in FileNos BY LogAssumption DEF FileNos
<1>2. no' = 0 /\ synced' = 0 BY DEF Exit
<1>3. Len(files'[0]) \in Nat BY <1>1
<1>4. Filed' BY <1>1, <1>2, <1>3 DEF Filed
<1>5. Scalars' BY <1>1, LogAssumption DEF Exit, Scalars, Locations
<1> QED BY <1>4, <1>5

LEMMA KillTypes == ASSUME Filed, Scalars, Kill PROVE Filed' /\ Scalars'
<1>1. PICK n \in synced..Len(files[no]) :
        files' = IF pFile THEN [files EXCEPT ![no] = SubSeq(@, 1, n)] ELSE files
  BY DEF Kill
<1>2. no \in FileNos /\ pFile \in BOOLEAN BY DEF Scalars
<1>3. files[no] \in Seq(Line) BY <1>2 DEF Filed
<1>4. n \in Nat /\ n <= Len(files[no]) BY <1>3 DEF Filed
<1>5. SubSeq(files[no], 1, n) \in Seq(Line) BY <1>3, <1>4
<1>6. files' \in [FileNos -> Seq(Line)] BY <1>1, <1>2, <1>5 DEF Filed
<1> QED BY <1>6, ExitTypes DEF Kill

LEMMA FlagTypes ==
  ASSUME Filed, Scalars, Start \/ LOG_SetPrintLogPlaceFlag
  PROVE  Filed' /\ Scalars'
<1>1. UNCHANGED fileVars BY DEF Start, LOG_SetPrintLogPlaceFlag
<1>2. Filed' BY <1>1 DEF Filed, fileVars
<1>3. CASE Start
  <2>1. UNCHANGED <<next, no, pFile, mutex, pc>> BY <1>3 DEF Start, fileVars
  <2>2. /\ up' = TRUE /\ runs < MaxRuns /\ runs' = runs + 1 /\ first' = next
        /\ place' \in Places /\ debug' \in {0, 1}
        /\ init' = (place' = ToTerm) /\ size' = IF init' THEN FileSize ELSE 0
    BY <1>3 DEF Start
  <2>3. runs' \in 0..MaxRuns /\ first' \in 1..next'
    BY <2>1, <2>2, LogAssumption DEF Scalars
  <2>4. init' \in BOOLEAN /\ size' \in {0, FileSize} BY <2>2
  <2> QED BY <2>1, <2>2, <2>3, <2>4, <1>2 DEF Scalars
<1>4. CASE LOG_SetPrintLogPlaceFlag
  BY <1>2, <1>4 DEF LOG_SetPrintLogPlaceFlag, Scalars, runVars, fileVars
<1> QED BY <1>3, <1>4

LEMMA OpenTypes ==
  ASSUME Filed, Scalars, NEW t \in Threads, LOG_OpenLogFile(t)
  PROVE  Filed' /\ Scalars'
<1>1. PICK kept \in {files[no], <<>>} :
        \/ files' = [files EXCEPT ![no] = kept] /\ synced' = Len(kept)
        \/ UNCHANGED <<files, synced>>
  BY DEF LOG_OpenLogFile
<1>2. no \in FileNos BY DEF Scalars
<1>3. kept \in Seq(Line) /\ Len(kept) \in Nat
  <2>1. files[no] \in Seq(Line) BY <1>2 DEF Filed
  <2>2. <<>> \in Seq(Line) OBVIOUS
  <2>3. kept \in Seq(Line) BY <2>1, <2>2
  <2> QED BY <2>3
<1>4. UNCHANGED <<runVars, flagVars, next, no>> /\ pFile' = (pFile \/ init)
  BY DEF LOG_OpenLogFile
<1>5. Filed' BY <1>1, <1>2, <1>3, <1>4 DEF Filed
<1>6. /\ mutex = Nobody /\ mutex' = t
      /\ pc[t] = "lock" /\ pc' = [pc EXCEPT ![t] = "put"]
  BY DEF LOG_OpenLogFile, Goes
<1>7. /\ pc' \in [Threads -> Locations]
      /\ \A u \in Threads :
           pc'[u] \in {"put", "rotate", "unlock"} <=> mutex' = u
  BY <1>6, LogAssumption DEF Scalars, Locations
<1>8. pFile' \in BOOLEAN BY <1>4
<1>9. Scalars' BY <1>4, <1>7, <1>8 DEF Scalars, runVars, flagVars
<1> QED BY <1>5, <1>9

(* Sizes and ends are numbers; an append leaves the lines before it. *)
LEMMA Ends ==
  ASSUME NEW file \in Seq(Line)
  PROVE  /\ Length(file) \in Nat
         /\ \A i \in DOMAIN file : End(file, i - 1) \in Nat
<1>1. \A i \in 1..Len(file) : file[i].end \in Nat
  <2>1. \A i \in 1..Len(file) : file[i] \in Line OBVIOUS
  <2> QED BY <2>1 DEF Line
<1>2. Len(file) \in Nat /\ DOMAIN file = 1..Len(file) OBVIOUS
<1> QED BY <1>1, <1>2 DEF Length, End

LEMMA PutTypes ==
  ASSUME Filed, Scalars, NEW t \in Threads, Put(t) PROVE Filed' /\ Scalars'
<1>1. PICK n \in Lengths :
        files' = [files EXCEPT ![no] =
                    Append(@, [num |-> next, end |-> Length(@) + n])]
  BY DEF Put
<1>2. next \in 1..MaxLines /\ no \in FileNos
  BY LogAssumption DEF Put, Scalars
<1> DEFINE line == [num |-> next, end |-> Length(files[no]) + n]
<1>3. line \in Line
  <2>1. files[no] \in Seq(Line) BY <1>2 DEF Filed
  <2>2. Length(files[no]) \in Nat BY <2>1, Ends
  <2>3. Length(files[no]) + n \in Nat BY <2>2, LogAssumption
  <2> QED BY <1>2, <2>3 DEF Line
<1>4. files[no] \in Seq(Line) BY <1>2 DEF Filed
<1> HIDE DEF line
<1>5. /\ Append(files[no], line) \in Seq(Line)
      /\ Len(Append(files[no], line)) = Len(files[no]) + 1
  BY <1>3, <1>4
<1>6. files' = [files EXCEPT ![no] = Append(files[no], line)]
  BY <1>1 DEF line
<1>7. UNCHANGED <<runVars, flagVars, synced, no, pFile, mutex>>
      /\ next' = next + 1
  BY DEF Put
<1>8. Len(files[no]) \in Nat BY <1>4
<1>9. Filed' BY <1>2, <1>5, <1>6, <1>7, <1>8 DEF Filed
<1>10. PICK to \in {"rotate", "unlock"} :
         pc[t] = "put" /\ pc' = [pc EXCEPT ![t] = to]
  BY DEF Put, Goes
<1>11. /\ pc' \in [Threads -> Locations]
       /\ \A u \in Threads :
            pc'[u] \in {"put", "rotate", "unlock"} <=> mutex' = u
  BY <1>7, <1>10 DEF Scalars, Locations
<1>12. first' \in 1..next' /\ next' \in 1..MaxLines+1
  BY <1>2, <1>7, LogAssumption DEF Scalars, runVars
<1>13. Scalars' BY <1>7, <1>11, <1>12 DEF Scalars, runVars, flagVars
<1> QED BY <1>9, <1>13

LEMMA OtherTypes ==
  ASSUME Filed, Scalars, NEW t \in Threads,
         LOG_INFO(t) \/ ToTerminal(t) \/ ToFile(t) \/ NoFile(t) \/ Unlock(t)
  PROVE  Filed' /\ Scalars'
<1>1. UNCHANGED fileVars
  BY DEF LOG_INFO, ToTerminal, ToFile, NoFile, Unlock
<1>2. Filed' BY <1>1 DEF Filed, fileVars
<1> USE LogAssumption
    DEF Scalars, Goes, runVars, flagVars, fileVars, Locations
<1>3. CASE LOG_INFO(t) BY <1>2, <1>3 DEF LOG_INFO
<1>4. CASE ToTerminal(t) BY <1>2, <1>4 DEF ToTerminal
<1>5. CASE ToFile(t) BY <1>2, <1>5 DEF ToFile
<1>6. CASE NoFile(t) BY <1>2, <1>6 DEF NoFile
<1>7. CASE Unlock(t) BY <1>2, <1>7 DEF Unlock
<1> QED BY <1>3, <1>4, <1>5, <1>6, <1>7

LEMMA RotateTypes ==
  ASSUME Filed, Scalars, NEW t \in Threads, Rotate(t) PROVE Filed' /\ Scalars'
<1>1. (no + 1) % MAX_LOG_FILE_NUM \in FileNos
  BY LogAssumption DEF Scalars, FileNos
<1>2. no' \in FileNos /\ files' = files /\ synced' = 0 BY <1>1 DEF Rotate
<1>3. Len(files[no']) \in Nat BY <1>2 DEF Filed
<1>4. Filed' BY <1>2, <1>3 DEF Filed
<1>5. Scalars'
  BY <1>2 DEF Rotate, Scalars, Goes, runVars, flagVars, Locations
<1> QED BY <1>4, <1>5

LEMMA NextTypes == Filed /\ Scalars /\ [Next]_vars => Filed' /\ Scalars'
<1> SUFFICES ASSUME Filed, Scalars, [Next]_vars PROVE Filed' /\ Scalars'
  OBVIOUS
<1>1. CASE LOG_Destroy
  BY <1>1, ExitTypes DEF LOG_Destroy, Filed
<1>2. CASE UNCHANGED vars
  BY <1>2 DEF vars, Filed, Scalars, runVars, flagVars, fileVars
<1> QED
  BY <1>1, <1>2, FlagTypes, KillTypes, OpenTypes, PutTypes, OtherTypes,
     RotateTypes
  DEF Next, LOG_PrintLog

(* LOG_PrintLog: a thread that writes to a file or changes it has the lock, *)
(* and no other has, also over the end and the next start of the process;   *)
(* g_ucLogFileNo is always the number of a file.                            *)
THEOREM LogTypes == Spec => []TypeOK
  BY InitTypes, NextTypes, Split, PTL DEF Spec

-----------------------------------------------------------------------------
(* What the files hold.  The files form a ring: Old is the file that is     *)
(* written after the open one, or next if none is open, and Rank counts     *)
(* from it.  RunLines are the lines of this process in a file.              *)
RunLines(f) == Numbers(f) \cap OfThisRun
Old == IF pFile THEN (no + 1) % MAX_LOG_FILE_NUM ELSE no
Rank(f) == IF f < Old THEN f + MAX_LOG_FILE_NUM - Old ELSE f - Old

(* The open file has room, or is full, has a line of this process and is    *)
(* about to be left; where no process runs no thread does.                  *)
OpenInv ==
  /\ ~up => ~pFile /\ \A t \in Threads : pc[t] = "idle"
  /\ pFile => init
  /\ init => size = FileSize
  /\ pFile /\ (\A t \in Threads : pc[t] # "rotate")
       => Length(files[no]) < FileSize
  /\ \A t \in Threads :
       pc[t] = "rotate" => /\ pFile /\ Length(files[no]) >= FileSize
                           /\ RunLines(no) # {}

NumberInv == \A f \in FileNos : Numbers(f) \subseteq 1..next-1

(* The lines of this process get younger along the ring, and it has a line  *)
(* in every file from the first that has one on; only full files are left.  *)
OrderInv ==
  \A f \in FileNos, g \in FileNos :
    Rank(f) < Rank(g) => \A m \in RunLines(f), n \in RunLines(g) : m < n

FilledInv ==
  \A f \in FileNos, g \in FileNos :
    RunLines(f) # {} /\ Rank(f) < Rank(g)
      => RunLines(g) # {} \/ (g = no /\ pFile)

FullInv ==
  \A f \in FileNos :
    RunLines(f) # {} /\ ~(f = no /\ pFile) => Length(files[f]) >= FileSize

(* OldestLost, by the files. *)
There(n) == \E f \in FileNos : n \in RunLines(f)
OldestInv ==
  /\ \A n : There(n) => \A m \in n..next-1 : There(m)
  /\ \A n \in OfThisRun :
       There(n) \/ \A f \in FileNos \ {no} : Length(files[f]) >= FileSize

RingInv == OrderInv /\ FilledInv /\ FullInv /\ OldestInv
LogInv == OpenInv /\ NumberInv /\ RingInv /\ Bounded

LEMMA Oldest == ASSUME Scalars, OldestInv PROVE OldestLost
<1>1. \A n : There(n) <=> n \in Kept \cap OfThisRun
  BY DEF There, RunLines, Kept
<1>2. ASSUME NEW n \in Kept \cap OfThisRun PROVE n..next-1 \subseteq Kept
  BY <1>1 DEF OldestInv
<1>3. ASSUME NEW n \in OfThisRun, n \notin Kept
      PROVE  \A f \in FileNos \ {no} : Length(files[f]) >= FileSize
  BY <1>1, <1>3 DEF OldestInv
<1> QED BY <1>2, <1>3 DEF OldestLost

(* A process that has written no line owes nothing. *)
LEMMA NoLines == OfThisRun = {} => RingInv
<1> SUFFICES ASSUME OfThisRun = {} PROVE RingInv
  OBVIOUS
<1>1. \A f : RunLines(f) = {} BY DEF RunLines
<1>2. OldestInv BY <1>1 DEF OldestInv, There
<1> QED BY <1>1, <1>2 DEF RingInv, OrderInv, FilledInv, FullInv

LEMMA InitLog == Init => LogInv
<1> SUFFICES ASSUME Init PROVE LogInv
  OBVIOUS
<1>1. OfThisRun = {} BY DEF Init, OfThisRun
<1>2. OpenInv BY DEF Init, OpenInv
<1>3. \A f \in FileNos : DOMAIN files[f] = {} BY DEF Init
<1>4. NumberInv /\ Bounded BY <1>3 DEF NumberInv, Numbers, Bounded
<1> QED BY <1>1, <1>2, <1>4, NoLines DEF LogInv

(* A file that keeps some first lines of its own keeps its bounds. *)
LEMMA Prefixes ==
  ASSUME NumberInv, Bounded, files \in [FileNos -> Seq(Line)],
         NEW f \in FileNos, NEW n \in Nat, n <= Len(files[f]),
         NEW new, new = SubSeq(files[f], 1, n)
  PROVE  /\ \A i \in DOMAIN new : End(new, i - 1) < FileSize
         /\ {new[i].num : i \in DOMAIN new} \subseteq 1..next-1
<1>1. files[f] \in Seq(Line) OBVIOUS
<1>2. /\ DOMAIN new = 1..n /\ DOMAIN files[f] = 1..Len(files[f])
      /\ Len(files[f]) \in Nat /\ \A i \in 1..n : new[i] = files[f][i]
  BY <1>1
<1>3. \A i \in 1..n : End(new, i - 1) = End(files[f], i - 1) BY <1>2 DEF End
<1>4. \A i \in 1..n : i \in DOMAIN files[f] BY <1>2
<1>5. \A i \in 1..n : End(files[f], i - 1) < FileSize
  BY <1>4 DEF Bounded
<1>6. \A i \in 1..n : files[f][i].num \in 1..next-1
  BY <1>4 DEF NumberInv, Numbers
<1> QED BY <1>2, <1>3, <1>5, <1>6

(* The end of the process, orderly or not, and the next start. *)
LEMMA ExitLog ==
  ASSUME LogInv, Filed, Scalars, Kill \/ LOG_Destroy
  PROVE  LogInv'
<1>1. Exit BY DEF Kill, LOG_Destroy
<1>2. (OfThisRun = {})' BY <1>1 DEF Exit, OfThisRun
<1>3. OpenInv' BY <1>1 DEF Exit, OpenInv
<1>4. ASSUME NEW f \in FileNos
      PROVE  \E n \in Nat : n <= Len(files[f])
                            /\ files'[f] = SubSeq(files[f], 1, n)
  <2>1. files[f] \in Seq(Line) BY DEF Filed
  <2>2. Len(files[f]) \in Nat /\ files[f] = SubSeq(files[f], 1, Len(files[f]))
    BY <2>1
  <2>3. CASE files'[f] = files[f] BY <2>2, <2>3
  <2>4. CASE files'[f] # files[f]
    <3>1. Kill BY <2>4 DEF LOG_Destroy
    <3>2. PICK n \in synced..Len(files[no]) :
            files' = IF pFile THEN [files EXCEPT ![no] = SubSeq(@, 1, n)]
                              ELSE files
      BY <3>1 DEF Kill
    <3>3. f = no /\ files'[f] = SubSeq(files[f], 1, n)
      BY <2>4, <3>2 DEF Filed
    <3>4. n \in Nat /\ n <= Len(files[f]) BY <2>1, <3>2, <3>3 DEF Filed
    <3> QED BY <3>3, <3>4
  <2> QED BY <2>3, <2>4
<1>5. next' = next BY <1>1 DEF Exit
<1>6. ASSUME NEW f \in FileNos
      PROVE  /\ \A i \in DOMAIN files'[f] : End(files'[f], i - 1) < FileSize
             /\ {files'[f][i].num : i \in DOMAIN files'[f]} \subseteq 1..next-1
  BY <1>4, Prefixes DEF LogInv, Filed
<1>7. NumberInv' /\ Bounded' BY <1>5, <1>6 DEF NumberInv, Numbers, Bounded
<1>8. RingInv' BY <1>2, NoLines, PTL
<1> QED BY <1>3, <1>7, <1>8 DEF LogInv

LEMMA StartLog == ASSUME LogInv, Scalars, Start PROVE LogInv'
<1>1. /\ UNCHANGED <<files, next, no, pFile, pc>> /\ first' = next
      /\ init' => size' = FileSize
      /\ ~up /\ up'
  BY DEF Start, fileVars
<1>2. (OfThisRun = {})'
  <2>1. next \in Nat BY LogAssumption DEF Scalars
  <2> QED BY <1>1, <2>1 DEF OfThisRun
<1>3. NumberInv' /\ Bounded'
  BY <1>1 DEF LogInv, NumberInv, Numbers, Bounded
<1>4. RingInv' BY <1>2, NoLines, PTL
<1>5. OpenInv'
  <2>1. ~pFile /\ \A t \in Threads : pc[t] = "idle"
    BY <1>1 DEF LogInv, OpenInv
  <2> QED BY <1>1, <2>1 DEF OpenInv
<1> QED BY <1>3, <1>4, <1>5 DEF LogInv

(* The places of the ring are different; none is before the oldest, none    *)
(* after the open file.                                                     *)
LEMMA Ranks ==
  ASSUME Scalars
  PROVE  /\ \A f \in FileNos : Rank(f) \in 0..MAX_LOG_FILE_NUM-1
         /\ pFile => Rank(no) = MAX_LOG_FILE_NUM - 1
         /\ ~pFile => Rank(no) = 0
         /\ \A f \in FileNos \ {no} : Rank(f) # Rank(no)
<1>1. no \in FileNos BY DEF Scalars
<1>2. MAX_LOG_FILE_NUM \in Nat \ {0} BY LogAssumption
<1>3. Old \in FileNos
  <2>1. CASE no + 1 = MAX_LOG_FILE_NUM
    <3>1. (no + 1) % MAX_LOG_FILE_NUM = 0 BY <1>2, <2>1
    <3> QED BY <1>1, <1>2, <3>1 DEF Old, FileNos
  <2>2. CASE no + 1 # MAX_LOG_FILE_NUM
    <3>1. (no + 1) % MAX_LOG_FILE_NUM = no + 1
      BY <1>1, <1>2, <2>2 DEF FileNos
    <3> QED BY <1>1, <1>2, <2>2, <3>1 DEF Old, FileNos
  <2> QED BY <2>1, <2>2
<1>4. pFile => IF no + 1 = MAX_LOG_FILE_NUM THEN Old = 0 ELSE Old = no + 1
  BY <1>1, <1>2 DEF Old, FileNos
<1>5. ~pFile => Old = no BY DEF Old
<1> QED BY <1>1, <1>2, <1>3, <1>4, <1>5 DEF Rank, FileNos

(* Opening takes the oldest place off the ring and adds it at the end. *)
LEMMA OpenRanks ==
  ASSUME Scalars, Scalars', ~pFile, pFile', no' = no,
         NEW f \in FileNos, NEW g \in FileNos \ {no}, Rank(f)' < Rank(g)'
  PROVE  f # no /\ Rank(f) < Rank(g)
<1>1. no \in FileNos BY DEF Scalars
<1>2. MAX_LOG_FILE_NUM \in Nat \ {0} BY LogAssumption
<1>3. Old = no BY DEF Old
<1>4. IF no + 1 = MAX_LOG_FILE_NUM THEN Old' = 0 ELSE Old' = no + 1
  BY <1>1, <1>2 DEF Old, FileNos
<1> QED BY <1>1, <1>2, <1>3, <1>4 DEF Rank, FileNos

(* A step that leaves the files and the process alone. *)
LEMMA Frame ==
  ASSUME LogInv, UNCHANGED <<up, files, first, next, init, size, no, pFile>>,
         \A t \in Threads : pc'[t] = "rotate" <=> pc[t] = "rotate",
         ~up => \A t \in Threads : pc'[t] = "idle"
  PROVE  LogInv'
<1>1. /\ OfThisRun' = OfThisRun
      /\ \A f \in FileNos : RunLines(f)' = RunLines(f)
      /\ \A f \in FileNos : Rank(f)' = Rank(f)
  BY DEF OfThisRun, RunLines, Numbers, Rank, Old
<1>2. no' = no /\ files' = files /\ next' = next /\ pFile' = pFile OBVIOUS
<1>3. OrderInv' BY <1>1 DEF LogInv, RingInv, OrderInv
<1>4. FilledInv' BY <1>1 DEF LogInv, RingInv, FilledInv
<1>5. FullInv' BY <1>1 DEF LogInv, RingInv, FullInv
<1>6. OldestInv' BY <1>1 DEF LogInv, RingInv, OldestInv, There
<1>7. NumberInv' /\ Bounded' BY DEF LogInv, NumberInv, Numbers, Bounded
<1>8. \A t \in Threads :
        pc'[t] = "rotate" => /\ pFile' /\ Length(files'[no']) >= FileSize
                             /\ RunLines(no)' # {}
  <2>1. RunLines(no)' = RunLines(no) BY <1>1 DEF RunLines, Numbers
  <2> QED BY <2>1 DEF LogInv, OpenInv
<1>9. OpenInv'
  <2>1. /\ ~up' => ~pFile' /\ \A t \in Threads : pc'[t] = "idle"
        /\ pFile' => init'
        /\ init' => size' = FileSize
        /\ pFile' /\ (\A t \in Threads : pc'[t] # "rotate")
             => Length(files'[no']) < FileSize
    BY DEF LogInv, OpenInv
  <2> QED BY <1>8, <2>1 DEF OpenInv
<1> QED BY <1>3, <1>4, <1>5, <1>6, <1>7, <1>9 DEF LogInv, RingInv

LEMMA OtherLog ==
  ASSUME LogInv, Scalars,
         \/ LOG_SetPrintLogPlaceFlag
         \/ \E t \in Threads : \/ LOG_INFO(t) \/ ToTerminal(t) \/ ToFile(t)
                               \/ NoFile(t) \/ Unlock(t)
  PROVE  LogInv'
<1>1. UNCHANGED <<up, files, first, next, init, size, no, pFile>>
  BY DEF LOG_SetPrintLogPlaceFlag, LOG_INFO, ToTerminal, ToFile, NoFile,
         Unlock, runVars, flagVars, fileVars
<1>2. ~up => \A t \in Threads : pc[t] = "idle" BY DEF LogInv, OpenInv
<1>3. CASE LOG_SetPrintLogPlaceFlag
  BY <1>1, <1>2, <1>3, Frame DEF LOG_SetPrintLogPlaceFlag
<1>4. ASSUME NEW t \in Threads,
             \/ LOG_INFO(t) \/ ToTerminal(t) \/ ToFile(t)
             \/ NoFile(t) \/ Unlock(t)
      PROVE  /\ \A u \in Threads : pc'[u] = "rotate" <=> pc[u] = "rotate"
             /\ ~up => \A u \in Threads : pc'[u] = "idle"
  BY <1>2, <1>4
  DEF LOG_INFO, ToTerminal, ToFile, NoFile, Unlock, Goes, Scalars
<1> QED BY <1>1, <1>3, <1>4, Frame

(* An opened file that has lines of this process is full and truncated; as  *)
(* it has the oldest, no younger one is lost, and all the others are full.  *)
LEMMA OpenLog ==
  ASSUME LogInv, Filed, Scalars, Scalars', NEW t \in Threads,
         LOG_OpenLogFile(t)
  PROVE  LogInv'
<1>1. /\ UNCHANGED <<up, first, next, init, size, no>> /\ mutex = Nobody
      /\ pc[t] = "lock" /\ pc' = [pc EXCEPT ![t] = "put"]
      /\ pFile' = (pFile \/ init)
  BY DEF LOG_OpenLogFile, Goes, runVars, flagVars
<1>2. /\ \A u \in Threads : pc'[u] = "rotate" <=> pc[u] = "rotate"
      /\ ~up => \A u \in Threads : pc'[u] = "idle"
  BY <1>1 DEF LogInv, OpenInv, Scalars
<1>3. CASE pFile' = pFile
  <2>1. UNCHANGED files
    BY <1>3 DEF LOG_OpenLogFile
  <2> QED BY <1>1, <1>2, <1>3, <2>1, Frame
<1>4. CASE pFile' # pFile
  <2>1. ~pFile /\ pFile' /\ init BY <1>1, <1>4 DEF Scalars
  <2>2. size = FileSize BY <2>1 DEF LogInv, OpenInv
  <2>3. no \in FileNos /\ files[no] \in Seq(Line) BY DEF Scalars, Filed
  <2>4. Length(files[no]) \in Nat /\ FileSize \in Nat \ {0}
    BY <2>3, Ends, LogAssumption
  <2>5. PICK kept :
          /\ kept = IF Length(files[no]) < FileSize THEN files[no] ELSE <<>>
          /\ files' = [files EXCEPT ![no] = kept]
    BY <2>1, <2>2 DEF LOG_OpenLogFile
  <2>6. \A f \in FileNos : files'[f] = IF f = no THEN kept ELSE files[f]
    BY <2>5 DEF Filed
  <2>7. Length(kept) < FileSize
    <3>1. Length(<<>>) = 0 BY DEF Length, End
    <3> QED BY <2>4, <2>5, <3>1
  <2>8. OfThisRun' = OfThisRun BY <1>1 DEF OfThisRun
  <2>9. \A f \in FileNos \ {no} : RunLines(f)' = RunLines(f)
    BY <2>6, <2>8 DEF RunLines, Numbers
  <2>10. \A f \in FileNos : f = no => RunLines(f)' = {}
    <3> SUFFICES RunLines(no)' = {}
      BY <1>1
    <3>1. RunLines(no)' = {kept[i].num : i \in DOMAIN kept} \cap OfThisRun
      BY <1>1, <2>3, <2>6, <2>8 DEF RunLines, Numbers
    <3>2. CASE Length(files[no]) < FileSize
      <4>1. RunLines(no) = {}
        BY <2>1, <2>3, <2>4, <3>2 DEF LogInv, RingInv, FullInv
      <4>2. kept = files[no] BY <2>5, <3>2
      <4> QED BY <3>1, <4>1, <4>2 DEF RunLines, Numbers
    <3>3. CASE ~(Length(files[no]) < FileSize)
      <4>1. DOMAIN kept = {} BY <2>5, <3>3
      <4> QED BY <3>1, <4>1
    <3> QED BY <3>2, <3>3
  <2>11. \A f \in FileNos, g \in FileNos \ {no} :
           Rank(f)' < Rank(g)' => f # no /\ Rank(f) < Rank(g)
    BY <1>1, <2>1, OpenRanks
  <2>12. \A g \in FileNos \ {no} : Rank(no) < Rank(g)
    BY <2>1, <2>3, Ranks, LogAssumption
  <2>13. OrderInv'
    <3> SUFFICES ASSUME NEW f \in FileNos, NEW g \in FileNos,
                        Rank(f)' < Rank(g)',
                        NEW m \in RunLines(f)', NEW n \in RunLines(g)'
                 PROVE  m < n
      BY DEF OrderInv
    <3>1. f # no /\ g # no
      <4>1. RunLines(f)' # {} /\ RunLines(g)' # {} OBVIOUS
      <4> QED BY <2>10, <4>1
    <3>2. Rank(f) < Rank(g) BY <2>11, <3>1
    <3>3. m \in RunLines(f) /\ n \in RunLines(g) BY <2>9, <3>1
    <3> QED BY <3>2, <3>3 DEF LogInv, RingInv, OrderInv
  <2>14. FilledInv'
    <3> SUFFICES ASSUME NEW f \in FileNos, NEW g \in FileNos \ {no},
                        Rank(f)' < Rank(g)', RunLines(f)' # {}
                 PROVE  RunLines(g)' # {}
      BY <1>1, <2>1 DEF FilledInv
    <3>1. f # no /\ Rank(f) < Rank(g) BY <2>11
    <3>2. RunLines(f) # {} BY <2>9, <3>1
    <3>3. RunLines(g) # {}
      BY <2>1, <3>1, <3>2 DEF LogInv, RingInv, FilledInv
    <3> QED BY <2>9, <3>3
  <2>15. FullInv'
    <3> SUFFICES ASSUME NEW f \in FileNos \ {no}, RunLines(f)' # {}
                 PROVE  Length(files'[f]) >= FileSize
      BY <1>1, <2>1 DEF FullInv
    <3>1. RunLines(f) # {} BY <2>9
    <3>2. Length(files[f]) >= FileSize
      BY <2>1, <3>1 DEF LogInv, RingInv, FullInv
    <3> QED BY <2>6, <3>2
  <2>16. \A n : There(n)' <=> \E f \in FileNos \ {no} : n \in RunLines(f)
    BY <2>9, <2>10 DEF There
  <2>17. ASSUME NEW n, There(n)', NEW m \in n..next-1 PROVE There(m)'
    <3>1. PICK g \in FileNos \ {no} : n \in RunLines(g) BY <2>16, <2>17
    <3>2. There(m) BY <3>1 DEF LogInv, RingInv, OldestInv, There
    <3>3. PICK h \in FileNos : m \in RunLines(h) BY <3>2 DEF There
    <3>4. h # no
      <4> SUFFICES ASSUME h = no PROVE FALSE
        OBVIOUS
      <4>1. m < n
        BY <2>12, <3>1, <3>3 DEF LogInv, RingInv, OrderInv
      <4>2. n \in Int /\ m \in Int /\ n <= m
        <5>1. n \in OfThisRun BY <3>1 DEF RunLines
        <5>2. first \in Nat /\ next \in Nat BY LogAssumption DEF Scalars
        <5> QED BY <5>1, <5>2 DEF OfThisRun
      <4> QED BY <4>1, <4>2
    <3> QED BY <2>16, <3>3, <3>4
  <2>18. ASSUME NEW n \in OfThisRun, ~There(n)', NEW f \in FileNos \ {no}
         PROVE  Length(files'[f]) >= FileSize
    <3>1. CASE There(n)
      <4>1. n \in RunLines(no) BY <2>16, <2>18, <3>1 DEF There
      <4>2. RunLines(f) # {}
        BY <2>1, <2>3, <2>12, <4>1 DEF LogInv, RingInv, FilledInv
      <4>3. Length(files[f]) >= FileSize
        BY <2>1, <4>2 DEF LogInv, RingInv, FullInv
      <4> QED BY <2>6, <4>3
    <3>2. CASE ~There(n)
      <4>1. Length(files[f]) >= FileSize
        BY <3>2 DEF LogInv, RingInv, OldestInv
      <4> QED BY <2>6, <4>1
    <3> QED BY <3>1, <3>2
  <2>19. OldestInv'
    BY <1>1, <2>8, <2>17, <2>18 DEF OldestInv
  <2>20. Bounded' /\ NumberInv'
    <3>1. kept = SubSeq(files[no], 1, Len(files[no])) \/ kept = <<>>
      BY <2>3, <2>5
    <3>2. ASSUME NEW f \in FileNos
          PROVE  /\ \A i \in DOMAIN files'[f] : End(files'[f], i-1) < FileSize
                 /\ {files'[f][i].num : i \in DOMAIN files'[f]}
                      \subseteq 1..next-1
      <4>1. CASE files'[f] = files[f]
        BY <4>1 DEF LogInv, Bounded, NumberInv, Numbers
      <4>2. CASE files'[f] # files[f]
        <5>1. files'[f] = <<>> BY <2>5, <2>6, <4>2
        <5>2. DOMAIN files'[f] = {} BY <5>1
        <5> QED BY <5>2
      <4> QED BY <4>1, <4>2
    <3> QED BY <1>1, <3>2 DEF Bounded, NumberInv, Numbers
  <2>21. OpenInv'
    <3>1. \A u \in Threads : pc'[u] # "rotate"
      BY <1>1, <2>1 DEF LogInv, OpenInv, Scalars
    <3>2. Length(files'[no']) < FileSize BY <1>1, <2>3, <2>6, <2>7
    <3>3. up' BY <1>1 DEF LogInv, OpenInv, Scalars
    <3> QED BY <1>1, <2>1, <2>2, <3>1, <3>2, <3>3 DEF OpenInv
  <2> QED BY <2>13, <2>14, <2>15, <2>19, <2>20, <2>21 DEF LogInv, RingInv
<1> QED BY <1>3, <1>4

(* A line goes to the end of the youngest file, which still has room. *)
LEMMA PutLog ==
  ASSUME LogInv, Filed, Scalars, Scalars', NEW t \in Threads, Put(t)
  PROVE  LogInv'
<1>1. /\ UNCHANGED <<up, first, init, size, no, pFile, mutex>>
      /\ pFile /\ next' = next + 1
  BY DEF Put, runVars, flagVars
<1>2. /\ init /\ size = FileSize /\ up /\ no \in FileNos
      /\ first \in Nat \ {0} /\ next \in Nat /\ first <= next
  BY <1>1, LogAssumption DEF LogInv, OpenInv, Scalars
<1>3. PICK n \in Lengths :
        files' = [files EXCEPT ![no] =
                    Append(@, [num |-> next, end |-> Length(@) + n])]
  BY DEF Put
<1>4. PICK line : line = [num |-> next, end |-> Length(files[no]) + n]
  OBVIOUS
<1>5. files' = [files EXCEPT ![no] = Append(files[no], line)] BY <1>3, <1>4
<1>6. \A f \in FileNos :
        files'[f] = IF f = no THEN Append(files[no], line) ELSE files[f]
  BY <1>5 DEF Filed
<1>7. files[no] \in Seq(Line) /\ Len(files[no]) \in Nat
  BY <1>2 DEF Filed
<1>8. PICK new : new = Append(files[no], line) OBVIOUS
<1>9. /\ DOMAIN new = 1..Len(files[no]) + 1
      /\ DOMAIN files[no] = 1..Len(files[no])
      /\ new[Len(files[no]) + 1] = line
      /\ \A i \in 1..Len(files[no]) : new[i] = files[no][i]
  BY <1>7, <1>8
<1>10. /\ {new[i].num : i \in DOMAIN new} = Numbers(no) \cup {next}
  <2>1. line.num = next BY <1>4
  <2>2. DOMAIN new = DOMAIN files[no] \cup {Len(files[no]) + 1}
    BY <1>7, <1>9
  <2> QED BY <1>9, <2>1, <2>2 DEF Numbers
<1>11. OfThisRun' = OfThisRun \cup {next}
  BY <1>1, <1>2 DEF OfThisRun
<1>12. \A f \in FileNos : Numbers(f) \subseteq 1..next-1
  BY DEF LogInv, NumberInv
<1>13. \A f \in FileNos :
         Numbers(f)' = IF f = no THEN Numbers(no) \cup {next} ELSE Numbers(f)
  <2>1. files'[no] = new /\ \A f \in FileNos \ {no} : files'[f] = files[f]
    BY <1>2, <1>6, <1>8
  <2>2. ASSUME NEW f \in FileNos, f = no
        PROVE  Numbers(f)' = Numbers(no) \cup {next}
    BY <1>10, <2>1, <2>2 DEF Numbers
  <2>3. ASSUME NEW f \in FileNos, f # no
        PROVE  Numbers(f)' = Numbers(f)
    BY <2>1, <2>3 DEF Numbers
  <2> QED BY <2>2, <2>3
<1>14. \A f \in FileNos :
         RunLines(f)' = IF f = no THEN RunLines(no) \cup {next} ELSE RunLines(f)
  <2>1. next \notin 1..next-1 BY <1>2
  <2> QED BY <1>2, <1>11, <1>12, <1>13, <2>1 DEF RunLines
<1>15. \A f \in FileNos : Rank(f)' = Rank(f) BY <1>1 DEF Rank, Old
<1>16. \A f \in FileNos : ~(Rank(no) < Rank(f))
  BY <1>1, <1>2, Ranks, LogAssumption
<1>17. OrderInv'
  <2> SUFFICES ASSUME NEW f \in FileNos, NEW g \in FileNos,
                      Rank(f)' < Rank(g)',
                      NEW m \in RunLines(f)', NEW k \in RunLines(g)'
               PROVE  m < k
    BY DEF OrderInv
  <2>1. Rank(f) < Rank(g) /\ f # no BY <1>15, <1>16
  <2>2. m \in RunLines(f) BY <1>14, <2>1
  <2>3. CASE k \in RunLines(g)
    BY <2>1, <2>2, <2>3 DEF LogInv, RingInv, OrderInv
  <2>4. CASE k \notin RunLines(g)
    <3>1. k = next BY <1>14, <2>4
    <3>2. m \in 1..next-1 BY <1>12, <2>2 DEF RunLines
    <3> QED BY <1>2, <3>1, <3>2
  <2> QED BY <2>3, <2>4
<1>18. FilledInv'
  <2> SUFFICES ASSUME NEW f \in FileNos, NEW g \in FileNos \ {no},
                      Rank(f)' < Rank(g)', RunLines(f)' # {}
               PROVE  RunLines(g)' # {}
    BY <1>1 DEF FilledInv
  <2>1. Rank(f) < Rank(g) /\ f # no BY <1>15, <1>16
  <2>2. RunLines(f) # {} BY <1>14, <2>1
  <2>3. RunLines(g) # {} BY <2>1, <2>2 DEF LogInv, RingInv, FilledInv
  <2> QED BY <1>14, <2>3
<1>19. FullInv'
  <2> SUFFICES ASSUME NEW f \in FileNos \ {no}, RunLines(f)' # {}
               PROVE  Length(files'[f]) >= FileSize
    BY <1>1 DEF FullInv
  <2>1. RunLines(f) # {} BY <1>14
  <2>2. Length(files[f]) >= FileSize BY <2>1 DEF LogInv, RingInv, FullInv
  <2> QED BY <1>6, <2>2
<1>20. \A m : There(m)' <=> There(m) \/ m = next
  BY <1>2, <1>14 DEF There
<1>21. OldestInv'
  <2>1. ASSUME NEW m, There(m)', NEW k \in m..next'-1 PROVE There(k)'
    <3>1. CASE There(m)
      <4>1. \A j \in m..next-1 : There(j)
        BY <3>1 DEF LogInv, RingInv, OldestInv
      <4>2. m \in Nat
        <5>1. m \in OfThisRun BY <3>1 DEF There, RunLines
        <5> QED BY <1>2, <5>1 DEF OfThisRun
      <4>3. k \in m..next-1 \/ k = next BY <1>1, <1>2, <4>2
      <4> QED BY <1>20, <4>1, <4>3
    <3>2. CASE m = next
      <4>1. k = next BY <1>1, <1>2, <3>2
      <4> QED BY <1>20, <4>1
    <3> QED BY <1>20, <2>1, <3>1, <3>2
  <2>2. ASSUME NEW m \in OfThisRun', ~There(m)', NEW f \in FileNos \ {no}
        PROVE  Length(files'[f]) >= FileSize
    <3>1. m \in OfThisRun /\ ~There(m) BY <1>11, <1>20, <2>2
    <3>2. Length(files[f]) >= FileSize
      BY <3>1 DEF LogInv, RingInv, OldestInv
    <3> QED BY <1>6, <3>2
  <2> QED BY <1>1, <2>1, <2>2 DEF OldestInv
<1>22. NumberInv' BY <1>1, <1>2, <1>12, <1>13 DEF NumberInv
<1>23. Length(files[no]) < FileSize
  <2>1. pc[t] = "put" BY DEF Put, Goes
  <2>2. \A u \in Threads : pc[u] # "rotate" BY <2>1 DEF Scalars
  <2> QED BY <1>1, <2>2 DEF LogInv, OpenInv
<1>24. Bounded'
  <2>1. ASSUME NEW i \in DOMAIN new PROVE End(new, i - 1) < FileSize
    <3>1. CASE i = Len(files[no]) + 1
      <4>1. End(new, i - 1) = Length(files[no])
        BY <1>7, <1>9, <3>1 DEF End, Length
      <4> QED BY <1>23, <4>1
    <3>2. CASE i # Len(files[no]) + 1
      <4>1. i \in DOMAIN files[no] BY <1>7, <1>9, <3>2
      <4>2. End(new, i - 1) = End(files[no], i - 1)
        BY <1>7, <1>9, <4>1 DEF End
      <4> QED BY <1>2, <4>1, <4>2 DEF LogInv, Bounded
    <3> QED BY <3>1, <3>2
  <2>2. ASSUME NEW f \in FileNos, NEW i \in DOMAIN files'[f]
        PROVE  End(files'[f], i - 1) < FileSize
    <3>1. CASE f = no BY <1>6, <1>8, <2>1, <3>1
    <3>2. CASE f # no
      <4>1. files'[f] = files[f] BY <1>6, <3>2
      <4> QED BY <4>1 DEF LogInv, Bounded
    <3> QED BY <3>1, <3>2
  <2> QED BY <2>2 DEF Bounded
<1>25. OpenInv'
  <2>1. /\ pc[t] = "put"
        /\ pc' = [pc EXCEPT ![t] =
                    IF Length(files'[no]) >= size THEN "rotate" ELSE "unlock"]
    BY DEF Put, Goes
  <2>2. \A u \in Threads : u # t => pc[u] # "rotate" BY <2>1 DEF Scalars
  <2>3. \A u \in Threads : pc'[u] = "rotate" =>
          u = t /\ Length(files'[no]) >= FileSize
    BY <1>2, <2>1, <2>2 DEF Scalars
  <2>4. RunLines(no)' # {} BY <1>1, <1>2, <1>14
  <2>5. Length(files'[no]) \in Nat
    <3>1. line \in Line
      <4>1. Length(files[no]) \in Nat BY <1>7, Ends
      <4>2. Length(files[no]) + n \in Nat BY <4>1, LogAssumption
      <4>3. next \in 1..MaxLines BY <1>2, LogAssumption DEF Put
      <4> QED BY <1>4, <4>2, <4>3 DEF Line
    <3>2. new \in Seq(Line) BY <1>7, <1>8, <3>1
    <3> QED BY <1>2, <1>6, <1>8, <3>2, Ends
  <2>6. Length(files'[no]) < FileSize \/ pc'[t] = "rotate"
    BY <1>2, <2>1, <2>5, LogAssumption DEF Scalars
  <2> QED BY <1>1, <1>2, <2>3, <2>4, <2>6 DEF OpenInv
<1> QED BY <1>17, <1>18, <1>19, <1>21, <1>22, <1>24, <1>25
        DEF LogInv, RingInv

(* The ring does not move when the full file is closed. *)
LEMMA RotateLog ==
  ASSUME LogInv, Scalars, Scalars', NEW t \in Threads, Rotate(t)
  PROVE  LogInv'
<1>1. /\ UNCHANGED <<up, files, first, next, init, size, mutex>>
      /\ pc[t] = "rotate" /\ pc' = [pc EXCEPT ![t] = "unlock"]
      /\ ~pFile' /\ no' = (no + 1) % MAX_LOG_FILE_NUM
  BY DEF Rotate, Goes, runVars, flagVars
<1>2. pFile /\ Length(files[no]) >= FileSize /\ RunLines(no) # {}
  BY <1>1 DEF LogInv, OpenInv
<1>3. /\ OfThisRun' = OfThisRun /\ \A f : RunLines(f)' = RunLines(f)
      /\ \A n : There(n)' <=> There(n)
  BY <1>1 DEF OfThisRun, RunLines, Numbers, There
<1>4. \A f \in FileNos : Rank(f)' = Rank(f) BY <1>1, <1>2 DEF Rank, Old
<1>5. OrderInv' BY <1>3, <1>4 DEF LogInv, RingInv, OrderInv
<1>6. FilledInv' BY <1>2, <1>3, <1>4 DEF LogInv, RingInv, FilledInv
<1>7. FullInv' BY <1>1, <1>2, <1>3 DEF LogInv, RingInv, FullInv
<1>8. OldestInv' BY <1>1, <1>2, <1>3 DEF LogInv, RingInv, OldestInv
<1>9. NumberInv' /\ Bounded'
  BY <1>1 DEF LogInv, NumberInv, Numbers, Bounded
<1>10. OpenInv'
  <2>1. up /\ (init => size = FileSize)
    BY <1>1 DEF LogInv, OpenInv
  <2>2. \A u \in Threads : pc'[u] # "rotate" BY <1>1 DEF Scalars
  <2> QED BY <1>1, <2>1, <2>2 DEF OpenInv
<1> QED BY <1>5, <1>6, <1>7, <1>8, <1>9, <1>10 DEF LogInv, RingInv

LEMMA NextLog ==
  LogInv /\ Filed /\ Scalars /\ Scalars' /\ [Next]_vars => LogInv'
<1> SUFFICES ASSUME LogInv, Filed, Scalars, Scalars', [Next]_vars
             PROVE  LogInv'
  OBVIOUS
<1>1. CASE UNCHANGED vars
  <2>1. UNCHANGED <<up, files, first, next, init, size, no, pFile, pc>>
    BY <1>1 DEF vars, runVars, flagVars, fileVars
  <2>2. ~up => \A t \in Threads : pc'[t] = "idle"
    BY <2>1 DEF LogInv, OpenInv
  <2> QED BY <2>1, <2>2, Frame
<1> QED
  BY <1>1, ExitLog, StartLog, OtherLog, OpenLog, PutLog, RotateLog
  DEF Next, LOG_PrintLog

(* The invariant that both properties below rest on. *)
THEOREM LogInvThm == Spec => [](Filed /\ Scalars /\ LogInv)
  BY InitTypes, NextTypes, InitLog, NextLog, PTL DEF Spec

(* LOG_OpenLogFile, LOG_PrintLog: a line begins below the limit of its      *)
(* file, over any number of restarts that continue it or truncate it.       *)
THEOREM LogBounded == Spec => []Bounded
<1>1. LogInv => Bounded BY DEF LogInv
<1> QED BY <1>1, LogInvThm, PTL

(* The rotation of LOG_PrintLog: the lines a process loses are its oldest,  *)
(* and it loses one only when every file but the one it writes is full.     *)
THEOREM LogOldestLost == Spec => []OldestLost
<1>1. Scalars /\ LogInv => OldestLost BY Oldest DEF LogInv, RingInv
<1> QED BY <1>1, LogInvThm, PTL
=============================================================================
