------------------------------ MODULE LogFiles ------------------------------
(***************************************************************************)
(* server/log: the log of the server.  Lines go to the terminal or, one    *)
(* file after the other, to MAX_LOG_FILE_NUM files.  The threads of the    *)
(* server print through LOG_INFO; main sets two flags and calls LOG_Init   *)
(* when the process starts.  The files outlive the process.                *)
(*                                                                         *)
(* PRINT_LOG_TO_TERM and PRINT_LOG_TO_FILE are the same number, ToTerm: a  *)
(* process writes files only if LOG_Init found it in the flag and the flag *)
(* was then set to another number.  server.c never does the latter; Places *)
(* says what the callers of this instance do.                              *)
(***************************************************************************)
EXTENDS Integers, Sequences

CONSTANTS
  Threads, Nobody,       (* Nobody: who holds a lock that is free         *)
  MAX_LOG_FILE_NUM,
  FileSize,              (* the second argument of LOG_Init               *)
  Lengths,               (* lengths of a line                             *)
  Places,                (* arguments of LOG_SetPrintLogPlaceFlag         *)
  MaxLines, MaxRuns      (* bounds: lines written, starts of the process  *)

ASSUME LogAssumption ==
  /\ Nobody \notin Threads
  /\ MAX_LOG_FILE_NUM \in Nat \ {0} /\ FileSize \in Nat \ {0}
  /\ Lengths \subseteq Nat \ {0} /\ Places \subseteq Nat
  /\ MaxLines \in Nat /\ MaxRuns \in Nat

ToTerm == 1
FileNos == 0..MAX_LOG_FILE_NUM-1

VARIABLES
  files,                 (* the lines in each file: number and end (ftell) *)
  synced,                (* how many lines of the open file are on disk    *)
  up, runs, first, next, (* is the process up, how often was it started,   *)
                         (* the numbers of its first and of the next line  *)
  place, debug,          (* g_ulPrintLogPlaceFlag, g_ulPrintDebugLogFlag   *)
  init, size,            (* g_ulLogInitFlag, g_ulLogFileSize               *)
  no, pFile,             (* g_ucLogFileNo; is a file open?                 *)
  mutex, pc              (* g_stSaveLogMutexLock; the threads              *)

runVars == <<up, runs, first>>
flagVars == <<place, debug, init, size>>
fileVars == <<files, synced, next, no, pFile>>
vars == <<runVars, flagVars, fileVars, mutex, pc>>

(* Where the first i lines of a file end; its size. *)
End(file, i) == IF i = 0 THEN 0 ELSE file[i].end
Length(file) == End(file, Len(file))

Init ==
  /\ files = [f \in FileNos |-> <<>>] /\ runs = 0 /\ first = 1 /\ next = 1
  /\ up = FALSE /\ place = 0 /\ debug = 0 /\ init = FALSE /\ size = 0
  /\ no = 0 /\ pFile = FALSE /\ synced = 0
  /\ mutex = Nobody /\ pc = [t \in Threads |-> "idle"]

(* The process ends; the globals of the next one are as in Init. *)
Exit ==
  /\ up /\ up' = FALSE /\ place' = 0 /\ debug' = 0 /\ init' = FALSE /\ size' = 0
  /\ no' = 0 /\ pFile' = FALSE /\ synced' = 0
  /\ mutex' = Nobody /\ pc' = [t \in Threads |-> "idle"]
  /\ UNCHANGED <<runs, first, next>>

-----------------------------------------------------------------------------
(* main sets the flags, then calls LOG_Init, which does nothing unless the  *)
(* flag says "to file".                                                     *)
Start ==
  /\ ~up /\ up' = TRUE /\ runs < MaxRuns /\ runs' = runs + 1 /\ first' = next
  /\ place' \in Places /\ debug' \in {0, 1}
  /\ init' = (place' = ToTerm) /\ size' = IF init' THEN FileSize ELSE 0
  /\ UNCHANGED <<fileVars, mutex, pc>>

LOG_SetPrintLogPlaceFlag ==
  /\ up /\ place' \in Places \ {place}
  /\ UNCHANGED <<runVars, debug, init, size, fileVars, mutex, pc>>

(* The process is killed: of the open file, any number of the lines that    *)
(* stdio still held may be on disk.  (A line cut in two is not modelled.)   *)
Kill ==
  /\ Exit
  /\ \E n \in synced..Len(files[no]) :
       files' = IF pFile THEN [files EXCEPT ![no] = SubSeq(@, 1, n)] ELSE files

(* An orderly end: LOG_Destroy, when no thread prints any more. *)
LOG_Destroy ==
  /\ Exit /\ UNCHANGED files
  /\ \A t \in Threads : pc[t] = "idle"

-----------------------------------------------------------------------------
(* A thread that prints: the macro LOG_INFO, then LOG_PrintLog, each with   *)
(* its own look at the flag.                                                *)

Goes(t, from, to) == pc[t] = from /\ pc' = [pc EXCEPT ![t] = to]

(* LOG_INFO: a line of type DEBUG may be left out. *)
LOG_INFO(t) ==
  /\ up /\ \/ Goes(t, "idle", "print")
           \/ place = ToTerm /\ debug = 0 /\ UNCHANGED pc
  /\ UNCHANGED <<runVars, flagVars, fileVars, mutex>>

ToTerminal(t) ==
  /\ place = ToTerm /\ Goes(t, "print", "idle")
  /\ UNCHANGED <<runVars, flagVars, fileVars, mutex>>

ToFile(t) ==
  /\ place # ToTerm /\ Goes(t, "print", "lock")
  /\ UNCHANGED <<runVars, flagVars, fileVars, mutex>>

(* Slip: no lock. *)
OpenUnlocked(t) ==
  /\ mutex' = t /\ Goes(t, "lock", "put")
  /\ pFile' = (pFile \/ init)
  /\ IF pFile' /\ ~pFile
     THEN LET kept == IF Length(files[no]) < size THEN files[no] ELSE <<>> IN
          files' = [files EXCEPT ![no] = kept] /\ synced' = Len(kept)
     ELSE UNCHANGED <<files, synced>>
  /\ UNCHANGED <<runVars, flagVars, next, no>>
(* Slip: <= for <. *)
OpenFull(t) ==
  /\ mutex = Nobody /\ mutex' = t /\ Goes(t, "lock", "put")
  /\ pFile' = (pFile \/ init)
  /\ IF pFile' /\ ~pFile
     THEN LET kept == IF Length(files[no]) <= size THEN files[no] ELSE <<>> IN
          files' = [files EXCEPT ![no] = kept] /\ synced' = Len(kept)
     ELSE UNCHANGED <<files, synced>>
  /\ UNCHANGED <<runVars, flagVars, next, no>>

(* LOG_OpenLogFile under the lock: a file that is not full is continued,    *)
(* any other is truncated.  Without LOG_Init there is no name to open.      *)
LOG_OpenLogFile(t) ==
  /\ mutex = Nobody /\ mutex' = t /\ Goes(t, "lock", "put")
  /\ pFile' = (pFile \/ init)
  /\ IF pFile' /\ ~pFile
     THEN LET kept == IF Length(files[no]) < size THEN files[no] ELSE <<>> IN
          files' = [files EXCEPT ![no] = kept] /\ synced' = Len(kept)
     ELSE UNCHANGED <<files, synced>>
  /\ UNCHANGED <<runVars, flagVars, next, no>>

Put(t) ==
  /\ next <= MaxLines
  /\ \E n \in Lengths :
       files' = [files EXCEPT ![no] =
                   Append(@, [num |-> next, end |-> Length(@) + n])]
  /\ pFile /\ next' = next + 1
  /\ Goes(t, "put", IF Length(files'[no]) >= size THEN "rotate" ELSE "unlock")
  /\ UNCHANGED <<runVars, flagVars, synced, no, pFile, mutex>>

NoFile(t) ==
  /\ ~pFile /\ Goes(t, "put", "unlock")
  /\ UNCHANGED <<runVars, flagVars, fileVars, mutex>>

(* Slip: the same file again. *)
RotateStays(t) ==
  /\ Goes(t, "rotate", "unlock")
  /\ pFile' = FALSE /\ synced' = 0
  /\ UNCHANGED <<runVars, flagVars, files, next, no, mutex>>
(* fclose, and the next file; it is opened when the next line is printed. *)
Rotate(t) ==
  /\ Goes(t, "rotate", "unlock")
  /\ pFile' = FALSE /\ synced' = 0 /\ no' = (no + 1) % MAX_LOG_FILE_NUM
  /\ UNCHANGED <<runVars, flagVars, files, next, mutex>>

Unlock(t) ==
  /\ Goes(t, "unlock", "idle") /\ mutex' = Nobody
  /\ UNCHANGED <<runVars, flagVars, fileVars>>

LOG_PrintLog(t) ==
  \/ ToTerminal(t) \/ ToFile(t) \/ LOG_OpenLogFile(t)
  \/ Put(t) \/ NoFile(t) \/ Rotate(t) \/ Unlock(t)

Next ==
  \/ Start \/ LOG_SetPrintLogPlaceFlag \/ Kill \/ LOG_Destroy
  \/ \E t \in Threads : LOG_INFO(t) \/ LOG_PrintLog(t)

Spec == Init /\ [][Next]_vars
=============================================================================
