---------------------------- MODULE MCThreadPool ----------------------------
(* Instances of ThreadPool for TLC. *)
EXTENDS ThreadPoolProperties, TLC

(* Tasks that return are interchangeable, so are those that do not, and so   *)
(* are callers; workers are not (the manager scans their entries in order).  *)
Symmetry ==
  Permutations(Tasks \ Enders) \cup Permutations(Enders)
    \cup Permutations(Producers)
=============================================================================
