------------------------ MODULE ChatClientProperties ------------------------
(***************************************************************************)
(* What the client owes its user, and the server.                          *)
(***************************************************************************)
EXTENDS ChatClient

Count(s, acts) == Cardinality({i \in DOMAIN s : s[i] \in acts})

(* What the variables hold. *)
TypeOK ==
  /\ H!TypeOK
  /\ lognum \in {-1, 0, 1, 2, 3} /\ inputs \in 0..Inputs
  /\ mpc \in {"top", "menu", "await", "exit", "crashed"} \cup Home
  /\ outbox \in Seq({0, 1, 2, 3, 4, 6, 9, 10})
  /\ inbox \in Seq({1, -1, 3, -3, 5, Shown, Overrun})
  /\ server \in {"up", "stuck", "gone"} /\ session \in {"none", "in", "out"}

(* lognum carries the answers of the server, the choices typed at home and  *)
(* the reset of main: at any time at most one login is unanswered, and only *)
(* the main that waits for it is there when its answer comes.               *)
OneLogin ==
  LET unanswered == Count(outbox, {1}) + Count(inbox, {1, -1})
  IN  unanswered <= 1 /\ (unanswered = 1 => mpc = "await" \/ Ended)

(* Whoever is in the home menu, or in a chat, was let in by the server, and *)
(* the server has not served a quit of his since, after any number of       *)
(* logins refused, quits and logins on one connection, unless it is gone.   *)
HomeIsAdmitted == mpc \in Home => session = "in" \/ server = "gone"

(* A login ends, in the home menu or back at the login menu, whatever else  *)
(* the receiver has to do meanwhile, if the server answers.                 *)
LoginEnds ==
  mpc = "await" ~> mpc # "await" \/ server # "up"

(* After action 10 the server serves the quit: nobody stays in session who  *)
(* is back at the login menu, also when he logs in again at once.           *)
QuitLeaves ==
  mpc \in {"top", "menu"} /\ session = "in"
    ~> session # "in" \/ server # "up"

(* Every block header the client receives gets a thread that has it.        *)
HeadersTaken ==
  \A k \in H!Threads : arrived = k /\ rpc = "wait" ~> copied[k] = k \/ Ended

(* The semaphores and the shared variable are a place for one header.       *)
PlaceSpec == H!PlaceSpec

(* Nobody reads the shared header while it is written, or with another.     *)
OneCopies == H!OneCopies

(* A recv_file thread works on the header it was started for.               *)
OwnHeader == H!OwnHeader
=============================================================================
