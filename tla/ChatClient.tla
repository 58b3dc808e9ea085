----------------------------- MODULE ChatClient -----------------------------
(***************************************************************************)
(* The client: main (client/main/client.c) with the prompts of             *)
(* client/work/work.c, its receiver thread (thread_read), which shares     *)
(* lognum and cond_sfile with it, and the hand-off of block headers        *)
(* (BlockHandoff).  The server is one step for each request, with the      *)
(* answers ChatServer has; what happens to a block is FileTransfer.        *)
(***************************************************************************)
EXTENDS Integers, Sequences, FiniteSets

CONSTANTS
  Headers,      (* block headers that arrive (BlockHandoff)     *)
  Inputs        (* how many times the user types something      *)
ASSUME BoundsAssumption == Headers \in Nat /\ Inputs \in Nat

VARIABLES
  lognum,                           (* what main and the receiver share     *)
  mpc, inputs,                      (* where main is; inputs left           *)
  outbox, inbox,                    (* the connection, in both directions   *)
  server, session,                  (* the server; did it let the user in?  *)
  sem, arrived, omsg, rpc, tpc, copied   (* the receiver, of BlockHandoff   *)

H == INSTANCE BlockHandoff
handoffVars == <<sem, arrived, omsg, rpc, tpc, copied>>
serverVars == <<outbox, server, session>>
mainVars == <<mpc, inputs>>
vars == <<lognum, mainVars, serverVars, inbox, handoffVars>>

Init ==
  /\ lognum = 0 /\ mpc = "top" /\ inputs = Inputs
  /\ outbox = <<>> /\ inbox = <<>> /\ server = "up" /\ session = "none"
  /\ H!Init

Ended == mpc \in {"exit", "crashed"}
(* A message that is only shown: 255, 2, -2, 4, 6, 7, 8, -8, and 9 if it is *)
(* not an overrun.                                                          *)
Shown == 80
(* A message of type 9 that is empty, or ends within a line, or has a line  *)
(* longer than the buffer of the loop that prints it.                       *)
Overrun == 90
Home == {"home", "chat", "group", "asked", "idwait", "send"}

-----------------------------------------------------------------------------
(* main, and what it calls.                                                 *)

(* write: when the server is gone the first write succeeds and a later one  *)
(* raises SIGPIPE, which the client does not ignore.                        *)
Write(act, next) ==
  \/ /\ server # "gone"
     /\ outbox' = Append(outbox, act) /\ mpc' = next
  \/ server = "gone" /\ mpc' \in {next, "exit"} /\ UNCHANGED outbox

UserTypes(at) == mpc = at /\ inputs > 0 /\ inputs' = inputs - 1
OnlyMain == UNCHANGED <<server, session, inbox, handoffVars>>

(* Slip: lognum is not reset. *)
MenuTopKeepsLognum ==
  /\ mpc = "top" /\ mpc' = "menu"
  /\ OnlyMain /\ UNCHANGED <<lognum, inputs, outbox>>
MenuTop ==
  /\ mpc = "top" /\ mpc' = "menu" /\ lognum' = 0
  /\ OnlyMain /\ UNCHANGED <<inputs, outbox>>

log_user == Write(1, "await")
reg_user == Write(0, "top")

Choose ==
  /\ UserTypes("menu")
  /\ \/ log_user                                              (* 1 *)
     \/ reg_user                                              (* 2 *)
     \/ mpc' = "exit" /\ UNCHANGED outbox                     (* 0 *)
     \/ mpc' = "top" /\ UNCHANGED outbox                      (* 3, others *)
  /\ OnlyMain /\ UNCHANGED lognum

(* The loop that tests lognum until the receiver has written it. *)
Refused ==
  /\ mpc = "await" /\ lognum \in {3, -1} /\ mpc' = "top"
  /\ OnlyMain /\ UNCHANGED <<lognum, inputs, outbox>>
Admitted ==
  /\ mpc = "await" /\ lognum = 1
  /\ Write(6, "home")                                         (* view_user *)
  /\ OnlyMain /\ UNCHANGED <<lognum, inputs>>

(* Slip: after quite_user, the home menu again. *)
ChooseHomeStays ==
  /\ UserTypes("home")
  /\ \/ lognum' = 1 /\ Write(9, "chat")
     \/ lognum' = 2 /\ mpc' = "group" /\ UNCHANGED outbox
     \/ lognum' = 3 /\ Write(10, "home")
     \/ lognum' \in {0, -1} /\ UNCHANGED <<mpc, outbox>>
  /\ OnlyMain
(* Slip: no quite_user. *)
ChooseHomeSilent ==
  /\ UserTypes("home")
  /\ \/ lognum' = 1 /\ Write(9, "chat")
     \/ lognum' = 2 /\ mpc' = "group" /\ UNCHANGED outbox
     \/ lognum' = 3 /\ mpc' = "await" /\ UNCHANGED outbox
     \/ lognum' \in {0, -1} /\ UNCHANGED <<mpc, outbox>>
  /\ OnlyMain

(* scanf writes the choice to lognum itself. *)
ChooseHome ==
  /\ UserTypes("home")
  /\ \/ lognum' = 1 /\ Write(9, "chat")                       (* chat_user *)
     \/ lognum' = 2 /\ mpc' = "group" /\ UNCHANGED outbox     (* all_user *)
     \/ lognum' = 3 /\ Write(10, "await")                     (* quite_user *)
     \/ lognum' \in {0, -1} /\ UNCHANGED <<mpc, outbox>>
  /\ OnlyMain

chat_user ==
  /\ UserTypes("chat")
  /\ \/ Write(3, "asked")                                     (* sfile *)
     \/ mpc' = "exit" /\ UNCHANGED outbox     (* sfile, but no such file *)
     \/ mpc' = "home" /\ UNCHANGED outbox                     (* quite *)
     \/ Write(2, "chat")
  /\ OnlyMain /\ UNCHANGED lognum

(* sfile and the 0 of the menu are messages to the group like others. *)
all_user ==
  /\ UserTypes("group")
  /\ \/ mpc' = "home" /\ UNCHANGED outbox                     (* quite *)
     \/ Write(4, "group")
  /\ OnlyMain /\ UNCHANGED lognum

(* send_file: the wait for the id, which tests no condition when it         *)
(* returns, and the threads it starts after it.                             *)
WaitForId ==
  /\ mpc = "asked" /\ mpc' = "idwait"
  /\ OnlyMain /\ UNCHANGED <<lognum, inputs, outbox>>
SpuriousWake ==
  /\ mpc = "idwait" /\ mpc' = "send"
  /\ OnlyMain /\ UNCHANGED <<lognum, inputs, outbox>>
StartBlocks ==
  /\ mpc = "send" /\ mpc' = "chat"
  /\ OnlyMain /\ UNCHANGED <<lognum, inputs, outbox>>

main ==
  \/ MenuTop \/ Choose \/ Refused \/ Admitted \/ ChooseHome
  \/ chat_user \/ all_user \/ WaitForId \/ SpuriousWake \/ StartBlocks

-----------------------------------------------------------------------------
(* The receiver.  A signal of cond_sfile is lost unless main waits for it.  *)
(* The loop that looks for the end of a line may run out of its buffer,     *)
(* unless ch holds one by chance, or the memory behind takes it.            *)

OnlyReceiver == UNCHANGED <<serverVars, inputs>>
Receive(acts) ==
  /\ ~Ended /\ rpc = "recv"
  /\ inbox # <<>> /\ Head(inbox) \in acts /\ inbox' = Tail(inbox)

(* Slip: only a login that succeeds sets lognum. *)
LoginAnswerGood ==
  /\ Receive({1, -1}) /\ lognum' = IF Head(inbox) = 1 THEN 1 ELSE lognum
  /\ OnlyReceiver /\ UNCHANGED <<mpc, handoffVars>>
LoginAnswer ==
  /\ Receive({1, -1}) /\ lognum' = Head(inbox)
  /\ OnlyReceiver /\ UNCHANGED <<mpc, handoffVars>>
FileId ==
  /\ Receive({3})
  /\ mpc' = IF mpc = "idwait" THEN "send" ELSE mpc
  /\ OnlyReceiver /\ UNCHANGED <<lognum, handoffVars>>
Header ==
  /\ Receive({5}) /\ H!Arrive
  /\ OnlyReceiver /\ UNCHANGED <<lognum, mpc>>
OverrunHistory ==
  /\ Receive({Overrun}) /\ mpc' \in {mpc, "crashed"}
  /\ OnlyReceiver /\ UNCHANGED <<lognum, handoffVars>>
(* The file to come is mapped, or the client ends: it cannot open it.       *)
MapFile ==
  /\ Receive({-3}) /\ mpc' \in {mpc, "exit"}
  /\ OnlyReceiver /\ UNCHANGED <<lognum, handoffVars>>
Show ==
  /\ Receive({Shown})
  /\ OnlyReceiver /\ UNCHANGED <<lognum, mpc, handoffVars>>

HandOver ==
  /\ ~Ended /\ (H!WaitFree \/ H!CopyIn \/ H!PostFull \/ H!CreateThread)
  /\ OnlyReceiver /\ UNCHANGED <<lognum, mpc, inbox>>

thread_read ==
  \/ LoginAnswer \/ FileId \/ Header \/ OverrunHistory \/ MapFile \/ Show
  \/ HandOver

recv_file(k) ==
  /\ ~Ended /\ H!recv_file(k)
  /\ UNCHANGED <<lognum, mainVars, serverVars, inbox>>

-----------------------------------------------------------------------------
(* The server, as ChatServer has it: the handler of this connection.  Group *)
(* chat never returns unless this user is the head of the list; a message   *)
(* or a file may be for the user himself; a history takes several writes    *)
(* (at most two here).  Only what the server told this user is kept, not    *)
(* its list, which may lose him (ChatServer).                               *)

Answers(act) ==
  CASE act \in {0, 2, 4, 6} -> {<<>>, <<Shown>>}
    [] act = 1 -> {<<1>>, <<-1>>}
    [] act = 3 -> {<<Shown>>, <<3>>, <<3, -3>>}
    [] act = 9 -> {<<Shown>>, <<Overrun>>, <<Overrun, Overrun>>}
    [] act = 10 -> {<<>>}

OnlyServer == UNCHANGED <<lognum, mainVars, handoffVars>>

Serve ==
  /\ server = "up" /\ outbox # <<>> /\ outbox' = Tail(outbox)
  /\ \E reply \in Answers(Head(outbox)) :
       /\ inbox' = inbox \o reply
       /\ session' = IF reply = <<1>> THEN "in"
                     ELSE IF Head(outbox) = 10 THEN "out" ELSE session
  /\ OnlyServer /\ UNCHANGED server

GroupSpins ==
  /\ server = "up" /\ outbox # <<>> /\ Head(outbox) = 4
  /\ server' = "stuck"
  /\ OnlyServer /\ UNCHANGED <<inbox, outbox, session>>

(* Somebody sends this user a block of a file, or the news of one: -3.  A   *)
(* message of others that is only shown does no more than a -3 whose file   *)
(* can be opened.  Headers are counted; the rest comes when nothing waits.  *)
Relay ==
  /\ server = "up" /\ session # "none"
  /\ \/ /\ arrived + Cardinality({i \in DOMAIN inbox : inbox[i] = 5}) < Headers
        /\ inbox' = Append(inbox, 5)
     \/ inbox = <<>> /\ inbox' = <<-3>>
  /\ OnlyServer /\ UNCHANGED serverVars

ServerEnds ==
  /\ server # "gone" /\ server' = "gone"
  /\ session' = "out" /\ outbox' = <<>>
  /\ OnlyServer /\ UNCHANGED inbox

Next ==
  \/ main \/ thread_read \/ \E k \in H!Threads : recv_file(k)
  \/ Serve \/ GroupSpins \/ Relay \/ ServerEnds

Spec == Init /\ [][Next]_vars
(* Threads run; nobody has to type, and nothing has to arrive unasked. *)
FairSpec ==
  /\ Spec /\ WF_vars(thread_read) /\ WF_vars(Serve)
  /\ WF_vars(MenuTop \/ Refused \/ Admitted \/ WaitForId \/ StartBlocks)
  /\ \A k \in H!Threads : WF_vars(recv_file(k))
=============================================================================
