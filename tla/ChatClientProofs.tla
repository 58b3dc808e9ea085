-------------------------- MODULE ChatClientProofs --------------------------
(***************************************************************************)
(* Theorems about the client, for any number of headers and of inputs:     *)
(* whatever main, the server and the user do, the receiver thread and the  *)
(* threads it starts hand over block headers as BlockHandoffProofs shows.  *)
(***************************************************************************)
EXTENDS ChatClientProperties, FiniteSetTheorems, TLAPS

P == INSTANCE BlockHandoffProofs

(* The client takes no step in the hand-off that BlockHandoff does not have. *)
LEMMA Simulation == [Next]_vars => [P!Next]_P!vars
<1> SUFFICES ASSUME [Next]_vars PROVE [P!Next]_P!vars
  OBVIOUS
<1>1. CASE main
  <2> USE DEF OnlyMain, handoffVars, P!vars
  <2> QED
    BY <1>1 DEF main, MenuTop, Choose, Refused, Admitted, ChooseHome,
                chat_user, all_user, WaitForId, SpuriousWake, StartBlocks
<1>2. CASE thread_read
  <2>1. CASE Header
    BY <2>1 DEF Header, H!Arrive, P!Next, P!Receiver, P!Arrive,
                H!ReceiverGoes, P!ReceiverGoes
  <2>2. CASE HandOver
    BY <2>2 DEF HandOver, P!Next, P!Receiver, H!ReceiverGoes, P!ReceiverGoes,
                H!WaitFree, P!WaitFree, H!CopyIn, P!CopyIn,
                H!PostFull, P!PostFull, H!CreateThread, P!CreateThread,
                H!SemWait, P!SemWait, H!SemPost, P!SemPost
  <2>3. CASE LoginAnswer \/ FileId \/ OverrunHistory \/ MapFile \/ Show
    BY <2>3 DEF LoginAnswer, FileId, OverrunHistory, MapFile, Show,
                handoffVars, P!vars
  <2> QED BY <1>2, <2>1, <2>2, <2>3 DEF thread_read
<1>3. CASE \E k \in H!Threads : recv_file(k)
  BY <1>3 DEF recv_file, H!Threads, P!Threads, P!Next, H!recv_file,
              P!recv_file, H!WaitFull, P!WaitFull, H!CopyOut, P!CopyOut,
              H!PostFree, P!PostFree, H!ThreadGoes, P!ThreadGoes,
              H!SemWait, P!SemWait, H!SemPost, P!SemPost
<1>4. CASE Serve \/ GroupSpins \/ Relay \/ ServerEnds
  BY <1>4 DEF Serve, GroupSpins, Relay, ServerEnds, OnlyServer, handoffVars,
              P!vars
<1>5. CASE UNCHANGED vars
  BY <1>5 DEF vars, handoffVars, P!vars
<1> QED BY <1>1, <1>2, <1>3, <1>4, <1>5 DEF Next

LEMMA InitClient == Init => P!HandoffInv
  BY BoundsAssumption, P!InitHandoff DEF Init, H!Init, P!Init, H!Threads,
     P!Threads

LEMMA NextClient == P!HandoffInv /\ [Next]_vars => P!HandoffInv'
  BY BoundsAssumption, P!NextHandoff, Simulation

(* What BlockHandoff's invariant says of the client. *)
LEMMA ClientSafe == P!HandoffInv => H!TypeOK /\ OneCopies /\ OwnHeader
  BY P!HandoffSafe DEF OneCopies, OwnHeader, H!OneCopies, H!OwnHeader,
     H!TypeOK, P!OneCopies, P!OwnHeader, P!TypeOK, H!Threads, P!Threads

THEOREM ClientHandoff == Spec => []P!HandoffInv
  BY InitClient, NextClient, PTL DEF Spec

(* thread_read and recv_file of the client never use the shared header at   *)
(* the same time, nor do two threads of recv_file.                          *)
THEOREM OneCopiesThm == Spec => []OneCopies
  BY ClientHandoff, ClientSafe, PTL

(* Each thread of recv_file works on the header it was started for.         *)
THEOREM OwnHeaderThm == Spec => []OwnHeader
  BY ClientHandoff, ClientSafe, PTL

-----------------------------------------------------------------------------
(* omsg and its semaphores, in the client, are a place for one header: a    *)
(* header is put only into an empty place, and taken once.                  *)
THEOREM PlaceThm == Spec => PlaceSpec
<1> DEFINE put == IF rpc \in {"wait", "copy"} THEN arrived - 1 ELSE arrived
           taken == H!Cardinality({k \in H!Threads : copied[k] # 0})
<1>0. \A S : H!Cardinality(S) = P!Cardinality(S)
  BY DEF H!Cardinality, P!Cardinality
<1>1. Init => H!Place!Init
  BY <1>0, BoundsAssumption, P!InitPlace
  DEF Init, H!Init, P!Init, H!Threads, P!Threads, H!Place!Init, P!Place!Init
<1>2. P!HandoffInv /\ P!HandoffInv' /\ [Next]_vars
        => [H!Place!Next]_<<put, taken>>
  <2>1. [Next]_vars => [P!Next]_P!vars BY Simulation
  <2> QED
    BY <1>0, <2>1, BoundsAssumption, P!NextPlace
    DEF P!PutCount, H!Threads, P!Threads, H!Place!Next, H!Place!Put,
        H!Place!Take, P!Place!Next, P!Place!Put, P!Place!Take
<1> QED
  BY <1>1, <1>2, ClientHandoff, PTL
  DEF Spec, PlaceSpec, H!PlaceSpec, H!Place!Spec
-----------------------------------------------------------------------------
(* The connection, main and the shared lognum.                              *)

Requests == {0, 1, 2, 3, 4, 6, 9, 10}
Messages == {1, -1, 3, -3, 5, Shown, Overrun}

(* TypeOK without the hand-off. *)
Typed ==
  /\ lognum \in {-1, 0, 1, 2, 3} /\ inputs \in 0..Inputs
  /\ mpc \in {"top", "menu", "await", "exit", "crashed"} \cup Home
  /\ outbox \in Seq(Requests) /\ inbox \in Seq(Messages)
  /\ server \in {"up", "stuck", "gone"} /\ session \in {"none", "in", "out"}

At(s, i, m) == i \in DOMAIN s /\ s[i] = m
AsksAt(i) == At(outbox, i, 1)
QuitAt(i) == At(outbox, i, 10)
AnsweredAt(i) == At(inbox, i, 1) \/ At(inbox, i, -1)

(* One login is on its way, in one direction, and then main waits with the  *)
(* lognum that it has reset, unless the client has ended.                   *)
LoginInv ==
  /\ \A i, j : AsksAt(i) /\ AsksAt(j) => i = j
  /\ \A i, j : AnsweredAt(i) /\ AnsweredAt(j) => i = j
  /\ \A i, j : ~(AsksAt(i) /\ AnsweredAt(j))
  /\ \A i : AsksAt(i) \/ AnsweredAt(i)
              => (mpc = "await" /\ lognum = 0) \/ Ended
  /\ mpc = "menu" => lognum = 0

(* Who is at home, or will be there by an answer on its way, is in session  *)
(* and has not asked to leave, unless the server is gone; who asks for a    *)
(* login has asked to leave before.                                         *)
Stays == (session = "in" \/ server = "gone") /\ \A i : ~QuitAt(i)
HomeInv ==
  /\ mpc \in Home => Stays
  /\ mpc = "await" /\ lognum = 1 => Stays
  /\ \A i : At(inbox, i, 1) => Stays
  /\ \A i, j : AsksAt(i) /\ QuitAt(j) => j < i

ClientInv == Typed /\ LoginInv /\ HomeInv

LEMMA AtAppend ==
  ASSUME NEW S, NEW s \in Seq(S), NEW e \in S
  PROVE  /\ Append(s, e) \in Seq(S)
         /\ \A i, m : At(Append(s, e), i, m)
                        <=> At(s, i, m) \/ (i = Len(s) + 1 /\ m = e)
         /\ \A i, m : At(s, i, m) => i \in Nat /\ i < Len(s) + 1
  BY DEF At

LEMMA AtTail ==
  ASSUME NEW S, NEW s \in Seq(S), s # <<>>
  PROVE  /\ Tail(s) \in Seq(S)
         /\ \A i, m : At(Tail(s), i, m) => i \in Nat \ {0} /\ At(s, i + 1, m)
         /\ At(s, 1, Head(s)) /\ Head(s) \in S
  BY DEF At

LEMMA InitClientInv == Init => ClientInv
<1> SUFFICES ASSUME Init PROVE ClientInv
  OBVIOUS
<1>1. outbox = <<>> /\ inbox = <<>> /\ \A i, m : ~At(<<>>, i, m)
  BY DEF Init, At
<1>2. <<>> \in Seq(Requests) /\ <<>> \in Seq(Messages)
  OBVIOUS
<1>3. Typed
  <2>1. /\ lognum = 0 /\ mpc = "top" /\ inputs = Inputs
        /\ server = "up" /\ session = "none"
    BY DEF Init
  <2>2. inputs \in 0..Inputs
    BY <2>1, BoundsAssumption
  <2>3. outbox \in Seq(Requests) /\ inbox \in Seq(Messages)
    BY <1>1, <1>2
  <2> QED BY <2>1, <2>2, <2>3 DEF Typed
<1> QED
  BY <1>1, <1>3 DEF Init, ClientInv, LoginInv, HomeInv, AsksAt, AnsweredAt,
     QuitAt, Home

(* What main writes.                                                        *)
LEMMA WriteEffect ==
  ASSUME ClientInv, NEW act \in Requests, NEW next, Write(act, next)
  PROVE  /\ outbox' \in Seq(Requests)
         /\ \/ /\ mpc' = next /\ outbox' = Append(outbox, act)
               /\ \A i, m : At(outbox', i, m)
                             <=> At(outbox, i, m)
                                   \/ (i = Len(outbox) + 1 /\ m = act)
               /\ \A i, m : At(outbox, i, m) => i \in Nat /\ i < Len(outbox) + 1
            \/ mpc' \in {next, "exit"} /\ outbox' = outbox
<1>1. outbox \in Seq(Requests)
  BY DEF ClientInv, Typed
<1>2. /\ Append(outbox, act) \in Seq(Requests)
      /\ \A i, m : At(Append(outbox, act), i, m)
                     <=> At(outbox, i, m) \/ (i = Len(outbox) + 1 /\ m = act)
      /\ \A i, m : At(outbox, i, m) => i \in Nat /\ i < Len(outbox) + 1
  BY <1>1, AtAppend
<1>3. CASE outbox' = Append(outbox, act) /\ mpc' = next
  BY <1>2, <1>3
<1>4. CASE outbox' = outbox /\ mpc' \in {next, "exit"}
  BY <1>1, <1>4
<1> QED BY <1>3, <1>4 DEF Write

(* The actions of main, by what they write.                                 *)
LEMMA MainSilent ==
  ASSUME ClientInv, OnlyMain, outbox' = outbox, inputs' \in 0..Inputs,
         lognum' \in {-1, 0, 1, 2, 3},
         \/ /\ mpc \in {"menu", "top"} \cup Home
            /\ mpc' \in {mpc, "exit", "top"}
            /\ mpc' = "menu" => lognum' = 0
         \/ mpc = "top" /\ mpc' = "menu" /\ lognum' = 0
         \/ mpc = "await" /\ lognum \in {3, -1} /\ mpc' = "top"
         \/ /\ mpc = "await" /\ lognum = 1 /\ lognum' = lognum
            /\ mpc' \in {"home", "exit"}
         \/ mpc \in Home /\ mpc' \in Home
         \/ mpc = "menu" /\ mpc' = "await" /\ lognum' = lognum
         \/ mpc \in Home /\ mpc' = "await" /\ lognum' = 3
  PROVE  ClientInv'
<1> USE DEF ClientInv, OnlyMain
<1>1. Typed'
  BY DEF Typed, Home
<1>2. LoginInv'
  BY DEF LoginInv, Typed, AsksAt, AnsweredAt, Ended, Home
<1>3. HomeInv'
  BY DEF HomeInv, LoginInv, Typed, AsksAt, AnsweredAt, QuitAt, Stays, Home
<1> QED BY <1>1, <1>2, <1>3

LEMMA MainWrites ==
  ASSUME ClientInv, OnlyMain, inputs' \in 0..Inputs,
         NEW act \in Requests, outbox' \in Seq(Requests),
         \A i, m : At(outbox', i, m)
                     <=> At(outbox, i, m) \/ (i = Len(outbox) + 1 /\ m = act),
         \A i, m : At(outbox, i, m) => i \in Nat /\ i < Len(outbox) + 1,
         \/ act = 1 /\ mpc = "menu" /\ mpc' = "await" /\ lognum' = lognum
         \/ act = 0 /\ mpc = "menu" /\ mpc' = "top" /\ lognum' = lognum
         \/ /\ act = 6 /\ mpc = "await" /\ lognum = 1
            /\ mpc' = "home" /\ lognum' = lognum
         \/ act = 9 /\ mpc \in Home /\ mpc' \in Home /\ lognum' = 1
         \/ act = 10 /\ mpc \in Home /\ mpc' = "await" /\ lognum' = 3
         \/ /\ act \in {2, 3, 4} /\ mpc \in Home /\ mpc' \in Home
            /\ lognum' = lognum
  PROVE  ClientInv'
<1> USE DEF ClientInv, OnlyMain
<1>1. Typed'
  BY DEF Typed, Home
<1>2. LoginInv'
  BY DEF LoginInv, Typed, AsksAt, AnsweredAt, Ended, Home
<1>3. \A i : ~AsksAt(i) /\ ~AnsweredAt(i)
  BY DEF LoginInv, Ended, Home
<1>4. \A i : ~At(inbox', i, 1)
  BY <1>3 DEF AnsweredAt
<1>5. act # 10 => (Stays => Stays')
  BY DEF Stays, QuitAt
<1>6. mpc' \in Home \/ (mpc' = "await" /\ lognum' = 1) => Stays'
  BY <1>5 DEF HomeInv, Typed, LoginInv, Home
<1>7. (\A i, j : AsksAt(i) /\ QuitAt(j) => j < i)'
  <2>1. CASE act # 1
    BY <1>3, <2>1 DEF AsksAt
  <2>2. CASE act = 1
    BY <1>3, <2>2 DEF AsksAt, QuitAt
  <2> QED BY <2>1, <2>2
<1>8. HomeInv'
  BY <1>4, <1>6, <1>7 DEF HomeInv
<1> QED BY <1>1, <1>2, <1>8

LEMMA MainStep == ClientInv /\ main => ClientInv'
<1> SUFFICES ASSUME ClientInv, main PROVE ClientInv'
  OBVIOUS
<1>0. /\ lognum \in {-1, 0, 1, 2, 3} /\ inputs \in 0..Inputs
      /\ {0, 1, 2, 3, 4, 6, 9, 10} \subseteq Requests
  BY DEF ClientInv, Typed, Requests
<1> USE <1>0, MainSilent, MainWrites, BoundsAssumption
    DEF UserTypes, OnlyMain
<1>1. CASE MenuTop
  BY <1>1 DEF MenuTop
<1>2. CASE Choose
  <2>1. CASE log_user
    BY <1>2, <2>1, WriteEffect DEF Choose, log_user
  <2>2. CASE reg_user
    BY <1>2, <2>2, WriteEffect DEF Choose, reg_user
  <2> QED BY <1>2, <2>1, <2>2 DEF Choose
<1>3. CASE Refused
  BY <1>3 DEF Refused
<1>4. CASE Admitted
  BY <1>4, WriteEffect DEF Admitted
<1>5. CASE ChooseHome
  <2>1. CASE lognum' = 1 /\ Write(9, "chat")
    BY <1>5, <2>1, WriteEffect DEF ChooseHome, Home
  <2>2. CASE lognum' = 3 /\ Write(10, "await")
    BY <1>5, <2>2, WriteEffect DEF ChooseHome, Home
  <2> QED BY <1>5, <2>1, <2>2 DEF ChooseHome, Home
<1>6. CASE chat_user
  <2>1. CASE Write(3, "asked")
    BY <1>6, <2>1, WriteEffect DEF chat_user, Home
  <2>2. CASE Write(2, "chat")
    BY <1>6, <2>2, WriteEffect DEF chat_user, Home
  <2> QED BY <1>6, <2>1, <2>2 DEF chat_user, Home
<1>7. CASE all_user
  <2>1. CASE Write(4, "group")
    BY <1>7, <2>1, WriteEffect DEF all_user, Home
  <2> QED BY <1>7, <2>1 DEF all_user, Home
<1>8. CASE WaitForId
  BY <1>8 DEF WaitForId, Home
<1>9. CASE SpuriousWake \/ StartBlocks
  BY <1>9 DEF SpuriousWake, StartBlocks, Home
<1> QED
  BY <1>1, <1>2, <1>3, <1>4, <1>5, <1>6, <1>7, <1>8, <1>9 DEF main

(* The receiver takes a message from the connection.                        *)
LEMMA ReceiverStep == ClientInv /\ (thread_read \/ \E k : recv_file(k))
                        => ClientInv'
<1> SUFFICES ASSUME ClientInv, thread_read \/ \E k : recv_file(k)
             PROVE  ClientInv'
  OBVIOUS
<1> USE DEF ClientInv
<1>1. ASSUME NEW acts, Receive(acts), OnlyReceiver,
             \/ lognum' = lognum /\ mpc' = mpc
             \/ lognum' = lognum /\ mpc' \in {"crashed", "exit"}
             \/ lognum' = lognum /\ mpc = "idwait" /\ mpc' = "send"
             \/ Head(inbox) \in {1, -1} /\ lognum' = Head(inbox) /\ mpc' = mpc
      PROVE  ClientInv'
  <2> USE <1>1
  <2>1. /\ inbox' \in Seq(Messages)
        /\ \A i, m : At(inbox', i, m) => i \in Nat \ {0} /\ At(inbox, i + 1, m)
        /\ At(inbox, 1, Head(inbox))
    <3>1. inbox \in Seq(Messages) /\ inbox # <<>> /\ inbox' = Tail(inbox)
      BY DEF Receive, Typed
    <3> QED BY <3>1, AtTail
  <2>2. Typed'
    BY <2>1 DEF Typed, OnlyReceiver, serverVars, Home
  <2>3. mpc \notin {"exit", "crashed"}
    BY DEF Receive, Ended
  <2>4. UNCHANGED <<outbox, server, session>>
    BY DEF OnlyReceiver, serverVars
  <2>5. CASE Head(inbox) \in {1, -1} /\ lognum' = Head(inbox) /\ mpc' = mpc
    <3>1. AnsweredAt(1) /\ mpc = "await" /\ mpc' = "await"
      BY <2>1, <2>3, <2>5 DEF LoginInv, AnsweredAt, Ended
    <3>2. \A i : ~AsksAt(i)' /\ ~AnsweredAt(i)'
      <4>1. \A i : AsksAt(i)' => AsksAt(i)
        BY <2>4 DEF AsksAt
      <4>2. \A i : AnsweredAt(i)' => i + 1 # 1 /\ AnsweredAt(i + 1)
        BY <2>1 DEF AnsweredAt
      <4> QED BY <3>1, <4>1, <4>2 DEF LoginInv
    <3>3. LoginInv'
      BY <3>1, <3>2 DEF LoginInv
    <3>4. lognum' = 1 => Stays'
      BY <2>1, <2>4, <2>5 DEF HomeInv, Stays, QuitAt
    <3>5. HomeInv'
      BY <3>1, <3>2, <3>4 DEF HomeInv, AnsweredAt, Home
    <3> QED BY <2>2, <3>3, <3>5
  <2>6. CASE /\ lognum' = lognum
             /\ \/ mpc' = mpc
                \/ mpc' \in {"crashed", "exit"}
                \/ mpc = "idwait" /\ mpc' = "send"
    <3>1. LoginInv'
      <4>1. \A i : AsksAt(i)' => AsksAt(i)
        BY <2>4 DEF AsksAt
      <4>2. \A i : AnsweredAt(i)' => i \in Nat /\ AnsweredAt(i + 1)
        BY <2>1 DEF AnsweredAt
      <4>3. (\A i, j : AnsweredAt(i) /\ AnsweredAt(j) => i = j)'
        BY <4>2 DEF LoginInv
      <4> QED BY <2>3, <2>6, <4>1, <4>2, <4>3 DEF LoginInv, Ended
    <3>2. HomeInv'
      BY <2>1, <2>4, <2>6 DEF HomeInv, Stays, AsksAt, QuitAt, Home
    <3> QED BY <2>2, <3>1, <3>2
  <2> QED BY <2>5, <2>6
<1>2. ASSUME UNCHANGED <<lognum, mainVars, serverVars, inbox>>
      PROVE  ClientInv'
  BY <1>2 DEF Typed, LoginInv, HomeInv, Stays, AsksAt, AnsweredAt, QuitAt,
     Ended, mainVars, serverVars
<1>3. CASE LoginAnswer
  BY <1>1, <1>3 DEF LoginAnswer, Receive
<1>4. CASE FileId
  BY <1>1, <1>4 DEF FileId
<1>5. CASE Header
  BY <1>1, <1>5 DEF Header
<1>6. CASE OverrunHistory \/ MapFile
  BY <1>1, <1>6 DEF OverrunHistory, MapFile
<1>7. CASE Show
  BY <1>1, <1>7 DEF Show
<1>8. CASE HandOver
  BY <1>2, <1>8 DEF HandOver, OnlyReceiver, mainVars
<1>9. CASE \E k : recv_file(k)
  BY <1>2, <1>9 DEF recv_file
<1> QED BY <1>3, <1>4, <1>5, <1>6, <1>7, <1>8, <1>9 DEF thread_read

(* The server takes a request off the connection, and answers it.           *)
LEMMA ServerStep == ClientInv /\ (Serve \/ GroupSpins \/ Relay \/ ServerEnds)
                      => ClientInv'
<1> SUFFICES ASSUME ClientInv, Serve \/ GroupSpins \/ Relay \/ ServerEnds
             PROVE  ClientInv'
  OBVIOUS
<1> USE DEF ClientInv
<1>0. UNCHANGED <<lognum, mpc, inputs>>
  BY DEF Serve, GroupSpins, Relay, ServerEnds, OnlyServer, mainVars
<1>1. CASE Serve
  <2>1. PICK reply \in Answers(Head(outbox)) :
          /\ inbox' = inbox \o reply
          /\ session' = IF reply = <<1>> THEN "in"
                        ELSE IF Head(outbox) = 10 THEN "out" ELSE session
          /\ server' = server
    BY <1>1 DEF Serve
  <2>2. /\ outbox' \in Seq(Requests)
        /\ \A i, m : At(outbox', i, m) =>
                       i \in Nat \ {0} /\ At(outbox, i + 1, m)
        /\ At(outbox, 1, Head(outbox)) /\ Head(outbox) \in Requests
    <3>1. /\ outbox \in Seq(Requests) /\ outbox # <<>>
          /\ outbox' = Tail(outbox)
      BY <1>1 DEF Serve, Typed
    <3> QED BY <3>1, AtTail
  <2>3. \A i : /\ AsksAt(i)' => i + 1 # 1 /\ AsksAt(i + 1)
               /\ QuitAt(i)' => i \in Nat /\ QuitAt(i + 1)
    BY <2>2 DEF AsksAt, QuitAt
  <2>4. CASE Head(outbox) = 1
    <3>1. PICK m \in {1, -1} : reply = <<m>>
      BY <2>4 DEF Answers
    <3>2. /\ inbox' \in Seq(Messages)
          /\ \A i, n : At(inbox', i, n)
                         <=> At(inbox, i, n) \/ (i = Len(inbox) + 1 /\ n = m)
      <4>1. inbox \in Seq(Messages) /\ m \in Messages
        BY DEF Typed, Messages
      <4>2. inbox' = Append(inbox, m)
        BY <2>1, <3>1, <4>1
      <4> QED BY <4>1, <4>2, AtAppend
    <3>3. Typed'
      BY <1>0, <1>1, <2>1, <2>2, <3>2 DEF Typed, Serve
    <3>4. AsksAt(1)
      BY <2>2, <2>4 DEF AsksAt
    <3>5. \A i : ~AsksAt(i)'
      BY <2>3, <3>4 DEF LoginInv
    <3>6. \A i : AnsweredAt(i)' => i = Len(inbox) + 1
      BY <3>2, <3>4 DEF AnsweredAt, LoginInv
    <3>7. (mpc = "await" /\ lognum = 0) \/ Ended
      BY <3>4 DEF LoginInv
    <3>8. LoginInv'
      BY <1>0, <3>5, <3>6, <3>7 DEF LoginInv, Ended
    <3>9. \A i : At(inbox', i, 1) => Stays'
      <4>1. SUFFICES ASSUME NEW i, At(inbox', i, 1) PROVE Stays'
        OBVIOUS
      <4>2. m = 1
        BY <3>2, <3>4, <4>1 DEF LoginInv, AnsweredAt
      <4>3. \A j : ~QuitAt(j)'
        BY <2>3, <3>4 DEF HomeInv
      <4> QED BY <2>1, <3>1, <4>2, <4>3 DEF Stays
    <3>10. HomeInv'
      BY <1>0, <3>5, <3>7, <3>9 DEF HomeInv, Ended, Home
    <3> QED BY <3>3, <3>8, <3>10
  <2>5. CASE Head(outbox) # 1
    <3>1. /\ inbox' \in Seq(Messages)
          /\ \A i, n : n \in {1, -1} => (At(inbox', i, n) <=> At(inbox, i, n))
          /\ reply # <<1>>
      <4>1. inbox \in Seq(Messages)
        BY DEF Typed
      <4>2. CASE reply = <<>>
        BY <2>1, <4>1, <4>2
      <4>3. ASSUME NEW m \in Messages \ {1, -1}, reply = <<m>>
            PROVE  <3>1
        <5>1. inbox' = Append(inbox, m)
          BY <2>1, <4>1, <4>3
        <5> QED BY <4>1, <4>3, <5>1, AtAppend
      <4>4. ASSUME NEW m \in Messages \ {1, -1}, NEW n \in Messages \ {1, -1},
                   reply = <<m, n>>
            PROVE  <3>1
        <5>1. /\ inbox' = Append(Append(inbox, m), n)
              /\ Append(inbox, m) \in Seq(Messages)
          BY <2>1, <4>1, <4>4
        <5> DEFINE s == Append(inbox, m)
        <5>2. \A i, x : At(s, i, x)
                          <=> At(inbox, i, x) \/ (i = Len(inbox) + 1 /\ x = m)
          BY <4>1, AtAppend
        <5> HIDE DEF s
        <5>3. /\ Append(s, n) \in Seq(Messages)
              /\ \A i, x : At(Append(s, n), i, x)
                             <=> At(s, i, x) \/ (i = Len(s) + 1 /\ x = n)
          <6>1. s \in Seq(Messages) BY <5>1 DEF s
          <6> QED BY <6>1, AtAppend
        <5>4. inbox' = Append(s, n)
          BY <5>1 DEF s
        <5>5. \A i, x : x \in {1, -1} => (At(inbox', i, x) <=> At(inbox, i, x))
          BY <5>2, <5>3, <5>4
        <5>6. reply # <<1>>
          BY <4>4
        <5> QED BY <5>3, <5>4, <5>5, <5>6
      <4>5. {3, -3, Shown, Overrun} \subseteq Messages \ {1, -1}
        BY DEF Messages, Shown, Overrun
      <4>6. \/ reply = <<>>
            \/ \E m \in {3, Shown, Overrun} : reply = <<m>>
            \/ reply = <<3, -3>> \/ reply = <<Overrun, Overrun>>
        BY <2>2, <2>5 DEF Answers, Requests
      <4> QED BY <4>2, <4>3, <4>4, <4>5, <4>6
    <3>2. Typed'
      BY <1>0, <1>1, <2>1, <2>2, <3>1 DEF Typed, Serve
    <3>3. \A i : AnsweredAt(i)' <=> AnsweredAt(i)
      BY <3>1 DEF AnsweredAt
    <3>4. LoginInv'
      <4>1. (\A i, j : AsksAt(i) /\ AsksAt(j) => i = j)'
        <5>1. \A i : AsksAt(i)' => i \in Nat /\ AsksAt(i + 1)
          BY <2>2 DEF AsksAt
        <5> QED BY <5>1 DEF LoginInv
      <4> QED BY <1>0, <2>3, <3>3, <4>1 DEF LoginInv, Ended
    <3>5. Stays => Stays'
      <4>1. Stays => Head(outbox) # 10
        BY <2>2 DEF Stays, QuitAt
      <4> QED BY <2>1, <2>3, <3>1, <4>1 DEF Stays
    <3>6. (\A i, j : AsksAt(i) /\ QuitAt(j) => j < i)'
      <4>1. \A i : AsksAt(i)' => i \in Nat /\ AsksAt(i + 1)
        BY <2>2 DEF AsksAt
      <4> QED BY <2>3, <4>1 DEF HomeInv
    <3>7. HomeInv'
      BY <1>0, <3>1, <3>5, <3>6 DEF HomeInv
    <3> QED BY <3>2, <3>4, <3>7
  <2> QED BY <2>4, <2>5
<1>2. CASE GroupSpins
  BY <1>0, <1>2 DEF GroupSpins, OnlyServer, Typed, LoginInv, HomeInv, Stays,
     AsksAt, AnsweredAt, QuitAt, Ended
<1>3. CASE Relay
  <2>1. /\ inbox' \in Seq(Messages)
        /\ \A i : /\ AnsweredAt(i)' <=> AnsweredAt(i)
                  /\ At(inbox', i, 1) => At(inbox, i, 1)
    <3>1. PICK n \in {5, -3} : inbox' = Append(inbox, n)
      <4>1. inbox = <<>> => Append(inbox, -3) = <<-3>>
        OBVIOUS
      <4> QED BY <1>3, <4>1 DEF Relay
    <3>2. inbox \in Seq(Messages) /\ n \in Messages
      BY DEF Typed, Messages
    <3>3. \A i, m : At(inbox', i, m)
                      <=> At(inbox, i, m) \/ (i = Len(inbox) + 1 /\ m = n)
      BY <3>1, <3>2, AtAppend
    <3> QED BY <3>1, <3>2, <3>3, AtAppend DEF AnsweredAt
  <2>2. UNCHANGED <<outbox, server, session>>
    BY <1>3 DEF Relay, serverVars
  <2>3. Typed'
    BY <1>0, <2>1, <2>2 DEF Typed
  <2>4. \A i : (AsksAt(i)' <=> AsksAt(i)) /\ (QuitAt(i)' <=> QuitAt(i))
    BY <2>2 DEF AsksAt, QuitAt
  <2>5. LoginInv'
    BY <1>0, <2>1, <2>4 DEF LoginInv, Ended
  <2>6. HomeInv'
    BY <1>0, <2>1, <2>2, <2>4 DEF HomeInv, Stays
  <2> QED BY <2>3, <2>5, <2>6
<1>4. CASE ServerEnds
  <2>1. /\ UNCHANGED inbox /\ outbox' = <<>>
        /\ server' = "gone" /\ session' = "out"
    BY <1>4 DEF ServerEnds
  <2>2. <<>> \in Seq(Requests) /\ \A i, m : ~At(<<>>, i, m)
    BY DEF At
  <2>3. \A i : ~AsksAt(i)' /\ ~QuitAt(i)' /\ (AnsweredAt(i)' <=> AnsweredAt(i))
    BY <2>1, <2>2 DEF AsksAt, QuitAt, AnsweredAt
  <2>4. Typed'
    BY <1>0, <2>1, <2>2 DEF Typed
  <2>5. LoginInv'
    BY <1>0, <2>3 DEF LoginInv, Ended
  <2>6. HomeInv'
    BY <1>0, <2>1, <2>3 DEF HomeInv, Stays
  <2> QED BY <2>4, <2>5, <2>6
<1> QED BY <1>1, <1>2, <1>3, <1>4

LEMMA NextClientInv == ClientInv /\ [Next]_vars => ClientInv'
<1>1. ClientInv /\ UNCHANGED vars => ClientInv'
  BY DEF vars, mainVars, serverVars, ClientInv, Typed, LoginInv, HomeInv,
     Stays, AsksAt, AnsweredAt, QuitAt, Ended
<1> QED BY <1>1, MainStep, ReceiverStep, ServerStep DEF Next

THEOREM ClientInvThm == Spec => []ClientInv
  BY InitClientInv, NextClientInv, PTL DEF Spec

(* What the client's variables hold, the hand-off included.                 *)
THEOREM ClientTypeOK == Spec => []TypeOK
<1>1. Typed /\ H!TypeOK => TypeOK
  BY DEF Typed, TypeOK, Requests, Messages
<1>2. ClientInv => Typed
  BY DEF ClientInv
<1> QED BY <1>1, <1>2, ClientInvThm, ClientHandoff, ClientSafe, PTL

LEMMA CountOne ==
  ASSUME NEW s, NEW acts,
         \A i, j \in DOMAIN s : s[i] \in acts /\ s[j] \in acts => i = j
  PROVE  \/ /\ Count(s, acts) = 0
            /\ \A i \in DOMAIN s : s[i] \notin acts
         \/ /\ Count(s, acts) = 1
            /\ \E i \in DOMAIN s : s[i] \in acts
<1> DEFINE at == {i \in DOMAIN s : s[i] \in acts}
<1>1. CASE at = {}
  BY <1>1, FS_EmptySet DEF Count
<1>2. ASSUME NEW i \in at PROVE Count(s, acts) = 1
  <2>1. at = {i}
    OBVIOUS
  <2> QED BY <2>1, FS_Singleton DEF Count
<1> QED BY <1>1, <1>2

(* At most one login is unanswered, on whichever of its two ways, and main  *)
(* waits for it.                                                            *)
THEOREM OneLoginThm == Spec => []OneLogin
<1>1. ClientInv => OneLogin
  <2> SUFFICES ASSUME ClientInv PROVE OneLogin
    OBVIOUS
  <2>1. LoginInv
    BY DEF ClientInv
  <2>2. \/ Count(outbox, {1}) = 0
        \/ Count(outbox, {1}) = 1 /\ \E i : AsksAt(i)
    <3>1. \A i, j \in DOMAIN outbox :
            outbox[i] \in {1} /\ outbox[j] \in {1} => i = j
      BY <2>1 DEF LoginInv, AsksAt, At
    <3> QED BY <3>1, CountOne DEF AsksAt, At
  <2>3. \/ Count(inbox, {1, -1}) = 0
        \/ Count(inbox, {1, -1}) = 1 /\ \E i : AnsweredAt(i)
    <3>1. \A i, j \in DOMAIN inbox :
            inbox[i] \in {1, -1} /\ inbox[j] \in {1, -1} => i = j
      BY <2>1 DEF LoginInv, AnsweredAt, At
    <3> QED BY <3>1, CountOne DEF AnsweredAt, At
  <2> QED BY <2>1, <2>2, <2>3 DEF OneLogin, LoginInv
<1> QED BY <1>1, ClientInvThm, PTL

(* Who is in the home menu, or in a chat, was let in by the server, and it  *)
(* has served no quit of his since, unless it is gone.                      *)
THEOREM HomeIsAdmittedThm == Spec => []HomeIsAdmitted
<1>1. ClientInv => HomeIsAdmitted
  BY DEF ClientInv, HomeInv, Stays, HomeIsAdmitted
<1> QED BY <1>1, ClientInvThm, PTL
=============================================================================
