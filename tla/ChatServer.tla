----------------------------- MODULE ChatServer -----------------------------
(***************************************************************************)
(* server/work/work.c: the session handlers (thread_read), one for each    *)
(* connection, on the list of online users they share without a lock, and  *)
(* the two tables of the database.  Requests about files are FileTransfer. *)
(*                                                                         *)
(* The list is modelled cell by cell, and a handler that walks it takes    *)
(* one step per cell.  Descriptors are the clients themselves: the server  *)
(* never closes one.  A step that touches a cell that was freed, or the    *)
(* successor of no cell, has no defined outcome: Fault, where the          *)
(* behaviour ends.                                                         *)
(***************************************************************************)
EXTENDS Integers, FiniteSets, Sequences

CONSTANTS
  Clients, NameOf,  (* the connections, and the user behind each             *)
  Nodes, Null,      (* the memory for cells of the list; no cell             *)
  Known,            (* the users registered before the server starts         *)
  Kinds,            (* the actions clients send in this instance             *)
  Budget,           (* how many requests a client sends                      *)
  OneAtATime,       (* do clients wait until the server has nothing to do?   *)
  Vanishing         (* the connections that may end without action 10        *)

Actions == {0, 1, 2, 4, 6, 7, 8, -8, 9, 10}
Names == {NameOf[c] : c \in Clients}

ASSUME ChatAssumption ==
  /\ NameOf \in [Clients -> Names] /\ Known \subseteq Names
  /\ IsFiniteSet(Nodes) /\ Null \notin Nodes /\ Budget \in Nat
  /\ Kinds \subseteq Actions
  /\ OneAtATime \in BOOLEAN /\ Vanishing \subseteq Clients

VARIABLES
  head, cell, used,     (* the list; its cells; those malloc has handed out  *)
  person, stored,       (* rows of table person by name; storagemessage      *)
  inbox, sent,          (* requests not received; what a handler has written *)
  client, budget,       (* what each client is doing; requests it may send   *)
  pc, msg, cur, prev    (* handlers: location, pmsg, pNode and temp          *)

listVars == <<head, cell, used>>
dbVars == <<person, stored>>
peerVars == <<inbox, client, budget>>
vars == <<listVars, dbVars, peerVars, sent, pc, msg, cur, prev>>

(* good: my_strcmp takes the password (1), or it is a number (0), as the    *)
(* INSERT without quotes needs.  Other requests have no use for it, and     *)
(* only 2, 8, -8 and 9 name a user.                                         *)
Message ==
  {m \in [act : Kinds, to : Names \cup {Null}, good : BOOLEAN] :
     /\ m.act \in {2, 8, -8, 9} <=> m.to # Null
     /\ m.act \notin {0, 1} => m.good}
(* What is written: to whom, the action it carries, and its toname.         *)
Answer == Clients \X (Actions \cup {255, -1, -2}) \X (Names \cup {Null})

NoMsg == [act |-> -99, to |-> Null, good |-> FALSE]
NoCell == [cfd |-> Null, say |-> 0, next |-> Null]

Init ==
  /\ head = Null /\ cell = [n \in Nodes |-> NoCell] /\ used = {}
  /\ person = [n \in Names |-> IF n \in Known THEN 1 ELSE 0] /\ stored = {}
  /\ inbox = [c \in Clients |-> <<>>] /\ sent = [c \in Clients |-> {}]
  /\ client = [c \in Clients |-> "out"] /\ budget = [c \in Clients |-> Budget]
  /\ pc = [c \in Clients |-> "recv"] /\ msg = [c \in Clients |-> NoMsg]
  /\ cur = [c \in Clients |-> Null] /\ prev = [c \in Clients |-> Null]

-----------------------------------------------------------------------------
(* Clients.  The client sends a login and waits for the answer, sends what  *)
(* it likes while logged in, and is logged out once it has sent action 10.  *)

Idle == \A c \in Clients : pc[c] \in {"recv", "gone"} /\ inbox[c] = <<>>

Send(c, m) ==
  /\ pc[c] # "undefined"
  /\ budget[c] > 0
  /\ OneAtATime => Idle
  /\ \/ m.act = 0 /\ client[c] = "out" /\ UNCHANGED client
     \/ m.act \in {1, 7} /\ client[c] = "out"
        /\ client' = [client EXCEPT ![c] = "asked"]
     \/ m.act \notin {0, 1, 7, 10} /\ client[c] = "in" /\ UNCHANGED client
     \/ m.act = 10 /\ client[c] = "in" /\ client' = [client EXCEPT ![c] = "out"]
  /\ inbox' = [inbox EXCEPT ![c] = Append(@, m)]
  /\ budget' = [budget EXCEPT ![c] = @ - 1]
  /\ UNCHANGED <<listVars, dbVars, sent, pc, msg, cur, prev>>

Vanish(c) ==
  /\ c \in Vanishing /\ pc[c] # "undefined"
  /\ client[c] # "gone" /\ client' = [client EXCEPT ![c] = "gone"]
  /\ UNCHANGED <<listVars, dbVars, inbox, budget, sent, pc, msg, cur, prev>>

-----------------------------------------------------------------------------
(* What the steps of a handler are made of. *)

Goto(c, from, to) == pc[c] = from /\ pc' = [pc EXCEPT ![c] = to]

(* write: nothing arrives at a client that is gone, and SIGPIPE is ignored. *)
Write(d, c, act) ==
  sent' = IF client[d] = "gone" THEN sent
          ELSE [sent EXCEPT ![c] = @ \cup {<<d, act, msg[c].to>>}]

Cell(c) == cell[cur[c]]
NameAt(c) == NameOf[Cell(c).cfd]

(* A step that looks at the cell behind pNode; the ways a handler goes on:  *)
(* to the next step, to a walk from head, to the next cell, to recv.        *)
Look(c) == cur[c] \in used
Go(c, from, to) == Goto(c, from, to) /\ UNCHANGED <<msg, cur, prev>>
Walk(c, from, to) ==
  Goto(c, from, to) /\ cur' = [cur EXCEPT ![c] = head] /\ UNCHANGED <<msg, prev>>
Advance(c, at) ==
  /\ pc[c] = at
  /\ cur' = [cur EXCEPT ![c] = Cell(c).next]
  /\ prev' = IF at = "quit" THEN [prev EXCEPT ![c] = cur[c]] ELSE prev
  /\ UNCHANGED <<pc, msg>>
(* Slip: no memset before the next recv. *)
DoneKeepsRequest(c, from) ==
  /\ Goto(c, from, "recv")
  /\ cur' = [cur EXCEPT ![c] = Null] /\ prev' = [prev EXCEPT ![c] = Null]
  /\ UNCHANGED msg
Done(c, from) ==
  /\ Goto(c, from, "recv")
  /\ msg' = [msg EXCEPT ![c] = NoMsg]
  /\ cur' = [cur EXCEPT ![c] = Null] /\ prev' = [prev EXCEPT ![c] = Null]

(* Where a request is served; the walks begin at head. *)
Start(act) ==
  CASE act = 0 -> "query" [] act = 1 -> "login" [] act \in {2, 4} -> "store"
    [] act = 6 -> "names" [] act = 7 -> "link" [] act \in {8, -8} -> "mute"
    [] act = 9 -> "history" [] act = 10 -> "quit"

Receive(c) ==
  /\ inbox[c] # <<>>
  /\ Goto(c, "recv", Start(Head(inbox[c]).act))
  /\ msg' = [msg EXCEPT ![c] = Head(inbox[c])]
  /\ inbox' = [inbox EXCEPT ![c] = Tail(@)]
  /\ cur' = [cur EXCEPT ![c] = head]
  /\ sent' = [sent EXCEPT ![c] = {}]
  /\ UNCHANGED <<listVars, dbVars, client, budget, prev>>

(* recv returned 0: the handler ends, and leaves the list as it is. *)
HangUp(c) ==
  /\ client[c] = "gone" /\ inbox[c] = <<>>
  /\ Goto(c, "recv", "gone")
  /\ UNCHANGED <<listVars, dbVars, peerVars, sent, msg, cur, prev>>

-----------------------------------------------------------------------------
(* 0: register.  queryname compares with an uninitialised buffer when there *)
(* is no row, so that it may find any name.                                 *)

(* Slip: registered without asking whether the name is taken. *)
QueryNothing(c) ==
  /\ Go(c, "query", "insert")
  /\ UNCHANGED <<listVars, dbVars, peerVars, sent>>

Query(c) ==
  /\ \/ Done(c, "query") /\ Write(c, c, 255)
     \/ person[NameOf[c]] = 0 /\ Go(c, "query", "insert") /\ UNCHANGED sent
  /\ UNCHANGED <<listVars, dbVars, peerVars>>

Insert(c) ==
  /\ Done(c, "insert")
  /\ person' = [person EXCEPT ![NameOf[c]] = IF msg[c].good THEN @ + 1 ELSE @]
  /\ UNCHANGED <<listVars, stored, peerVars, sent>>

(* The client has its answer to a login. *)
LoggedIn(c, state) ==
  client' = [client EXCEPT ![c] = IF @ = "gone" THEN @ ELSE state]

(* 1: log in.  Without a row the password is compared with anything. *)
CheckPassword(c) ==
  /\ \/ /\ msg[c].good \/ person[NameOf[c]] = 0
        /\ Go(c, "login", "link") /\ UNCHANGED <<sent, client>>
     \/ /\ ~msg[c].good \/ person[NameOf[c]] = 0
        /\ Done(c, "login") /\ Write(c, c, -1) /\ LoggedIn(c, "out")
  /\ UNCHANGED <<listVars, dbVars, inbox, budget>>

(* Slip: a cell that is not fresh, as a static one would be. *)
LinkStatic(c) ==
  /\ Goto(c, "link", "linkHead")
  /\ \E n \in Nodes :
       /\ cell' = [cell EXCEPT ![n] = [cfd |-> c, say |-> 0, next |-> head]]
       /\ used' = used \cup {n}
       /\ cur' = [cur EXCEPT ![c] = n]
  /\ UNCHANGED <<head, dbVars, peerVars, sent, msg, prev>>

(* 1 and 7: insert_link, first new_user->next = head, then head = new_user. *)
Link(c) ==
  /\ Goto(c, "link", "linkHead")
  /\ \E n \in Nodes \ used :
       /\ cell' = [cell EXCEPT ![n] = [cfd |-> c, say |-> 0, next |-> head]]
       /\ used' = used \cup {n}
       /\ cur' = [cur EXCEPT ![c] = n]
  /\ UNCHANGED <<head, dbVars, peerVars, sent, msg, prev>>

LinkHead(c) ==
  /\ Done(c, "linkHead")
  /\ head' = cur[c]
  /\ Write(c, c, 1) /\ LoggedIn(c, "in")
  /\ UNCHANGED <<cell, used, dbVars, inbox, budget>>

-----------------------------------------------------------------------------
(* 2 and 4: insert_data_message, then the walk. *)
Store(c) ==
  /\ Walk(c, "store", IF msg[c].act = 2 THEN "find" ELSE "group")
  /\ stored' = stored \cup {<<NameOf[c], msg[c].to>>}
  /\ UNCHANGED <<listVars, person, peerVars, sent>>

(* Slip: the search stops at the last cell without comparing it. *)
FindShort(c) ==
  /\ Look(c)
  /\ \/ Cell(c).next = Null /\ Done(c, "find") /\ Write(c, c, -2)
     \/ /\ Cell(c).next # Null /\ NameAt(c) = msg[c].to
        /\ Done(c, "find") /\ Write(Cell(c).cfd, c, 2)
     \/ /\ Cell(c).next # Null /\ NameAt(c) # msg[c].to
        /\ Advance(c, "find") /\ UNCHANGED sent
  /\ UNCHANGED <<listVars, dbVars, peerVars>>

(* 2: find_fd, one cell after the other. *)
Find(c) ==
  /\ \/ cur[c] = Null /\ Done(c, "find") /\ Write(c, c, -2)
     \/ /\ Look(c) /\ NameAt(c) = msg[c].to
        /\ Done(c, "find") /\ Write(Cell(c).cfd, c, 2)
     \/ /\ Look(c) /\ NameAt(c) # msg[c].to
        /\ Advance(c, "find") /\ UNCHANGED sent
  /\ UNCHANGED <<listVars, dbVars, peerVars>>

(* 4: the loop looks for the sender's cell and does not advance: at another *)
(* cell the handler goes round and round and nothing changes.               *)
Group(c) ==
  /\ \/ cur[c] = Null /\ Done(c, "group") /\ UNCHANGED sent
     \/ /\ Look(c) /\ NameAt(c) = NameOf[c] /\ Cell(c).say # 1
        /\ Walk(c, "group", "toAll") /\ UNCHANGED sent
     \/ /\ Look(c) /\ NameAt(c) = NameOf[c] /\ Cell(c).say = 1
        /\ Done(c, "group") /\ Write(c, c, 7)
  /\ UNCHANGED <<listVars, dbVars, peerVars>>

(* Slips: a walk that never advances, as that of case 4; one that ends      *)
(* before the last cell.                                                    *)
ToAllForever(c) ==
  /\ \/ cur[c] = Null /\ Done(c, "toAll") /\ UNCHANGED sent
     \/ /\ Look(c) /\ pc[c] = "toAll" /\ Write(Cell(c).cfd, c, msg[c].act)
        /\ UNCHANGED <<pc, msg, cur, prev>>
  /\ UNCHANGED <<listVars, dbVars, peerVars>>
ToAllShort(c) ==
  /\ Look(c)
  /\ \/ Cell(c).next = Null /\ Done(c, "toAll") /\ UNCHANGED sent
     \/ /\ Cell(c).next # Null
        /\ Advance(c, "toAll") /\ Write(Cell(c).cfd, c, msg[c].act)
  /\ UNCHANGED <<listVars, dbVars, peerVars>>

(* 4 and 6: to_all. *)
ToAll(c) ==
  /\ \/ cur[c] = Null /\ Done(c, "toAll") /\ UNCHANGED sent
     \/ Look(c) /\ Advance(c, "toAll") /\ Write(Cell(c).cfd, c, msg[c].act)
  /\ UNCHANGED <<listVars, dbVars, peerVars>>

(* Slip: the loop has no end test. *)
ListNamesPast(c) ==
  /\ Look(c) /\ Advance(c, "names")
  /\ UNCHANGED <<listVars, dbVars, peerVars, sent>>

(* 6: every name goes to a file; the loop tests pNode->next, not pNode. *)
ListNames(c) ==
  /\ Look(c)
  /\ \/ Cell(c).next = Null /\ Walk(c, "names", "toAll")
     \/ Cell(c).next # Null /\ Advance(c, "names")
  /\ UNCHANGED <<listVars, dbVars, peerVars, sent>>

-----------------------------------------------------------------------------
(* 8 and -8: get_online, of the user named in the request to mute, of the   *)
(* sender to unmute.                                                        *)
Whom(c) == IF msg[c].act = 8 THEN msg[c].to ELSE NameOf[c]

Mute(c) ==
  /\ \/ cur[c] = Null /\ Done(c, "mute") /\ Write(c, c, -2)
     \/ Look(c) /\ NameAt(c) = Whom(c) /\ Go(c, "mute", "say") /\ UNCHANGED sent
     \/ Look(c) /\ NameAt(c) # Whom(c) /\ Advance(c, "mute") /\ UNCHANGED sent
  /\ UNCHANGED <<listVars, dbVars, peerVars>>

Say(c) ==
  /\ Look(c)
  /\ Done(c, "say") /\ Write(c, c, msg[c].act)
  /\ cell' = [cell EXCEPT ![cur[c]].say = IF msg[c].act = 8 THEN 1 ELSE 0]
  /\ UNCHANGED <<head, used, dbVars, peerVars>>

(* 9: select_message, and the answer. *)
History(c) ==
  /\ Done(c, "history")
  /\ Write(c, c, 9)
  /\ UNCHANGED <<listVars, dbVars, peerVars>>

(* Slips: the first cell is taken off, whoever it belongs to; head moves on *)
(* even when the cell has a predecessor; the cell is freed but not unlinked. *)
QuitFirst(c) ==
  /\ \/ cur[c] = Null /\ Done(c, "quit")
     \/ Look(c) /\ Go(c, "quit", "unlink")
  /\ UNCHANGED <<listVars, dbVars, peerVars, sent>>
UnlinkHead(c) ==
  /\ Look(c) /\ Go(c, "unlink", "free")
  /\ head' = Cell(c).next
  /\ UNCHANGED <<cell, used, dbVars, peerVars, sent>>
UnlinkNothing(c) ==
  /\ Look(c) /\ Go(c, "unlink", "free")
  /\ UNCHANGED <<listVars, dbVars, peerVars, sent>>

(* 10: find the cell, unlink it, free it. *)
Quit(c) ==
  /\ \/ cur[c] = Null /\ Done(c, "quit")
     \/ Look(c) /\ NameAt(c) = NameOf[c] /\ Go(c, "quit", "unlink")
     \/ Look(c) /\ NameAt(c) # NameOf[c] /\ Advance(c, "quit")
  /\ UNCHANGED <<listVars, dbVars, peerVars, sent>>

Unlink(c) ==
  /\ Look(c)
  /\ Go(c, "unlink", "free")
  /\ \/ prev[c] = Null /\ head' = Cell(c).next /\ UNCHANGED cell
     \/ /\ prev[c] \in used
        /\ cell' = [cell EXCEPT ![prev[c]].next = Cell(c).next] /\ UNCHANGED head
  /\ UNCHANGED <<used, dbVars, peerVars, sent>>

Free(c) ==
  /\ Look(c)
  /\ Done(c, "free")
  /\ used' = used \ {cur[c]}
  /\ UNCHANGED <<head, cell, dbVars, peerVars, sent>>

(* The cell the handler is about to use has been freed, or is no cell. *)
Fault(c) ==
  /\ \/ pc[c] \in {"find", "group", "toAll", "mute", "quit"}
        /\ cur[c] \notin used \cup {Null}
     \/ pc[c] \in {"names", "say", "unlink", "free"} /\ cur[c] \notin used
     \/ pc[c] = "unlink" /\ prev[c] \notin used \cup {Null}
  /\ pc' = [d \in Clients |-> "undefined"]
  /\ UNCHANGED <<listVars, dbVars, peerVars, sent, msg, cur, prev>>

-----------------------------------------------------------------------------
thread_read(c) ==
  \/ Receive(c) \/ HangUp(c) \/ Query(c) \/ Insert(c) \/ CheckPassword(c)
  \/ Link(c) \/ LinkHead(c) \/ Store(c) \/ Find(c) \/ Group(c) \/ ToAll(c)
  \/ ListNames(c) \/ Mute(c) \/ Say(c) \/ History(c) \/ Quit(c) \/ Unlink(c)
  \/ Free(c) \/ Fault(c)

Next ==
  \E c \in Clients :
    \/ thread_read(c)
    \/ Vanish(c)
    \/ \E m \in Message : Send(c, m)

Spec == Init /\ [][Next]_vars

(* Every handler runs; clients send when they like. *)
FairSpec == Spec /\ \A c \in Clients : WF_vars(thread_read(c))
=============================================================================
