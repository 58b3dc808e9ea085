------------------------ MODULE ChatServerProperties ------------------------
(***************************************************************************)
(* What the session handlers of work.c owe to the people who chat.         *)
(***************************************************************************)
EXTENDS ChatServer

Serving ==
  {"query", "insert", "login", "link", "linkHead", "store", "find", "group",
   "toAll", "names", "mute", "say", "history", "quit", "unlink", "free"}

(* What the variables hold: a handler has a request while it serves one and *)
(* none when it waits for the next, and every cell that malloc has handed   *)
(* out names the connection it was made for.                                *)
ListOK ==
  /\ head \in Nodes \cup {Null} /\ used \subseteq Nodes
  /\ cell \in [Nodes -> [cfd : Clients \cup {Null}, say : {0, 1},
                         next : Nodes \cup {Null}]]
  /\ \A n \in used : cell[n].cfd \in Clients
DataOK ==
  /\ person \in [Names -> Nat] /\ stored \subseteq Names \X (Names \cup {Null})
PeersOK ==
  /\ inbox \in [Clients -> Seq(Message)] /\ budget \in [Clients -> 0..Budget]
  /\ client \in [Clients -> {"out", "asked", "in", "gone"}]
HandlersOK ==
  /\ pc \in [Clients -> Serving \cup {"recv", "gone", "undefined"}]
  /\ msg \in [Clients -> Message \cup {NoMsg}]
  /\ \A c \in Clients : /\ pc[c] \in {"recv", "gone"} => msg[c] = NoMsg
                        /\ pc[c] \in Serving => msg[c] \in Message
  /\ cur \in [Clients -> Nodes \cup {Null}]
  /\ prev \in [Clients -> Nodes \cup {Null}]
TypeOK ==
  ListOK /\ DataOK /\ PeersOK /\ HandlersOK /\ sent \in [Clients -> SUBSET Answer]

(* w is the walk from cell n: where it is after i steps, until it is at no  *)
(* cell after k.  All cells on it are in use.                               *)
WalkFrom(n, w, k) ==
  /\ w[0] = n /\ w[k] = Null
  /\ \A i \in 0..k-1 : w[i] \in used /\ w[i+1] = cell[w[i]].next
Walks(n) ==
  UNION {{w \in [0..k -> used \cup {Null}] : WalkFrom(n, w, k)} :
           k \in 0..Cardinality(Nodes)}

Listed == {n \in used : \E w \in Walks(head) : \E i \in DOMAIN w : w[i] = n}

(* However the insertions of handlers interleave, the list ends, is made of *)
(* cells nobody freed, and has no cell twice: every walk of find_fd, to_all *)
(* and get_online that begins at head is over after as many cells as there  *)
(* are.  Insertions may lose a user, but not the list.                      *)
ListSound == Walks(head) # {}

(* No handler uses a cell after its free in case 10, or the successor of no *)
(* cell, as the loop of case 6 would with an empty list.                    *)
NoFault == \A c \in Clients : pc[c] # "undefined"

(* What a handler takes off the list and frees on action 10 is a cell of    *)
(* its own user, and nobody has freed it yet.  That ends, however walks,    *)
(* insertions and removals interleave and whatever the list lost or kept,   *)
(* only when two handlers have found the same cell: two quits of a user who *)
(* is logged in on two connections, served at the same time.                *)
HasOwnCell(c) == cur[c] \in used /\ NameAt(c) = NameOf[c]
FreedOnce == \A c \in Clients : pc[c] \in {"unlink", "free"} => HasOwnCell(c)
QuitsMeet ==
  \E c, d \in Clients :
    /\ c # d /\ NameOf[c] = NameOf[d] /\ cur[c] = cur[d]
    /\ pc[c] \in {"unlink", "free"} /\ pc[d] = "free"

FreedTwiceByTwoQuits == [][FreedOnce => FreedOnce' \/ QuitsMeet]_vars

(* thread_read serves a request and returns to recv (work.c:301).           *)
HandlersReturn ==
  \A c \in Clients : pc[c] \notin {"recv", "gone"} ~> pc[c] \in {"recv", "gone"}

(* Once the server has nothing to do, the list has exactly one cell for     *)
(* each user who logged in and has not left, whatever the requests so far.  *)
ListIsOnline ==
  Idle => /\ ListSound
          /\ {cell[n].cfd : n \in Listed} = {c \in Clients : client[c] = "in"}
          /\ \A m, n \in Listed : cell[m].cfd = cell[n].cfd => m = n

(* A private message is written to its addressee alone when he is logged    *)
(* in, and answered with -2, for the sender alone, when he is not; in both  *)
(* cases it has been stored for the history.                                *)
SentRight(c) ==
  LET there == {d \in Clients : NameOf[d] = msg[c].to /\ client[d] = "in"}
      only(d, act) == sent'[c] = {<<d, act, msg[c].to>>}
  IN  /\ <<NameOf[c], msg[c].to>> \in stored
      /\ IF there = {} THEN only(c, -2) ELSE \E d \in there : only(d, 2)

AnsweredRight ==
  [][\A c \in Clients : pc[c] = "find" /\ pc'[c] # "find" => SentRight(c)]_vars

(* A name is registered once, since queryname keeps the second request out: *)
(* but for two handlers that have both been told that the name is free, and *)
(* not inserted it yet.                                                     *)
NamesUnique == \A n \in Names : person[n] <= 1
NameStillFree == \A c \in Clients : pc[c] = "insert" => person[NameOf[c]] = 0
InsertsMeet ==
  \E c, d \in Clients :
    /\ c # d /\ NameOf[c] = NameOf[d] /\ pc[c] = "insert" /\ pc[d] = "insert"

NameTwiceByTwoInserts ==
  [][NamesUnique /\ NameStillFree
       => (NamesUnique /\ NameStillFree)' \/ InsertsMeet]_vars

(* The messages for everybody, of group chat (4) and the list of names (6), *)
(* have reached everybody who is logged in when the walk of to_all ends.    *)
Broadcast ==
  [][\A c \in Clients :
       pc[c] = "toAll" /\ pc'[c] = "recv" =>
         \A d \in Clients :
           client[d] = "in" => <<d, msg[c].act, msg[c].to>> \in sent[c]]_vars
=============================================================================
