---------------------------- MODULE ChatListProofs ----------------------------
(***************************************************************************)
(* Theorems about ChatServer: the online list as long as nobody leaves,    *)
(* and the answers as long as no two requests are served at a time.  Any   *)
(* number of connections, of cells and of requests.                        *)
(***************************************************************************)
EXTENDS ChatServerProofs, FiniteSetTheorems

(* The walk from a cell in use ends, after no more cells than are in use.  *)
ChainInv ==
  \A n \in used :
    \E k \in 1..Cardinality(used) : \E w \in [0..k -> used \cup {Null}] :
      WalkFrom(n, w, k)

(* A handler that walks is at a cell in use or at the end of a walk; the    *)
(* list of names is written from a cell.                                    *)
PlaceInv ==
  /\ head \in used \cup {Null}
  /\ \A c \in Clients :
       /\ cur[c] \in used \cup {Null}
       /\ pc[c] \in {"names", "say", "linkHead"} => cur[c] \in used
       /\ pc[c] \notin {"quit", "unlink", "free", "undefined"}

(* While the list is empty nobody is logged in, and nobody asks for more    *)
(* than to be.                                                              *)
Early == {m \in Message : m.act \in {0, 1, 7}}
EmptyInv ==
  head = Null => \A c \in Clients : client[c] # "in" /\ inbox[c] \in Seq(Early)

ChatListInv == ChainInv /\ PlaceInv /\ EmptyInv

LEMMA InitList == Init => ChatListInv
<1> SUFFICES ASSUME Init PROVE ChatListInv
  OBVIOUS
<1>1. ChainInv BY DEF Init, ChainInv
<1>2. PlaceInv BY DEF Init, PlaceInv
<1>3. EmptyInv BY DEF Init, EmptyInv
<1> QED BY <1>1, <1>2, <1>3 DEF ChatListInv

(* Walks over cells that stay as they are. *)
LEMMA ChainKept ==
  ASSUME ChainInv, used' = used, \A n \in used : cell'[n].next = cell[n].next
  PROVE  ChainInv'
<1> SUFFICES ASSUME NEW n \in used
             PROVE  \E k \in 1..Cardinality(used) :
                      \E w \in [0..k -> used \cup {Null}] : WalkFrom(n, w, k)'
  BY DEF ChainInv
<1>1. PICK k \in 1..Cardinality(used) :
        \E w \in [0..k -> used \cup {Null}] : WalkFrom(n, w, k)
  BY DEF ChainInv
<1>2. PICK w \in [0..k -> used \cup {Null}] : WalkFrom(n, w, k) BY <1>1
<1>3. WalkFrom(n, w, k)' BY <1>2 DEF WalkFrom
<1> QED BY <1>3

(* A new cell in front of the list: its walk is the list's, one longer. *)
LEMMA ChainGrows ==
  ASSUME ListOK, ChainInv, head \in used \cup {Null},
         NEW new \in Nodes \ used, used' = used \cup {new},
         cell'[new].next = head, \A n \in used : cell'[n].next = cell[n].next
  PROVE  ChainInv'
<1>1. IsFiniteSet(used)
  BY ChatAssumption, FS_Subset DEF ListOK
<1>2. /\ Cardinality(used) \in Nat
      /\ Cardinality(used') = Cardinality(used) + 1
  BY <1>1, FS_CardinalityType, FS_AddElement
<1>3. ASSUME NEW n \in used
      PROVE  \E k \in 1..Cardinality(used) :
               \E w \in [0..k -> used' \cup {Null}] : WalkFrom(n, w, k)'
  <2>1. PICK k \in 1..Cardinality(used) :
          \E w \in [0..k -> used \cup {Null}] : WalkFrom(n, w, k)
    BY DEF ChainInv
  <2>2. PICK w \in [0..k -> used \cup {Null}] : WalkFrom(n, w, k) BY <2>1
  <2>3. WalkFrom(n, w, k)' BY <2>2 DEF WalkFrom
  <2>4. w \in [0..k -> used' \cup {Null}] BY <2>2
  <2> QED BY <2>3, <2>4
<1>4. \E k \in 1..Cardinality(used) + 1 :
        \E w \in [0..k -> used' \cup {Null}] : WalkFrom(new, w, k)'
  <2>1. CASE head = Null
    <3> DEFINE w == [i \in 0..1 |-> IF i = 0 THEN new ELSE Null]
    <3>1. w \in [0..1 -> used' \cup {Null}] OBVIOUS
    <3>2. WalkFrom(new, w, 1)' BY <2>1 DEF WalkFrom
    <3>3. 1 \in 1..Cardinality(used) + 1 BY <1>2
    <3> HIDE DEF w
    <3> QED BY <3>1, <3>2, <3>3
  <2>2. CASE head \in used
    <3>1. PICK h \in used : h = head BY <2>2
    <3>2. PICK k \in 1..Cardinality(used) :
            \E w \in [0..k -> used' \cup {Null}] : WalkFrom(h, w, k)'
      BY <1>3
    <3>3. PICK w \in [0..k -> used' \cup {Null}] : WalkFrom(h, w, k)'
      BY <3>2
    <3> DEFINE v == [i \in 0..k+1 |-> IF i = 0 THEN new ELSE w[i-1]]
    <3>4. v \in [0..k+1 -> used' \cup {Null}] /\ k + 1 \in Nat
      BY <1>2, <3>3
    <3>5. v[0] = new /\ \A i \in 0..k : v[i+1] = w[i]
      BY <1>2
    <3>6. w[0] = h /\ w[k] = Null
          /\ \A i \in 0..k-1 : w[i] \in used' /\ w[i+1] = cell'[w[i]].next
      BY <3>3 DEF WalkFrom
    <3> HIDE DEF v
    <3>7. ASSUME NEW i \in 0..(k+1)-1
          PROVE  v[i] \in used' /\ v[i+1] = cell'[v[i]].next
      <4>1. CASE i = 0
        <5>1. v[0] = new /\ v[1] = w[0] BY <1>2, <3>5
        <5> QED BY <3>1, <3>6, <4>1, <5>1
      <4>2. CASE i # 0
        <5>1. i - 1 \in 0..k-1 /\ i \in 0..k BY <4>2
        <5>2. v[i] = w[i-1] /\ v[i+1] = w[i] BY <3>5, <5>1
        <5>3. w[(i-1)+1] = w[i] BY <5>1
        <5> QED BY <3>6, <5>1, <5>2, <5>3
      <4> QED BY <4>1, <4>2
    <3>8. v[k+1] = Null BY <1>2, <3>5, <3>6
    <3>9. WalkFrom(new, v, k + 1)' BY <3>5, <3>7, <3>8 DEF WalkFrom
    <3> QED BY <1>2, <3>4, <3>9
  <2> QED BY <2>1, <2>2
<1> QED BY <1>2, <1>3, <1>4 DEF ChainInv

(* Without action 10 no handler gets to the loop of case 10. *)
LEMMA NoQuit ==
  ASSUME 10 \notin Kinds, NEW m \in Message
  PROVE  Start(m.act) \in
           Serving \ {"quit", "unlink", "free", "linkHead", "say"}
<1>1. m.act \in Actions \ {10}
  BY ChatAssumption DEF Message
<1> QED BY <1>1 DEF Start, Actions, Serving

(* A handler that moves on, and leaves the cells to the others. *)
LEMMA StepPlaces ==
  ASSUME PlaceInv, NEW c \in Clients, head' = head, used' = used,
         \A d \in Clients : d # c => pc'[d] = pc[d] /\ cur'[d] = cur[d],
         cur'[c] \in used \cup {Null},
         pc'[c] \in {"names", "say", "linkHead"} => cur'[c] \in used,
         pc'[c] \notin {"quit", "unlink", "free", "undefined"}
  PROVE  PlaceInv'
  BY DEF PlaceInv

(* What a handler reads from the cell it is at. *)
LEMMA NextCell ==
  ASSUME TypeOK, ChainInv, NEW n \in used
  PROVE  cell[n].next \in used \cup {Null}
<1>1. PICK k \in 1..Cardinality(used) :
        \E w \in [0..k -> used \cup {Null}] : WalkFrom(n, w, k)
  BY DEF ChainInv
<1>2. PICK w \in [0..k -> used \cup {Null}] : WalkFrom(n, w, k) BY <1>1
<1>3. IsFiniteSet(used) BY ChatAssumption, FS_Subset DEF TypeOK, ListOK
<1>4. k \in Nat /\ k >= 1 BY <1>3, FS_CardinalityType
<1>5. w[0+1] = cell[w[0]].next /\ 0+1 \in 0..k BY <1>2, <1>4 DEF WalkFrom
<1> QED BY <1>2, <1>5 DEF WalkFrom

(* The steps that leave the list, the requests and the clients alone. *)
WalkStep(c) ==
  \/ Query(c) \/ Insert(c) \/ Store(c) \/ Find(c) \/ Group(c) \/ ToAll(c)
  \/ ListNames(c) \/ Mute(c) \/ History(c)

LEMMA WalkList ==
  ASSUME TypeOK, ChatListInv, NEW c \in Clients, WalkStep(c)
  PROVE  ChatListInv'
<1>1. UNCHANGED <<listVars, peerVars>>
  BY DEF WalkStep, Query, Insert, Store, Find, Group, ToAll, ListNames, Mute,
         History
<1>2. ChainInv' /\ EmptyInv'
  BY <1>1, ChainKept DEF ChatListInv, EmptyInv, listVars, peerVars
<1>3. /\ pc \in [Clients -> Serving \cup {"recv", "gone", "undefined"}]
      /\ cur \in [Clients -> Nodes \cup {Null}]
  BY DEF TypeOK, HandlersOK
<1>4. Look(c) => Cell(c).next \in used \cup {Null}
  BY NextCell DEF Look, Cell, ChatListInv
<1>5. /\ cur[c] \in used \cup {Null} /\ head \in used \cup {Null}
  BY DEF ChatListInv, PlaceInv
<1>6. CASE Query(c) \/ Insert(c) \/ Store(c) \/ Group(c) \/ History(c)
  <2>1. /\ \A d \in Clients : d # c => pc'[d] = pc[d] /\ cur'[d] = cur[d]
        /\ cur'[c] \in used \cup {Null}
        /\ pc'[c] \in {"recv", "insert", "find", "group", "toAll"}
    BY <1>3, <1>5, <1>6 DEF Query, Insert, Store, Group, History, Goto, Go,
       Walk, Done
  <2> QED BY <1>1, <1>2, <2>1, StepPlaces DEF ChatListInv, listVars
<1>7. CASE Find(c) \/ ToAll(c) \/ Mute(c) \/ ListNames(c)
  <2>1. Null \notin used BY ChatAssumption DEF TypeOK, ListOK
  <2>2. /\ \A d \in Clients : d # c => pc'[d] = pc[d] /\ cur'[d] = cur[d]
        /\ cur'[c] \in used \cup {Null}
        /\ pc'[c] \in {"recv", "find", "toAll", "mute", "say", "names"}
        /\ pc'[c] \in {"names", "say"} => cur'[c] # Null
    <3> USE <1>3, <1>4, <1>5, <2>1 DEF Goto, Go, Walk, Done, Advance, Look
    <3>1. CASE Find(c) \/ ToAll(c) BY <3>1 DEF Find, ToAll
    <3>2. CASE Mute(c) BY <3>2 DEF Mute
    <3>3. CASE ListNames(c) BY <3>3 DEF ListNames
    <3> QED BY <1>7, <3>1, <3>2, <3>3
  <2> QED BY <1>1, <1>2, <2>2, StepPlaces DEF ChatListInv, listVars
<1> QED BY <1>6, <1>7 DEF WalkStep

(* A request arrives: one that needs a list comes from a user who is on it. *)
LEMMA ReceiveList ==
  ASSUME 10 \notin Kinds, TypeOK, ChatListInv, NEW c \in Clients, Receive(c)
  PROVE  ChatListInv'
<1>1. UNCHANGED <<listVars, client>> /\ inbox[c] # <<>>
      /\ inbox' = [inbox EXCEPT ![c] = Tail(@)]
      /\ cur' = [cur EXCEPT ![c] = head]
      /\ pc' = [pc EXCEPT ![c] = Start(Head(inbox[c]).act)]
  BY DEF Receive, Goto
<1>2. inbox[c] \in Seq(Message) /\ Head(inbox[c]) \in Message
  BY <1>1 DEF TypeOK, PeersOK
<1>3. ChainInv' BY <1>1, ChainKept DEF ChatListInv, listVars
<1>4. EmptyInv'
  <2> SUFFICES ASSUME head = Null, NEW d \in Clients
               PROVE  client[d] # "in" /\ inbox'[d] \in Seq(Early)
    BY <1>1 DEF EmptyInv, listVars
  <2>1. client[d] # "in" /\ inbox[d] \in Seq(Early)
    BY DEF ChatListInv, EmptyInv
  <2>2. d = c => inbox'[d] = Tail(inbox[d])
    BY <1>1 DEF TypeOK, PeersOK
  <2>3. d # c => inbox'[d] = inbox[d]
    BY <1>1 DEF TypeOK, PeersOK
  <2>4. inbox[d] # <<>> => Tail(inbox[d]) \in Seq(Early) BY <2>1
  <2> QED BY <1>1, <2>1, <2>2, <2>3, <2>4
<1>5. PlaceInv'
  <2>1. Start(Head(inbox[c]).act)
          \notin {"quit", "unlink", "free", "linkHead", "say", "undefined"}
    BY <1>2, NoQuit DEF Serving
  <2>2. ASSUME Start(Head(inbox[c]).act) = "names" PROVE head # Null
    <3>1. Head(inbox[c]).act \in Actions BY <1>2, MessageParts
    <3>2. Head(inbox[c]).act \notin {0, 1, 7} BY <2>2 DEF Start
    <3>3. SUFFICES ASSUME head = Null PROVE FALSE
      OBVIOUS
    <3>4. inbox[c] \in Seq(Early) BY <3>3 DEF ChatListInv, EmptyInv
    <3>5. Head(inbox[c]) \in Early BY <1>1, <3>4
    <3> QED BY <3>2, <3>5 DEF Early
  <2>3. /\ \A d \in Clients : d # c => pc'[d] = pc[d] /\ cur'[d] = cur[d]
        /\ cur'[c] = head /\ pc'[c] = Start(Head(inbox[c]).act)
    BY <1>1 DEF TypeOK, HandlersOK
  <2>4. head \in used \cup {Null} BY DEF ChatListInv, PlaceInv
  <2> QED BY <1>1, <2>1, <2>2, <2>3, <2>4, StepPlaces
          DEF ChatListInv, listVars
<1> QED BY <1>3, <1>4, <1>5 DEF ChatListInv

(* insert_link in its two steps. *)
LEMMA LinkList ==
  ASSUME TypeOK, ChatListInv, NEW c \in Clients, Link(c)
  PROVE  ChatListInv'
<1>1. PICK n \in Nodes \ used :
        /\ cell' = [cell EXCEPT ![n] = [cfd |-> c, say |-> 0, next |-> head]]
        /\ used' = used \cup {n} /\ cur' = [cur EXCEPT ![c] = n]
  BY DEF Link
<1>2. UNCHANGED <<head, peerVars>> /\ pc' = [pc EXCEPT ![c] = "linkHead"]
  BY DEF Link, Goto
<1>3. ChainInv'
  <2>1. cell'[n].next = head /\ \A m \in used : cell'[m].next = cell[m].next
    BY <1>1 DEF TypeOK, ListOK
  <2> QED BY <1>1, <2>1, ChainGrows DEF TypeOK, ChatListInv, PlaceInv
<1>4. EmptyInv' BY <1>2 DEF ChatListInv, EmptyInv, peerVars
<1>5. PlaceInv'
  <2>1. /\ \A d \in Clients : d # c => pc'[d] = pc[d] /\ cur'[d] = cur[d]
        /\ cur'[c] = n /\ pc'[c] = "linkHead"
    BY <1>1, <1>2 DEF TypeOK, HandlersOK
  <2> QED BY <1>1, <1>2, <2>1 DEF ChatListInv, PlaceInv
<1> QED BY <1>3, <1>4, <1>5 DEF ChatListInv

LEMMA LinkHeadList ==
  ASSUME TypeOK, ChatListInv, NEW c \in Clients, LinkHead(c)
  PROVE  ChatListInv'
<1>1. /\ UNCHANGED <<cell, used>> /\ head' = cur[c] /\ pc[c] = "linkHead"
      /\ pc' = [pc EXCEPT ![c] = "recv"] /\ cur' = [cur EXCEPT ![c] = Null]
  BY DEF LinkHead, Done, Goto
<1>2. cur[c] \in used BY <1>1 DEF ChatListInv, PlaceInv
<1>3. ChainInv' BY <1>1, ChainKept DEF ChatListInv
<1>4. head' # Null BY <1>1, <1>2, ChatAssumption DEF TypeOK, ListOK
<1>5. PlaceInv'
  <2>1. /\ \A d \in Clients : d # c => pc'[d] = pc[d] /\ cur'[d] = cur[d]
        /\ cur'[c] = Null /\ pc'[c] = "recv"
    BY <1>1 DEF TypeOK, HandlersOK
  <2> QED BY <1>1, <1>2, <2>1 DEF ChatListInv, PlaceInv
<1> QED BY <1>3, <1>4, <1>5 DEF ChatListInv, EmptyInv

(* Steps that change a cell or a client, but neither the list nor a walk. *)
LEMMA OtherList ==
  ASSUME TypeOK, ChatListInv, NEW c \in Clients,
         HangUp(c) \/ CheckPassword(c) \/ Say(c) \/ Vanish(c)
  PROVE  ChatListInv'
<1>1. /\ UNCHANGED <<head, used, inbox>>
      /\ \A n \in used : cell'[n].next = cell[n].next
  BY DEF HangUp, CheckPassword, Say, Vanish, listVars, peerVars, TypeOK, ListOK
<1>2. ChainInv' BY <1>1, ChainKept DEF ChatListInv
<1>3. EmptyInv'
  <2>1. \A d \in Clients : client'[d] = "in" => client[d] = "in"
    BY DEF HangUp, CheckPassword, Say, Vanish, LoggedIn, peerVars, TypeOK,
       PeersOK
  <2> QED BY <1>1, <2>1 DEF ChatListInv, EmptyInv
<1>4. PlaceInv'
  <2>1. /\ \A d \in Clients : d # c => pc'[d] = pc[d] /\ cur'[d] = cur[d]
        /\ cur'[c] \in {cur[c], Null}
        /\ pc'[c] = pc[c] \/ pc'[c] \in {"gone", "link", "recv"}
        /\ cur'[c] = cur[c] \/ pc'[c] = "recv"
    BY DEF HangUp, CheckPassword, Say, Vanish, Goto, Go, Done, TypeOK,
       HandlersOK
  <2> QED BY <1>1, <2>1, StepPlaces DEF ChatListInv, PlaceInv
<1> QED BY <1>2, <1>3, <1>4 DEF ChatListInv

LEMMA SendList ==
  ASSUME 10 \notin Kinds, TypeOK, ChatListInv, NEW c \in Clients,
         NEW m \in Message, Send(c, m)
  PROVE  ChatListInv'
<1>1. /\ UNCHANGED <<listVars, pc, cur>>
      /\ inbox' = [inbox EXCEPT ![c] = Append(@, m)]
  BY DEF Send
<1>2. ChainInv' BY <1>1, ChainKept DEF ChatListInv, listVars
<1>3. PlaceInv' BY <1>1 DEF ChatListInv, PlaceInv, listVars
<1>4. EmptyInv'
  <2> SUFFICES ASSUME head = Null, NEW d \in Clients
               PROVE  client'[d] # "in" /\ inbox'[d] \in Seq(Early)
    BY <1>1 DEF EmptyInv, listVars
  <2>1. \A e \in Clients : client[e] # "in" /\ inbox[e] \in Seq(Early)
    BY DEF ChatListInv, EmptyInv
  <2>2. m.act \in {0, 1, 7} /\ \A e \in Clients : client'[e] # "in"
    BY <2>1 DEF Send, TypeOK, PeersOK
  <2>3. m \in Early BY <2>2 DEF Early
  <2>4. Append(inbox[c], m) \in Seq(Early) BY <2>1, <2>3
  <2>5. inbox'[d] = IF d = c THEN Append(inbox[c], m) ELSE inbox[d]
    BY <1>1 DEF TypeOK, PeersOK
  <2> QED BY <2>1, <2>2, <2>4, <2>5
<1> QED BY <1>2, <1>3, <1>4 DEF ChatListInv

LEMMA NextList ==
  ASSUME 10 \notin Kinds
  PROVE  TypeOK /\ ChatListInv /\ [Next]_vars => ChatListInv'
<1> SUFFICES ASSUME TypeOK, ChatListInv, [Next]_vars PROVE ChatListInv'
  OBVIOUS
<1>1. ASSUME NEW c \in Clients
      PROVE ~(Quit(c) \/ Unlink(c) \/ Free(c) \/ Fault(c))
  <2>1. /\ pc[c] \notin {"quit", "unlink", "free"}
        /\ cur[c] \in used \cup {Null}
        /\ pc[c] \in {"names", "say"} => cur[c] \in used
    BY DEF ChatListInv, PlaceInv
  <2> QED BY <2>1 DEF Quit, Unlink, Free, Fault, Go, Goto, Done, Advance
<1>2. ASSUME UNCHANGED vars PROVE ChatListInv'
  <2>1. UNCHANGED <<head, cell, used, pc, cur, client, inbox>>
    BY <1>2 DEF vars, listVars, peerVars
  <2>2. ChainInv' BY <2>1, ChainKept DEF ChatListInv
  <2> QED BY <2>1, <2>2 DEF ChatListInv, PlaceInv, EmptyInv
<1> QED
  BY <1>1, <1>2, WalkList, ReceiveList, LinkList, LinkHeadList, OtherList,
     SendList DEF Next, thread_read, WalkStep

THEOREM ChatListThm ==
  ASSUME 10 \notin Kinds
  PROVE  Spec => [](TypeOK /\ ChatListInv)
<1>1. TypeOK /\ ChatListInv /\ [Next]_vars => ChatListInv'
  BY NextList
<1> QED BY <1>1, InitList, Types, PTL DEF Spec

(* The insertions of insert_link, without a lock, by any number of handlers *)
(* at a time: as long as nobody leaves, every walk from head is over after  *)
(* as many cells as there are.                                              *)
THEOREM ListStaysSound ==
  ASSUME 10 \notin Kinds
  PROVE  Spec => []ListSound
<1>1. TypeOK /\ ChatListInv => ListSound
  <2> SUFFICES ASSUME TypeOK, ChatListInv PROVE ListSound
    OBVIOUS
  <2>1. PICK h \in used \cup {Null} : h = head BY DEF ChatListInv, PlaceInv
  <2>2. Cardinality(Nodes) \in Nat /\ Cardinality(used) \in Nat
        /\ Cardinality(used) <= Cardinality(Nodes)
    BY ChatAssumption, FS_Subset, FS_CardinalityType DEF TypeOK, ListOK
  <2>3. \E k \in 0..Cardinality(Nodes) :
          \E w \in [0..k -> used \cup {Null}] : WalkFrom(h, w, k)
    <3>1. CASE h = Null
      <4> DEFINE w == [i \in 0..0 |-> Null]
      <4>1. WalkFrom(h, w, 0) /\ w \in [0..0 -> used \cup {Null}]
        BY <3>1 DEF WalkFrom
      <4>2. 0 \in 0..Cardinality(Nodes) BY <2>2
      <4> HIDE DEF w
      <4> QED BY <4>1, <4>2
    <3>2. CASE h \in used
      BY <2>2, <3>2 DEF ChatListInv, ChainInv
    <3> QED BY <3>1, <3>2
  <2> QED BY <2>1, <2>3 DEF ListSound, Walks
<1> QED BY <1>1, ChatListThm, PTL

(* thread_read: as long as nobody leaves, no walk gets to a cell that is    *)
(* not in use, and the loop of case 6 never starts at no cell.              *)
THEOREM NoFaultWhileNobodyLeaves ==
  ASSUME 10 \notin Kinds
  PROVE  Spec => []NoFault
<1>1. ChatListInv => NoFault BY DEF ChatListInv, PlaceInv, NoFault
<1> QED BY <1>1, ChatListThm, PTL

(* thread_read: a walk under way keeps the way it has before it, whoever    *)
(* logs in or is muted meanwhile; since that way ends, and is as long as    *)
(* the list was when it began, so does the walk.                            *)
THEOREM LinksStay ==
  ASSUME 10 \notin Kinds
  PROVE  Spec => [][\A n \in used :
                      n \in used' /\ cell'[n].next = cell[n].next]_vars
<1>1. TypeOK /\ ChatListInv /\ [Next]_vars =>
        [\A n \in used : n \in used' /\ cell'[n].next = cell[n].next]_vars
  <2> SUFFICES ASSUME TypeOK, ChatListInv, Next, NEW n \in used
               PROVE  n \in used' /\ cell'[n].next = cell[n].next
    OBVIOUS
  <2>1. PICK c \in Clients :
          thread_read(c) \/ Vanish(c) \/ \E m \in Message : Send(c, m)
    BY DEF Next
  <2>2. CASE Vanish(c) \/ \E m \in Message : Send(c, m)
    BY <2>2 DEF Vanish, Send, listVars
  <2>3. CASE Link(c) \/ Say(c)
    BY <2>3 DEF Link, Say, TypeOK, ListOK
  <2>4. pc[c] \notin {"unlink", "free"}
    BY DEF ChatListInv, PlaceInv
  <2>5. CASE thread_read(c) /\ ~Link(c) /\ ~Say(c)
    BY <2>4, <2>5 DEF thread_read, Receive, HangUp, Query, Insert,
       CheckPassword, LinkHead, Store, Find, Group, ToAll, ListNames, Mute,
       History, Quit, Unlink, Free, Fault, Go, Goto, Done, listVars
  <2> QED BY <2>1, <2>2, <2>3, <2>5
<1> QED BY <1>1, ChatListThm, PTL DEF Spec

-----------------------------------------------------------------------------
(* One request at a time, from clients that say when they leave, of         *)
(* different users.                                                         *)
Distinct == \A c, d \in Clients : NameOf[c] = NameOf[d] => c = d
Sequential == OneAtATime /\ Vanishing = {} /\ Distinct

Busy(c) == pc[c] # "recv" \/ inbox[c] # <<>>
OneBusy == \A c, d \in Clients : Busy(c) /\ Busy(d) => c = d

(* What a client who sent a request is doing until it is served. *)
Standing(act) ==
  IF act \in {1, 7} THEN "asked" ELSE IF act \in {0, 10} THEN "out" ELSE "in"
AskInv(c) ==
  /\ pc[c] \notin {"gone", "undefined"}
  /\ client[c] # "gone"
  /\ inbox[c] # <<>> => /\ pc[c] = "recv" /\ Tail(inbox[c]) = <<>>
                        /\ client[c] = Standing(Head(inbox[c]).act)
  /\ pc[c] \in {"login", "link", "linkHead"} => client[c] = "asked"
  /\ pc[c] \in {"query", "insert", "quit", "unlink", "free"} =>
       client[c] = "out"
  /\ pc[c] \in {"store", "find", "group", "toAll", "names", "mute", "say",
                "history"} => client[c] = "in"

(* Who has a cell, and that he has one; it is in the list but while it is   *)
(* being put there or has been taken off.                                   *)
Leaves(c) == inbox[c] # <<>> /\ Head(inbox[c]).act = 10
HasCell(c) ==
  \/ client[c] = "in" \/ Leaves(c)
  \/ pc[c] \in {"linkHead", "quit", "unlink", "free"}
OwnerInv ==
  /\ \A n \in used : HasCell(cell[n].cfd)
  /\ \A c \in Clients : HasCell(c) => \E n \in used : cell[n].cfd = c
  /\ \A m, n \in used : cell[m].cfd = cell[n].cfd => m = n
  /\ \A c \in Clients :
       pc[c] \in {"linkHead", "free"} => cur[c] \in used /\ cell[cur[c]].cfd = c

InList(n) == pc[cell[n].cfd] \notin {"linkHead", "free"}
ListInv(w, k) ==
  /\ WalkFrom(head, w, k)
  /\ \A i, j \in 0..k-1 : w[i] = w[j] => i = j
  /\ \A i \in 0..k-1 : InList(w[i])
  /\ \A n \in used : InList(n) => \E i \in 0..k-1 : w[i] = n

(* Where a handler is on its walk, and what it has done at the cells before *)
(* that place.                                                              *)
Walking == {"find", "group", "toAll", "names", "mute", "say", "quit", "unlink"}
Here(c, w, i) ==
  /\ cur[c] = w[i]
  /\ pc[c] \in {"names", "say", "unlink"} => cur[c] # Null
  /\ pc[c] = "find" => \A j \in 0..i-1 : NameOf[cell[w[j]].cfd] # msg[c].to
  /\ pc[c] = "quit" => \A j \in 0..i-1 : cell[w[j]].cfd # c
  /\ pc[c] = "toAll" =>
       \A j \in 0..i-1 : <<cell[w[j]].cfd, msg[c].act, msg[c].to>> \in sent[c]
  /\ pc[c] \in {"quit", "unlink"} => (prev[c] = IF i = 0 THEN Null ELSE w[i-1])
  /\ pc[c] = "unlink" => cell[cur[c]].cfd = c
AtInv(c, w, k) ==
  /\ pc[c] \in Walking => \E i \in 0..k : Here(c, w, i)
  /\ pc[c] \notin {"quit", "unlink", "free"} => prev[c] = Null
  /\ pc[c] \in {"store", "find"} => sent[c] = {}
  /\ pc[c] = "find" => <<NameOf[c], msg[c].to>> \in stored
  /\ pc[c] = "linkHead" => cell[cur[c]].next = head

Whole(w, k) ==
  /\ w \in [0..k -> used \cup {Null}] /\ ListInv(w, k)
  /\ \A c \in Clients : AtInv(c, w, k)
SeqInv ==
  /\ OneBusy /\ OwnerInv /\ \A c \in Clients : AskInv(c)
  /\ \E k \in Nat : \E w : Whole(w, k)

LEMMA InitSeq == Init => SeqInv
<1> SUFFICES ASSUME Init PROVE SeqInv
  OBVIOUS
<1>1. \A c \in Clients : /\ pc[c] = "recv" /\ inbox[c] = <<>>
                         /\ client[c] = "out"
                         /\ prev[c] = Null
  BY DEF Init
<1>2. used = {} /\ head = Null BY DEF Init
<1>3. OneBusy BY <1>1 DEF OneBusy, Busy
<1>4. OwnerInv BY <1>1, <1>2 DEF OwnerInv, HasCell, Leaves
<1>5. \A c \in Clients : AskInv(c) BY <1>1 DEF AskInv
<1>6. PICK w : w = [i \in 0..0 |-> Null] OBVIOUS
<1>7. Whole(w, 0)
  BY <1>1, <1>2, <1>6 DEF Whole, ListInv, WalkFrom, AtInv, Walking
<1>8. 0 \in Nat OBVIOUS
<1> QED BY <1>3, <1>4, <1>5, <1>7, <1>8 DEF SeqInv

(* The place of a handler that walks, and the next one. *)
LEMMA Position ==
  ASSUME TypeOK, NEW k \in Nat, NEW w, Whole(w, k), NEW c \in Clients,
         pc[c] \in Walking
  PROVE  /\ cur[c] \in used \cup {Null} /\ Null \notin used
         /\ \E i \in 0..k :
              /\ Here(c, w, i)
              /\ cur[c] = Null => i = k
              /\ cur[c] \in used => /\ i + 1 \in 0..k /\ w[i+1] = Cell(c).next
                                    /\ Cell(c).cfd \in Clients
<1>1. PICK i \in 0..k : Here(c, w, i) BY DEF Whole, AtInv
<1>2. cur[c] = w[i] BY <1>1 DEF Here
<1>3. w \in [0..k -> used \cup {Null}] /\ WalkFrom(head, w, k)
  BY DEF Whole, ListInv
<1>4. Null \notin used BY ChatAssumption DEF TypeOK, ListOK
<1>5. cur[c] \in used \cup {Null} BY <1>2, <1>3
<1>6. cur[c] = Null => i = k
  <2>1. i # k => i \in 0..k-1 OBVIOUS
  <2> QED BY <1>2, <1>3, <1>4, <2>1 DEF WalkFrom
<1>7. cur[c] \in used =>
        i + 1 \in 0..k /\ w[i+1] = Cell(c).next /\ Cell(c).cfd \in Clients
  BY <1>2, <1>3, <1>4 DEF WalkFrom, Cell, TypeOK, ListOK
<1> QED BY <1>1, <1>4, <1>5, <1>6, <1>7

LEMMA Onward ==
  ASSUME TypeOK, NEW k \in Nat, NEW w, Whole(w, k), NEW c \in Clients,
         pc[c] \in Walking, Look(c)
  PROVE  \E i \in 0..k : /\ Here(c, w, i)
                         /\ i + 1 \in 0..k /\ w[i+1] = Cell(c).next
                         /\ Cell(c).cfd \in Clients
<1>1. cur[c] \in used BY DEF Look
<1>2. \E i \in 0..k :
        /\ Here(c, w, i)
        /\ cur[c] = Null => i = k
        /\ cur[c] \in used => /\ i + 1 \in 0..k /\ w[i+1] = Cell(c).next
                              /\ Cell(c).cfd \in Clients
  BY Position
<1> QED BY <1>1, <1>2

(* Every cell a handler may look at is in use. *)
LEMMA NoFaultSeq ==
  ASSUME TypeOK, SeqInv, NEW c \in Clients
  PROVE  ~Fault(c)
<1> SUFFICES ASSUME Fault(c) PROVE FALSE
  OBVIOUS
<1>1. PICK k \in Nat : \E w : Whole(w, k) BY DEF SeqInv
<1>2. PICK w : Whole(w, k) BY <1>1
<1>3. pc[c] # "free"
  BY DEF Fault, SeqInv, OwnerInv
<1>4. pc[c] \in Walking BY <1>3 DEF Fault, Walking
<1>5. cur[c] \in used \cup {Null} BY <1>2, <1>4, Position
<1>6. PICK i \in 0..k : Here(c, w, i) BY <1>2, <1>4 DEF Whole, AtInv
<1>7. pc[c] \in {"names", "say", "unlink"} => cur[c] \in used
  BY <1>5, <1>6 DEF Here
<1>8. pc[c] = "unlink" => prev[c] \in used \cup {Null}
  <2>1. i # 0 => w[i-1] \in used \cup {Null} BY <1>2 DEF Whole
  <2> QED BY <1>6, <2>1 DEF Here
<1> QED BY <1>3, <1>5, <1>7, <1>8 DEF Fault

(* While a handler serves a request the others wait, with none to serve. *)
OthersWait(c) ==
  \A d \in Clients \ {c} :
    /\ pc[d] = "recv" /\ inbox[d] = <<>>
    /\ pc'[d] = "recv" /\ inbox'[d] = <<>>
    /\ client'[d] = client[d] /\ prev'[d] = prev[d]

LEMMA Alone ==
  ASSUME TypeOK, SeqInv, NEW c \in Clients, thread_read(c)
  PROVE  Busy(c) /\ OthersWait(c)
<1> USE NoFaultSeq
<1>1. Busy(c)
  BY DEF SeqInv, AskInv, Busy, thread_read, Receive, HangUp, Query, Insert,
     CheckPassword, Link, LinkHead, Store, Find, Group, ToAll, ListNames, Mute,
     Say, History, Quit, Unlink, Free, Goto, Go, Walk, Advance, Done
<1>2. \A d \in Clients \ {c} : pc[d] = "recv" /\ inbox[d] = <<>>
  BY <1>1 DEF SeqInv, OneBusy, Busy
<1>3. \A d \in Clients \ {c} :
        pc'[d] = pc[d] /\ inbox'[d] = inbox[d] /\ client'[d] = client[d]
  BY DEF TypeOK, HandlersOK, PeersOK, thread_read, Receive, HangUp, Query,
     Insert, CheckPassword, Link, LinkHead, Store, Find, Group, ToAll,
     ListNames, Mute, Say, History, Quit, Unlink, Free, Goto, Go, Walk,
     Advance, Done, peerVars, LoggedIn
<1>4. \A d \in Clients \ {c} : prev'[d] = prev[d]
  BY DEF TypeOK, HandlersOK, thread_read, Receive, HangUp, Query,
     Insert, CheckPassword, Link, LinkHead, Store, Find, Group, ToAll,
     ListNames, Mute, Say, History, Quit, Unlink, Free, Goto, Go, Walk,
     Advance, Done
<1> QED BY <1>1, <1>2, <1>3, <1>4 DEF OthersWait

(* Those who wait owe nothing but that. *)
LEMMA Others ==
  ASSUME TypeOK, SeqInv, NEW c \in Clients, OthersWait(c)
  PROVE  /\ OneBusy'
         /\ \A d \in Clients \ {c} :
              AskInv(d)' /\ (HasCell(d)' <=> HasCell(d))
         /\ \A d \in Clients \ {c} : \A w, k : AtInv(d, w, k)'
<1> USE DEF OthersWait
<1>1. OneBusy' BY DEF OneBusy, Busy
<1>2. ASSUME NEW d \in Clients \ {c} PROVE AskInv(d)'
  BY DEF SeqInv, AskInv
<1>3. ASSUME NEW d \in Clients \ {c} PROVE HasCell(d)' <=> HasCell(d)
  BY DEF HasCell, Leaves
<1>4. ASSUME NEW d \in Clients \ {c}, NEW w, NEW k PROVE AtInv(d, w, k)'
  <2>1. prev[d] = Null BY DEF SeqInv, Whole, AtInv
  <2> QED BY <2>1 DEF AtInv, Walking
<1> QED BY <1>1, <1>2, <1>3, <1>4

(* A step after which the same users have the same cells. *)
LEMMA OwnersKept ==
  ASSUME TypeOK, SeqInv, used' = used,
         \A n \in used : cell'[n].cfd = cell[n].cfd,
         \A d \in Clients : HasCell(d)' <=> HasCell(d),
         \A d \in Clients : pc'[d] \in {"linkHead", "free"} =>
           cur'[d] \in used /\ cell[cur'[d]].cfd = d
  PROVE  OwnerInv'
<1>1. \A n \in used : cell[n].cfd \in Clients BY DEF TypeOK, ListOK
<1>2. \A n \in used : HasCell(cell[n].cfd) BY DEF SeqInv, OwnerInv
<1>3. ASSUME NEW n \in used' PROVE HasCell(cell[n].cfd)'
  <2>1. PICK d \in Clients : d = cell[n].cfd BY <1>1
  <2>2. HasCell(d)' BY <1>2, <2>1
  <2>3. cell'[n].cfd = d BY <2>1
  <2> QED BY <2>2, <2>3 DEF HasCell, Leaves
<1>4. ASSUME NEW d \in Clients, HasCell(d)'
      PROVE  \E n \in used' : cell'[n].cfd = d
  <2>1. HasCell(d) BY <1>4
  <2>2. PICK n \in used : cell[n].cfd = d BY <2>1 DEF SeqInv, OwnerInv
  <2> QED BY <2>2
<1>5. \A m, n \in used' : cell'[m].cfd = cell'[n].cfd => m = n
  BY DEF SeqInv, OwnerInv
<1> QED BY <1>3, <1>4, <1>5 DEF OwnerInv

(* A step that leaves the cells where they are. *)
LEMMA Ordinary ==
  ASSUME TypeOK, SeqInv, NEW c \in Clients, OthersWait(c),
         UNCHANGED <<head, used>>,
         \A n \in used :
           cell'[n].next = cell[n].next /\ cell'[n].cfd = cell[n].cfd,
         pc[c] \notin {"linkHead", "free"}, pc'[c] \notin {"linkHead", "free"},
         AskInv(c)', HasCell(c)' <=> HasCell(c),
         \A k \in Nat : \A w : Whole(w, k) => AtInv(c, w, k)'
  PROVE  SeqInv'
<1>1. /\ OneBusy' /\ \A d \in Clients : AskInv(d)'
      /\ \A d \in Clients : HasCell(d)' <=> HasCell(d)
      /\ \A d \in Clients \ {c} : \A w, k : AtInv(d, w, k)'
  BY Others
<1>2. \A n \in used : cell[n].cfd \in Clients BY DEF TypeOK, ListOK
<1>3. \A d \in Clients : pc[d] \notin {"linkHead", "free"}
                         /\ pc'[d] \notin {"linkHead", "free"}
  BY DEF OthersWait
<1>4. OwnerInv' BY <1>1, <1>3, OwnersKept
<1>5. \A n \in used : InList(n) /\ InList(n)' BY <1>2, <1>3 DEF InList
<1>6. PICK k \in Nat : \E w : Whole(w, k) BY DEF SeqInv
<1>7. PICK w : Whole(w, k) BY <1>6
<1>8. ListInv(w, k)'
  <2>1. ListInv(w, k) BY <1>7 DEF Whole
  <2>2. WalkFrom(head, w, k)' BY <2>1 DEF ListInv, WalkFrom
  <2>3. \A i \in 0..k-1 : w[i] \in used BY <2>1 DEF ListInv, WalkFrom
  <2> QED BY <1>5, <2>1, <2>2, <2>3 DEF ListInv
<1>9. Whole(w, k)'
  <2>1. w \in [0..k -> used' \cup {Null}] BY <1>7 DEF Whole
  <2>2. \A d \in Clients : AtInv(d, w, k)' BY <1>1, <1>7
  <2> QED BY <1>8, <2>1, <2>2 DEF Whole
<1> QED BY <1>1, <1>4, <1>6, <1>9 DEF SeqInv

(* A walk that starts. *)
LEMMA AtHead ==
  ASSUME NEW k \in Nat, NEW w, Whole(w, k)
  PROVE  w[0] = head /\ 0 \in 0..k
  BY DEF Whole, ListInv, WalkFrom

(* A handler that is not at recv has nobody waiting behind its request. *)
LEMMA Stands ==
  ASSUME TypeOK, SeqInv, NEW c \in Clients, pc[c] # "recv",
         UNCHANGED <<inbox, client>>,
         \/ /\ pc'[c] = "recv"
            /\ pc[c] \notin {"linkHead", "quit", "unlink", "free"}
         \/ pc'[c] \in {"find", "group", "toAll", "names", "mute", "say"}
            /\ pc[c] \in {"store", "find", "group", "toAll", "names", "mute"}
         \/ pc'[c] = "insert" /\ pc[c] = "query"
         \/ pc'[c] \in {"quit", "unlink"} /\ pc[c] = "quit"
  PROVE  AskInv(c)' /\ (HasCell(c)' <=> HasCell(c))
<1>1. inbox[c] = <<>> BY DEF SeqInv, AskInv
<1>2. AskInv(c) BY DEF SeqInv
<1>3. AskInv(c)' BY <1>1, <1>2 DEF AskInv
<1>4. HasCell(c)' <=> HasCell(c) BY <1>1 DEF HasCell, Leaves
<1> QED BY <1>3, <1>4

(* Steps that end a request, or go on without a walk. *)
LEMMA ShortSeq ==
  ASSUME TypeOK, SeqInv, NEW c \in Clients,
         Query(c) \/ Insert(c) \/ History(c)
  PROVE  SeqInv'
<1>1. thread_read(c) BY DEF thread_read
<1>2. OthersWait(c) BY <1>1, Alone
<1>3. /\ UNCHANGED <<listVars, peerVars>>
      /\ pc[c] \in {"query", "insert", "history"}
      /\ pc'[c] \in {"recv", "insert"}
      /\ pc'[c] = "insert" => pc[c] = "query"
      /\ prev'[c] \in {prev[c], Null}
  BY DEF Query, Insert, History, Go, Goto, Done, TypeOK, HandlersOK
<1>4. AskInv(c)' /\ (HasCell(c)' <=> HasCell(c))
  BY <1>3, Stands DEF peerVars
<1>5. ASSUME NEW k \in Nat, NEW w, Whole(w, k) PROVE AtInv(c, w, k)'
  BY <1>3, <1>5 DEF Whole, AtInv, Walking
<1> QED BY <1>2, <1>3, <1>4, <1>5, Ordinary DEF listVars

LEMMA StoreSeq ==
  ASSUME TypeOK, SeqInv, NEW c \in Clients, Store(c)
  PROVE  SeqInv'
<1>1. thread_read(c) BY DEF thread_read
<1>2. OthersWait(c) BY <1>1, Alone
<1>3. /\ UNCHANGED <<listVars, peerVars, sent>> /\ pc[c] = "store"
      /\ pc'[c] \in {"find", "group"} /\ cur'[c] = head
      /\ prev'[c] = prev[c] /\ msg'[c] = msg[c]
      /\ stored' = stored \cup {<<NameOf[c], msg[c].to>>}
  BY DEF Store, Walk, Goto, TypeOK, HandlersOK
<1>4. AskInv(c)' /\ (HasCell(c)' <=> HasCell(c))
  BY <1>3, Stands DEF peerVars
<1>5. ASSUME NEW k \in Nat, NEW w, Whole(w, k) PROVE AtInv(c, w, k)'
  <2>1. AtInv(c, w, k) BY <1>5 DEF Whole
  <2>2. Here(c, w, 0)' BY <1>3, <1>5, AtHead DEF Here
  <2>3. 0 \in 0..k OBVIOUS
  <2> QED BY <1>3, <2>1, <2>2, <2>3 DEF AtInv
<1> QED BY <1>2, <1>3, <1>4, <1>5, Ordinary DEF listVars

LEMMA GroupSeq ==
  ASSUME TypeOK, SeqInv, NEW c \in Clients, Group(c)
  PROVE  SeqInv'
<1>1. thread_read(c) BY DEF thread_read
<1>2. OthersWait(c) BY <1>1, Alone
<1>3. /\ UNCHANGED <<listVars, peerVars>> /\ pc[c] = "group"
      /\ \/ pc'[c] = "recv" /\ prev'[c] = Null
         \/ pc'[c] = "toAll" /\ cur'[c] = head /\ prev'[c] = prev[c]
  BY DEF Group, Done, Walk, Goto, TypeOK, HandlersOK
<1>4. AskInv(c)' /\ (HasCell(c)' <=> HasCell(c))
  BY <1>3, Stands DEF peerVars
<1>5. ASSUME NEW k \in Nat, NEW w, Whole(w, k) PROVE AtInv(c, w, k)'
  <2>1. AtInv(c, w, k) BY <1>5 DEF Whole
  <2>2. CASE pc'[c] = "recv" BY <1>3, <2>2 DEF AtInv, Walking
  <2>3. CASE pc'[c] = "toAll"
    <3>1. Here(c, w, 0)' BY <1>3, <1>5, <2>3, AtHead DEF Here
    <3>2. 0 \in 0..k OBVIOUS
    <3> QED BY <1>3, <2>1, <2>3, <3>1, <3>2 DEF AtInv
  <2> QED BY <1>3, <2>2, <2>3
<1> QED BY <1>2, <1>3, <1>4, <1>5, Ordinary DEF listVars

(* find_fd: the cells before the one looked at are of other users. *)
LEMMA FindSeq ==
  ASSUME TypeOK, SeqInv, NEW c \in Clients, Find(c)
  PROVE  SeqInv'
<1>1. pc[c] = "find" BY DEF Find, Done, Advance, Goto
<1>2. thread_read(c) BY DEF thread_read
<1>3. OthersWait(c) BY <1>2, Alone
<1>4. /\ UNCHANGED <<listVars, peerVars, stored>>
      /\ \/ pc'[c] = "recv" /\ prev'[c] = Null
         \/ /\ pc'[c] = "find" /\ prev'[c] = prev[c] /\ Look(c)
            /\ NameAt(c) # msg[c].to /\ cur'[c] = Cell(c).next
            /\ msg'[c] = msg[c] /\ sent' = sent
  BY DEF Find, Done, Advance, Goto, TypeOK, HandlersOK, dbVars
<1>5. AskInv(c)' /\ (HasCell(c)' <=> HasCell(c))
  BY <1>1, <1>4, Stands DEF peerVars
<1>6. ASSUME NEW k \in Nat, NEW w, Whole(w, k) PROVE AtInv(c, w, k)'
  <2>1. AtInv(c, w, k) BY <1>6 DEF Whole
  <2>2. CASE pc'[c] = "recv" BY <1>4, <2>2 DEF AtInv, Walking
  <2>3. CASE pc'[c] = "find"
    <3>1. PICK i \in 0..k : /\ Here(c, w, i)
                            /\ i + 1 \in 0..k /\ w[i+1] = Cell(c).next
                            /\ Cell(c).cfd \in Clients
      <4>1. pc[c] \in Walking /\ Look(c) BY <1>1, <1>4, <2>3 DEF Walking
      <4> QED BY <1>6, <4>1, Onward
    <3>2. ASSUME NEW j \in 0..(i+1)-1
          PROVE  NameOf[cell'[w[j]].cfd] # msg'[c].to
      <4>1. j \in 0..i-1 \/ j = i OBVIOUS
      <4>2. cell' = cell BY <1>4 DEF listVars
      <4>3. cur[c] = w[i] BY <3>1 DEF Here
      <4> QED BY <1>1, <1>4, <2>3, <3>1, <4>1, <4>2, <4>3
              DEF Here, NameAt, Cell
    <3>3. Here(c, w, i+1)' BY <1>4, <2>3, <3>1, <3>2 DEF Here
    <3> QED BY <1>1, <1>4, <2>1, <2>3, <3>1, <3>3 DEF AtInv
  <2> QED BY <1>4, <2>2, <2>3
<1> QED BY <1>1, <1>3, <1>4, <1>5, <1>6, Ordinary DEF listVars

(* to_all: the owners of the cells before have had their copy. *)
LEMMA ToAllSeq ==
  ASSUME TypeOK, SeqInv, NEW c \in Clients, ToAll(c)
  PROVE  SeqInv'
<1>1. pc[c] = "toAll" BY DEF ToAll, Done, Advance, Goto
<1>2. thread_read(c) BY DEF thread_read
<1>3. OthersWait(c) BY <1>2, Alone
<1>4. /\ UNCHANGED <<listVars, peerVars>>
      /\ \/ pc'[c] = "recv" /\ prev'[c] = Null
         \/ /\ pc'[c] = "toAll" /\ prev'[c] = prev[c] /\ Look(c)
            /\ cur'[c] = Cell(c).next /\ msg'[c] = msg[c]
            /\ Write(Cell(c).cfd, c, msg[c].act)
  BY DEF ToAll, Done, Advance, Goto, TypeOK, HandlersOK
<1>5. AskInv(c)' /\ (HasCell(c)' <=> HasCell(c))
  BY <1>1, <1>4, Stands DEF peerVars
<1>6. ASSUME NEW k \in Nat, NEW w, Whole(w, k) PROVE AtInv(c, w, k)'
  <2>1. AtInv(c, w, k) BY <1>6 DEF Whole
  <2>2. CASE pc'[c] = "recv" BY <1>4, <2>2 DEF AtInv, Walking
  <2>3. CASE pc'[c] = "toAll"
    <3>1. PICK i \in 0..k : Here(c, w, i) /\ i + 1 \in 0..k
                            /\ w[i+1] = Cell(c).next /\ Cell(c).cfd \in Clients
      BY <1>1, <1>4, <1>6, <2>3, Onward DEF Walking
    <3>2. client[Cell(c).cfd] # "gone" BY <3>1 DEF SeqInv, AskInv
    <3>3. sent'[c] = sent[c] \cup {<<Cell(c).cfd, msg[c].act, msg[c].to>>}
      BY <1>4, <2>3, <3>2 DEF Write, TypeOK
    <3>4. ASSUME NEW j \in 0..(i+1)-1
          PROVE  <<cell'[w[j]].cfd, msg'[c].act, msg'[c].to>> \in sent'[c]
      <4>1. j \in 0..i-1 \/ j = i OBVIOUS
      <4>2. cell' = cell BY <1>4 DEF listVars
      <4>3. cur[c] = w[i] BY <3>1 DEF Here
      <4> QED BY <1>1, <1>4, <2>3, <3>1, <3>3, <4>1, <4>2, <4>3 DEF Here, Cell
    <3>5. Here(c, w, i+1)' BY <1>4, <2>3, <3>1, <3>4 DEF Here
    <3> QED BY <1>1, <1>4, <2>1, <2>3, <3>1, <3>5 DEF AtInv
  <2> QED BY <1>4, <2>2, <2>3
<1> QED BY <1>1, <1>3, <1>4, <1>5, <1>6, Ordinary DEF listVars

(* Case 6: the loop stops at the last cell, of which there is one. *)
LEMMA ListNamesSeq ==
  ASSUME TypeOK, SeqInv, NEW c \in Clients, ListNames(c)
  PROVE  SeqInv'
<1>1. pc[c] = "names" /\ Look(c) BY DEF ListNames, Walk, Advance, Goto
<1>2. thread_read(c) BY DEF thread_read
<1>3. OthersWait(c) BY <1>2, Alone
<1>4. /\ UNCHANGED <<listVars, peerVars>> /\ prev'[c] = prev[c]
      /\ \/ pc'[c] = "toAll" /\ cur'[c] = head
         \/ /\ pc'[c] = "names" /\ cur'[c] = Cell(c).next
            /\ Cell(c).next # Null
  BY <1>1 DEF ListNames, Walk, Advance, Goto, TypeOK, HandlersOK
<1>5. AskInv(c)' /\ (HasCell(c)' <=> HasCell(c))
  BY <1>1, <1>4, Stands DEF peerVars
<1>6. ASSUME NEW k \in Nat, NEW w, Whole(w, k) PROVE AtInv(c, w, k)'
  <2>1. AtInv(c, w, k) BY <1>6 DEF Whole
  <2>2. CASE pc'[c] = "toAll"
    <3>1. Here(c, w, 0)' BY <1>4, <1>6, <2>2, AtHead DEF Here
    <3>2. 0 \in 0..k OBVIOUS
    <3> QED BY <1>1, <1>4, <2>1, <2>2, <3>1, <3>2 DEF AtInv
  <2>3. CASE pc'[c] = "names"
    <3>1. PICK i \in 0..k : /\ Here(c, w, i)
                            /\ i + 1 \in 0..k /\ w[i+1] = Cell(c).next
                            /\ Cell(c).cfd \in Clients
      <4>1. pc[c] \in Walking /\ Look(c) BY <1>1 DEF Walking, ListNames
      <4> QED BY <1>6, <4>1, Onward
    <3>2. Here(c, w, i+1)' BY <1>4, <2>3, <3>1 DEF Here
    <3> QED BY <1>1, <1>4, <2>1, <2>3, <3>1, <3>2 DEF AtInv
  <2> QED BY <1>4, <2>2, <2>3
<1> QED BY <1>1, <1>3, <1>4, <1>5, <1>6, Ordinary DEF listVars

(* get_online, and what is set in the cell it found. *)
LEMMA MuteSeq ==
  ASSUME TypeOK, SeqInv, NEW c \in Clients, Mute(c)
  PROVE  SeqInv'
<1>1. pc[c] = "mute" BY DEF Mute, Go, Done, Advance, Goto
<1>2. thread_read(c) BY DEF thread_read
<1>3. OthersWait(c) BY <1>2, Alone
<1>4. /\ UNCHANGED <<listVars, peerVars>>
      /\ \/ pc'[c] = "recv" /\ prev'[c] = Null
         \/ /\ pc'[c] \in {"say", "mute"} /\ prev'[c] = prev[c] /\ Look(c)
            /\ cur'[c] = IF pc'[c] = "say" THEN cur[c] ELSE Cell(c).next
  BY <1>1 DEF Mute, Go, Done, Advance, Goto, TypeOK, HandlersOK
<1>5. AskInv(c)' /\ (HasCell(c)' <=> HasCell(c))
  BY <1>1, <1>4, Stands DEF peerVars
<1>6. ASSUME NEW k \in Nat, NEW w, Whole(w, k) PROVE AtInv(c, w, k)'
  <2>1. AtInv(c, w, k) BY <1>6 DEF Whole
  <2>2. CASE pc'[c] = "recv" BY <1>4, <2>2 DEF AtInv, Walking
  <2>3. CASE pc'[c] \in {"say", "mute"}
    <3>1. Look(c) BY <1>4, <2>3
    <3>2. PICK i \in 0..k : Here(c, w, i) /\ i + 1 \in 0..k
                            /\ w[i+1] = Cell(c).next
      BY <1>1, <1>6, <3>1, Onward DEF Walking
    <3>3. cur[c] # Null BY <3>1, ChatAssumption DEF Look, TypeOK, ListOK
    <3>4. PICK m \in 0..k : Here(c, w, m)'
      <4>1. CASE pc'[c] = "say"
        <5>1. Here(c, w, i)' BY <1>4, <3>2, <3>3, <4>1 DEF Here
        <5> QED BY <5>1
      <4>2. CASE pc'[c] = "mute"
        <5>1. Here(c, w, i+1)' BY <1>4, <3>2, <4>2 DEF Here
        <5> QED BY <3>2, <5>1
      <4> QED BY <2>3, <4>1, <4>2
    <3> QED BY <1>1, <1>4, <2>1, <2>3, <3>4 DEF AtInv
  <2> QED BY <1>4, <2>2, <2>3
<1> QED BY <1>1, <1>3, <1>4, <1>5, <1>6, Ordinary DEF listVars

LEMMA SaySeq ==
  ASSUME TypeOK, SeqInv, NEW c \in Clients, Say(c)
  PROVE  SeqInv'
<1>1. thread_read(c) BY DEF thread_read
<1>2. OthersWait(c) BY <1>1, Alone
<1>3. /\ UNCHANGED <<head, used, peerVars>> /\ pc[c] = "say"
      /\ pc'[c] = "recv" /\ prev'[c] = Null
      /\ \A n \in used :
           cell'[n].next = cell[n].next /\ cell'[n].cfd = cell[n].cfd
  BY DEF Say, Done, Goto, TypeOK, HandlersOK, ListOK
<1>4. AskInv(c)' /\ (HasCell(c)' <=> HasCell(c))
  BY <1>3, Stands DEF peerVars
<1>5. ASSUME NEW k \in Nat, NEW w, Whole(w, k) PROVE AtInv(c, w, k)'
  BY <1>3 DEF AtInv, Walking
<1> QED BY <1>2, <1>3, <1>4, <1>5, Ordinary

(* Case 10 finds the cell: it is there, and the search passed no other one  *)
(* of this user.                                                            *)
LEMMA QuitSeq ==
  ASSUME Distinct, TypeOK, SeqInv, NEW c \in Clients, Quit(c)
  PROVE  SeqInv'
<1>1. pc[c] = "quit" BY DEF Quit, Go, Done, Advance, Goto
<1>2. thread_read(c) BY DEF thread_read
<1>3. OthersWait(c) BY <1>2, Alone
<1>4. Look(c)
  <2>1. PICK k \in Nat : \E w : Whole(w, k) BY DEF SeqInv
  <2>2. PICK w : Whole(w, k) BY <2>1
  <2>3. PICK i \in 0..k : Here(c, w, i) /\ (cur[c] = Null => i = k)
    BY <1>1, <2>2, Position DEF Walking
  <2>4. cur[c] \in used \cup {Null} BY <1>1, <2>2, Position DEF Walking
  <2>5. PICK n \in used : cell[n].cfd = c
    BY <1>1 DEF SeqInv, OwnerInv, HasCell
  <2>6. PICK j \in 0..k-1 : w[j] = n
    BY <1>1, <2>2, <2>5 DEF Whole, ListInv, InList
  <2>7. i # k BY <1>1, <2>3, <2>5, <2>6 DEF Here
  <2> QED BY <2>3, <2>4, <2>7 DEF Look
<1>5. /\ UNCHANGED <<listVars, peerVars>>
      /\ \/ pc'[c] = "unlink" /\ NameAt(c) = NameOf[c]
            /\ cur'[c] = cur[c] /\ prev'[c] = prev[c]
         \/ pc'[c] = "quit" /\ NameAt(c) # NameOf[c]
            /\ cur'[c] = Cell(c).next /\ prev'[c] = cur[c]
  <2>1. cur[c] # Null BY <1>4, ChatAssumption DEF Look, TypeOK, ListOK
  <2> QED BY <1>1, <2>1 DEF Quit, Go, Done, Advance, Goto, TypeOK, HandlersOK
<1>6. AskInv(c)' /\ (HasCell(c)' <=> HasCell(c))
  BY <1>1, <1>5, Stands DEF peerVars
<1>7. ASSUME NEW k \in Nat, NEW w, Whole(w, k) PROVE AtInv(c, w, k)'
  <2>1. PICK i \in 0..k : Here(c, w, i) /\ i + 1 \in 0..k
                          /\ w[i+1] = Cell(c).next /\ Cell(c).cfd \in Clients
    BY <1>1, <1>4, <1>7, Onward DEF Walking
  <2>2. cell' = cell /\ cur[c] # Null /\ cur[c] = w[i]
    BY <1>4, <1>5, <2>1, ChatAssumption
    DEF Look, TypeOK, ListOK, listVars, Here
  <2>3. CASE pc'[c] = "unlink"
    <3>1. Cell(c).cfd = c BY <1>5, <2>1, <2>3 DEF NameAt, Distinct
    <3>2. Here(c, w, i)'
      BY <1>1, <1>5, <2>1, <2>2, <2>3, <3>1 DEF Here, Cell
    <3> QED BY <2>3, <3>2 DEF AtInv
  <2>4. CASE pc'[c] = "quit"
    <3>1. Cell(c).cfd # c BY <1>5, <2>4 DEF NameAt
    <3>2. ASSUME NEW j \in 0..(i+1)-1 PROVE cell'[w[j]].cfd # c
      <4>1. j \in 0..i-1 \/ j = i OBVIOUS
      <4> QED BY <1>1, <2>1, <2>2, <3>1, <4>1 DEF Here, Cell
    <3>3. prev'[c] = w[(i+1)-1] /\ i + 1 # 0 BY <1>5, <2>1, <2>2, <2>4
    <3>4. Here(c, w, i+1)' BY <1>5, <2>1, <2>4, <3>2, <3>3 DEF Here
    <3> QED BY <2>1, <2>4, <3>4 DEF AtInv
  <2> QED BY <1>5, <2>3, <2>4
<1> QED BY <1>1, <1>3, <1>5, <1>6, <1>7, Ordinary DEF listVars

LEMMA LoginSeq ==
  ASSUME TypeOK, SeqInv, NEW c \in Clients, CheckPassword(c)
  PROVE  SeqInv'
<1>1. thread_read(c) BY DEF thread_read
<1>2. OthersWait(c) BY <1>1, Alone
<1>3. /\ UNCHANGED <<listVars, inbox>> /\ pc[c] = "login"
      /\ \/ pc'[c] = "link" /\ prev'[c] = prev[c] /\ client' = client
         \/ /\ pc'[c] = "recv" /\ prev'[c] = Null
            /\ client'[c] \in {"out", "gone"}
            /\ client'[c] = "gone" => client[c] = "gone"
  BY DEF CheckPassword, Go, Done, Goto, LoggedIn, TypeOK, HandlersOK, PeersOK
<1>4. inbox[c] = <<>> /\ client[c] = "asked" BY <1>3 DEF SeqInv, AskInv
<1>5. AskInv(c)' BY <1>3, <1>4 DEF AskInv
<1>6. HasCell(c)' <=> HasCell(c) BY <1>3, <1>4 DEF HasCell, Leaves
<1>7. ASSUME NEW k \in Nat, NEW w, Whole(w, k) PROVE AtInv(c, w, k)'
  <2>1. prev[c] = Null BY <1>3, <1>7 DEF Whole, AtInv
  <2> QED BY <1>3, <2>1 DEF AtInv, Walking
<1> QED BY <1>2, <1>3, <1>5, <1>6, <1>7, Ordinary DEF listVars

(* Where a request is served, and what its client is doing meanwhile. *)
LEMMA Served ==
  ASSUME NEW a \in Actions
  PROVE  /\ Start(a) \in {"query", "login", "store", "names", "link", "mute",
                          "history", "quit"}
         /\ Start(a) = "quit" <=> a = 10
         /\ Start(a) \in {"login", "link"} => Standing(a) = "asked"
         /\ Start(a) \in {"query", "quit"} => Standing(a) = "out"
         /\ Start(a) \in {"store", "names", "mute", "history"} =>
              Standing(a) = "in"
<1>1. /\ a = 0 => Start(a) = "query"
      /\ a = 1 => Start(a) = "login"
      /\ a \in {2, 4} => Start(a) = "store"
      /\ a = 6 => Start(a) = "names"
      /\ a = 7 => Start(a) = "link"
  BY DEF Start
<1>2. /\ a \in {8, -8} => Start(a) = "mute"
      /\ a = 9 => Start(a) = "history"
      /\ a = 10 => Start(a) = "quit"
  BY DEF Start
<1>3. a \in {0, 1, 2, 4, 6, 7, 8, -8, 9, 10} BY DEF Actions
<1>4. /\ a \in {1, 7} => Standing(a) = "asked"
      /\ a \in {0, 10} => Standing(a) = "out"
      /\ a \in {2, 4, 6, 8, -8, 9} => Standing(a) = "in"
  BY DEF Standing
<1> QED BY <1>1, <1>2, <1>3, <1>4

LEMMA ReceiveSeq ==
  ASSUME TypeOK, SeqInv, NEW c \in Clients, Receive(c)
  PROVE  SeqInv'
<1>1. thread_read(c) BY DEF thread_read
<1>2. OthersWait(c) BY <1>1, Alone
<1>3. /\ UNCHANGED <<listVars, client, prev>> /\ pc[c] = "recv"
      /\ inbox[c] # <<>> /\ inbox'[c] = Tail(inbox[c])
      /\ pc'[c] = Start(Head(inbox[c]).act) /\ cur'[c] = head
      /\ sent'[c] = {}
  BY DEF Receive, Goto, TypeOK, HandlersOK, PeersOK
<1>4. Head(inbox[c]) \in Message BY <1>3 DEF TypeOK, PeersOK
<1>5. PICK a \in Actions : a = Head(inbox[c]).act BY <1>4, MessageParts
<1>6. inbox'[c] = <<>> /\ client[c] = Standing(a) /\ client[c] # "gone"
  BY <1>3, <1>5 DEF SeqInv, AskInv
<1>7. /\ pc'[c] = Start(a)
      /\ Start(a) \in {"query", "login", "store", "names", "link", "mute",
                       "history", "quit"}
      /\ (Start(a) = "quit") <=> (a = 10)
  BY <1>3, <1>5, Served
<1>8. AskInv(c)'
  BY <1>3, <1>6, <1>7, Served DEF AskInv
<1>9. HasCell(c)' <=> HasCell(c)
  BY <1>3, <1>5, <1>6, <1>7 DEF HasCell, Leaves
<1>10. ASSUME NEW k \in Nat, NEW w, Whole(w, k) PROVE AtInv(c, w, k)'
  <2>1. prev[c] = Null BY <1>3, <1>10 DEF Whole, AtInv
  <2>2. w[0] = head /\ 0 \in 0..k BY <1>10, AtHead
  <2>3. Start(a) = "names" => head # Null
    <3> SUFFICES ASSUME Start(a) = "names" PROVE head # Null
      OBVIOUS
    <3>1. client[c] = "in" BY <1>6, Served
    <3>2. PICK n \in used : cell[n].cfd = c
      BY <3>1 DEF SeqInv, OwnerInv, HasCell
    <3>3. PICK j \in 0..k-1 : w[j] = n
      BY <1>3, <1>10, <3>2 DEF Whole, ListInv, InList
    <3>4. 0 \in 0..k-1 BY <3>3
    <3>5. w[0] \in used BY <1>10, <3>4 DEF Whole, ListInv, WalkFrom
    <3> QED BY <2>2, <3>5, ChatAssumption DEF TypeOK, ListOK
  <2>4. Here(c, w, 0)'
    BY <1>3, <1>7, <2>1, <2>2, <2>3 DEF Here
  <2> QED BY <1>3, <1>7, <2>1, <2>2, <2>4 DEF AtInv
<1> QED BY <1>2, <1>3, <1>7, <1>8, <1>9, <1>10, Ordinary DEF listVars

(* A client sends while the server has nothing to do. *)
LEMMA SendSeq ==
  ASSUME OneAtATime, TypeOK, SeqInv, NEW c \in Clients, NEW m \in Message,
         Send(c, m)
  PROVE  SeqInv'
<1>1. \A d \in Clients : pc[d] = "recv" /\ inbox[d] = <<>>
  BY DEF Send, Idle, SeqInv, AskInv
<1>2. /\ UNCHANGED <<listVars, pc, prev>>
      /\ inbox' = [inbox EXCEPT ![c] = Append(@, m)]
  BY DEF Send
<1>3. inbox'[c] = Append(<<>>, m) /\ \A d \in Clients \ {c} : inbox'[d] = <<>>
  BY <1>1, <1>2 DEF TypeOK, PeersOK
<1>4. inbox'[c] # <<>> /\ Head(inbox'[c]) = m /\ Tail(inbox'[c]) = <<>>
  BY <1>3
<1>5. PICK a \in Actions : a = m.act BY MessageParts
<1>6. /\ \A d \in Clients \ {c} : client'[d] = client[d]
      /\ client'[c] = Standing(a)
      /\ client[c] = "in" <=> a \notin {0, 1, 7}
  BY <1>5 DEF Send, TypeOK, PeersOK, Standing
<1>7. OthersWait(c) BY <1>1, <1>2, <1>3, <1>6 DEF OthersWait
<1>8. client'[c] # "gone" BY <1>6 DEF Standing
<1>9. AskInv(c)' BY <1>1, <1>2, <1>4, <1>5, <1>6, <1>8 DEF AskInv
<1>10. HasCell(c)' <=> HasCell(c)
  <2>1. client'[c] = "in" <=> a \notin {0, 1, 7, 10} BY <1>6 DEF Standing
  <2>2. Leaves(c)' <=> a = 10 BY <1>4, <1>5 DEF Leaves
  <2>3. ~Leaves(c) BY <1>1 DEF Leaves
  <2> QED BY <1>1, <1>2, <1>6, <2>1, <2>2, <2>3 DEF HasCell
<1>11. ASSUME NEW k \in Nat, NEW w, Whole(w, k) PROVE AtInv(c, w, k)'
  BY <1>1, <1>2, <1>11 DEF Whole, AtInv, Walking
<1> QED BY <1>1, <1>2, <1>7, <1>9, <1>10, <1>11, Ordinary DEF listVars

(* A cell of one's own, not yet in the list. *)
LEMMA LinkSeq ==
  ASSUME TypeOK, SeqInv, NEW c \in Clients, Link(c)
  PROVE  SeqInv'
<1>1. thread_read(c) BY DEF thread_read
<1>2. OthersWait(c) BY <1>1, Alone
<1>3. PICK n \in Nodes \ used :
        /\ cell' = [cell EXCEPT ![n] = [cfd |-> c, say |-> 0, next |-> head]]
        /\ used' = used \cup {n} /\ cur' = [cur EXCEPT ![c] = n]
  BY DEF Link
<1>4. /\ UNCHANGED <<head, inbox, client, prev>> /\ pc[c] = "link"
      /\ pc'[c] = "linkHead" /\ cur'[c] = n
      /\ cell'[n].cfd = c /\ cell'[n].next = head
      /\ \A m \in used : cell'[m] = cell[m]
  BY <1>3 DEF Link, Goto, peerVars, TypeOK, HandlersOK, ListOK
<1>5. inbox[c] = <<>> /\ client[c] = "asked" BY <1>4 DEF SeqInv, AskInv
<1>6. ~HasCell(c) /\ HasCell(c)' BY <1>4, <1>5 DEF HasCell, Leaves
<1>7. AskInv(c)' BY <1>4, <1>5 DEF AskInv
<1>8. /\ OneBusy' /\ \A d \in Clients : AskInv(d)'
      /\ \A d \in Clients \ {c} : HasCell(d)' <=> HasCell(d)
      /\ \A d \in Clients \ {c} : \A w, k : AtInv(d, w, k)'
  BY <1>2, <1>7, Others
<1>9. \A m \in used : cell[m].cfd \in Clients \ {c} /\ HasCell(cell[m].cfd)
  BY <1>6 DEF TypeOK, ListOK, SeqInv, OwnerInv
<1>10. OwnerInv'
  <2>1. ASSUME NEW m \in used' PROVE HasCell(cell[m].cfd)'
    <3>1. PICK d \in Clients : d = cell'[m].cfd BY <1>3, <1>4, <1>9
    <3>2. HasCell(d)' BY <1>3, <1>4, <1>6, <1>8, <1>9, <3>1
    <3> QED BY <3>1, <3>2 DEF HasCell, Leaves
  <2>2. ASSUME NEW d \in Clients, HasCell(d)'
        PROVE  \E m \in used' : cell'[m].cfd = d
    <3>1. CASE d = c BY <1>3, <1>4, <3>1
    <3>2. CASE d # c
      <4>1. HasCell(d) BY <1>8, <2>2, <3>2
      <4>2. PICK m \in used : cell[m].cfd = d BY <4>1 DEF SeqInv, OwnerInv
      <4> QED BY <1>3, <1>4, <4>2
    <3> QED BY <3>1, <3>2
  <2>3. \A l, m \in used' : cell'[l].cfd = cell'[m].cfd => l = m
    BY <1>3, <1>4, <1>9 DEF SeqInv, OwnerInv
  <2>4. \A d \in Clients : pc'[d] \in {"linkHead", "free"} =>
          cur'[d] \in used' /\ cell'[cur'[d]].cfd = d
    BY <1>2, <1>3, <1>4 DEF OthersWait
  <2> QED BY <2>1, <2>2, <2>3, <2>4 DEF OwnerInv
<1>11. PICK k \in Nat : \E w : Whole(w, k) BY DEF SeqInv
<1>12. PICK w : Whole(w, k) BY <1>11
<1>13. ListInv(w, k)'
  <2>1. ListInv(w, k) BY <1>12 DEF Whole
  <2>2. \A i \in 0..k-1 : w[i] \in used BY <2>1 DEF ListInv, WalkFrom
  <2>3. WalkFrom(head, w, k)'
    BY <1>3, <1>4, <2>1, <2>2 DEF ListInv, WalkFrom
  <2>4. \A m \in used : InList(m) /\ InList(m)'
    BY <1>2, <1>4, <1>9 DEF InList, OthersWait
  <2>5. ~InList(n)' BY <1>4 DEF InList
  <2>6. \A m \in used' : InList(m)' => \E i \in 0..k-1 : w[i] = m
    BY <1>3, <2>1, <2>4, <2>5 DEF ListInv
  <2> QED BY <2>1, <2>2, <2>3, <2>4, <2>6 DEF ListInv
<1>14. AtInv(c, w, k)'
  <2>1. prev[c] = Null BY <1>4, <1>12 DEF Whole, AtInv
  <2> QED BY <1>4, <2>1 DEF AtInv, Walking
<1>15. Whole(w, k)'
  <2>1. w \in [0..k -> used' \cup {Null}] BY <1>3, <1>12 DEF Whole
  <2> QED BY <1>8, <1>13, <1>14, <2>1 DEF Whole
<1> QED BY <1>8, <1>10, <1>11, <1>15 DEF SeqInv

(* The cell becomes the first of the list. *)
LEMMA LinkHeadSeq ==
  ASSUME TypeOK, SeqInv, NEW c \in Clients, LinkHead(c)
  PROVE  SeqInv'
<1>1. thread_read(c) BY DEF thread_read
<1>2. OthersWait(c) BY <1>1, Alone
<1>3. PICK n : n = cur[c] OBVIOUS
<1>4. /\ UNCHANGED <<cell, used, inbox>> /\ head' = n /\ pc[c] = "linkHead"
      /\ pc'[c] = "recv" /\ prev'[c] = Null
      /\ client[c] # "gone" => client'[c] = "in"
  BY <1>3 DEF LinkHead, Done, Goto, LoggedIn, TypeOK, HandlersOK, PeersOK
<1>5. inbox[c] = <<>> /\ client[c] # "gone" BY <1>4 DEF SeqInv, AskInv
<1>6. AskInv(c)' BY <1>4, <1>5 DEF AskInv
<1>7. HasCell(c) /\ HasCell(c)' BY <1>4, <1>5 DEF HasCell
<1>8. /\ OneBusy' /\ \A d \in Clients : AskInv(d)'
      /\ \A d \in Clients : HasCell(d)' <=> HasCell(d)
      /\ \A d \in Clients \ {c} : \A w, k : AtInv(d, w, k)'
  BY <1>2, <1>6, <1>7, Others
<1>9. OwnerInv'
  <2>1. \A d \in Clients : pc'[d] \notin {"linkHead", "free"}
    BY <1>2, <1>4 DEF OthersWait
  <2> QED BY <1>4, <1>8, <2>1, OwnersKept
<1>10. PICK k \in Nat : \E w : Whole(w, k) BY DEF SeqInv
<1>11. PICK w : Whole(w, k) BY <1>10
<1>12. n \in used /\ ~InList(n) /\ cell[n].cfd = c
  BY <1>3, <1>4 DEF SeqInv, OwnerInv, InList
<1>13. cell[n].next = head BY <1>3, <1>4, <1>11 DEF Whole, AtInv
<1>14. \A m \in used : InList(m)'
  BY <1>2, <1>4 DEF InList, OthersWait, TypeOK, ListOK
<1>15. \A m \in used : m # n => InList(m)
  <2>1. \A m \in used : m # n => cell[m].cfd \in Clients \ {c}
    BY <1>12 DEF SeqInv, OwnerInv, TypeOK, ListOK
  <2> QED BY <1>2, <2>1 DEF InList, OthersWait
<1>16. /\ w \in [0..k -> used \cup {Null}]
       /\ WalkFrom(head, w, k)
       /\ \A i, j \in 0..k-1 : w[i] = w[j] => i = j
       /\ \A i \in 0..k-1 : w[i] # n
       /\ \A m \in used : InList(m) => \E i \in 0..k-1 : w[i] = m
  BY <1>11, <1>12 DEF Whole, ListInv
<1>17. PICK v : v = [i \in 0..k+1 |-> IF i = 0 THEN n ELSE w[i-1]] OBVIOUS
<1>18. /\ v \in [0..k+1 -> used \cup {Null}] /\ v[0] = n
       /\ \A i \in 0..k : v[i+1] = w[i]
  BY <1>12, <1>16, <1>17
<1>19. \A i \in 1..k+1 : i - 1 \in 0..k /\ v[i] = w[i-1]
  BY <1>17
<1>20. WalkFrom(head, v, k + 1)'
  <2>1. v[0] = head' /\ v[k+1] = Null BY <1>4, <1>16, <1>18 DEF WalkFrom
  <2>2. ASSUME NEW i \in 0..(k+1)-1
        PROVE  v[i] \in used' /\ v[i+1] = cell'[v[i]].next
    <3>1. CASE i = 0
      BY <1>4, <1>12, <1>13, <1>16, <1>18, <3>1 DEF WalkFrom
    <3>2. CASE i # 0
      <4>1. i - 1 \in 0..k-1 /\ i \in 0..k BY <3>2
      <4>2. v[i] = w[i-1] /\ v[i+1] = w[i] BY <1>18, <1>19, <3>2
      <4>3. w[(i-1)+1] = w[i] OBVIOUS
      <4> QED BY <1>4, <1>16, <4>1, <4>2, <4>3 DEF WalkFrom
    <3> QED BY <3>1, <3>2
  <2> QED BY <2>1, <2>2 DEF WalkFrom
<1>21. ListInv(v, k + 1)'
  <2>1. ASSUME NEW i \in 0..(k+1)-1, NEW j \in 0..(k+1)-1, v[i] = v[j]
        PROVE  i = j
    <3>1. CASE i = 0 /\ j = 0 BY <3>1
    <3>2. CASE i = 0 /\ j # 0
      <4>1. j - 1 \in 0..k-1 /\ v[j] = w[j-1] BY <1>19, <3>2
      <4> QED BY <1>16, <1>18, <2>1, <3>2, <4>1
    <3>3. CASE i # 0 /\ j = 0
      <4>1. i - 1 \in 0..k-1 /\ v[i] = w[i-1] BY <1>19, <3>3
      <4> QED BY <1>16, <1>18, <2>1, <3>3, <4>1
    <3>4. CASE i # 0 /\ j # 0
      <4>1. /\ i - 1 \in 0..k-1 /\ v[i] = w[i-1]
            /\ j - 1 \in 0..k-1 /\ v[j] = w[j-1]
        BY <1>19, <3>4
      <4>2. i - 1 = j - 1 BY <1>16, <2>1, <4>1
      <4> QED BY <4>2
    <3> QED BY <3>1, <3>2, <3>3, <3>4
  <2>2. \A i \in 0..(k+1)-1 : InList(v[i])'
    BY <1>4, <1>14, <1>20 DEF WalkFrom
  <2>3. ASSUME NEW m \in used PROVE \E i \in 0..(k+1)-1 : v[i] = m
    <3>1. CASE m = n BY <1>18, <3>1
    <3>2. CASE m # n
      <4>1. PICK i \in 0..k-1 : w[i] = m BY <1>15, <1>16, <3>2
      <4>2. i + 1 \in 0..(k+1)-1 /\ v[i+1] = m BY <1>18, <4>1
      <4> QED BY <4>2
    <3> QED BY <3>1, <3>2
  <2> QED BY <1>4, <1>20, <2>1, <2>2, <2>3 DEF ListInv
<1>22. AtInv(c, v, k + 1)' BY <1>4 DEF AtInv, Walking
<1>23. Whole(v, k + 1)'
  BY <1>4, <1>8, <1>18, <1>21, <1>22 DEF Whole
<1>24. k + 1 \in Nat OBVIOUS
<1> QED BY <1>8, <1>9, <1>23, <1>24 DEF SeqInv

(* The cell is given back. *)
LEMMA FreeSeq ==
  ASSUME TypeOK, SeqInv, NEW c \in Clients, Free(c)
  PROVE  SeqInv'
<1>1. thread_read(c) BY DEF thread_read
<1>2. OthersWait(c) BY <1>1, Alone
<1>3. PICK n : n = cur[c] OBVIOUS
<1>4. /\ UNCHANGED <<head, cell, inbox, client>> /\ used' = used \ {n}
      /\ pc[c] = "free" /\ pc'[c] = "recv" /\ prev'[c] = Null
  BY <1>3 DEF Free, Done, Goto, peerVars, TypeOK, HandlersOK
<1>5. inbox[c] = <<>> /\ client[c] = "out" BY <1>4 DEF SeqInv, AskInv
<1>6. AskInv(c)' BY <1>4, <1>5 DEF AskInv
<1>7. ~HasCell(c)' BY <1>4, <1>5 DEF HasCell, Leaves
<1>8. /\ OneBusy' /\ \A d \in Clients : AskInv(d)'
      /\ \A d \in Clients \ {c} : HasCell(d)' <=> HasCell(d)
      /\ \A d \in Clients \ {c} : \A w, k : AtInv(d, w, k)'
  BY <1>2, <1>6, Others
<1>9. n \in used /\ cell[n].cfd = c /\ ~InList(n)
  BY <1>3, <1>4 DEF SeqInv, OwnerInv, InList
<1>10. \A m \in used \ {n} : cell[m].cfd \in Clients \ {c}
  BY <1>9 DEF SeqInv, OwnerInv, TypeOK, ListOK
<1>11. OwnerInv'
  <2>1. ASSUME NEW m \in used' PROVE HasCell(cell[m].cfd)'
    <3>1. PICK d \in Clients \ {c} : d = cell[m].cfd BY <1>4, <1>10
    <3>2. HasCell(d)' BY <1>4, <1>8, <3>1 DEF SeqInv, OwnerInv
    <3> QED BY <1>4, <3>1, <3>2 DEF HasCell, Leaves
  <2>2. ASSUME NEW d \in Clients, HasCell(d)'
        PROVE  \E m \in used' : cell'[m].cfd = d
    <3>1. d # c /\ HasCell(d) BY <1>7, <1>8, <2>2
    <3>2. PICK m \in used : cell[m].cfd = d BY <3>1 DEF SeqInv, OwnerInv
    <3> QED BY <1>4, <1>9, <3>1, <3>2
  <2>3. \A l, m \in used' : cell'[l].cfd = cell'[m].cfd => l = m
    BY <1>4 DEF SeqInv, OwnerInv
  <2>4. \A d \in Clients : pc'[d] \notin {"linkHead", "free"}
    BY <1>2, <1>4 DEF OthersWait
  <2> QED BY <2>1, <2>2, <2>3, <2>4 DEF OwnerInv
<1>12. PICK k \in Nat : \E w : Whole(w, k) BY DEF SeqInv
<1>13. PICK w : Whole(w, k) BY <1>12
<1>14. /\ w \in [0..k -> used \cup {Null}] /\ WalkFrom(head, w, k)
       /\ \A i, j \in 0..k-1 : w[i] = w[j] => i = j
       /\ \A i \in 0..k-1 : w[i] \in used /\ w[i] # n
       /\ \A m \in used : InList(m) => \E i \in 0..k-1 : w[i] = m
  BY <1>9, <1>13 DEF Whole, ListInv, WalkFrom
<1>15. \A m \in used \ {n} : InList(m) /\ InList(m)'
  BY <1>2, <1>4, <1>10 DEF InList, OthersWait
<1>16. ListInv(w, k)'
  <2>1. WalkFrom(head, w, k)' BY <1>4, <1>14 DEF WalkFrom
  <2> QED BY <1>4, <1>14, <1>15, <2>1 DEF ListInv
<1>17. w \in [0..k -> used' \cup {Null}]
  <2>1. \A i \in 0..k : i \in 0..k-1 \/ i = k OBVIOUS
  <2>2. \A i \in 0..k : w[i] \in used' \cup {Null}
    BY <1>4, <1>14, <2>1 DEF WalkFrom
  <2> QED BY <1>14, <2>2
<1>18. AtInv(c, w, k)' BY <1>4 DEF AtInv, Walking
<1>19. Whole(w, k)' BY <1>8, <1>16, <1>17, <1>18 DEF Whole
<1> QED BY <1>8, <1>11, <1>12, <1>19 DEF SeqInv

(* The cell is taken out of the list: what pointed to it points to the one  *)
(* behind it.                                                               *)
LEMMA UnlinkSeq ==
  ASSUME TypeOK, SeqInv, NEW c \in Clients, Unlink(c)
  PROVE  SeqInv'
<1>1. thread_read(c) BY DEF thread_read
<1>2. OthersWait(c) BY <1>1, Alone
<1>3. PICK n : n = cur[c] OBVIOUS
<1>4. /\ UNCHANGED <<used, inbox, client>> /\ n \in used /\ cur'[c] = n
      /\ pc[c] = "unlink" /\ pc'[c] = "free"
  BY <1>3 DEF Unlink, Look, Go, Goto, peerVars, TypeOK, HandlersOK
<1>5. PICK k \in Nat : \E w : Whole(w, k) BY DEF SeqInv
<1>6. PICK w : Whole(w, k) BY <1>5
<1>7. pc[c] \in Walking /\ Look(c) BY <1>3, <1>4 DEF Walking, Look
<1>8. PICK i \in 0..k : /\ Here(c, w, i)
                        /\ i + 1 \in 0..k /\ w[i+1] = Cell(c).next
  BY <1>6, <1>7, Onward
<1>9. /\ w[i] = n /\ cell[n].cfd = c /\ w[i+1] = cell[n].next /\ i \in 0..k-1
      /\ prev[c] = IF i = 0 THEN Null ELSE w[i-1]
  BY <1>3, <1>4, <1>8 DEF Here, Cell
<1>10. /\ w \in [0..k -> used \cup {Null}] /\ w[0] = head /\ w[k] = Null
       /\ \A j \in 0..k-1 : w[j] \in used /\ w[j+1] = cell[w[j]].next
       /\ \A j, l \in 0..k-1 : w[j] = w[l] => j = l
       /\ \A m \in used : InList(m) => \E j \in 0..k-1 : w[j] = m
  BY <1>6 DEF Whole, ListInv, WalkFrom
<1>11. Null \notin used /\ used \subseteq Nodes
  BY ChatAssumption DEF TypeOK, ListOK
<1>12. \A m \in used : cell'[m].cfd = cell[m].cfd
  BY <1>11 DEF Unlink, TypeOK, ListOK
<1>13. /\ head' = IF i = 0 THEN w[i+1] ELSE head
       /\ \A j \in 0..k-1 : j # i - 1 => cell'[w[j]].next = w[j+1]
       /\ i # 0 => cell'[w[i-1]].next = w[i+1]
  <2>1. CASE i = 0
    <3>1. prev[c] = Null BY <1>9, <2>1
    <3>2. head' = cell[n].next /\ cell' = cell
      BY <1>3, <1>11, <3>1 DEF Unlink, Cell
    <3> QED BY <1>9, <1>10, <2>1, <3>2
  <2>2. CASE i # 0
    <3>1. i - 1 \in 0..k-1 BY <1>9, <2>2
    <3>2. w[i-1] \in used /\ prev[c] = w[i-1] BY <1>9, <1>10, <2>2, <3>1
    <3>3. /\ head' = head
          /\ cell' = [cell EXCEPT ![w[i-1]].next = w[i+1]]
      BY <1>3, <1>9, <1>11, <3>2 DEF Unlink, Cell
    <3>4. cell'[w[i-1]].next = w[i+1]
      BY <1>11, <3>2, <3>3 DEF TypeOK, ListOK
    <3>5. ASSUME NEW j \in 0..k-1, j # i - 1 PROVE cell'[w[j]].next = w[j+1]
      <4>1. w[j] # w[i-1] BY <1>10, <3>1, <3>5
      <4> QED BY <1>10, <1>11, <3>3, <4>1 DEF TypeOK, ListOK
    <3> QED BY <2>2, <3>3, <3>4, <3>5
  <2> QED BY <2>1, <2>2
<1>14. inbox[c] = <<>> /\ client[c] = "out" BY <1>4 DEF SeqInv, AskInv
<1>15. AskInv(c)' BY <1>4, <1>14 DEF AskInv
<1>16. HasCell(c) /\ HasCell(c)' BY <1>4 DEF HasCell
<1>17. /\ OneBusy' /\ \A d \in Clients : AskInv(d)'
       /\ \A d \in Clients : HasCell(d)' <=> HasCell(d)
       /\ \A d \in Clients \ {c} : \A v, l : AtInv(d, v, l)'
  BY <1>2, <1>15, <1>16, Others
<1>18. OwnerInv'
  <2>1. \A d \in Clients : pc'[d] \in {"linkHead", "free"} =>
          cur'[d] \in used /\ cell[cur'[d]].cfd = d
    BY <1>2, <1>4, <1>9 DEF OthersWait
  <2> QED BY <1>4, <1>12, <1>17, <2>1, OwnersKept
<1>19. \A m \in used \ {n} : cell[m].cfd \in Clients \ {c}
  BY <1>4, <1>9 DEF SeqInv, OwnerInv, TypeOK, ListOK
<1>20. /\ \A m \in used \ {n} : InList(m) /\ InList(m)'
       /\ ~InList(n)'
  BY <1>2, <1>4, <1>9, <1>12, <1>19 DEF InList, OthersWait
<1>21. PICK v : v = [j \in 0..k-1 |-> IF j < i THEN w[j] ELSE w[j+1]] OBVIOUS
<1>22. /\ \A j \in 0..k-1 : j < i => v[j] = w[j]
       /\ \A j \in 0..k-1 : j >= i => v[j] = w[j+1]
  BY <1>9, <1>21
<1>23. v \in [0..k-1 -> used \cup {Null}]
  <2>1. \A j \in 0..k-1 : j \in 0..k /\ j + 1 \in 0..k OBVIOUS
  <2> QED BY <1>10, <1>21, <2>1
<1>24. WalkFrom(head, v, k - 1)'
  <2>1. v[k-1] = Null
    <3>1. k - 1 \in 0..k-1 /\ k - 1 >= i /\ (k - 1) + 1 = k BY <1>9
    <3> QED BY <1>10, <1>22, <3>1
  <2>2. v[0] = head'
    <3>1. 0 \in 0..k-1 BY <1>9
    <3>2. CASE i = 0 BY <1>13, <1>22, <3>1, <3>2
    <3>3. CASE i # 0
      <4>1. 0 < i BY <1>9, <3>3
      <4> QED BY <1>10, <1>13, <1>22, <3>1, <3>3, <4>1
    <3> QED BY <3>2, <3>3
  <2>3. ASSUME NEW j \in 0..(k-1)-1
        PROVE  v[j] \in used' /\ v[j+1] = cell'[v[j]].next
    <3>1. j \in 0..k-1 /\ j + 1 \in 0..k-1 BY <2>3
    <3>2. CASE j >= i
      <4>1. j + 1 >= i /\ j + 1 # i - 1 BY <1>9, <3>2
      <4>2. v[j] = w[j+1] /\ v[j+1] = w[(j+1)+1] BY <1>22, <3>1, <3>2, <4>1
      <4> QED BY <1>4, <1>10, <1>13, <3>1, <4>1, <4>2
    <3>3. CASE j = i - 1
      <4>1. j < i /\ j + 1 >= i /\ (j + 1) + 1 = i + 1 /\ i # 0
        BY <1>9, <3>1, <3>3
      <4>2. v[j] = w[j] /\ v[j+1] = w[i+1] BY <1>22, <3>1, <4>1
      <4> QED BY <1>4, <1>10, <1>13, <3>1, <3>3, <4>1, <4>2
    <3>4. CASE j < i - 1
      <4>1. j < i /\ j + 1 < i /\ j # i - 1 BY <1>9, <3>1, <3>4
      <4>2. v[j] = w[j] /\ v[j+1] = w[j+1] BY <1>22, <3>1, <4>1
      <4> QED BY <1>4, <1>10, <1>13, <3>1, <4>1, <4>2
    <3> QED BY <1>9, <3>1, <3>2, <3>3, <3>4
  <2> QED BY <2>1, <2>2, <2>3 DEF WalkFrom
<1>25. ASSUME NEW j \in 0..(k-1)-1
       PROVE  \E l \in 0..k-1 : l # i /\ v[j] = w[l] /\ (l < i => l = j)
                                /\ (l > i => l = j + 1)
  <2>1. j \in 0..k-1 /\ j + 1 \in 0..k-1 BY <1>25
  <2>2. CASE j < i BY <1>9, <1>22, <2>1, <2>2
  <2>3. CASE j >= i
    <3>1. j + 1 # i /\ v[j] = w[j+1] /\ ~(j + 1 < i) BY <1>9, <1>22, <2>1, <2>3
    <3> QED BY <2>1, <3>1
  <2> QED BY <1>9, <2>1, <2>2, <2>3
<1>26. ListInv(v, k - 1)'
  <2>1. ASSUME NEW j \in 0..(k-1)-1, NEW h \in 0..(k-1)-1, v[j] = v[h]
        PROVE  j = h
    <3>1. PICK l \in 0..k-1 : /\ l # i /\ v[j] = w[l] /\ (l < i => l = j)
                              /\ (l > i => l = j + 1)
      BY <1>25
    <3>2. PICK g \in 0..k-1 : /\ g # i /\ v[h] = w[g] /\ (g < i => g = h)
                              /\ (g > i => g = h + 1)
      BY <1>25
    <3>3. l = g BY <1>10, <2>1, <3>1, <3>2
    <3> QED BY <1>9, <3>1, <3>2, <3>3
  <2>2. ASSUME NEW j \in 0..(k-1)-1 PROVE InList(v[j])'
    <3>1. PICK l \in 0..k-1 : l # i /\ v[j] = w[l] BY <1>25
    <3>2. v[j] \in used \ {n} BY <1>9, <1>10, <3>1
    <3>3. PICK m \in used \ {n} : m = v[j] BY <3>2
    <3> QED BY <1>20, <3>3
  <2>3. ASSUME NEW m \in used', InList(m)'
        PROVE  \E j \in 0..(k-1)-1 : v[j] = m
    <3>1. m \in used \ {n} BY <1>4, <1>20, <2>3
    <3>2. PICK l \in 0..k-1 : w[l] = m BY <1>10, <1>20, <3>1
    <3>3. l # i BY <1>9, <3>1, <3>2
    <3>4. CASE l < i
      <4>1. l \in 0..(k-1)-1 /\ v[l] = m BY <1>9, <1>22, <3>2, <3>4
      <4> QED BY <4>1
    <3>5. CASE l > i
      <4>1. l - 1 \in 0..(k-1)-1 /\ l - 1 >= i /\ (l - 1) + 1 = l
        BY <1>9, <3>5
      <4>2. v[l-1] = m BY <1>22, <3>2, <4>1
      <4> QED BY <4>1, <4>2
    <3> QED BY <1>9, <3>3, <3>4, <3>5
  <2> QED BY <1>24, <2>1, <2>2, <2>3 DEF ListInv
<1>27. AtInv(c, v, k - 1)' BY <1>4 DEF AtInv, Walking
<1>28. k - 1 \in Nat BY <1>9
<1>29. Whole(v, k - 1)' BY <1>4, <1>17, <1>23, <1>26, <1>27 DEF Whole
<1> QED BY <1>17, <1>18, <1>28, <1>29 DEF SeqInv

(* Nothing happens. *)
LEMMA StutterSeq ==
  ASSUME SeqInv, UNCHANGED vars
  PROVE  SeqInv'
<1>1. /\ UNCHANGED <<head, cell, used, stored, inbox, client, sent>>
      /\ UNCHANGED <<pc, msg, cur, prev>>
  BY DEF vars, listVars, dbVars, peerVars
<1>2. OneBusy' BY <1>1 DEF SeqInv, OneBusy, Busy
<1>3. \A c \in Clients : AskInv(c)' BY <1>1 DEF SeqInv, AskInv
<1>4. OwnerInv' BY <1>1 DEF SeqInv, OwnerInv, HasCell, Leaves
<1>5. PICK k \in Nat : \E w : Whole(w, k) BY DEF SeqInv
<1>6. PICK w : Whole(w, k) BY <1>5
<1>7. w \in [0..k -> used' \cup {Null}] BY <1>1, <1>6 DEF Whole
<1>8. ListInv(w, k)' BY <1>1, <1>6 DEF Whole, ListInv, WalkFrom, InList
<1>9. ASSUME NEW c \in Clients PROVE AtInv(c, w, k)'
  <2>1. AtInv(c, w, k) BY <1>6 DEF Whole
  <2> QED BY <1>1, <2>1 DEF AtInv, Here
<1>10. Whole(w, k)' BY <1>7, <1>8, <1>9 DEF Whole
<1> QED BY <1>2, <1>3, <1>4, <1>5, <1>10 DEF SeqInv

LEMMA NextSeq ==
  ASSUME Sequential, TypeOK, SeqInv, [Next]_vars
  PROVE  SeqInv'
<1>1. OneAtATime /\ Vanishing = {} /\ Distinct BY DEF Sequential
<1>2. CASE UNCHANGED vars BY <1>2, StutterSeq
<1>3. ASSUME NEW c \in Clients, thread_read(c) PROVE SeqInv'
  <2>1. CASE Receive(c) BY <2>1, ReceiveSeq
  <2>2. CASE HangUp(c) BY <2>2 DEF HangUp, SeqInv, AskInv
  <2>3. CASE Query(c) \/ Insert(c) \/ History(c) BY <2>3, ShortSeq
  <2>4. CASE CheckPassword(c) BY <2>4, LoginSeq
  <2>5. CASE Link(c) BY <2>5, LinkSeq
  <2>6. CASE LinkHead(c) BY <2>6, LinkHeadSeq
  <2>7. CASE Store(c) BY <2>7, StoreSeq
  <2>8. CASE Find(c) BY <2>8, FindSeq
  <2>9. CASE Group(c) BY <2>9, GroupSeq
  <2>10. CASE ToAll(c) BY <2>10, ToAllSeq
  <2>11. CASE ListNames(c) BY <2>11, ListNamesSeq
  <2>12. CASE Mute(c) BY <2>12, MuteSeq
  <2>13. CASE Say(c) BY <2>13, SaySeq
  <2>14. CASE Quit(c) BY <1>1, <2>14, QuitSeq
  <2>15. CASE Unlink(c) BY <2>15, UnlinkSeq
  <2>16. CASE Free(c) BY <2>16, FreeSeq
  <2>17. CASE Fault(c) BY <2>17, NoFaultSeq
  <2> QED BY <1>3, <2>1, <2>2, <2>3, <2>4, <2>5, <2>6, <2>7, <2>8, <2>9,
             <2>10, <2>11, <2>12, <2>13, <2>14, <2>15, <2>16, <2>17
          DEF thread_read
<1>4. ASSUME NEW c \in Clients, Vanish(c) PROVE SeqInv'
  BY <1>1, <1>4 DEF Vanish
<1>5. ASSUME NEW c \in Clients, NEW m \in Message, Send(c, m) PROVE SeqInv'
  BY <1>1, <1>5, SendSeq
<1> QED BY <1>2, <1>3, <1>4, <1>5 DEF Next

(* work.c, the handlers and their list: as long as one request is served at *)
(* a time, of users with different names who say when they leave, there is  *)
(* one cell for each user who is logged in or being logged in or out, the   *)
(* walk from head meets each of them once, and a handler is at a place of   *)
(* that walk with its work done for all cells before it.                    *)
THEOREM SeqInvThm ==
  ASSUME Sequential
  PROVE  Spec => [](TypeOK /\ SeqInv)
<1>1. TypeOK /\ SeqInv /\ [Next]_vars => SeqInv' BY NextSeq
<1> QED BY <1>1, InitSeq, Types, PTL DEF Spec

(* The walk from head is one of those Walks(head) collects: it visits no    *)
(* cell twice, so it is no longer than there are cells.                     *)
LEMMA TheWalk ==
  ASSUME TypeOK, NEW k \in Nat, NEW w, Whole(w, k)
  PROVE  w \in Walks(head)
<1>1. /\ w \in [0..k -> used \cup {Null}] /\ WalkFrom(head, w, k)
      /\ \A i, j \in 0..k-1 : w[i] = w[j] => i = j
  BY DEF Whole, ListInv
<1>2. \A i \in 0..k-1 : w[i] \in Nodes
  BY <1>1 DEF WalkFrom, TypeOK, ListOK
<1>3. PICK f : f = [i \in 0..k-1 |-> w[i]] OBVIOUS
<1>4. f \in Injection(0..k-1, Nodes)
  BY <1>1, <1>2, <1>3 DEF Injection, IsInjective
<1>5. /\ Cardinality(0..k-1) <= Cardinality(Nodes)
      /\ Cardinality(Nodes) \in Nat
  BY <1>4, ChatAssumption, FS_Injection, FS_CardinalityType
<1>6. Cardinality(0..k-1) = k BY FS_Interval
<1>7. k \in 0..Cardinality(Nodes) BY <1>5, <1>6
<1> QED BY <1>1, <1>7 DEF Walks

(* insert_link and case 10: with one request at a time every walk from head *)
(* ends at every moment, not only when the server has nothing to do.        *)
THEOREM ListSoundOneByOne ==
  ASSUME Sequential
  PROVE  Spec => []ListSound
<1>1. TypeOK /\ SeqInv => ListSound
  <2> SUFFICES ASSUME TypeOK, SeqInv PROVE ListSound
    OBVIOUS
  <2>1. PICK k \in Nat : \E w : Whole(w, k) BY DEF SeqInv
  <2>2. PICK w : Whole(w, k) BY <2>1
  <2> QED BY <2>2, TheWalk DEF ListSound
<1> QED BY <1>1, SeqInvThm, PTL

(* insert_link and case 10: when the server has nothing to do, the list has *)
(* one cell for each user who logged in and has not left, and no other.     *)
THEOREM ListIsOnlineThm ==
  ASSUME Sequential
  PROVE  Spec => []ListIsOnline
<1>1. TypeOK /\ SeqInv => ListIsOnline
  <2> SUFFICES ASSUME TypeOK, SeqInv, Idle PROVE ListIsOnline
    BY DEF ListIsOnline
  <2>1. PICK k \in Nat : \E w : Whole(w, k) BY DEF SeqInv
  <2>2. PICK w : Whole(w, k) BY <2>1
  <2>3. w \in Walks(head) BY <2>2, TheWalk
  <2>4. \A c \in Clients : pc[c] = "recv" /\ inbox[c] = <<>>
    BY DEF Idle, SeqInv, AskInv
  <2>5. \A n \in used : cell[n].cfd \in Clients BY DEF TypeOK, ListOK
  <2>6. \A n \in used : \E i \in DOMAIN w : w[i] = n
    <3>1. \A n \in used : InList(n) BY <2>4, <2>5 DEF InList
    <3>2. \A n \in used : \E i \in 0..k-1 : w[i] = n
      BY <2>2, <3>1 DEF Whole, ListInv
    <3>3. \A i \in 0..k-1 : i \in DOMAIN w BY <2>2 DEF Whole
    <3> QED BY <3>2, <3>3
  <2>7. Listed = used BY <2>3, <2>6 DEF Listed
  <2>8. \A c \in Clients : HasCell(c) <=> client[c] = "in"
    BY <2>4 DEF HasCell, Leaves
  <2>9. {cell[n].cfd : n \in used} = {c \in Clients : client[c] = "in"}
    BY <2>5, <2>8 DEF SeqInv, OwnerInv
  <2>10. \A m, n \in used : cell[m].cfd = cell[n].cfd => m = n
    BY DEF SeqInv, OwnerInv
  <2>11. ListSound BY <2>3 DEF ListSound
  <2> QED BY <2>7, <2>9, <2>10, <2>11 DEF ListIsOnline
<1> QED BY <1>1, SeqInvThm, PTL

-----------------------------------------------------------------------------
(* What is written.  A handler that serves a request moves alone.           *)
LEMMA OwnStep ==
  ASSUME Sequential, TypeOK, SeqInv, [Next]_vars, NEW c \in Clients,
         pc[c] # "recv", pc'[c] # pc[c]
  PROVE  thread_read(c)
<1>1. PICK d \in Clients : thread_read(d)
  BY DEF Next, Vanish, Send, vars, Sequential
<1>2. d = c BY <1>1, Alone DEF OthersWait
<1> QED BY <1>1, <1>2

(* While a walk is under way all cells are in the list, and they are of     *)
(* those who are logged in.                                                 *)
LEMMA AllListed ==
  ASSUME TypeOK, SeqInv, NEW k \in Nat, NEW w, Whole(w, k), NEW c \in Clients,
         pc[c] \in {"find", "toAll"}
  PROVE  /\ \A d \in Clients : client[d] = "in" =>
              \E j \in 0..k-1 : cell[w[j]].cfd = d
         /\ \A n \in used : client[cell[n].cfd] = "in"
<1>1. \A d \in Clients \ {c} : pc[d] = "recv" /\ inbox[d] = <<>>
  BY DEF SeqInv, OneBusy, Busy
<1>2. inbox[c] = <<>> /\ client[c] = "in" BY DEF SeqInv, AskInv
<1>3. \A d \in Clients : HasCell(d) <=> client[d] = "in"
  BY <1>1, <1>2 DEF HasCell, Leaves
<1>4. \A n \in used : cell[n].cfd \in Clients BY DEF TypeOK, ListOK
<1>5. \A n \in used : InList(n) BY <1>1, <1>4 DEF InList
<1>6. ASSUME NEW d \in Clients, client[d] = "in"
      PROVE  \E j \in 0..k-1 : cell[w[j]].cfd = d
  <2>1. PICK n \in used : cell[n].cfd = d
    BY <1>3, <1>6 DEF SeqInv, OwnerInv
  <2>2. PICK j \in 0..k-1 : w[j] = n
    BY <1>5, <2>1 DEF Whole, ListInv
  <2> QED BY <2>1, <2>2
<1>7. \A n \in used : client[cell[n].cfd] = "in"
  BY <1>3, <1>4 DEF SeqInv, OwnerInv
<1> QED BY <1>6, <1>7

(* case 2 and find_fd: a private message is written to its addressee alone  *)
(* if he is logged in, and the sender alone is told if he is not.           *)
THEOREM AnsweredRightThm ==
  ASSUME Sequential
  PROVE  Spec => AnsweredRight
<1>1. TypeOK /\ SeqInv /\ [Next]_vars =>
        [\A c \in Clients :
           pc[c] = "find" /\ pc'[c] # "find" => SentRight(c)]_vars
  <2> SUFFICES ASSUME TypeOK, SeqInv, [Next]_vars, NEW c \in Clients,
                      pc[c] = "find", pc'[c] # "find"
               PROVE  SentRight(c)
    OBVIOUS
  <2>1. thread_read(c) BY OwnStep
  <2>2. Find(c)
    BY <2>1, NoFaultSeq DEF thread_read, Receive, HangUp, Query, Insert,
       CheckPassword, Link, LinkHead, Store, Group, ToAll, ListNames, Mute,
       Say, History, Quit, Unlink, Free, Goto, Go, Walk, Advance, Done
  <2>3. PICK k \in Nat : \E w : Whole(w, k) BY DEF SeqInv
  <2>4. PICK w : Whole(w, k) BY <2>3
  <2>5. PICK i \in 0..k : Here(c, w, i) /\ (cur[c] = Null => i = k)
    BY <2>4, Position DEF Walking
  <2>6. sent[c] = {} /\ <<NameOf[c], msg[c].to>> \in stored
    BY <2>4 DEF Whole, AtInv
  <2>7. client[c] # "gone" BY DEF SeqInv, AskInv
  <2>8. CASE cur[c] = Null /\ Write(c, c, -2)
    <3>1. sent'[c] = {<<c, -2, msg[c].to>>}
      BY <2>6, <2>7, <2>8 DEF Write, TypeOK
    <3>2. \A j \in 0..k-1 : NameOf[cell[w[j]].cfd] # msg[c].to
      BY <2>5, <2>8 DEF Here
    <3>3. \A d \in Clients : client[d] = "in" => NameOf[d] # msg[c].to
      <4> SUFFICES ASSUME NEW d \in Clients, client[d] = "in"
                   PROVE  NameOf[d] # msg[c].to
        OBVIOUS
      <4>1. PICK j \in 0..k-1 : cell[w[j]].cfd = d BY <2>4, AllListed
      <4> QED BY <3>2, <4>1
    <3> QED BY <2>6, <3>1, <3>3 DEF SentRight
  <2>9. CASE Look(c) /\ NameAt(c) = msg[c].to /\ Write(Cell(c).cfd, c, 2)
    <3>1. PICK d \in Clients : d = Cell(c).cfd
      BY <2>9 DEF Look, Cell, TypeOK, ListOK
    <3>2. client[d] = "in" BY <2>4, <2>9, <3>1, AllListed DEF Look, Cell
    <3>3. NameOf[d] = msg[c].to BY <2>9, <3>1 DEF NameAt
    <3>4. sent'[c] = {<<d, 2, msg[c].to>>}
      BY <2>6, <2>9, <3>1, <3>2 DEF Write, TypeOK
    <3> QED BY <2>6, <3>2, <3>3, <3>4 DEF SentRight
  <2> QED BY <2>2, <2>8, <2>9 DEF Find, Advance
<1> QED BY <1>1, SeqInvThm, PTL DEF Spec, AnsweredRight

(* to_all: when its walk ends, the message has been written to everybody    *)
(* who is logged in.                                                        *)
THEOREM BroadcastThm ==
  ASSUME Sequential
  PROVE  Spec => Broadcast
<1>1. TypeOK /\ SeqInv /\ [Next]_vars =>
        [\A c \in Clients :
           pc[c] = "toAll" /\ pc'[c] = "recv" =>
             \A d \in Clients : client[d] = "in" =>
               <<d, msg[c].act, msg[c].to>> \in sent[c]]_vars
  <2> SUFFICES ASSUME TypeOK, SeqInv, [Next]_vars, NEW c \in Clients,
                      pc[c] = "toAll", pc'[c] = "recv",
                      NEW d \in Clients, client[d] = "in"
               PROVE  <<d, msg[c].act, msg[c].to>> \in sent[c]
    OBVIOUS
  <2>1. thread_read(c) BY OwnStep
  <2>2. ToAll(c)
    BY <2>1, NoFaultSeq DEF thread_read, Receive, HangUp, Query, Insert,
       CheckPassword, Link, LinkHead, Store, Find, Group, ListNames, Mute,
       Say, History, Quit, Unlink, Free, Goto, Go, Walk, Advance, Done
  <2>3. cur[c] = Null BY <2>2 DEF ToAll, Advance
  <2>4. PICK k \in Nat : \E w : Whole(w, k) BY DEF SeqInv
  <2>5. PICK w : Whole(w, k) BY <2>4
  <2>6. PICK i \in 0..k : Here(c, w, i) /\ (cur[c] = Null => i = k)
    BY <2>5, Position DEF Walking
  <2>7. PICK j \in 0..k-1 : cell[w[j]].cfd = d BY <2>5, AllListed
  <2> QED BY <2>3, <2>6, <2>7 DEF Here
<1> QED BY <1>1, SeqInvThm, PTL DEF Spec, Broadcast

=============================================================================
