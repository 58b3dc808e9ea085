-------------------------- MODULE ChatServerProofs --------------------------
(***************************************************************************)
(* Theorems about ChatServer, for every number of connections and of cells *)
(* and every choice of requests.                                           *)
(***************************************************************************)
EXTENDS ChatServerProperties, TLAPS

LEMMA InitTypes == Init => TypeOK
<1> SUFFICES ASSUME Init PROVE TypeOK
  OBVIOUS
<1> USE ChatAssumption DEF Init
<1>1. ListOK
  BY DEF ListOK, NoCell
<1>2. DataOK
  BY DEF DataOK
<1>3. PeersOK
  BY DEF PeersOK
<1>4. HandlersOK
  BY DEF HandlersOK, Serving
<1> QED BY <1>1, <1>2, <1>3, <1>4 DEF TypeOK

(* A request names an action and perhaps a user. *)
LEMMA MessageParts ==
  ASSUME NEW m \in Message
  PROVE  m.act \in Actions /\ m.to \in Names \cup {Null}
  BY ChatAssumption DEF Message

(* The four ways a step of a handler ends keep the handlers well typed. *)
LEMMA GoTypes ==
  ASSUME HandlersOK, NEW c \in Clients, NEW from \in Serving,
         NEW to \in Serving, Go(c, from, to)
  PROVE  HandlersOK'
  BY DEF HandlersOK, Go, Goto, Serving

LEMMA WalkTypes ==
  ASSUME HandlersOK, NEW c \in Clients, NEW from \in Serving,
         NEW to \in Serving, Walk(c, from, to), head \in Nodes \cup {Null}
  PROVE  HandlersOK'
  BY DEF HandlersOK, Walk, Goto, Serving

LEMMA AdvanceTypes ==
  ASSUME HandlersOK, ListOK, NEW c \in Clients, NEW at \in Serving,
         Look(c), Advance(c, at)
  PROVE  HandlersOK'
<1>1. Cell(c).next \in Nodes \cup {Null}
  BY DEF ListOK, Look, Cell
<1> QED BY <1>1 DEF HandlersOK, Advance

LEMMA DoneTypes ==
  ASSUME HandlersOK, NEW c \in Clients, NEW from \in Serving, Done(c, from)
  PROVE  HandlersOK'
  BY DEF HandlersOK, Done, Goto, Serving

(* What a handler writes is an answer to its request. *)
LEMMA WriteTypes ==
  ASSUME HandlersOK, sent \in [Clients -> SUBSET Answer],
         NEW c \in Clients, pc[c] \in Serving, NEW d \in Clients,
         NEW act \in Actions \cup {255, -1, -2}, Write(d, c, act)
  PROVE  sent' \in [Clients -> SUBSET Answer]
<1>1. msg[c].to \in Names \cup {Null}
  BY MessageParts DEF HandlersOK
<1>2. <<d, act, msg[c].to>> \in Answer
  BY <1>1 DEF Answer
<1> QED BY <1>2 DEF Write

(* The owner of a cell that is looked at is a connection. *)
LEMMA OwnerType ==
  ASSUME ListOK, NEW c \in Clients, Look(c)
  PROVE  Cell(c).cfd \in Clients
  BY DEF ListOK, Look, Cell

LEMMA ReceiveTypes ==
  ASSUME TypeOK, NEW c \in Clients, Receive(c)
  PROVE  TypeOK'
<1> DEFINE m == Head(inbox[c])
<1>1. m \in Message /\ Tail(inbox[c]) \in Seq(Message)
  BY DEF Receive, TypeOK, PeersOK
<1>2. Start(m.act) \in Serving
  BY <1>1, MessageParts DEF Start, Serving, Actions
<1>3. HandlersOK'
  BY <1>1, <1>2 DEF Receive, Goto, TypeOK, HandlersOK, ListOK, Serving
<1>4. PeersOK'
  BY <1>1 DEF Receive, TypeOK, PeersOK
<1> QED BY <1>3, <1>4 DEF Receive, TypeOK, ListOK, DataOK, listVars, dbVars

(* Each step of a handler. *)
LEMMA HandlerTypes ==
  ASSUME TypeOK, NEW c \in Clients, thread_read(c)
  PROVE  TypeOK'
<1> USE DEF TypeOK
<1>0. /\ UNCHANGED listVars => ListOK'
      /\ UNCHANGED dbVars => DataOK'
      /\ UNCHANGED peerVars => PeersOK'
      /\ \A s \in {"out", "in"} :
           LoggedIn(c, s) /\ UNCHANGED <<inbox, budget>> => PeersOK'
  BY DEF ListOK, DataOK, PeersOK, listVars, dbVars, peerVars, LoggedIn
<1>s. UNCHANGED sent => sent' \in [Clients -> SUBSET Answer]
  OBVIOUS
<1>1. CASE Receive(c)
  BY <1>1, ReceiveTypes
<1>2. CASE HangUp(c)
  BY <1>2, <1>0 DEF HangUp, Goto, HandlersOK, Serving
<1>3. CASE Query(c)
  <2>1. HandlersOK'
    BY <1>3, DoneTypes, GoTypes DEF Query, Serving
  <2>2. sent' \in [Clients -> SUBSET Answer]
    BY <1>3, WriteTypes DEF Actions, Query, Done, Goto, Serving
  <2> QED BY <1>3, <1>0, <2>1, <2>2 DEF Query
<1>4. CASE Insert(c)
  <2>1. HandlersOK'
    BY <1>4, DoneTypes DEF Insert, Serving
  <2>2. DataOK'
    BY <1>4, ChatAssumption DEF Insert, DataOK
  <2> QED BY <1>4, <1>0, <2>1, <2>2 DEF Insert
<1>5. CASE CheckPassword(c)
  <2>1. HandlersOK'
    BY <1>5, DoneTypes, GoTypes DEF CheckPassword, Serving
  <2>2. sent' \in [Clients -> SUBSET Answer]
    BY <1>5, WriteTypes DEF Actions, CheckPassword, Done, Goto, Serving
  <2>3. PeersOK'
    BY <1>5, <1>0 DEF CheckPassword, peerVars
  <2> QED BY <1>5, <1>0, <2>1, <2>2, <2>3 DEF CheckPassword
<1>6. CASE Link(c)
  <2>1. ListOK' /\ HandlersOK'
    BY <1>6 DEF Link, Goto, ListOK, HandlersOK, Serving
  <2> QED BY <1>6, <1>0, <2>1 DEF Link
<1>7. CASE LinkHead(c)
  <2>1. HandlersOK'
    BY <1>7, DoneTypes DEF LinkHead, Serving
  <2>2. sent' \in [Clients -> SUBSET Answer]
    BY <1>7, WriteTypes DEF Actions, LinkHead, Done, Goto, Serving
  <2>3. ListOK'
    BY <1>7 DEF LinkHead, ListOK, HandlersOK
  <2> QED BY <1>7, <1>0, <2>1, <2>2, <2>3 DEF LinkHead
<1>8. CASE Store(c)
  <2>1. HandlersOK'
    BY <1>8, WalkTypes DEF Store, Serving, ListOK
  <2>2. msg[c].to \in Names \cup {Null}
    BY <1>8, MessageParts DEF Store, Walk, Goto, HandlersOK, Serving
  <2>3. DataOK'
    BY <1>8, <2>2, ChatAssumption DEF Store, DataOK
  <2> QED BY <1>8, <1>0, <2>1, <2>3 DEF Store
<1>9. CASE Find(c)
  <2>1. HandlersOK'
    BY <1>9, DoneTypes, AdvanceTypes DEF Find, Serving
  <2>2. sent' \in [Clients -> SUBSET Answer]
    <3>1. CASE Done(c, "find") /\ Write(c, c, -2)
      BY <3>1, WriteTypes DEF Actions, Done, Goto, Serving
    <3>2. CASE Look(c) /\ Done(c, "find") /\ Write(Cell(c).cfd, c, 2)
      <4>1. pc[c] \in Serving /\ msg[c] \in Message
        BY <3>2 DEF Done, Goto, Serving, HandlersOK
      <4> QED BY <3>2, <4>1, OwnerType, WriteTypes DEF Actions
    <3> QED BY <1>9, <3>1, <3>2 DEF Find
  <2> QED BY <1>9, <1>0, <2>1, <2>2 DEF Find
<1>10. CASE Group(c)
  <2>1. HandlersOK'
    BY <1>10, DoneTypes, WalkTypes DEF Group, Serving, ListOK
  <2>2. sent' \in [Clients -> SUBSET Answer]
    BY <1>10, WriteTypes DEF Actions, Group, Done, Goto, Serving
  <2> QED BY <1>10, <1>0, <2>1, <2>2 DEF Group
<1>11. CASE ToAll(c)
  <2>1. HandlersOK'
    BY <1>11, DoneTypes, AdvanceTypes DEF ToAll, Serving
  <2>2. sent' \in [Clients -> SUBSET Answer]
    <3>1. CASE /\ Look(c) /\ Advance(c, "toAll")
               /\ Write(Cell(c).cfd, c, msg[c].act)
      <4>1. pc[c] \in Serving /\ msg[c] \in Message
        BY <3>1 DEF Advance, Serving, HandlersOK
      <4> QED BY <3>1, <4>1, OwnerType, WriteTypes, MessageParts
    <3> QED BY <1>11, <3>1 DEF ToAll
  <2> QED BY <1>11, <1>0, <2>1, <2>2 DEF ToAll
<1>12. CASE ListNames(c)
  <2>1. HandlersOK'
    BY <1>12, WalkTypes, AdvanceTypes DEF ListNames, Serving, ListOK
  <2> QED BY <1>12, <1>0, <2>1 DEF ListNames
<1>13. CASE Mute(c)
  <2>1. HandlersOK'
    BY <1>13, DoneTypes, GoTypes, AdvanceTypes DEF Mute, Serving
  <2>2. sent' \in [Clients -> SUBSET Answer]
    BY <1>13, WriteTypes DEF Actions, Mute, Done, Goto, Serving
  <2> QED BY <1>13, <1>0, <2>1, <2>2 DEF Mute
<1>14. CASE Say(c)
  <2>1. HandlersOK'
    BY <1>14, DoneTypes DEF Say, Serving
  <2>2. pc[c] \in Serving /\ msg[c] \in Message
    BY <1>14 DEF Say, Done, Goto, Serving, HandlersOK
  <2>3. sent' \in [Clients -> SUBSET Answer]
    BY <1>14, <2>2, WriteTypes, MessageParts DEF Say
  <2>4. ListOK'
    BY <1>14 DEF Say, ListOK, Look
  <2> QED BY <1>14, <1>0, <2>1, <2>3, <2>4 DEF Say
<1>15. CASE History(c)
  <2>1. HandlersOK'
    BY <1>15, DoneTypes DEF History, Serving
  <2>2. sent' \in [Clients -> SUBSET Answer]
    BY <1>15, WriteTypes DEF Actions, History, Done, Goto, Serving
  <2> QED BY <1>15, <1>0, <2>1, <2>2 DEF History
<1>16. CASE Quit(c)
  <2>1. HandlersOK'
    BY <1>16, DoneTypes, GoTypes, AdvanceTypes DEF Quit, Serving
  <2> QED BY <1>16, <1>0, <2>1 DEF Quit
<1>17. CASE Unlink(c)
  <2>1. HandlersOK'
    BY <1>17, GoTypes DEF Unlink, Serving
  <2>2. Cell(c).next \in Nodes \cup {Null}
    BY <1>17 DEF Unlink, Look, Cell, ListOK
  <2>3. ListOK'
    BY <1>17, <2>2 DEF Unlink, ListOK
  <2> QED BY <1>17, <1>0, <2>1, <2>3 DEF Unlink
<1>18. CASE Free(c)
  <2>1. HandlersOK'
    BY <1>18, DoneTypes DEF Free, Serving
  <2>2. ListOK'
    BY <1>18 DEF Free, ListOK
  <2> QED BY <1>18, <1>0, <2>1, <2>2 DEF Free
<1>19. CASE Fault(c)
  BY <1>19, <1>0 DEF Fault, HandlersOK, Serving
<1> QED
  BY <1>1, <1>2, <1>3, <1>4, <1>5, <1>6, <1>7, <1>8, <1>9, <1>10, <1>11, <1>12,
     <1>13, <1>14, <1>15, <1>16, <1>17, <1>18, <1>19 DEF thread_read

LEMMA ClientTypes ==
  ASSUME TypeOK, NEW c \in Clients,
         Vanish(c) \/ \E m \in Message : Send(c, m)
  PROVE  TypeOK'
<1>1. CASE Vanish(c)
  BY <1>1 DEF Vanish, TypeOK, ListOK, DataOK, PeersOK, HandlersOK, listVars,
     dbVars
<1>2. ASSUME NEW m \in Message, Send(c, m) PROVE TypeOK'
  <2>1. budget'[c] \in 0..Budget
    BY <1>2, ChatAssumption DEF Send, TypeOK, PeersOK
  <2>2. Append(inbox[c], m) \in Seq(Message)
    BY DEF TypeOK, PeersOK
  <2>3. client' \in [Clients -> {"out", "asked", "in", "gone"}]
    BY <1>2 DEF Send, TypeOK, PeersOK
  <2>4. PeersOK'
    BY <1>2, <2>1, <2>2, <2>3 DEF Send, TypeOK, PeersOK
  <2> QED BY <1>2, <2>4
      DEF Send, TypeOK, ListOK, DataOK, HandlersOK, listVars, dbVars
<1> QED BY <1>1, <1>2

LEMMA StutterTypes == TypeOK /\ UNCHANGED vars => TypeOK'
  BY DEF TypeOK, ListOK, DataOK, PeersOK, HandlersOK, vars, listVars, dbVars,
     peerVars

(* The state is well typed whatever is sent, lost, freed or interleaved; in *)
(* particular a handler never serves the rest of an earlier request, and a  *)
(* cell malloc has handed out always names the connection it is for.        *)
THEOREM Types == Spec => []TypeOK
<1>1. TypeOK /\ [Next]_vars => TypeOK'
  BY HandlerTypes, ClientTypes, StutterTypes DEF Next
<1> QED BY InitTypes, <1>1, PTL DEF Spec

-----------------------------------------------------------------------------
(* Cells and their owners. *)

(* A handler moves itself only, or nobody serves anything any more. *)
LEMMA OthersStay ==
  ASSUME TypeOK, NEW c \in Clients, NEW d \in Clients, c # d, thread_read(d),
         pc'[c] \in Serving
  PROVE  pc[c] = pc'[c] /\ cur'[c] = cur[c]
  BY DEF TypeOK, HandlersOK, thread_read, Receive, HangUp, Query, Insert,
     CheckPassword, Link, LinkHead, Store, Find, Group, ToAll, ListNames, Mute,
     Say, History, Quit, Unlink, Free, Fault, Goto, Go, Walk, Advance, Done,
     Serving

(* Only Free gives a cell back, and nothing changes the owner of one. *)
LEMMA CellsKept ==
  ASSUME TypeOK, NEW d \in Clients, thread_read(d),
         NEW n \in used, ~(pc[d] = "free" /\ n = cur[d])
  PROVE  n \in used' /\ cell'[n].cfd = cell[n].cfd
  BY DEF TypeOK, ListOK, thread_read, Receive, HangUp, Query, Insert,
     CheckPassword, Link, LinkHead, Store, Find, Group, ToAll, ListNames, Mute,
     Say, History, Quit, Unlink, Free, Fault, Goto, Done, listVars

(* The two ways to be at unlink or free: to have found the cell just now,   *)
(* or to have unlinked it.                                                  *)
LEMMA FoundOrUnlinked ==
  ASSUME TypeOK, NEW d \in Clients, thread_read(d),
         pc'[d] \in {"unlink", "free"}
  PROVE  \/ Quit(d) /\ Look(d) /\ NameAt(d) = NameOf[d] /\ UNCHANGED cur
         \/ Unlink(d) /\ UNCHANGED cur
<1>1. CASE Receive(d)
  <2>1. Head(inbox[d]).act \in Actions
    BY <1>1, MessageParts DEF Receive, TypeOK, PeersOK
  <2>2. Start(Head(inbox[d]).act) \notin {"unlink", "free"}
    BY <2>1 DEF Start, Actions
  <2> QED BY <1>1, <2>2 DEF Receive, Goto, TypeOK, HandlersOK
<1>2. CASE Quit(d) \/ Unlink(d)
  BY <1>2 DEF Quit, Unlink, Go, Goto, Done, Advance, TypeOK, HandlersOK
<1>3. CASE ~(Receive(d) \/ Quit(d) \/ Unlink(d))
  BY <1>3 DEF TypeOK, HandlersOK, thread_read, HangUp, Query, Insert,
     CheckPassword, Link, LinkHead, Store, Find, Group, ToAll, ListNames, Mute,
     Say, History, Free, Fault, Goto, Go, Walk, Advance, Done
<1> QED BY <1>1, <1>2, <1>3

LEMMA FreedOnceStep ==
  ASSUME TypeOK, FreedOnce, ~QuitsMeet, NEW d \in Clients, thread_read(d)
  PROVE  FreedOnce'
<1> SUFFICES ASSUME NEW c \in Clients, pc'[c] \in {"unlink", "free"}
             PROVE  HasOwnCell(c)'
  BY DEF FreedOnce
<1>1. CASE c # d
  <2>1. pc[c] = pc'[c] /\ cur'[c] = cur[c]
    BY <1>1, OthersStay DEF Serving
  <2>2. cur[c] \in used /\ NameOf[cell[cur[c]].cfd] = NameOf[c]
    BY <2>1 DEF FreedOnce, HasOwnCell, NameAt, Cell
  <2>3. ASSUME pc[d] = "free", cur[c] = cur[d] PROVE FALSE
    <3>1. NameOf[cell[cur[d]].cfd] = NameOf[d]
      BY <2>3 DEF FreedOnce, HasOwnCell, NameAt, Cell
    <3> QED BY <1>1, <2>1, <2>2, <2>3, <3>1 DEF QuitsMeet
  <2>4. cur[c] \in used' /\ cell'[cur[c]].cfd = cell[cur[c]].cfd
    BY <2>2, <2>3, CellsKept
  <2> QED BY <2>1, <2>2, <2>4 DEF HasOwnCell, NameAt, Cell
<1>2. CASE c = d
  <2>1. CASE Quit(d) /\ Look(d) /\ NameAt(d) = NameOf[d] /\ UNCHANGED cur
    BY <1>2, <2>1 DEF Quit, listVars, Look, HasOwnCell, NameAt, Cell
  <2>2. CASE Unlink(d) /\ UNCHANGED cur
    <3>1. pc[d] = "unlink"
      BY <2>2 DEF Unlink, Go, Goto
    <3>2. cur[d] \in used /\ NameOf[cell[cur[d]].cfd] = NameOf[d]
      BY <3>1 DEF FreedOnce, HasOwnCell, NameAt, Cell
    <3>3. cur[d] \in used' /\ cell'[cur[d]].cfd = cell[cur[d]].cfd
      BY <3>1, <3>2, CellsKept
    <3> QED BY <1>2, <2>2, <3>2, <3>3 DEF HasOwnCell, NameAt, Cell
  <2> QED BY <1>2, <2>1, <2>2, FoundOrUnlinked
<1> QED BY <1>1, <1>2

(* However the walks, insertions and removals of any number of handlers     *)
(* interleave without a lock, whatever the list has lost by then, and       *)
(* however many connections a user has: case 10 frees a cell of its own     *)
(* user that nobody has freed, until two handlers of one user have found    *)
(* the same cell before either freed it.                                    *)
THEOREM FreedTwice == Spec => FreedTwiceByTwoQuits
<1>1. TypeOK /\ FreedOnce /\ ~QuitsMeet /\ [Next]_vars => FreedOnce'
  <2> SUFFICES ASSUME TypeOK, FreedOnce, ~QuitsMeet, [Next]_vars
               PROVE  FreedOnce'
    OBVIOUS
  <2>1. ASSUME NEW c \in Clients, Vanish(c) \/ \E m \in Message : Send(c, m)
        PROVE  FreedOnce'
    BY <2>1 DEF Vanish, Send, FreedOnce, HasOwnCell, NameAt, Cell, listVars
  <2>2. CASE UNCHANGED vars
    BY <2>2 DEF vars, listVars, FreedOnce, HasOwnCell, NameAt, Cell
  <2> QED BY <2>1, <2>2, FreedOnceStep DEF Next
<1>2. TypeOK /\ [Next]_vars =>
        [FreedOnce => FreedOnce' \/ QuitsMeet]_vars
  BY <1>1
<1> QED BY <1>2, Types, PTL DEF Spec, FreedTwiceByTwoQuits

(* So in a server where no two quits meet, no cell is freed twice.          *)
COROLLARY NoDoubleFree == Spec /\ []~QuitsMeet => []FreedOnce
<1>1. Init => FreedOnce
  BY DEF Init, FreedOnce
<1>2. FreedOnce /\ ~QuitsMeet /\ [FreedOnce => FreedOnce' \/ QuitsMeet]_vars
        => FreedOnce'
  BY DEF vars, listVars, FreedOnce, HasOwnCell, NameAt, Cell
<1> QED BY <1>1, <1>2, FreedTwice, PTL DEF Spec, FreedTwiceByTwoQuits

-----------------------------------------------------------------------------
(* The names of table person.                                               *)

(* Only Insert adds a row, of its own user, and only Query, which saw no    *)
(* row, goes on to it.                                                      *)
LEMMA RowsKept ==
  ASSUME TypeOK, NEW d \in Clients, thread_read(d), ~Insert(d)
  PROVE  /\ UNCHANGED person
         /\ \A c \in Clients : pc'[c] = "insert" =>
              pc[c] = "insert" \/ person[NameOf[c]] = 0
<1>1. CASE Receive(d)
  <2>1. Head(inbox[d]).act \in Actions
    BY <1>1, MessageParts DEF Receive, TypeOK, PeersOK
  <2>2. Start(Head(inbox[d]).act) # "insert"
    BY <2>1 DEF Start, Actions
  <2> QED BY <1>1, <2>2 DEF Receive, Goto, TypeOK, HandlersOK, dbVars
<1>2. CASE Query(d) \/ HangUp(d) \/ CheckPassword(d) \/ Store(d) \/ Group(d)
  BY <1>2 DEF TypeOK, HandlersOK, HangUp, Query, CheckPassword, Store, Group,
     Goto, Go, Walk, Done, dbVars
<1>3. CASE Link(d) \/ LinkHead(d) \/ Find(d) \/ ToAll(d) \/ ListNames(d)
  BY <1>3 DEF TypeOK, HandlersOK, Link, LinkHead, Find, ToAll, ListNames,
     Goto, Walk, Advance, Done, dbVars
<1>4. CASE Mute(d) \/ Say(d) \/ History(d) \/ Quit(d) \/ Unlink(d) \/ Free(d)
           \/ Fault(d)
  BY <1>4 DEF TypeOK, HandlersOK, Mute, Say, History, Quit, Unlink, Free,
     Fault, Goto, Go, Advance, Done, dbVars
<1> QED BY <1>1, <1>2, <1>3, <1>4 DEF thread_read

LEMMA NamesStep ==
  ASSUME TypeOK, NamesUnique, NameStillFree, ~InsertsMeet,
         NEW d \in Clients, thread_read(d)
  PROVE  (NamesUnique /\ NameStillFree)'
<1>1. CASE ~Insert(d)
  <2>1. NamesUnique'
    BY <1>1, RowsKept DEF NamesUnique
  <2>2. NameStillFree'
    BY <1>1, RowsKept DEF NameStillFree
  <2> QED BY <2>1, <2>2
<1>2. CASE Insert(d)
  <2>1. pc[d] = "insert" /\ pc'[d] = "recv"
        /\ \A c \in Clients \ {d} : pc'[c] = pc[c]
    BY <1>2 DEF Insert, Done, Goto, TypeOK, HandlersOK
  <2>2. person[NameOf[d]] = 0
    BY <2>1 DEF NameStillFree
  <2>3. \A n \in Names : \/ person'[n] = person[n]
                         \/ n = NameOf[d] /\ person'[n] \in {0, 1}
    BY <1>2, <2>2 DEF Insert, TypeOK, DataOK
  <2>4. NamesUnique'
    BY <2>3 DEF NamesUnique
  <2>5. ASSUME NEW c \in Clients, pc'[c] = "insert"
        PROVE  person'[NameOf[c]] = 0
    <3>1. c # d /\ pc[c] = "insert" /\ NameOf[c] # NameOf[d]
      BY <2>1, <2>5 DEF InsertsMeet
    <3>2. NameOf[c] \in Names /\ person[NameOf[c]] = 0
      BY <3>1 DEF NameStillFree, Names
    <3> QED BY <2>3, <3>1, <3>2
  <2> QED BY <2>4, <2>5 DEF NameStillFree
<1> QED BY <1>1, <1>2

(* However registrations interleave, with any number of connections for a   *)
(* name: a name gets a second row only when two handlers were told that it  *)
(* is free before either inserted it.                                       *)
THEOREM NameTwice == Spec => NameTwiceByTwoInserts
<1>1. TypeOK /\ NamesUnique /\ NameStillFree /\ ~InsertsMeet /\ [Next]_vars
        => (NamesUnique /\ NameStillFree)'
  <2> SUFFICES ASSUME TypeOK, NamesUnique, NameStillFree, ~InsertsMeet,
                      [Next]_vars
               PROVE  (NamesUnique /\ NameStillFree)'
    OBVIOUS
  <2>1. ASSUME NEW c \in Clients, Vanish(c) \/ \E m \in Message : Send(c, m)
        PROVE  (NamesUnique /\ NameStillFree)'
    BY <2>1 DEF Vanish, Send, NamesUnique, NameStillFree, dbVars
  <2>2. CASE UNCHANGED vars
    BY <2>2 DEF vars, dbVars, NamesUnique, NameStillFree
  <2> QED BY <2>1, <2>2, NamesStep DEF Next
<1>2. TypeOK /\ [Next]_vars =>
        [NamesUnique /\ NameStillFree
           => (NamesUnique /\ NameStillFree)' \/ InsertsMeet]_vars
  BY <1>1
<1> QED BY <1>2, Types, PTL DEF Spec, NameTwiceByTwoInserts
=============================================================================
