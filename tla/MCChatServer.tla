---------------------------- MODULE MCChatServer ----------------------------
(* Instances of ChatServer: users with a connection each, who are named     *)
(* after it, and one who has two.                                           *)
EXTENDS ChatServerProperties, TLC

(* The memory of one cell is as good as that of another. *)
NodesAlike == Permutations(Nodes)

OwnNames == [c \in Clients |-> c]

(* b has one connection, u all others. *)
CONSTANTS b, u
SameUser == [c \in Clients |-> IF c = b THEN b ELSE u]

Chatting == {1, 2, 6}
ComingAndGoing == {0, 1, 10}
Everything == {0, 1, 2, 4, 6, 7, 8, -8, 9, 10}
=============================================================================
