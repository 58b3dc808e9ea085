------------------------------ MODULE OnePlace ------------------------------
(***************************************************************************)
(* A hand-off of the headers 1, 2, 3, ... through one place: a header is   *)
(* put when the place is free, and taken once, before the next one is put. *)
(* BlockHandoff implements it.                                             *)
(***************************************************************************)
EXTENDS Naturals

VARIABLES put, taken   (* how many headers were put, how many taken *)

Init == put = 0 /\ taken = 0
Put == put = taken /\ put' = put + 1 /\ UNCHANGED taken
Take == taken < put /\ taken' = taken + 1 /\ UNCHANGED put

Next == Put \/ Take

Spec == Init /\ [][Next]_<<put, taken>>
=============================================================================
