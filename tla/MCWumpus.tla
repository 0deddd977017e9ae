------------------------------ MODULE MCWumpus ------------------------------
(***************************************************************************)
(* Small instances of Wumpus for TLC.                                      *)
(***************************************************************************)
EXTENDS Wumpus, TLC

\* Three rooms, where two of the three exits of a room coincide; one-way exits.
Loop3 == 0 :> <<1, 1, 2>> @@ 1 :> <<2, 2, 2>> @@ 2 :> <<0, 0, 1>>
MCMazes == {Loop3}

\* Refused (2), the smallest, and one that is capped: -1 wraps to a huge size.
MCWantSizes == {-1, 2, 3}
=============================================================================
