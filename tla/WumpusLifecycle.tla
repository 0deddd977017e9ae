--------------------------- MODULE WumpusLifecycle ---------------------------
(***************************************************************************)
(* What the game service of src/src/wumpus.c promises about a game, without *)
(* rooms, arrows or timers: people gather in a lobby, at least two of them *)
(* start to play, from then on they only drop out, and the game ends with  *)
(* nobody in it.                                                           *)
(***************************************************************************)
CONSTANT Users

VARIABLES phase, roster

vars == <<phase, roster>>

Init == phase = "idle" /\ roster = {}

\* START opens a lobby.  Who was left over from a lobby that did not lead to a
\* game is still in it.
Open == phase = "idle" /\ phase' = "lobby" /\ UNCHANGED roster

\* JOIN
Enter(u) ==
    /\ phase = "lobby" /\ u \notin roster
    /\ roster' = roster \cup {u}
    /\ UNCHANGED phase

Several == \E u, v \in roster : u # v

\* The lobby's time is up: a game of at least two, or none.
Begin ==
    /\ phase = "lobby" /\ Several
    /\ phase' = "playing" /\ UNCHANGED roster

CallOff ==
    /\ phase = "lobby" /\ phase' = "idle"
    /\ roster' = IF Several THEN {} ELSE roster

\* Deaths, resignations and disconnections.  Nobody dies outside a game, but one
\* user at a time can disconnect in any phase.
DropOut(S) ==
    /\ S # {} /\ S \subseteq roster
    /\ phase # "playing" => \E u \in roster : S = {u}
    /\ roster' = roster \ S
    /\ UNCHANGED phase

\* A win, a loss or a reset.
Finish == phase = "playing" /\ phase' = "idle" /\ roster' = {}

\* The module is unloaded, at any time, and loaded again.
Close == phase # "gone" /\ phase' = "gone" /\ roster' = {}
Return == phase = "gone" /\ phase' = "idle" /\ UNCHANGED roster

Next ==
    \/ Open
    \/ \E u \in Users : Enter(u)
    \/ Begin
    \/ CallOff
    \/ \E S \in SUBSET roster : DropOut(S)
    \/ Finish
    \/ Close
    \/ Return

Spec == Init /\ [][Next]_vars
=============================================================================
