----------------------------- MODULE MCBadwords -----------------------------
(***************************************************************************)
(* Badwords for TLC: the words are alike; exempts whose reason is one word *)
(* or reads like a row of a channel, with an action of cs_badwords or not. *)
(***************************************************************************)
EXTENDS Badwords, TLC

MCGivers == {<<FALSE, "KICK">>, <<FALSE, "QUIET">>, <<TRUE, "KICK">>}

MCReasons ==
    {<<FALSE, <<"other">>>>} \cup {<<FALSE, <<c, a>>>> : c \in Founders, a \in {"KICK", "other"}}

Symmetry == Permutations(Words)
=============================================================================
