------------------------------- MODULE MCTrace -------------------------------
(***************************************************************************)
(* Trace with the constants of its model-checking run: two users share a   *)
(* host, services have a client, one channel dies with its last member.    *)
(***************************************************************************)
EXTENDS Trace, TLC

CONSTANTS ann, bob, serv, c1, shared, local

MCHost == (ann :> shared) @@ (bob :> shared) @@ (serv :> local)

MCAges == {-1, 1}

W(word, cmp, arg) == [word |-> word, cmp |-> cmp, arg |-> arg]

Words ==
    {W("CHANNEL", "", c) : c \in {c1, Missing}}
        \cup {W("NUMCHAN", ">", 0), W("NUMCHAN", "<", -1), W("NICKAGE", "", 0),
              W("GLOB", "", {ann, serv}), W("IDENTIFIED", "", "no")}

Pairs == {W("CHANNEL", "", c1), W("NUMCHAN", "", 1), W("IDENTIFIED", "", "yes")}

Queries == {<<>>} \cup {<<w>> : w \in Words} \cup {<<v, w>> : v, w \in Pairs}

C(action, flag, minutes, reason) ==
    {[action |-> action, flag |-> flag, minutes |-> minutes, reason |-> reason,
      query |-> q] : q \in Queries}

MCCommands ==
    UNION {C("COUNT", "", 0, "none"), C("KILL", "", 0, "given"), C("AKILL", "!P", 0, "given")}
    \cup {cmd \in UNION {C("PRINT", "", 0, "none"), C("KILL", "", 0, "unclosed"),
                         C("AKILL", "!T", 0, "given"), C("AKILL", "!T", 2, "given")} :
             Len(cmd.query) = 1}
=============================================================================
