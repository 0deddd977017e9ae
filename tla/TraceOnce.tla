------------------------------ MODULE TraceOnce ------------------------------
(***************************************************************************)
(* What OperServ TRACE promises: the users who satisfy all criteria when   *)
(* the command is given, and nobody else, are acted upon, and the reply    *)
(* says so.  It is one step here, followed by the reply.                   *)
(***************************************************************************)
EXTENDS TraceNetwork, Sequences

CONSTANTS
    Commands,  \* what operators type, split into its parts
    Missing    \* in the place of a word that is not there

VARIABLES
    act,       \* the command whose reply is due, or "idle"
    report     \* what the reply says

vars == <<user, members, klines, act, report>>

Silent == [matched |-> FALSE, count |-> 0]

Default(cmp, default) == IF cmp = "" THEN default ELSE cmp

Fits(u, w) ==
    CASE w.word \in {"REGEXP", "GLOB", "SERVER"} -> u \in w.arg
      [] w.word = "CHANNEL" -> w.arg \in DOMAIN members /\ u \in members[w.arg]
      [] w.word = "NICKAGE" -> Compare(Default(w.cmp, "<="), user[u].age, w.arg)
      [] w.word = "NUMCHAN" -> Compare(Default(w.cmp, "="), NumChans(u), w.arg % UIntRange)
      [] w.word = "IDENTIFIED" -> user[u].account = (w.arg = "yes")

Targets(cmd) ==
    {u \in Online : Eligible(cmd.action, u) /\ \A i \in DOMAIN cmd.query : Fits(u, cmd.query[i])}

Init == NetworkInit /\ act = "idle" /\ report = Silent

\* Every word of the query is a criterion with something to compare to, and
\* KILL and AKILL have a reason.
Understood(cmd) ==
    /\ cmd.action \in Actions
    /\ cmd.action \in {"KILL", "AKILL"} => cmd.reason = "given"
    /\ cmd.action = "AKILL" /\ cmd.flag = "!T" => cmd.minutes # 0
    /\ cmd.query # <<>>
    /\ \A i \in DOMAIN cmd.query :
          /\ cmd.query[i].arg # Missing
          /\ cmd.query[i].word \in {"REGEXP", "SERVER", "GLOB", "CHANNEL", "NICKAGE",
                                    "NUMCHAN", "IDENTIFIED"}
          /\ cmd.query[i].word = "IDENTIFIED" => cmd.query[i].arg \in {"yes", "no"}

Run(cmd) ==
    LET targets == Targets(cmd)
        hosts == {Host[u] : u \in targets}
    IN  /\ act = "idle" /\ act' = cmd.action
        /\ Understood(cmd)
        /\ report' = [matched |-> targets # {},
                      count |-> IF act' = "COUNT" THEN Cardinality(targets) ELSE 0]
        /\ IF act' = "KILL" THEN Leave(targets) ELSE UNCHANGED <<user, members>>
        /\ klines' = IF act' = "AKILL"
                     THEN [h \in DOMAIN klines \cup hosts |->
                              IF h \in hosts THEN Duration(cmd) ELSE klines[h]]
                     ELSE klines

Reply == act # "idle" /\ act' = "idle" /\ report' = Silent /\ UNCHANGED network

Next ==
    \/ act = "idle" /\ NetworkNext /\ UNCHANGED <<act, report>>
    \/ \E cmd \in Commands : Run(cmd)
    \/ Reply

Spec == Init /\ [][Next]_vars
=============================================================================
