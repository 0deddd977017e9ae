-------------------------------- MODULE Trace --------------------------------
(***************************************************************************)
(* src/src/os_trace.c: OperServ TRACE compiles a query, walks the list of  *)
(* all users and runs an action on each one that fits.  KILL takes users   *)
(* off the list, and out of the channels, while it is being walked.        *)
(* Operators named Bad... are wrong variants of the one below them.        *)
(***************************************************************************)
EXTENDS TraceNetwork, Sequences

CONSTANTS
    Commands,   \* what operators type: action, flag, minutes, reason, query
    Missing,    \* in the place of a word that is not there
    NoChannel   \* the null pointer

ASSUME CommandAssumption ==
    /\ NoChannel \notin Channels
    /\ \A cmd \in Commands : cmd.minutes \in Nat

VARIABLES
    act,      \* the action under way; "idle"; "died" when services ended
    crit,     \* the list of compiled criteria
    todo,     \* the users the loop over userlist has still to reach
    duration, \* of the k-lines that AKILL sets
    report    \* act->matched and a->matches

vars == <<user, members, klines, act, crit, todo, duration, report>>

Silent == [matched |-> FALSE, count |-> 0]

Init ==
    /\ NetworkInit
    /\ act = "idle" /\ crit = <<>> /\ todo = {} /\ duration = 0
    /\ report = Silent

\* The actions that need a reason find none without one that is closed, and
\* AKILL none behind a time that is nothing or cannot be read.
ActionPrepared(cmd) ==
    \/ cmd.action \in {"PRINT", "COUNT"}
    \/ cmd.action = "KILL" /\ cmd.reason = "given"
    \/ cmd.action = "AKILL" /\ cmd.reason = "given" /\ (cmd.flag = "!T" => cmd.minutes # 0)

Criteria == {"REGEXP", "SERVER", "GLOB", "CHANNEL", "NICKAGE", "NUMCHAN", "IDENTIFIED"}

WordPrepared(w) ==
    /\ w.word \in Criteria /\ w.arg # Missing
    /\ w.word = "IDENTIFIED" => w.arg \in {"yes", "no"}

Prepared(w, cmp, arg) == [word |-> w.word, cmp |-> cmp, arg |-> arg]

DefaultTo(cmp, default) == IF cmp = "" THEN default ELSE cmp

BadChannelFind(c) == c

\* channel_find
ChannelFind(c) == IF c \in DOMAIN members THEN c ELSE NoChannel

\* The prepare functions: a channel is kept as a pointer, a number of channels
\* as an unsigned int, and the comparisons have different defaults.
Prepare(w) ==
    CASE w.word = "CHANNEL" -> Prepared(w, w.cmp, ChannelFind(w.arg))
      [] w.word = "NICKAGE" -> Prepared(w, DefaultTo(w.cmp, "<="), w.arg)
      [] w.word = "NUMCHAN" -> Prepared(w, DefaultTo(w.cmp, "="), w.arg % UIntRange)
      [] OTHER -> Prepared(w, w.cmp, w.arg)

\* os_cmd_trace and os_cmd_trace_run up to the loop.  Where something is wrong
\* the operator is told so, and what was prepared is released: no step.
Begin(cmd) ==
    /\ act = "idle"
    /\ ActionPrepared(cmd)
    /\ cmd.query # <<>> /\ \A i \in DOMAIN cmd.query : WordPrepared(cmd.query[i])
    /\ act' = cmd.action
    /\ crit' = [i \in DOMAIN cmd.query |-> Prepare(cmd.query[i])]
    /\ todo' = Online
    /\ duration' = IF cmd.action = "AKILL" THEN Duration(cmd) ELSE 0
    /\ report' = Silent
    /\ UNCHANGED network

\* A channel that was freed after its pointer was taken
Dangling(q) == q.word = "CHANNEL" /\ q.arg \notin DOMAIN members \cup {NoChannel}

\* The exec functions of the criteria
Exec(u, q) ==
    CASE q.word \in {"REGEXP", "GLOB", "SERVER"} -> u \in q.arg
      [] q.word = "CHANNEL" -> q.arg \in DOMAIN members /\ u \in members[q.arg]
      [] q.word = "NICKAGE" -> Compare(q.cmp, user[u].age, q.arg)
      [] q.word = "NUMCHAN" -> Compare(q.cmp, NumChans(u), q.arg)
      [] q.word = "IDENTIFIED" -> user[u].account = (q.arg = "yes")

\* Reading a freed channel gives anything.
Reads(u, q) == IF Dangling(q) THEN BOOLEAN ELSE {Exec(u, q)}

\* "doit" after the inner loop
BadMayDo(u) == \E i \in DOMAIN crit : TRUE \in Reads(u, crit[i])

MayDo(u) == \A i \in DOMAIN crit : TRUE \in Reads(u, crit[i])
MaySkip(u) == \E i \in DOMAIN crit : FALSE \in Reads(u, crit[i])

BadKillUser(u) ==
    /\ user' = [v \in Online \ {u} |-> user[v]]
    /\ UNCHANGED members

\* kill_user of the services core: the user leaves the network at once.
KillUser(u) == Leave({u})

\* The exec functions of the actions
ActOn(u) ==
    IF Eligible(act, u)
    THEN /\ report' = [matched |-> TRUE,
                       count |-> report.count + IF act = "COUNT" THEN 1 ELSE 0]
         /\ IF act = "KILL" THEN KillUser(u) ELSE UNCHANGED <<user, members>>
         /\ klines' = IF act = "AKILL" THEN Put(klines, Host[u], duration) ELSE klines
    ELSE UNCHANGED <<network, report>>

\* One turn of the loop over userlist.  KILL, which frees its user, takes care
\* of no other: the walk is safe against the removal of the current one only.
Turn(u) ==
    /\ u \in todo /\ todo' = todo \ {u}
    /\ \/ MayDo(u) /\ ActOn(u)
       \/ MaySkip(u) /\ UNCHANGED <<network, report>>
    /\ UNCHANGED <<act, crit, duration>>

\* Reading a freed channel can also be the end of services.
Fault(u) ==
    /\ u \in todo
    /\ \E i \in DOMAIN crit :
          /\ Dangling(crit[i])
          /\ \A j \in 1 .. i - 1 : TRUE \in Reads(u, crit[j])
    /\ act' = "died" /\ crit' = <<>> /\ todo' = {} /\ duration' = 0
    /\ report' = Silent
    /\ UNCHANGED network

\* The cleanup functions, and the reply
Finish ==
    /\ act \in Actions /\ todo = {}
    /\ act' = "idle" /\ crit' = <<>> /\ duration' = 0 /\ report' = Silent
    /\ UNCHANGED <<network, todo>>

\* Services are single-threaded: the network changes between commands only.
Next ==
    \/ act \notin Actions /\ NetworkNext /\ UNCHANGED <<act, crit, todo, duration, report>>
    \/ \E cmd \in Commands : Begin(cmd)
    \/ \E u \in Users : Turn(u) \/ Fault(u)
    \/ Finish

Spec == Init /\ [][Next]_vars

(***************************************************************************)
(* Properties.                                                             *)
(***************************************************************************)
\* Every variable has its type; only users who are online are in channels and
\* still to be visited, and only permanent channels are empty.
TypeOK ==
    /\ Internal \subseteq Online /\ Online \subseteq Users
    /\ user \in [Online -> UserRecord]
    /\ DOMAIN members \subseteq Channels /\ Permanent \subseteq DOMAIN members
    /\ members \in [DOMAIN members -> SUBSET Online]
    /\ \A c \in DOMAIN members : members[c] = {} => c \in Permanent
    /\ DOMAIN klines \subseteq Hosts /\ klines \in [DOMAIN klines -> Nat]
    /\ act \in Actions \cup {"idle", "died"}
    /\ todo \subseteq Online
    /\ act \notin Actions => todo = {} /\ crit = <<>> /\ report = Silent
    /\ duration \in Nat /\ report \in [matched : BOOLEAN, count : Nat]

\* A running command holds a pointer to a freed channel only when it is KILL
\* and has killed somebody: PRINT, COUNT and AKILL are always exact.
OnlyKillsDangle ==
    \A i \in DOMAIN crit :
        Dangling(crit[i]) => act = "KILL" /\ report.matched

\* Whom the rest of the loop will act upon, if nothing is misread
Doomed == {u \in todo : Eligible(act, u) /\ \A i \in DOMAIN crit : Exec(u, crit[i])}

\* What the loop has done and will do
AsUser == IF act = "KILL" THEN [u \in Online \ Doomed |-> user[u]] ELSE user
AsMembers == IF act = "KILL" THEN Without(Doomed) ELSE members
AsKlines ==
    IF act = "AKILL"
    THEN [h \in DOMAIN klines \cup {Host[u] : u \in Doomed} |->
             IF h \in DOMAIN klines THEN klines[h] ELSE duration]
    ELSE klines
AsAct == IF act = "died" THEN "idle" ELSE act
AsReport == [matched |-> report.matched \/ Doomed # {},
             count |-> report.count + IF act = "COUNT" THEN Cardinality(Doomed) ELSE 0]

Once == INSTANCE TraceOnce WITH user <- AsUser, members <- AsMembers,
            klines <- AsKlines, act <- AsAct, report <- AsReport

\* Somebody is acted upon because a freed channel was read.
Misread ==
    \E u \in todo :
        /\ Turn(u)
        /\ \E i \in DOMAIN crit : Dangling(crit[i])
        /\ \A i \in DOMAIN crit : Dangling(crit[i]) \/ Exec(u, crit[i])

\* Although users go and channels are freed while it runs, and hosts are banned
\* that later users share, TRACE acts as if on everybody at once; only reading
\* a freed channel can make it do otherwise.
AtOnce == [][Once!Next \/ UNCHANGED Once!vars \/ Misread]_vars
=============================================================================
