------------------------------ MODULE JoinMon ------------------------------
(***************************************************************************)
(* src/src/os_joinmon.c: patterns of nicks whose joins are logged, saved   *)
(* in rows of type JM.  The module cannot be unloaded.                     *)
(* Operators named Bad... are wrong variants of the one below them.        *)
(***************************************************************************)
EXTENDS Integers, Sequences, Process

CONSTANT Patterns

VARIABLES
    monlist,     \* os_monlist: patterns and where their reasons are
    jmRows,      \* what the database file has of it
    unreasoned   \* patterns added without a reason since services started

jmVars == <<monlist, jmRows, unreasoned>>

JoinMonInit == monlist = <<>> /\ jmRows = <<>> /\ unreasoned = {}

Monitored == {monlist[i].user : i \in DOMAIN monlist}

BadAddMonitor(p, reason) ==
    /\ alive
    /\ Len(monlist) < 3
    /\ monlist' = Append(monlist, [user |-> p, reason |-> reason])
    /\ unreasoned' = IF reason = "constant" THEN unreasoned \cup {p} ELSE unreasoned \ {p}
    /\ UNCHANGED <<alive, jmRows>>

\* os_cmd_joinmon, ADD: without a reason the entry gets a string constant.
AddMonitor(p, reason) ==
    /\ alive /\ p \notin Monitored
    /\ monlist' = Append(monlist, [user |-> p, reason |-> reason])
    /\ unreasoned' = IF reason = "constant" THEN unreasoned \cup {p} ELSE unreasoned \ {p}
    /\ UNCHANGED <<alive, jmRows>>

\* os_cmd_joinmon, DEL: all of the entry is freed, the constant too, which ends
\* the process or harms what only later shows.
DelMonitor(p) ==
    /\ alive
    /\ \E i \in DOMAIN monlist :
          /\ monlist[i].user = p
          /\ monlist' = [j \in 1 .. Len(monlist) - 1 |-> monlist[IF j < i THEN j ELSE j + 1]]
          /\ alive' \in IF monlist[i].reason = "constant" THEN BOOLEAN ELSE {TRUE}
    /\ unreasoned' = unreasoned \ {p}
    /\ UNCHANGED jmRows

\* write_jmdb
SaveMonitors ==
    /\ alive
    /\ jmRows' = monlist
    /\ UNCHANGED <<alive, monlist, unreasoned>>

\* db_h_jm copies every field of the row.
Restored(rows) == [i \in DOMAIN rows |-> [rows[i] EXCEPT !.reason = "copy"]]

\* Services end, here or in DEL, and start again from the database.
RestartServices ==
    /\ alive' = TRUE
    /\ monlist' = Restored(jmRows)
    /\ unreasoned' = {}
    /\ UNCHANGED jmRows

JoinMonNext ==
    \/ \E p \in Patterns :
          \/ \E reason \in {"copy", "constant"} : AddMonitor(p, reason)
          \/ DelMonitor(p)
    \/ SaveMonitors
    \/ RestartServices

(***************************************************************************)
(* Properties.                                                             *)
(***************************************************************************)
\* watch_user_joins: the first pattern that matches is logged, the others not.
LoggedFor(matching) ==
    {i \in DOMAIN monlist :
        monlist[i].user \in matching /\ \A j \in 1 .. i - 1 : monlist[j].user \notin matching}

\* A pattern is monitored at most once, so one DEL ends it, and a join is logged
\* at most once.
JoinMonTypeOK ==
    /\ unreasoned \subseteq Monitored
    /\ \A i, j \in DOMAIN monlist : monlist[i].user = monlist[j].user => i = j
    /\ \A matching \in SUBSET Patterns : \A i, j \in LoggedFor(matching) : i = j
=============================================================================
