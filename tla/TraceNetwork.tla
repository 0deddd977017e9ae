---------------------------- MODULE TraceNetwork ----------------------------
(***************************************************************************)
(* The network as OperServ TRACE (src/src/os_trace.c) finds it, and whom   *)
(* its actions pass over.  The network itself is kept by the services core.*)
(***************************************************************************)
EXTENDS Integers, FiniteSets, Maps

CONSTANTS
    Users, Channels, Hosts,
    Host,        \* the host of each user
    Ages,        \* seconds since a nick was taken; < 0 by a clock ahead of ours
    Internal,    \* services' own clients
    Ircops,      \* users who are IRC operators
    Sopers,      \* users whose account is a services operator's
    Protected,   \* 127.0.0.1 and the host of services
    Permanent,   \* channels that outlive their last member
    KlineTime,   \* kline_time of the configuration
    UIntRange    \* 2^32 for an unsigned int

ASSUME NetworkAssumption ==
    /\ Host \in [Users -> Hosts]
    /\ Ages \subseteq Int
    /\ Internal \subseteq Users /\ Permanent \subseteq Channels
    /\ IsFiniteSet(Channels) /\ IsFiniteSet(Users)
    /\ KlineTime \in Nat
    /\ UIntRange \in Nat \ {0}

VARIABLES
    user,      \* the users on the network: age of the nick, logged in or not
    members,   \* the channels that exist and who is in them
    klines     \* host -> duration of its k-line, 0 for a permanent one

network == <<user, members, klines>>

UserRecord == [age : Ages, account : BOOLEAN]

Online == DOMAIN user

\* Channels without their members in gone, and without those this empties
Without(gone) ==
    [c \in {d \in DOMAIN members : d \in Permanent \/ members[d] \ gone # {}}
        |-> members[c] \ gone]

Leave(gone) ==
    /\ user' = [u \in Online \ gone |-> user[u]]
    /\ members' = Without(gone)

NetworkInit ==
    /\ user \in [Internal -> {r \in UserRecord : ~r.account}]
    /\ members = [c \in Permanent |-> {}]
    /\ klines = EmptyMap

Connect(u, age) ==
    /\ u \notin Online /\ Host[u] \notin DOMAIN klines
    /\ user' = Put(user, u, [age |-> age, account |-> FALSE])
    /\ UNCHANGED <<members, klines>>

Quit(u) == u \in Online \ Internal /\ Leave({u}) /\ UNCHANGED klines

JoinChannel(u, c) ==
    /\ u \in Online
    /\ members' = Put(members, c,
                      {u} \cup (IF c \in DOMAIN members THEN members[c] ELSE {}))
    /\ UNCHANGED <<user, klines>>

Part(u, c) ==
    /\ c \in DOMAIN members /\ u \in members[c]
    /\ members' = IF c \in Permanent \/ members[c] # {u}
                  THEN [members EXCEPT ![c] = @ \ {u}] ELSE Del(members, c)
    /\ UNCHANGED <<user, klines>>

Login(u) ==
    /\ u \in Online \ Internal
    /\ user' = [user EXCEPT ![u].account = TRUE]
    /\ UNCHANGED <<members, klines>>

\* A k-line expires, or an operator removes it.
KlineEnds(h) ==
    /\ h \in DOMAIN klines
    /\ klines' = Del(klines, h)
    /\ UNCHANGED <<user, members>>

NetworkNext ==
    \/ \E u \in Users, age \in Ages : Connect(u, age)
    \/ \E u \in Users : Quit(u) \/ Login(u)
    \/ \E u \in Users, c \in Channels : JoinChannel(u, c) \/ Part(u, c)
    \/ \E h \in Hosts : KlineEnds(h)

NumChans(u) == Cardinality({c \in DOMAIN members : u \in members[c]})

Compare(cmp, a, b) ==
    CASE cmp = "<" -> a < b
      [] cmp = "<=" -> a <= b
      [] cmp = ">" -> a > b
      [] cmp = ">=" -> a >= b
      [] cmp = "=" -> a = b

Actions == {"PRINT", "COUNT", "KILL", "AKILL"}

\* trace_akill_prepare: the duration of the k-lines; !P is for good
Duration(cmd) ==
    IF cmd.flag = "!P" THEN 0 ELSE IF cmd.flag = "!T" THEN cmd.minutes ELSE KlineTime

\* is_ircop, and is_soper of the account
Exempt(u) == u \in Ircops \/ (u \in Sopers /\ user[u].account)

\* The early returns of trace_print_exec, trace_count_exec, trace_kill_exec and
\* trace_akill_exec
Eligible(a, u) ==
    /\ u \notin Internal
    /\ a \in {"KILL", "AKILL"} => ~Exempt(u)
    /\ a = "AKILL" => Host[u] \notin Protected \cup DOMAIN klines
=============================================================================
