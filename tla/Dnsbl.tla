-------------------------------- MODULE Dnsbl --------------------------------
(***************************************************************************)
(* src/src/dnsbl.c: users who connect are looked up in DNS blacklists, and *)
(* an answer that lists one leads to the configured action.  Answers come  *)
(* later and hold two pointers, to the user and to the blacklist, that     *)
(* nothing keeps alive.                                                    *)
(* Operators named Bad... are wrong variants of the one below them.        *)
(***************************************************************************)
EXTENDS Naturals, Maps

CONSTANTS
    Structs,        \* the places in memory where a user_t can be
    Ips,
    IPv4,           \* those that are written as four numbers
    Blacklists,
    Listed,         \* what DNS answers: <<ip, blacklist>>
    Queries,        \* queries that can be under way at once (a bound)
    Exemptible,     \* the addresses given to DNSBLEXEMPT
    ConfAction      \* dnsbl_action in the configuration, or NoAction

None == "none"    \* action is NULL
Actions == {"report", "kline"}    \* SNOOP and NOTIFY only write

ASSUME DnsblAssumption ==
    /\ Listed \subseteq Ips \X Blacklists
    /\ IPv4 \subseteq Ips
    /\ Exemptible \subseteq Ips
    /\ ConfAction \in Actions \cup {None}

VARIABLES
    module,      \* "loaded", "unloaded", or "crashed" with all of services
    action,
    exempts,     \* dnsbl_elist
    rows,        \* the rows of the database written from it: <<type, ip>>
    blacklists,  \* blacklist_list
    mem,         \* the structs in use, and the user in each
    query        \* the queries not answered yet

vars == <<module, action, exempts, rows, blacklists, mem, query>>

Online == DOMAIN mem

\* sent is UF_KLINESENT; bans counts the k-lines for this connection
UserRecord == [ip : Ips, sent : BOOLEAN, bans : Nat]

\* u and list are pointers, asked the address in the query; stale and purged
\* say that what the pointers point to has been freed since it was sent.
QueryRecord == [u : Structs, asked : Ips, list : Blacklists,
                stale : BOOLEAN, purged : BOOLEAN]

NewUser(ip) == [ip |-> ip, sent |-> FALSE, bans |-> 0]

Init ==
    /\ module = "loaded" /\ action = ConfAction
    /\ exempts = {} /\ rows = {}
    /\ blacklists \in SUBSET Blacklists
    /\ mem = EmptyMap /\ query = EmptyMap

Loaded == module = "loaded"

Crash == module' = "crashed" /\ UNCHANGED mem

\* kline_add, guarded by the flag that all the modules that ban share
Ban(u) == IF u.sent THEN u ELSE [u EXCEPT !.sent = TRUE, !.bans = u.bans + 1]

Begun(s, asked, list) ==
    [u |-> s, asked |-> asked, list |-> list, stale |-> FALSE, purged |-> FALSE]

BadAsked(ip) == Ips

\* sscanf finds the four numbers of an IPv4 address.  Of another address it
\* leaves some unset: the query is about whatever they are, which may be what
\* an earlier call left on the stack.
Asked(ip) == IF ip \in IPv4 THEN {ip} ELSE Ips

\* lookup_blacklists: one query for each list
Lookup(s, ip) ==
    \E ids \in SUBSET (Queries \ DOMAIN query) :
    \E to \in [ids -> blacklists], asked \in [ids -> Asked(ip)] :
        /\ \A l \in blacklists : \E q \in ids : to[q] = l
        /\ \A q, r \in ids : to[q] = to[r] => q = r
        /\ query' = [q \in DOMAIN query \cup ids |->
                        IF q \in ids THEN Begun(s, asked[q], to[q])
                        ELSE query[q]]

Checked(ip) == action # None /\ ip \notin exempts

\* A user connects: check_dnsbls.  The struct is any that is free, and u is
\* what other hooks of the event have made of the user.
Connect(s, u) ==
    /\ module # "crashed" /\ s \notin Online
    /\ mem' = Put(mem, s, u)
    /\ IF Loaded /\ Checked(u.ip) THEN Lookup(s, u.ip) ELSE UNCHANGED query
    /\ UNCHANGED <<module, action, exempts, rows, blacklists>>

\* The user leaves and the struct is freed.  No query is taken back
\* (abort_blacklist_queries is under #if 0).
Abandon(s) == [q \in DOMAIN query |->
                  [query[q] EXCEPT !.stale = @ \/ query[q].u = s]]

Quit(s) ==
    /\ module # "crashed" /\ s \in Online
    /\ mem' = Del(mem, s)
    /\ query' = Abandon(s)
    /\ UNCHANGED <<module, action, exempts, rows, blacklists>>

\* dnsbl_hit, with the user who is in the struct by now.  What it writes into a
\* struct that is free is overwritten when the struct is used again.
Hit(s) ==
    IF action = None
    THEN Crash    \* strcasecmp("SNOOP", NULL)
    ELSE /\ mem' = IF action = "kline" /\ s \in Online
                   THEN [mem EXCEPT ![s] = Ban(@)] ELSE mem
         /\ UNCHANGED module

\* "only accept 127.x.y.z as a listing"
Listing(q) == <<query[q].asked, query[q].list>> \in Listed

\* blacklist_dns_callback.  With a struct that is free the code finds what was
\* left there or something else; with any freed memory it may crash.
Answer(q) ==
    /\ Loaded /\ q \in DOMAIN query
    /\ query' = Del(query, q)
    /\ \/ Listing(q) /\ Hit(query[q].u)
       \/ /\ ~Listing(q) \/ query[q].u \notin Online
          /\ UNCHANGED <<module, mem>>
       \/ (query[q].stale \/ query[q].purged) /\ Crash
    /\ UNCHANGED <<action, exempts, rows, blacklists>>

\* blacklist_dns_callback without a reply
NoAnswer(q) ==
    /\ Loaded /\ q \in DOMAIN query
    /\ query' = Del(query, q)
    /\ UNCHANGED <<module, action, exempts, rows, blacklists, mem>>

\* DNSBLSCAN does not look at the action or the exempts.
Scan(s) ==
    /\ Loaded /\ s \in Online
    /\ Lookup(s, mem[s].ip)
    /\ UNCHANGED <<module, action, exempts, rows, blacklists, mem>>

\* SET DNSBLACTION
SetAction(a) ==
    /\ Loaded /\ action' = a
    /\ UNCHANGED <<module, exempts, rows, blacklists, mem, query>>

\* DNSBLEXEMPT ADD and DEL
ExemptAdd(ip) ==
    /\ Loaded /\ ip \notin exempts
    /\ exempts' = exempts \cup {ip}
    /\ UNCHANGED <<module, action, rows, blacklists, mem, query>>

ExemptDel(ip) ==
    /\ Loaded /\ ip \in exempts
    /\ exempts' = exempts \ {ip}
    /\ UNCHANGED <<module, action, rows, blacklists, mem, query>>

\* REHASH: dnsbl_config_purge frees every blacklist, whatever its refcount, and
\* dnsbl_config_handler makes those of the new configuration.
Rehash(conf) ==
    /\ Loaded /\ blacklists' = conf
    /\ action' \in {action, ConfAction}
    /\ query' = [q \in DOMAIN query |-> [query[q] EXCEPT !.purged = TRUE]]
    /\ UNCHANGED <<module, exempts, rows, mem>>

\* write_dnsbl_exempt_db
Save ==
    /\ Loaded /\ rows' = {<<"BW", ip>> : ip \in exempts}
    /\ UNCHANGED <<module, action, exempts, blacklists, mem, query>>

BadDropQueries == UNCHANGED query

\* mowgli_dns_destroy
DropQueries == query' = EmptyMap

\* mod_deinit and mod_init.  The image is fresh when loaded again, and the
\* configuration is read again; the database is not.
Unload ==
    /\ Loaded /\ module' = "unloaded"
    /\ DropQueries
    /\ action' = None /\ exempts' = {} /\ blacklists' = {}
    /\ UNCHANGED <<rows, mem>>

Load(conf) ==
    /\ module = "unloaded" /\ module' = "loaded"
    /\ action' = ConfAction /\ blacklists' = conf
    /\ UNCHANGED <<exempts, rows, mem, query>>

\* Services start again with what the database has: db_h_ble reads the rows of
\* type BLE.  The users of the network are introduced again.
Restart(conf) ==
    /\ module' = "loaded" /\ action' = ConfAction
    /\ exempts' = {ip \in Ips : <<"BLE", ip>> \in rows}
    /\ blacklists' = conf
    /\ mem' = EmptyMap /\ query' = EmptyMap
    /\ UNCHANGED rows

Command ==
    \/ \E s \in Structs : Scan(s)
    \/ \E a \in Actions \cup {None} : SetAction(a)
    \/ \E ip \in Exemptible : ExemptAdd(ip) \/ ExemptDel(ip)

\* Everything but connections and restarts, which other modules see too: the
\* next-state relation is UserBans!BansNext.
Others ==
    \/ \E s \in Structs : Quit(s)
    \/ \E q \in Queries : Answer(q) \/ NoAnswer(q)
    \/ Command
    \/ Save
    \/ Unload
    \/ \E conf \in SUBSET Blacklists : Rehash(conf) \/ Load(conf)

(***************************************************************************)
(* Properties.                                                             *)
(***************************************************************************)
\* Every variable has its type, and no query is under way whose callback has
\* been unloaded.
TypeOK ==
    /\ module \in {"loaded", "unloaded", "crashed"}
    /\ action \in Actions \cup {None}
    /\ exempts \subseteq Ips /\ rows \subseteq {"BW"} \X Ips
    /\ blacklists \subseteq Blacklists
    /\ Online \subseteq Structs /\ mem \in [Online -> UserRecord]
    /\ DOMAIN query \subseteq Queries
    /\ query \in [DOMAIN query -> QueryRecord]
    /\ module = "unloaded" => query = EmptyMap

\* However many lists have the user, however often the user is scanned, and
\* whatever the other modules that ban do meanwhile, one connection is k-lined
\* once at most.
OneBanPerConnection == \A s \in Online : mem[s].bans = IF mem[s].sent THEN 1 ELSE 0

InSomeList(ip) == \E l \in Blacklists : <<ip, l>> \in Listed

\* "k-lining ... who is listed in DNS Blacklist": only the answer to a query
\* that has outlived its user can ban anyone but the user it was sent for; and
\* who is not listed is banned only by such an answer or by one about the unset
\* numbers of an address that is not IPv4.  Rehashes, reloads and scans do not
\* lead there.
OnlyStaleOrUnsetHurt ==
    [][\A q \in DOMAIN query : Answer(q) /\ ~query[q].stale =>
          \A s \in Online : mem'[s].bans > mem[s].bans =>
              /\ s = query[q].u
              /\ mem[s].ip \in IPv4 => InSomeList(mem[s].ip)]_vars

\* An exempt user who is neither scanned nor given the struct of another is not
\* looked up: whatever is under way for someone online was sent for them, and
\* about their address if it is IPv4.
QueriesAreForTheirUser ==
    \A q \in DOMAIN query :
        ~query[q].stale => /\ query[q].u \in Online
                           /\ query[q].asked \in Asked(mem[query[q].u].ip)
=============================================================================
