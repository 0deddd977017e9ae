---------------------------- MODULE UserBansProofs ----------------------------
(***************************************************************************)
(* Proofs about UserBans and Dnsbl.  The invariant says that the flag and  *)
(* the number of k-lines of a connection agree, and that a query whose user*)
(* has not left points to that user; every action of dnsbl.c preserves it  *)
(* whatever the other modules have made of the user records.               *)
(***************************************************************************)
EXTENDS UserBans, TLAPS

Consistent(u) == u.bans = IF u.sent THEN 1 ELSE 0

IInv == TypeOK /\ OneBanPerConnection /\ QueriesAreForTheirUser

\* The guarded ban keeps a user record one and consistent, and does not change
\* its address.
LEMMA BanFacts ==
    ASSUME NEW u \in UserRecord, Consistent(u)
    PROVE  Ban(u) \in UserRecord /\ Consistent(Ban(u)) /\ Ban(u).ip = u.ip
<1>1. u.sent \in BOOLEAN /\ u.bans \in Nat /\ u.ip \in Ips
  BY DEF UserRecord
<1>2. CASE u.sent
  BY <1>2 DEF Ban
<1>3. CASE ~u.sent
  <2>1. Ban(u) = [u EXCEPT !.sent = TRUE, !.bans = u.bans + 1]
    BY <1>3 DEF Ban
  <2>2. Ban(u).sent = TRUE /\ Ban(u).bans = u.bans + 1 /\ Ban(u).ip = u.ip
    BY <2>1 DEF UserRecord
  <2>3. u.bans = 0
    BY <1>3 DEF Consistent
  <2>4. Ban(u) = [ip |-> u.ip, sent |-> TRUE, bans |-> u.bans + 1]
    BY <2>1, <1>1 DEF UserRecord
  <2>5. Ban(u) \in UserRecord
    BY <2>4, <1>1 DEF UserRecord
  <2> QED BY <2>2, <2>3, <2>5 DEF Consistent
<1> QED BY <1>1, <1>2, <1>3

LEMMA NewUserFacts ==
    ASSUME NEW ip \in Ips
    PROVE  NewUser(ip) \in UserRecord /\ Consistent(NewUser(ip)) /\ NewUser(ip).ip = ip
BY DEF NewUser, Consistent, UserRecord

LEMMA InitIInv == Init => IInv
<1> SUFFICES ASSUME Init PROVE IInv
  OBVIOUS
<1>1. query = EmptyMap /\ DOMAIN query = {}
  BY DEF Init, EmptyMap
<1>2. Online = {} /\ mem \in [Online -> UserRecord] /\ OneBanPerConnection
  BY DEF Init, EmptyMap, Online, OneBanPerConnection
<1>3. TypeOK
  BY <1>1, <1>2, DnsblAssumption DEF Init, TypeOK
<1>4. QueriesAreForTheirUser
  BY <1>1 DEF QueriesAreForTheirUser
<1> QED BY <1>2, <1>3, <1>4 DEF IInv

\* Removing a query keeps what is said of all queries.
LEMMA DelQuery ==
    ASSUME TypeOK, NEW q, query' = Del(query, q)
    PROVE  /\ DOMAIN query' \subseteq DOMAIN query
           /\ \A r \in DOMAIN query' : query'[r] = query[r]
           /\ query' \in [DOMAIN query' -> QueryRecord]
BY DEF Del, TypeOK

\* A look-up adds queries for the struct it is about and leaves the others.
LEMMA LookupFacts ==
    ASSUME TypeOK, NEW s \in Structs, NEW ip \in Ips, Lookup(s, ip)
    PROVE  /\ DOMAIN query' \subseteq Queries
           /\ query' \in [DOMAIN query' -> QueryRecord]
           /\ \A q \in DOMAIN query' :
                 \/ q \in DOMAIN query /\ query'[q] = query[q]
                 \/ query'[q].u = s /\ query'[q].asked \in Asked(ip)
<1>0. PICK ids \in SUBSET (Queries \ DOMAIN query) :
         \E to \in [ids -> blacklists], asked \in [ids -> Asked(ip)] :
            query' = [q \in DOMAIN query \cup ids |->
                         IF q \in ids THEN Begun(s, asked[q], to[q])
                         ELSE query[q]]
  BY DEF Lookup
<1>1. PICK to \in [ids -> blacklists], asked \in [ids -> Asked(ip)] :
         query' = [q \in DOMAIN query \cup ids |->
                      IF q \in ids THEN Begun(s, asked[q], to[q])
                      ELSE query[q]]
  BY <1>0
<1>2. DOMAIN query' = DOMAIN query \cup ids
  BY <1>1
<1>3. ASSUME NEW q \in ids
      PROVE  /\ query'[q] \in QueryRecord
             /\ query'[q].u = s /\ query'[q].asked \in Asked(ip)
  <2>1. query'[q] = Begun(s, asked[q], to[q])
    BY <1>1, <1>2
  <2>2. to[q] \in Blacklists /\ asked[q] \in Asked(ip) /\ Asked(ip) \subseteq Ips
    BY <1>3 DEF TypeOK, Asked
  <2> QED BY <2>1, <2>2 DEF Begun, QueryRecord
<1>4. ASSUME NEW q \in DOMAIN query PROVE query'[q] = query[q] /\ query[q] \in QueryRecord
  BY <1>1, <1>2 DEF TypeOK
<1> QED BY <1>1, <1>2, <1>3, <1>4 DEF TypeOK

LEMMA ConnectKeepsIInv ==
    ASSUME IInv, NEW s \in Structs, NEW u \in UserRecord, Consistent(u), Connect(s, u)
    PROVE  IInv'
<1> USE DEF IInv
<1>1. u.ip \in Ips
  BY DEF UserRecord
<1>2. /\ mem' = Put(mem, s, u) /\ s \notin Online
      /\ Online' = Online \cup {s} /\ mem'[s] = u
      /\ \A t \in Online : mem'[t] = mem[t]
      /\ UNCHANGED <<module, action, exempts, rows, blacklists>>
  BY DEF Connect, Put, Online
<1>3. mem' \in [Online' -> UserRecord] /\ OneBanPerConnection'
  <2>1. mem' = [t \in Online' |-> mem'[t]]
    BY <1>2 DEF Put, Online
  <2> QED BY <2>1, <1>2 DEF TypeOK, OneBanPerConnection, Consistent
<1>4. /\ DOMAIN query' \subseteq Queries
      /\ query' \in [DOMAIN query' -> QueryRecord]
      /\ \A q \in DOMAIN query' :
            \/ q \in DOMAIN query /\ query'[q] = query[q]
            \/ query'[q].u = s /\ query'[q].asked \in Asked(u.ip)
  <2>1. CASE Loaded /\ Checked(u.ip)
    BY <2>1, <1>1, LookupFacts DEF Connect
  <2>2. CASE ~(Loaded /\ Checked(u.ip))
    BY <2>2 DEF Connect, TypeOK
  <2> QED BY <2>1, <2>2
<1>5. module = "unloaded" => query' = EmptyMap
  BY DEF Connect, Loaded, TypeOK
<1>6. TypeOK'
  BY <1>2, <1>3, <1>4, <1>5 DEF TypeOK
<1>7. QueriesAreForTheirUser'
  <2> SUFFICES ASSUME NEW q \in DOMAIN query', ~query'[q].stale
               PROVE  /\ query'[q].u \in Online'
                      /\ query'[q].asked \in Asked(mem'[query'[q].u].ip)
    BY DEF QueriesAreForTheirUser
  <2>1. CASE query'[q].u = s /\ query'[q].asked \in Asked(u.ip)
    BY <2>1, <1>2
  <2>2. CASE q \in DOMAIN query /\ query'[q] = query[q]
    BY <2>2, <1>2 DEF QueriesAreForTheirUser, TypeOK, QueryRecord
  <2> QED BY <2>1, <2>2, <1>4
<1> QED BY <1>3, <1>6, <1>7

\* Changing some user records without touching addresses, with a ban that is
\* guarded, and taking queries away, keeps the invariant.
LEMMA SoftStep ==
    ASSUME IInv, mem' \in [Online -> UserRecord], Online' = Online,
           \A s \in Online : Consistent(mem'[s]) /\ mem'[s].ip = mem[s].ip,
           UNCHANGED <<exempts, rows, blacklists>>,
           action' = action,
           module' \in {module, "crashed"},
           DOMAIN query' \subseteq DOMAIN query,
           query' \in [DOMAIN query' -> QueryRecord],
           \A q \in DOMAIN query' : query'[q] = query[q],
           module' = "unloaded" => query' = EmptyMap
    PROVE  IInv'
<1> USE DEF IInv
<1>1. TypeOK'
  BY DEF TypeOK
<1>2. OneBanPerConnection'
  BY DEF OneBanPerConnection, Consistent
<1>3. QueriesAreForTheirUser'
  BY DEF QueriesAreForTheirUser, TypeOK, QueryRecord
<1> QED BY <1>1, <1>2, <1>3

LEMMA OthersKeepIInv ==
    ASSUME IInv, Others
    PROVE  IInv'
<1> USE DEF IInv
<1>1. ASSUME NEW s \in Structs, Quit(s) PROVE IInv'
  <2>1. query' = [q \in DOMAIN query |-> [query[q] EXCEPT !.stale = @ \/ query[q].u = s]]
    BY <1>1 DEF Quit, Abandon
  <2>2. ASSUME NEW q \in DOMAIN query
        PROVE  /\ query'[q] \in QueryRecord
               /\ query'[q].u = query[q].u /\ query'[q].asked = query[q].asked
               /\ ~query'[q].stale => ~query[q].stale /\ query[q].u # s
    BY <2>1 DEF TypeOK, QueryRecord
  <2>3. query = EmptyMap => query' = EmptyMap
    BY <2>1 DEF EmptyMap
  <2>0. /\ Online' = Online \ {s} /\ mem' = [t \in Online' |-> mem[t]]
        /\ \A t \in Online' : mem'[t] = mem[t]
    BY <1>1 DEF Quit, Del, Online
  <2>4. TypeOK'
    <3>1. Online' \subseteq Structs /\ mem' \in [Online' -> UserRecord]
      BY <2>0 DEF TypeOK
    <3> QED BY <1>1, <2>1, <2>2, <2>3, <3>1 DEF Quit, TypeOK
  <2>5. QueriesAreForTheirUser'
    <3> SUFFICES ASSUME NEW q \in DOMAIN query', ~query'[q].stale
                 PROVE  /\ query'[q].u \in Online'
                        /\ query'[q].asked \in Asked(mem'[query'[q].u].ip)
      BY DEF QueriesAreForTheirUser
    <3>1. q \in DOMAIN query /\ ~query[q].stale
      BY <2>1, <2>2
    <3>2. /\ query[q].u \in Online
          /\ query[q].asked \in Asked(mem[query[q].u].ip)
      BY <3>1 DEF QueriesAreForTheirUser
    <3>3. query[q].u \in Online' /\ mem'[query[q].u] = mem[query[q].u]
      BY <2>0, <2>2, <3>1, <3>2
    <3> QED BY <2>2, <3>1, <3>2, <3>3
  <2>6. OneBanPerConnection'
    BY <2>0 DEF OneBanPerConnection
  <2> QED BY <2>4, <2>5, <2>6
<1>2. ASSUME NEW q \in Queries, Answer(q) \/ NoAnswer(q) PROVE IInv'
  <2>1. /\ q \in DOMAIN query /\ query' = Del(query, q) /\ Loaded
        /\ UNCHANGED <<action, exempts, rows, blacklists>>
    BY <1>2 DEF Answer, NoAnswer
  <2>3. /\ mem' \in [Online -> UserRecord] /\ Online' = Online
        /\ \A s \in Online : Consistent(mem'[s]) /\ mem'[s].ip = mem[s].ip
        /\ module' \in {module, "crashed"}
    <3>1. CASE UNCHANGED mem /\ module' \in {module, "crashed"}
      BY <3>1 DEF TypeOK, OneBanPerConnection, Consistent, Online
    <3>2. CASE /\ mem' = [mem EXCEPT ![query[q].u] = Ban(mem[query[q].u])]
               /\ query[q].u \in Online /\ module' = module
      <4>1. \A s \in Online : mem[s] \in UserRecord /\ Consistent(mem[s])
        BY DEF TypeOK, OneBanPerConnection, Consistent
      <4>2. mem = [s \in Online |-> mem[s]]
        BY DEF TypeOK
      <4>3. Online' = Online
        BY <3>2 DEF Online
      <4> QED BY <3>2, <4>1, <4>2, <4>3, BanFacts
    <3> QED BY <1>2, <3>1, <3>2 DEF Answer, NoAnswer, Hit, Crash, TypeOK
  <2> QED BY <2>1, <2>3, DelQuery, SoftStep DEF Loaded
<1>3. ASSUME NEW s \in Structs, Scan(s) PROVE IInv'
  <2>1. s \in Online /\ mem[s].ip \in Ips /\ Online' = Online
    BY <1>3 DEF Scan, TypeOK, UserRecord, Online
  <2>2. /\ DOMAIN query' \subseteq Queries
        /\ query' \in [DOMAIN query' -> QueryRecord]
        /\ \A q \in DOMAIN query' :
              \/ q \in DOMAIN query /\ query'[q] = query[q]
              \/ query'[q].u = s /\ query'[q].asked \in Asked(mem[s].ip)
    BY <1>3, <2>1, LookupFacts DEF Scan
  <2>3. TypeOK'
    BY <1>3, <2>1, <2>2 DEF Scan, Loaded, TypeOK
  <2>4. QueriesAreForTheirUser'
    BY <1>3, <2>1, <2>2 DEF Scan, QueriesAreForTheirUser
  <2>5. OneBanPerConnection'
    BY <1>3, <2>1 DEF Scan, OneBanPerConnection
  <2> QED BY <2>3, <2>4, <2>5
<1>4. ASSUME \/ \E a \in Actions \cup {None} : SetAction(a)
             \/ \E ip \in Exemptible : ExemptAdd(ip) \/ ExemptDel(ip)
             \/ Save
      PROVE  IInv'
  <2>1. UNCHANGED <<module, blacklists, mem, query>> /\ Online' = Online
    BY <1>4 DEF SetAction, ExemptAdd, ExemptDel, Save, Online
  <2>2. /\ action' \in Actions \cup {None}
        /\ exempts' \subseteq Ips
        /\ rows' \subseteq {"BW"} \X Ips
    BY <1>4, DnsblAssumption DEF SetAction, ExemptAdd, ExemptDel, Save, TypeOK
  <2> QED BY <2>1, <2>2 DEF TypeOK, OneBanPerConnection, QueriesAreForTheirUser
<1>5. ASSUME Unload PROVE IInv'
  <2>1. query' = EmptyMap /\ DOMAIN query' = {}
    BY <1>5 DEF Unload, DropQueries, EmptyMap
  <2> QED BY <1>5, <2>1
          DEF Unload, TypeOK, OneBanPerConnection, QueriesAreForTheirUser, Online
<1>6. ASSUME NEW conf \in SUBSET Blacklists, Rehash(conf) PROVE IInv'
  <2>1. query' = [q \in DOMAIN query |-> [query[q] EXCEPT !.purged = TRUE]]
    BY <1>6 DEF Rehash
  <2>2. ASSUME NEW q \in DOMAIN query
        PROVE  /\ query'[q] \in QueryRecord
               /\ query'[q].u = query[q].u /\ query'[q].asked = query[q].asked
               /\ query'[q].stale = query[q].stale
    BY <2>1 DEF TypeOK, QueryRecord
  <2>3. TypeOK'
    BY <1>6, <2>1, <2>2, DnsblAssumption DEF Rehash, Loaded, TypeOK, Online
  <2>4. QueriesAreForTheirUser'
    BY <1>6, <2>1, <2>2 DEF Rehash, QueriesAreForTheirUser, Online
  <2>5. OneBanPerConnection'
    BY <1>6 DEF Rehash, OneBanPerConnection, Online
  <2> QED BY <2>3, <2>4, <2>5
<1>7. ASSUME NEW conf \in SUBSET Blacklists, Load(conf) PROVE IInv'
  BY <1>7, DnsblAssumption
  DEF Load, TypeOK, OneBanPerConnection, QueriesAreForTheirUser, Online
<1> QED BY <1>1, <1>2, <1>3, <1>4, <1>5, <1>6, <1>7 DEF Others, Command

LEMMA RestartKeepsIInv ==
    ASSUME IInv, NEW conf \in SUBSET Blacklists, Restart(conf)
    PROVE  IInv'
<1>1. query' = EmptyMap /\ DOMAIN query' = {}
  BY DEF Restart, EmptyMap
<1>2. Online' = {} /\ mem' \in [Online' -> UserRecord] /\ OneBanPerConnection'
  BY DEF Restart, EmptyMap, Online, OneBanPerConnection
<1>3. TypeOK'
  BY <1>1, <1>2, DnsblAssumption DEF Restart, TypeOK, IInv
<1>4. QueriesAreForTheirUser'
  BY <1>1 DEF QueriesAreForTheirUser
<1> QED BY <1>2, <1>3, <1>4 DEF IInv

LEMMA BansInitIInv == BansInit => IInv
BY InitIInv DEF BansInit

\* Changing the record of one user by a guarded ban keeps the invariant.
LEMMA BannedKeepsIInv ==
    ASSUME IInv, NEW s \in Online,
           mem' = [mem EXCEPT ![s] = Ban(mem[s])] \/ mem' = [mem EXCEPT ![s] = mem[s]],
           UNCHANGED <<module, action, exempts, rows, blacklists, query>>
    PROVE  IInv'
<1>1. mem[s] \in UserRecord /\ Consistent(mem[s]) /\ mem \in [Online -> UserRecord]
  BY DEF IInv, TypeOK, OneBanPerConnection, Consistent
<1>2. /\ mem' \in [Online -> UserRecord] /\ Online' = Online
      /\ \A t \in Online : Consistent(mem'[t]) /\ mem'[t].ip = mem[t].ip
  <2>1. Online' = Online
    BY DEF Online
  <2> QED BY <1>1, <2>1, BanFacts DEF IInv, OneBanPerConnection, Consistent
<1> QED BY <1>2, SoftStep DEF IInv, TypeOK

LEMMA BansNextKeepsIInv == IInv /\ [BansNext]_allVars => IInv'
<1> SUFFICES ASSUME IInv, [BansNext]_allVars PROVE IInv'
  OBVIOUS
<1>1. ASSUME NEW s \in Structs, NEW ip \in Ips, Connects(s, ip) PROVE IInv'
  <2>1. PICK u : /\ Connect(s, u)
                 /\ \/ u = NewUser(ip) \/ u = Ban(NewUser(ip))
                    \/ u = Ban(Ban(NewUser(ip)))
    BY <1>1 DEF Connects, NickHook, DefconHook
  <2>2. u \in UserRecord /\ Consistent(u)
    BY <2>1, NewUserFacts, BanFacts
  <2> QED BY <2>1, <2>2, ConnectKeepsIInv
<1>2. ASSUME NEW s \in Structs, NickChange(s) PROVE IInv'
  BY <1>2, BannedKeepsIInv DEF NickChange, NickHook
<1>3. ASSUME NEW s \in Structs, NEW c \in Channels, Join(s, c) PROVE IInv'
  BY <1>3, BannedKeepsIInv DEF Join, KlinechanHook
<1>4. ASSUME UNCHANGED vars PROVE IInv'
  BY <1>4 DEF vars, IInv, TypeOK, OneBanPerConnection, QueriesAreForTheirUser, Online
<1>5. ASSUME StartAgain PROVE IInv'
  BY <1>5, RestartKeepsIInv DEF StartAgain
<1> QED
  BY <1>1, <1>2, <1>3, <1>4, <1>5, OthersKeepIInv
  DEF BansNext, KlinechanOn, KlinechanOff, SetLockdown, allVars, vars

\* For any users, addresses, lists and channels: every variable keeps its type
\* and no query outlives its code; one connection is k-lined once at most,
\* whichever of the four modules ban; a query under way for someone who has
\* not left points to them.
THEOREM BansInvariance ==
    BansSpec => [](TypeOK /\ OneBanPerConnection /\ QueriesAreForTheirUser)
<1>1. BansSpec => []IInv
  BY BansInitIInv, BansNextKeepsIInv, PTL DEF BansSpec
<1> QED BY <1>1, PTL DEF IInv

\* Every variable keeps its type; above all no query is under way without the
\* module that is to get its answer.
THEOREM TypeCorrect == BansSpec => []TypeOK
BY BansInvariance, PTL

HurtsOnlyTheAsked ==
    \A q \in DOMAIN query : Answer(q) /\ ~query[q].stale =>
        \A s \in Online : mem'[s].bans > mem[s].bans =>
            /\ s = query[q].u
            /\ mem[s].ip \in IPv4 => InSomeList(mem[s].ip)

\* The k-line of an answer that is about someone who has not left is for that
\* user, whose address, if it is IPv4, is in the list that was asked.
LEMMA BanOfAnswer ==
    ASSUME IInv, NEW q \in DOMAIN query, Answer(q), ~query[q].stale,
           NEW s \in Online, mem'[s].bans > mem[s].bans
    PROVE  s = query[q].u /\ (mem[s].ip \in IPv4 => InSomeList(mem[s].ip))
<1> USE DEF IInv
<1>1. /\ query[q] \in QueryRecord /\ mem[s] \in UserRecord
      /\ query[q].u \in Online
  BY DEF TypeOK, QueriesAreForTheirUser
<1>2. mem' # mem
  BY <1>1 DEF UserRecord
<1>3. Listing(q) /\ Hit(query[q].u)
  BY <1>2 DEF Answer, Crash
<1>4. s = query[q].u
  <2>1. mem' = [mem EXCEPT ![query[q].u] =
                    Ban(mem[query[q].u])]
    BY <1>2, <1>3 DEF Hit, Crash
  <2> QED BY <2>1, <1>1 DEF TypeOK, UserRecord
<1>5. query[q].asked \in Asked(mem[s].ip)
  BY <1>4 DEF QueriesAreForTheirUser
<1> QED BY <1>1, <1>3, <1>4, <1>5 DEF Asked, Listing, InSomeList, QueryRecord

\* Without a query that has outlived its user, dnsbl.c k-lines only the user it
\* was asked for, and one with an IPv4 address only if it is in a blacklist.
THEOREM OnlyStaleOrUnsetCanHurt == BansSpec => OnlyStaleOrUnsetHurt
<1>1. BansSpec => []IInv
  BY BansInitIInv, BansNextKeepsIInv, PTL DEF BansSpec
<1>2. IInv => HurtsOnlyTheAsked
  BY BanOfAnswer DEF HurtsOnlyTheAsked
<1>3. IInv /\ [BansNext]_allVars => [HurtsOnlyTheAsked]_vars
  BY <1>2
<1>4. [][HurtsOnlyTheAsked]_vars <=> OnlyStaleOrUnsetHurt
  BY PTL DEF HurtsOnlyTheAsked, OnlyStaleOrUnsetHurt
<1> QED BY <1>1, <1>3, <1>4, PTL DEF BansSpec
===============================================================================
