---------------------------- MODULE TraceProofs ----------------------------
(***************************************************************************)
(* Proofs about Trace.  The type invariant says which channels exist; what *)
(* a kill takes away is then known exactly, and whether the users still to *)
(* be visited satisfy a criterion does not change under it.  That is why   *)
(* the loop does what TraceOnce does in one step.                          *)
(***************************************************************************)
EXTENDS Trace, FiniteSetTheorems, TLAPS

IInv == TypeOK /\ OnlyKillsDangle

\* What users leave behind when they go
LEMMA WithoutFacts ==
    ASSUME TypeOK, NEW gone
    PROVE  /\ DOMAIN Without(gone) \subseteq DOMAIN members
           /\ Without(gone) \in [DOMAIN Without(gone) -> SUBSET (Online \ gone)]
           /\ \A c \in DOMAIN Without(gone) :
                 /\ Without(gone)[c] = members[c] \ gone
                 /\ Without(gone)[c] = {} => c \in Permanent
           /\ \A c \in DOMAIN members : c \notin DOMAIN Without(gone) =>
                 c \notin Permanent /\ members[c] \subseteq gone
           /\ Permanent \subseteq DOMAIN Without(gone)
BY DEF TypeOK, Without

LEMMA LeaveTypes ==
    ASSUME TypeOK, NEW u \in Online \ Internal, Leave({u})
    PROVE  /\ Internal \subseteq Online' /\ Online' = Online \ {u}
           /\ user' \in [Online' -> UserRecord]
           /\ DOMAIN members' \subseteq Channels /\ Permanent \subseteq DOMAIN members'
           /\ members' \in [DOMAIN members' -> SUBSET Online']
           /\ \A c \in DOMAIN members' : members'[c] = {} => c \in Permanent
<1>1. Online' = Online \ {u} /\ user' \in [Online' -> UserRecord]
  BY DEF TypeOK, Leave, Online
<1>2. members' = Without({u})
  BY DEF Leave
<1>3. QED
  BY <1>1, <1>2, WithoutFacts DEF TypeOK

LEMMA NetworkTypes ==
    ASSUME TypeOK, NetworkNext
    PROVE  /\ Internal \subseteq Online' /\ Online' \subseteq Users
           /\ user' \in [Online' -> UserRecord]
           /\ DOMAIN members' \subseteq Channels /\ Permanent \subseteq DOMAIN members'
           /\ members' \in [DOMAIN members' -> SUBSET Online']
           /\ \A c \in DOMAIN members' : members'[c] = {} => c \in Permanent
           /\ DOMAIN klines' \subseteq Hosts /\ klines' \in [DOMAIN klines' -> Nat]
<1>1. ASSUME NEW u \in Users, NEW age \in Ages, Connect(u, age)
      PROVE  /\ Online' = Online \cup {u} /\ user' \in [Online' -> UserRecord]
             /\ UNCHANGED <<members, klines>>
  BY <1>1 DEF TypeOK, Connect, Put, Online, UserRecord
<1>2. ASSUME NEW u, Quit(u)
      PROVE  u \in Online \ Internal /\ Leave({u}) /\ UNCHANGED klines
  BY <1>2 DEF Quit
<1>3. ASSUME NEW u, Login(u)
      PROVE  /\ Online' = Online /\ user' \in [Online' -> UserRecord]
             /\ UNCHANGED <<members, klines>>
  BY <1>3 DEF TypeOK, Login, Online, UserRecord
<1>4. ASSUME NEW u, NEW c \in Channels, JoinChannel(u, c)
      PROVE  /\ DOMAIN members' = DOMAIN members \cup {c} /\ u \in Online
             /\ members' \in [DOMAIN members' -> SUBSET Online]
             /\ \A d \in DOMAIN members' : members'[d] = {} => d \in Permanent
             /\ UNCHANGED <<user, klines>>
  BY <1>4 DEF TypeOK, JoinChannel, Put
<1>5. ASSUME NEW u, NEW c \in Channels, Part(u, c)
      PROVE  /\ DOMAIN members' \subseteq DOMAIN members
             /\ Permanent \subseteq DOMAIN members'
             /\ members' \in [DOMAIN members' -> SUBSET Online]
             /\ \A d \in DOMAIN members' : members'[d] = {} => d \in Permanent
             /\ UNCHANGED <<user, klines>>
  BY <1>5 DEF TypeOK, Part, Del
<1>6. ASSUME NEW h, KlineEnds(h)
      PROVE  /\ DOMAIN klines' \subseteq DOMAIN klines
             /\ klines' \in [DOMAIN klines' -> Nat]
             /\ UNCHANGED <<user, members>>
  BY <1>6 DEF TypeOK, KlineEnds, Del
<1>7. CASE \E u \in Users, age \in Ages : Connect(u, age)
  BY <1>1, <1>7 DEF TypeOK
<1>8. CASE \E u \in Users : Quit(u)
  BY <1>2, <1>8, LeaveTypes DEF TypeOK
<1>9. CASE \E u \in Users : Login(u)
  BY <1>3, <1>9 DEF TypeOK
<1>10. CASE \E u \in Users, c \in Channels : JoinChannel(u, c)
  <2>1. UNCHANGED user => Online' = Online
    BY DEF Online
  <2>2. PICK u \in Users, c \in Channels : JoinChannel(u, c)
    BY <1>10
  <2>3. /\ DOMAIN members' = DOMAIN members \cup {c}
        /\ members' \in [DOMAIN members' -> SUBSET Online]
        /\ \A d \in DOMAIN members' : members'[d] = {} => d \in Permanent
        /\ UNCHANGED <<user, klines>>
    BY <2>2, <1>4
  <2>4. QED
    BY <2>1, <2>3 DEF TypeOK
<1>11. CASE \E u \in Users, c \in Channels : Part(u, c)
  <2>1. UNCHANGED user => Online' = Online
    BY DEF Online
  <2>2. QED
    BY <1>5, <1>11, <2>1 DEF TypeOK
<1>12. CASE \E h \in Hosts : KlineEnds(h)
  <2>1. UNCHANGED user => Online' = Online
    BY DEF Online
  <2>2. QED
    BY <1>6, <1>12, <2>1 DEF TypeOK
<1>13. QED
  BY <1>7, <1>8, <1>9, <1>10, <1>11, <1>12 DEF NetworkNext

LEMMA InitIInv == Init => IInv
<1> SUFFICES ASSUME Init PROVE IInv
  OBVIOUS
<1>1. Online = Internal /\ user \in [Online -> UserRecord]
  BY DEF Init, NetworkInit, Online
<1>2. TypeOK
  BY <1>1, NetworkAssumption DEF Init, NetworkInit, EmptyMap, TypeOK, Actions, Silent
<1>3. OnlyKillsDangle
  BY DEF Init, OnlyKillsDangle
<1>4. QED
  BY <1>2, <1>3 DEF IInv

\* A turn that acts on a user: at most the user goes, and only under KILL, or
\* one host is banned.
LEMMA ActOnFacts ==
    ASSUME TypeOK, NEW u \in todo, ActOn(u)
    PROVE  /\ \/ UNCHANGED <<user, members>>
              \/ act = "KILL" /\ report'.matched /\ u \notin Internal /\ Leave({u})
           /\ DOMAIN klines' \subseteq Hosts /\ klines' \in [DOMAIN klines' -> Nat]
           /\ report' \in [matched : BOOLEAN, count : Nat]
<1>1. u \in Users /\ Host[u] \in Hosts
  BY NetworkAssumption DEF TypeOK
<1>2. CASE ~Eligible(act, u)
  BY <1>2 DEF ActOn, TypeOK, network
<1>3. CASE Eligible(act, u)
  <2>1. report' = [matched |-> TRUE, count |-> report.count + IF act = "COUNT" THEN 1 ELSE 0]
    BY <1>3 DEF ActOn
  <2>2. klines' = IF act = "AKILL" THEN Put(klines, Host[u], duration) ELSE klines
    BY <1>3 DEF ActOn
  <2>3. \/ UNCHANGED <<user, members>>
        \/ act = "KILL" /\ u \notin Internal /\ Leave({u})
    BY <1>3 DEF ActOn, KillUser, Eligible
  <2>4. DOMAIN klines' \subseteq Hosts /\ klines' \in [DOMAIN klines' -> Nat]
    BY <1>1, <2>2 DEF TypeOK, Put
  <2>5. QED
    BY <2>1, <2>3, <2>4 DEF TypeOK
<1>4. QED
  BY <1>2, <1>3

LEMMA NextIInv == IInv /\ [Next]_vars => IInv'
<1> SUFFICES ASSUME TypeOK, OnlyKillsDangle, [Next]_vars PROVE TypeOK' /\ OnlyKillsDangle'
  BY DEF IInv
<1>1. CASE act \notin Actions /\ NetworkNext /\ UNCHANGED <<act, crit, todo, duration, report>>
  <2>1. crit' = <<>> /\ todo' = {}
    BY <1>1 DEF TypeOK
  <2>2. QED
    BY <1>1, <2>1, NetworkTypes DEF TypeOK, OnlyKillsDangle
<1>2. ASSUME NEW cmd \in Commands, Begin(cmd)
      PROVE  TypeOK' /\ OnlyKillsDangle'
  <2>1. cmd.action \in Actions
    BY <1>2 DEF Begin, ActionPrepared, Actions
  <2>2. duration' \in Nat
    BY <1>2, CommandAssumption, NetworkAssumption DEF Begin, Duration
  <2>3. TypeOK'
    BY <1>2, <2>1, <2>2 DEF Begin, TypeOK, network, Silent, Online, Actions
  <2>4. ASSUME NEW i \in DOMAIN crit' PROVE ~Dangling(crit[i])'
    <3>1. i \in DOMAIN cmd.query /\ crit'[i] = Prepare(cmd.query[i])
      BY <1>2 DEF Begin
    <3>2. members' = members
      BY <1>2 DEF Begin, network
    <3>3. QED
      BY <3>1, <3>2 DEF Dangling, Prepare, Prepared, ChannelFind
  <2>5. QED
    BY <2>3, <2>4 DEF OnlyKillsDangle
<1>3. ASSUME NEW u, Turn(u) PROVE TypeOK' /\ OnlyKillsDangle'
  <2>1. u \in todo /\ todo' = todo \ {u} /\ UNCHANGED <<act, crit, duration>>
    BY <1>3 DEF Turn
  <2>2. CASE UNCHANGED <<network, report>>
    BY <2>1, <2>2 DEF TypeOK, network, Online, OnlyKillsDangle, Dangling
  <2>3. CASE ActOn(u)
    <3>1. /\ \/ UNCHANGED <<user, members>>
             \/ act = "KILL" /\ report'.matched /\ u \notin Internal /\ Leave({u})
          /\ DOMAIN klines' \subseteq Hosts /\ klines' \in [DOMAIN klines' -> Nat]
          /\ report' \in [matched : BOOLEAN, count : Nat]
      BY <2>1, <2>3, ActOnFacts
    <3>2. act \in Actions
      BY <2>1 DEF TypeOK
    <3>3. CASE UNCHANGED <<user, members>>
      <4>1. TypeOK'
        BY <2>1, <3>1, <3>2, <3>3 DEF TypeOK, Online
      <4>2. report.matched => report'.matched
        BY <2>3 DEF ActOn
      <4>3. OnlyKillsDangle'
        BY <2>1, <3>3, <4>2 DEF OnlyKillsDangle, Dangling
      <4>4. QED
        BY <4>1, <4>3
    <3>4. CASE act = "KILL" /\ report'.matched /\ u \notin Internal /\ Leave({u})
      <4>1. u \in Online \ Internal
        BY <2>1, <3>4 DEF TypeOK
      <4>2. TypeOK'
        BY <2>1, <3>1, <3>2, <3>4, <4>1, LeaveTypes DEF TypeOK
      <4>3. QED
        BY <2>1, <3>4, <4>2 DEF OnlyKillsDangle
    <3>5. QED
      BY <3>1, <3>3, <3>4
  <2>4. QED
    BY <1>3, <2>2, <2>3 DEF Turn
<1>4. ASSUME NEW u, Fault(u) PROVE TypeOK' /\ OnlyKillsDangle'
  BY <1>4 DEF Fault, TypeOK, network, Online, Actions, Silent, OnlyKillsDangle
<1>5. ASSUME Finish PROVE TypeOK' /\ OnlyKillsDangle'
  BY <1>5 DEF Finish, TypeOK, network, Online, Actions, Silent, OnlyKillsDangle
<1>6. CASE UNCHANGED vars
  BY <1>6 DEF vars, TypeOK, Online, OnlyKillsDangle, Dangling
<1>7. QED
  BY <1>1, <1>2, <1>3, <1>4, <1>5, <1>6 DEF Next

\* Every variable keeps its type, and while a command runs only KILL can hold
\* a pointer to a channel that is gone.
THEOREM Invariance == Spec => [](TypeOK /\ OnlyKillsDangle)
<1>1. IInv => TypeOK /\ OnlyKillsDangle
  BY DEF IInv
<1>2. QED
  BY InitIInv, NextIInv, <1>1, PTL DEF Spec

\* The types by themselves: who can be online, in a channel, or be acted upon.
THEOREM TypeCorrect == Spec => []TypeOK
BY Invariance, PTL

(***************************************************************************)
(* One command as one step.                                                *)
(***************************************************************************)
\* An instance counts like the module it is used in.
LEMMA SameCount == ASSUME NEW S PROVE Cardinality(S) = Once!Cardinality(S)
BY DEF Cardinality, Once!Cardinality

\* Between commands the two views of the network are the same.
LEMMA IdleBefore ==
    ASSUME TypeOK, act \notin Actions
    PROVE  /\ AsUser = user /\ AsMembers = members /\ AsKlines = klines
           /\ AsAct = "idle" /\ AsReport = Silent
<1>1. Doomed = {} /\ report = Silent
  BY DEF TypeOK, Doomed
<1>2. AsReport = Silent
  <2>1. (report.matched \/ Doomed # {}) = FALSE
    BY <1>1 DEF Silent
  <2>2. report.count + (IF act = "COUNT" THEN Cardinality(Doomed) ELSE 0) = 0
    BY <1>1 DEF Silent, Actions
  <2>3. QED
    BY <2>1, <2>2, Zenon DEF AsReport, Silent
<1>3. QED
  BY <1>2 DEF AsUser, AsMembers, AsKlines, AsAct, Actions, TypeOK

LEMMA IdleAfter ==
    ASSUME TypeOK', act' \notin Actions
    PROVE  /\ AsUser' = user' /\ AsMembers' = members' /\ AsKlines' = klines'
           /\ AsAct' = "idle" /\ AsReport' = Silent
<1>1. Doomed' = {} /\ report' = Silent
  BY DEF TypeOK, Doomed
<1>2. AsReport' = Silent
  <2>1. (report'.matched \/ Doomed' # {}) = FALSE
    BY <1>1 DEF Silent
  <2>2. report'.count + (IF act' = "COUNT" THEN Cardinality(Doomed') ELSE 0) = 0
    BY <1>1 DEF Silent, Actions
  <2>3. QED
    BY <2>1, <2>2, Zenon DEF AsReport, Silent
<1>3. QED
  BY <1>2 DEF AsUser, AsMembers, AsKlines, AsAct, Actions, TypeOK

\* What others do happens between commands.
LEMMA NetworkStep ==
    ASSUME TypeOK, TypeOK', act \notin Actions, act' = act, NetworkNext
    PROVE  Once!Next
<1>1. /\ AsUser = user /\ AsMembers = members /\ AsKlines = klines
      /\ AsAct = "idle" /\ AsReport = Silent
  BY IdleBefore
<1>2. /\ AsUser' = user' /\ AsMembers' = members' /\ AsKlines' = klines'
      /\ AsAct' = "idle" /\ AsReport' = Silent
  BY IdleAfter
<1>3. ASSUME NEW u, NEW age, Connect(u, age) PROVE Once!Connect(u, age)
  BY <1>1, <1>2, <1>3 DEF Connect, Once!Connect, Online, Once!Online, Put, Once!Put
<1>4. ASSUME NEW u, Quit(u) PROVE Once!Quit(u)
  BY <1>1, <1>2, <1>4 DEF Quit, Once!Quit, Leave, Once!Leave, Without, Once!Without,
                          Online, Once!Online
<1>5. ASSUME NEW u, Login(u) PROVE Once!Login(u)
  BY <1>1, <1>2, <1>5 DEF Login, Once!Login, Online, Once!Online
<1>6. ASSUME NEW u, NEW c, JoinChannel(u, c) PROVE Once!JoinChannel(u, c)
  BY <1>1, <1>2, <1>6 DEF JoinChannel, Once!JoinChannel, Online, Once!Online,
                          Put, Once!Put
<1>7. ASSUME NEW u, NEW c, Part(u, c) PROVE Once!Part(u, c)
  BY <1>1, <1>2, <1>7 DEF Part, Once!Part, Del, Once!Del
<1>8. ASSUME NEW h, KlineEnds(h) PROVE Once!KlineEnds(h)
  BY <1>1, <1>2, <1>8 DEF KlineEnds, Once!KlineEnds, Del, Once!Del
<1>9. Once!NetworkNext
  BY <1>3, <1>4, <1>5, <1>6, <1>7, <1>8 DEF NetworkNext, Once!NetworkNext
<1>10. QED
  BY <1>1, <1>2, <1>9 DEF Once!Next

\* Preparing a criterion keeps its meaning.
LEMMA PreparedFits ==
    ASSUME TypeOK, act \notin Actions, NEW u, NEW w, WordPrepared(w)
    PROVE  Exec(u, Prepare(w)) <=> Once!Fits(u, w)
<1>1. AsUser = user /\ AsMembers = members
  BY IdleBefore
<1>2. CASE w.word = "CHANNEL"
  <2>1. Prepare(w) = [word |-> "CHANNEL", cmp |-> w.cmp, arg |-> ChannelFind(w.arg)]
    BY <1>2 DEF Prepare, Prepared
  <2>2. Exec(u, Prepare(w)) <=>
            ChannelFind(w.arg) \in DOMAIN members /\ u \in members[ChannelFind(w.arg)]
    BY <2>1 DEF Exec
  <2>3. NoChannel \notin DOMAIN members
    BY CommandAssumption DEF TypeOK
  <2>4. Once!Fits(u, w) <=> w.arg \in DOMAIN members /\ u \in members[w.arg]
    BY <1>1, <1>2 DEF Once!Fits
  <2>5. QED
    BY <2>2, <2>3, <2>4 DEF ChannelFind
<1>3. CASE w.word = "NICKAGE"
  <2>1. Prepare(w) = [word |-> "NICKAGE", cmp |-> DefaultTo(w.cmp, "<="), arg |-> w.arg]
    BY <1>3 DEF Prepare, Prepared
  <2>2. Exec(u, Prepare(w)) <=> Compare(DefaultTo(w.cmp, "<="), user[u].age, w.arg)
    BY <2>1 DEF Exec
  <2>3. Once!Fits(u, w) <=> Once!Compare(DefaultTo(w.cmp, "<="), user[u].age, w.arg)
    BY <1>1, <1>3 DEF Once!Fits, Once!Default, DefaultTo
  <2>4. Compare(DefaultTo(w.cmp, "<="), user[u].age, w.arg)
            = Once!Compare(DefaultTo(w.cmp, "<="), user[u].age, w.arg)
    BY DEF Compare, Once!Compare
  <2>5. QED
    BY <2>2, <2>3, <2>4
<1>4. CASE w.word = "NUMCHAN"
  <2>1. Prepare(w) = [word |-> "NUMCHAN", cmp |-> DefaultTo(w.cmp, "="),
                      arg |-> w.arg % UIntRange]
    BY <1>4 DEF Prepare, Prepared
  <2>2. Exec(u, Prepare(w)) <=>
            Compare(DefaultTo(w.cmp, "="), NumChans(u), w.arg % UIntRange)
    BY <2>1 DEF Exec
  <2>3. NumChans(u) = Once!NumChans(u)
    BY <1>1, SameCount, Zenon DEF NumChans, Once!NumChans
  <2>4. Once!Fits(u, w) <=>
            Once!Compare(DefaultTo(w.cmp, "="), NumChans(u), w.arg % UIntRange)
    BY <2>3, <1>4 DEF Once!Fits, Once!Default, DefaultTo
  <2>5. Compare(DefaultTo(w.cmp, "="), NumChans(u), w.arg % UIntRange)
            = Once!Compare(DefaultTo(w.cmp, "="), NumChans(u), w.arg % UIntRange)
    BY DEF Compare, Once!Compare
  <2>6. QED
    BY <2>2, <2>4, <2>5
<1>5. CASE w.word \in {"REGEXP", "GLOB", "SERVER"}
  <2>1. Prepare(w) = [word |-> w.word, cmp |-> w.cmp, arg |-> w.arg]
    BY <1>5 DEF Prepare, Prepared
  <2>2. Exec(u, Prepare(w)) <=> u \in w.arg
    <3>1. Prepare(w).word \in {"REGEXP", "GLOB", "SERVER"} /\ Prepare(w).arg = w.arg
      BY <2>1, <1>5
    <3>2. QED
      BY <3>1, Zenon DEF Exec
  <2>3. Once!Fits(u, w) <=> u \in w.arg
    BY <1>5 DEF Once!Fits
  <2>4. QED
    BY <2>2, <2>3
<1>6. CASE w.word = "IDENTIFIED"
  <2>1. Prepare(w) = [word |-> w.word, cmp |-> w.cmp, arg |-> w.arg]
    BY <1>6 DEF Prepare, Prepared
  <2>2. QED
    BY <2>1, <1>1, <1>6 DEF Exec, Once!Fits
<1>7. QED
  BY <1>2, <1>3, <1>4, <1>5, <1>6 DEF WordPrepared, Criteria

\* Whom the loop will act upon is decided when it begins.
LEMMA BeginDooms ==
    ASSUME TypeOK, NEW cmd \in Commands, Begin(cmd)
    PROVE  Doomed' = Once!Targets(cmd)
<1>1. AsUser = user /\ AsMembers = members /\ AsKlines = klines /\ act \notin Actions
  BY IdleBefore DEF Begin, Actions
<1>2. /\ user' = user /\ members' = members /\ klines' = klines /\ act' = cmd.action
      /\ todo' = Online /\ crit' = [i \in DOMAIN cmd.query |-> Prepare(cmd.query[i])]
      /\ \A i \in DOMAIN cmd.query : WordPrepared(cmd.query[i])
  BY DEF Begin, network
<1>3. ASSUME NEW u PROVE Eligible(act, u)' <=> Once!Eligible(cmd.action, u)
  BY <1>1, <1>2 DEF Eligible, Once!Eligible, Exempt, Once!Exempt
<1>4. ASSUME NEW u, NEW i \in DOMAIN cmd.query
      PROVE  Exec(u, crit[i])' <=> Once!Fits(u, cmd.query[i])
  <2>1. crit'[i] = Prepare(cmd.query[i]) /\ WordPrepared(cmd.query[i])
    BY <1>2
  <2>2. Exec(u, crit[i])' <=> Exec(u, Prepare(cmd.query[i]))
    BY <1>2, <2>1 DEF Exec, NumChans
  <2>3. QED
    BY <1>1, <2>1, <2>2, PreparedFits
<1>5. DOMAIN crit' = DOMAIN cmd.query /\ Once!Online = Online
  BY <1>1, <1>2 DEF Online, Once!Online
<1>6. QED
  BY <1>2, <1>3, <1>4, <1>5 DEF Doomed, Once!Targets

\* The step that starts the loop maps to the whole command.
LEMMA BeginStep ==
    ASSUME TypeOK, TypeOK', NEW cmd \in Commands, Begin(cmd)
    PROVE  Once!Run(cmd)
<1>1. /\ AsUser = user /\ AsMembers = members /\ AsKlines = klines
      /\ AsAct = "idle" /\ act = "idle"
  BY IdleBefore DEF Begin, Actions
<1>2. /\ user' = user /\ members' = members /\ klines' = klines /\ act' = cmd.action
      /\ report' = Silent /\ cmd.action \in Actions
      /\ duration' = IF cmd.action = "AKILL" THEN Duration(cmd) ELSE 0
  BY DEF Begin, network, ActionPrepared, Actions
<1>3. Doomed' = Once!Targets(cmd)
  BY BeginDooms
<1>4. AsAct' = cmd.action
  BY <1>2 DEF AsAct, Actions
<1>5. Once!Understood(cmd)
  BY DEF Begin, ActionPrepared, WordPrepared, Criteria, Once!Understood, Once!Actions
<1>6. AsReport' = [matched |-> Once!Targets(cmd) # {},
                   count |-> IF AsAct' = "COUNT"
                             THEN Once!Cardinality(Once!Targets(cmd)) ELSE 0]
  <2>1. IsFiniteSet(Once!Targets(cmd))
    <3>1. Once!Targets(cmd) \subseteq Users
      BY <1>1 DEF Once!Targets, Once!Online, TypeOK, Online
    <3>2. QED
      BY <3>1, NetworkAssumption, FS_Subset
  <2>2. Cardinality(Once!Targets(cmd)) \in Nat
    BY <2>1, FS_CardinalityType
  <2>3. report'.count + (IF act' = "COUNT" THEN Cardinality(Doomed') ELSE 0)
          = IF AsAct' = "COUNT" THEN Cardinality(Once!Targets(cmd)) ELSE 0
    BY <1>2, <1>3, <1>4, <2>2 DEF Silent
  <2>4. (report'.matched \/ Doomed' # {}) = (Once!Targets(cmd) # {})
    BY <1>2, <1>3 DEF Silent
  <2>5. QED
    BY <2>3, <2>4, SameCount, Zenon DEF AsReport
<1>7. IF AsAct' = "KILL" THEN Once!Leave(Once!Targets(cmd)) ELSE UNCHANGED <<AsUser, AsMembers>>
  BY <1>1, <1>2, <1>3, <1>4 DEF AsUser, AsMembers, Once!Leave, Without, Once!Without,
                               Online, Once!Online
<1>8. AsKlines' = IF AsAct' = "AKILL"
                  THEN [h \in DOMAIN AsKlines \cup {Host[u] : u \in Once!Targets(cmd)} |->
                          IF h \in {Host[u] : u \in Once!Targets(cmd)}
                          THEN Once!Duration(cmd) ELSE AsKlines[h]]
                  ELSE AsKlines
  <2>1. Once!Duration(cmd) = Duration(cmd)
    BY DEF Duration, Once!Duration
  <2>2. CASE cmd.action = "AKILL"
    <3>1. \A u \in Once!Targets(cmd) : Host[u] \notin DOMAIN klines
      BY <1>1, <2>2 DEF Once!Targets, Once!Eligible
    <3>2. \A h \in DOMAIN klines \cup {Host[u] : u \in Once!Targets(cmd)} :
             (IF h \in DOMAIN klines THEN klines[h] ELSE Duration(cmd))
               = IF h \in {Host[u] : u \in Once!Targets(cmd)} THEN Duration(cmd) ELSE klines[h]
      BY <3>1
    <3>3. QED
      BY <1>1, <1>2, <1>3, <1>4, <2>1, <2>2, <3>2 DEF AsKlines
  <2>3. CASE cmd.action # "AKILL"
    BY <1>1, <1>2, <1>4, <2>3 DEF AsKlines
  <2>4. QED
    BY <2>2, <2>3
<1>9. QED
  BY <1>1, <1>4, <1>5, <1>6, <1>7, <1>8, Zenon DEF Once!Run
\* Where the network does not change, the others keep their fate.
LEMMA Skipped ==
    ASSUME NEW u \in todo, u \notin Doomed, todo' = todo \ {u},
           UNCHANGED <<user, members, klines, act, crit, duration, report>>
    PROVE  UNCHANGED Once!vars
<1>1. \A v : Eligible(act, v)' <=> Eligible(act, v)
  BY DEF Eligible, Exempt
<1>2. \A v : \A i \in DOMAIN crit : Exec(v, crit[i])' <=> Exec(v, crit[i])
  BY DEF Exec, NumChans
<1>3. Doomed' = Doomed
  BY <1>1, <1>2 DEF Doomed
<1>4. QED
  BY <1>3 DEF Once!vars, AsUser, AsMembers, AsKlines, AsAct, AsReport, Online, Without

\* A kill does not change which criteria the others satisfy.
LEMMA KillSpares ==
    ASSUME TypeOK, NEW u \in todo, NEW v \in Online, v # u, Leave({u}),
           UNCHANGED <<klines, act, crit>>
    PROVE  /\ Eligible(act, v)' <=> Eligible(act, v)
           /\ \A i \in DOMAIN crit : Exec(v, crit[i])' <=> Exec(v, crit[i])
<1>1. user'[v] = user[v] /\ members' = Without({u})
  BY DEF Leave
<1>2. \A c : c \in DOMAIN members' /\ v \in members'[c] <=> c \in DOMAIN members /\ v \in members[c]
  BY <1>1, WithoutFacts
<1>3. {c \in DOMAIN members' : v \in members'[c]} = {c \in DOMAIN members : v \in members[c]}
  BY <1>2
<1>4. NumChans(v)' = NumChans(v)
  BY <1>3 DEF NumChans
<1>5. ASSUME NEW i \in DOMAIN crit PROVE Exec(v, crit[i])' <=> Exec(v, crit[i])
  BY <1>1, <1>2, <1>4 DEF Exec, Compare
<1>6. QED
  BY <1>1, <1>5 DEF Eligible, Exempt

\* Acting on a user who is doomed leaves the whole as it was.
LEMMA ActOnDoomed ==
    ASSUME TypeOK, NEW u \in Doomed, todo' = todo \ {u}, ActOn(u),
           UNCHANGED <<act, crit, duration>>
    PROVE  UNCHANGED Once!vars
<1>1. u \in todo /\ u \in Online /\ Eligible(act, u) /\ act \in Actions
  BY DEF Doomed, TypeOK
<1>2. /\ report' = [matched |-> TRUE,
                    count |-> report.count + IF act = "COUNT" THEN 1 ELSE 0]
      /\ IF act = "KILL" THEN Leave({u}) ELSE UNCHANGED <<user, members>>
      /\ klines' = IF act = "AKILL" THEN Put(klines, Host[u], duration) ELSE klines
  BY <1>1 DEF ActOn, KillUser
<1>3. AsAct' = AsAct
  BY DEF AsAct
<1>4. AsReport' = AsReport
  <2>1. AsReport.matched = TRUE /\ AsReport'.matched = TRUE
    BY <1>2 DEF AsReport
  <2>2. AsReport.count = AsReport'.count
    <3>1. CASE act = "COUNT"
      <4>1. UNCHANGED <<user, members, klines>>
        BY <1>2, <3>1
      <4>2. /\ \A v : Eligible(act, v)' <=> Eligible(act, v)
            /\ \A v : \A i \in DOMAIN crit : Exec(v, crit[i])' <=> Exec(v, crit[i])
        BY <4>1 DEF Eligible, Exempt, Exec, NumChans
      <4>3. Doomed' = Doomed \ {u}
        BY <4>2 DEF Doomed
      <4>4. IsFiniteSet(Doomed)
        <5>1. Doomed \subseteq Users
          BY DEF Doomed, TypeOK
        <5>2. QED
          BY <5>1, NetworkAssumption, FS_Subset
      <4>5. Cardinality(Doomed \ {u}) = Cardinality(Doomed) - 1 /\ Cardinality(Doomed) \in Nat
        BY <4>4, FS_RemoveElement, FS_CardinalityType
      <4>6. report'.count = report.count + 1 /\ report.count \in Nat
        BY <1>2, <3>1 DEF TypeOK
      <4>7. QED
        BY <3>1, <4>3, <4>5, <4>6 DEF AsReport
    <3>2. CASE act # "COUNT"
      <4>1. report'.count = report.count /\ report.count \in Nat
        BY <1>2, <3>2 DEF TypeOK
      <4>2. QED
        BY <3>2, <4>1 DEF AsReport
    <3>3. QED
      BY <3>1, <3>2
  <2>3. QED
    BY <2>1, <2>2 DEF AsReport
<1>5. AsUser' = AsUser /\ AsMembers' = AsMembers
  <2>1. CASE act = "KILL"
    <3>1. Doomed' = Doomed \ {u}
      BY <1>1, <1>2, <2>1, KillSpares DEF Doomed, TypeOK
    <3>2. Leave({u}) /\ Online' = Online \ {u}
      BY <1>2, <2>1 DEF Leave, Online
    <3>3. AsUser' = AsUser
      BY <1>1, <2>1, <3>1, <3>2 DEF AsUser, Leave
    <3>4. Without(Doomed)' = Without(Doomed)
      <4>1. members' = Without({u})
        BY <3>2 DEF Leave
      <4>2. \A c \in DOMAIN members' : members'[c] \ Doomed' = members[c] \ Doomed
        BY <3>1, <4>1, WithoutFacts
      <4>3. ASSUME NEW c
            PROVE  c \in DOMAIN members' /\ (c \in Permanent \/ members'[c] \ Doomed' # {})
                   <=> c \in DOMAIN members /\ (c \in Permanent \/ members[c] \ Doomed # {})
        <5>1. CASE c \in DOMAIN members'
          BY <4>1, <4>2, <5>1, WithoutFacts
        <5>2. CASE c \notin DOMAIN members'
          BY <4>1, <5>2, WithoutFacts
        <5>3. QED
          BY <5>1, <5>2
      <4>4. DOMAIN Without(Doomed)' = DOMAIN Without(Doomed)
        BY <4>3 DEF Without
      <4>5. QED
        BY <4>2, <4>3, <4>4 DEF Without
    <3>5. QED
      BY <2>1, <3>3, <3>4 DEF AsMembers
  <2>2. CASE act # "KILL"
    BY <1>2, <2>2 DEF AsUser, AsMembers
  <2>3. QED
    BY <2>1, <2>2
<1>6. AsKlines' = AsKlines
  <2>1. CASE act = "AKILL"
    <3>1. klines' = Put(klines, Host[u], duration) /\ UNCHANGED <<user, members>>
      BY <1>2, <2>1
    <3>2. Host[u] \notin DOMAIN klines
      BY <1>1, <2>1 DEF Eligible
    <3>3. DOMAIN klines' = DOMAIN klines \cup {Host[u]}
      BY <3>1 DEF Put
    <3>4. \A v : \A i \in DOMAIN crit : Exec(v, crit[i])' <=> Exec(v, crit[i])
      BY <3>1 DEF Exec, NumChans
    <3>5. \A v : Eligible(act, v)' <=> Eligible(act, v) /\ Host[v] # Host[u]
      BY <2>1, <3>1, <3>3 DEF Eligible, Exempt
    <3>6. Doomed' = {v \in Doomed : Host[v] # Host[u]}
      BY <3>4, <3>5 DEF Doomed
    <3>7. DOMAIN klines' \cup {Host[v] : v \in Doomed'}
             = DOMAIN klines \cup {Host[v] : v \in Doomed}
      BY <3>3, <3>6
    <3>8. \A h \in DOMAIN klines \cup {Host[v] : v \in Doomed} :
             (IF h \in DOMAIN klines' THEN klines'[h] ELSE duration)
               = IF h \in DOMAIN klines THEN klines[h] ELSE duration
      BY <3>1, <3>2, <3>3 DEF Put
    <3>9. QED
      BY <2>1, <3>7, <3>8 DEF AsKlines
  <2>2. CASE act # "AKILL"
    BY <1>2, <2>2 DEF AsKlines
  <2>3. QED
    BY <2>1, <2>2
<1>7. QED
  BY <1>3, <1>4, <1>5, <1>6 DEF Once!vars
\* A turn of the loop is no step of the whole, unless it misreads.
LEMMA TurnStep ==
    ASSUME TypeOK, NEW u, Turn(u)
    PROVE  UNCHANGED Once!vars \/ Misread
<1>1. u \in todo /\ todo' = todo \ {u} /\ UNCHANGED <<act, crit, duration>>
  BY DEF Turn
<1>2. ASSUME NEW i \in DOMAIN crit, TRUE \in Reads(u, crit[i])
      PROVE  Dangling(crit[i]) \/ Exec(u, crit[i])
  BY <1>2 DEF Reads
<1>3. ASSUME NEW i \in DOMAIN crit, FALSE \in Reads(u, crit[i])
      PROVE  ~Exec(u, crit[i])
  <2>1. Dangling(crit[i]) => ~Exec(u, crit[i])
    BY DEF Dangling, Exec
  <2>2. QED
    BY <1>3, <2>1 DEF Reads
<1>4. CASE MaySkip(u) /\ UNCHANGED <<network, report>>
  <2>1. u \notin Doomed
    BY <1>3, <1>4 DEF MaySkip, Doomed
  <2>2. QED
    BY <1>1, <1>4, <2>1, Skipped DEF network
<1>5. CASE MayDo(u) /\ ActOn(u) /\ ~Eligible(act, u)
  <2>1. u \notin Doomed
    BY <1>5 DEF Doomed
  <2>2. UNCHANGED <<network, report>>
    BY <1>5 DEF ActOn
  <2>3. QED
    BY <1>1, <2>1, <2>2, Skipped DEF network
<1>6. CASE MayDo(u) /\ ActOn(u) /\ Eligible(act, u)
  <2>1. \A i \in DOMAIN crit : Dangling(crit[i]) \/ Exec(u, crit[i])
    BY <1>2, <1>6 DEF MayDo
  <2>2. CASE \E i \in DOMAIN crit : Dangling(crit[i])
    BY <1>1, <2>1, <2>2 DEF Misread
  <2>3. CASE ~\E i \in DOMAIN crit : Dangling(crit[i])
    <3>1. u \in Doomed
      BY <1>1, <1>6, <2>1, <2>3 DEF Doomed
    <3>2. QED
      BY <1>1, <1>6, <3>1, ActOnDoomed
  <2>4. QED
    BY <2>2, <2>3
<1>7. QED
  BY <1>4, <1>5, <1>6 DEF Turn

\* When nobody is left to act upon the whole has happened; what is left is the reply.
LEMMA EndStep ==
    ASSUME IInv, TypeOK', act \in Actions, act' \notin Actions, Doomed = {},
           UNCHANGED network
    PROVE  Once!Reply
<1>1. /\ AsUser' = user' /\ AsMembers' = members' /\ AsKlines' = klines'
      /\ AsAct' = "idle" /\ AsReport' = Silent
  BY IdleAfter
<1>2. UNCHANGED <<user, members, klines>>
  BY DEF network
<1>3. AsUser = user
  BY DEF AsUser, IInv, TypeOK
<1>4. AsMembers = members
  <2>1. members \in [DOMAIN members -> SUBSET Online]
    BY DEF IInv, TypeOK
  <2>2. DOMAIN Without({}) = DOMAIN members
    BY DEF Without, IInv, TypeOK
  <2>3. \A c \in DOMAIN members : Without({})[c] = members[c]
    BY <2>2 DEF Without
  <2>4. Without({}) = [c \in DOMAIN members |-> members[c]]
    BY <2>2, <2>3 DEF Without
  <2>5. QED
    BY <2>1, <2>4 DEF AsMembers
<1>5. AsKlines = klines
  <2>1. klines = [h \in DOMAIN klines |-> klines[h]]
    BY DEF IInv, TypeOK
  <2>2. DOMAIN klines \cup {Host[u] : u \in Doomed} = DOMAIN klines
    OBVIOUS
  <2>3. AsKlines = IF act = "AKILL" THEN [h \in DOMAIN klines |-> klines[h]] ELSE klines
    BY <2>2 DEF AsKlines
  <2>4. QED
    BY <2>1, <2>3
<1>6. AsAct # "idle"
  BY DEF AsAct, Actions
<1>7. QED
  BY <1>1, <1>2, <1>3, <1>4, <1>5, <1>6 DEF Once!Reply, Once!network, Once!Silent, Silent

\* However many users a TRACE takes off the network and channels it frees on
\* the way, all it does is what it would do to everybody at once, except where
\* it reads a freed channel.
THEOREM ActsAtOnce == Spec => AtOnce
<1>1. ASSUME IInv, IInv', [Next]_vars
      PROVE  [Once!Next \/ UNCHANGED Once!vars \/ Misread]_vars
  <2>1. TypeOK /\ TypeOK'
    BY <1>1 DEF IInv
  <2>2. CASE act \notin Actions /\ NetworkNext /\ UNCHANGED <<act, crit, todo, duration, report>>
    BY <2>1, <2>2, NetworkStep
  <2>3. ASSUME NEW cmd \in Commands, Begin(cmd) PROVE Once!Next
    BY <2>1, <2>3, BeginStep DEF Once!Next
  <2>4. ASSUME NEW u, Turn(u) PROVE UNCHANGED Once!vars \/ Misread
    BY <2>1, <2>4, TurnStep
  <2>5. ASSUME NEW u, Fault(u) PROVE Once!Next
    <3>1. PICK i \in DOMAIN crit : Dangling(crit[i])
      BY <2>5 DEF Fault
    <3>2. \A v : ~Exec(v, crit[i])
      BY <3>1 DEF Dangling, Exec
    <3>3. Doomed = {}
      BY <3>2 DEF Doomed
    <3>4. act \in Actions /\ act' \notin Actions /\ UNCHANGED network
      BY <2>1, <2>5 DEF Fault, TypeOK, Actions
    <3>5. QED
      BY <1>1, <2>1, <3>3, <3>4, EndStep DEF Once!Next
  <2>6. ASSUME Finish PROVE Once!Next
    <3>1. Doomed = {}
      BY <2>6 DEF Finish, Doomed
    <3>2. act \in Actions /\ act' \notin Actions /\ UNCHANGED network
      BY <2>6 DEF Finish, Actions
    <3>3. QED
      BY <1>1, <2>1, <3>1, <3>2, EndStep DEF Once!Next
  <2>7. QED
    BY <1>1, <2>2, <2>3, <2>4, <2>5, <2>6 DEF Next
<1>2. Spec => []IInv
  BY InitIInv, NextIInv, PTL DEF Spec
<1>3. QED
  BY <1>1, <1>2, PTL DEF Spec, AtOnce
=============================================================================
