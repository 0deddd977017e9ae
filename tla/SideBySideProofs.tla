-------------------------- MODULE SideBySideProofs --------------------------
(***************************************************************************)
(* Theorems about the modules of SideBySide, for any number of accounts,   *)
(* nicks, patterns, requests and commands.  Each part has an invariant of  *)
(* its own, which no step of another part touches.                         *)
(***************************************************************************)
EXTENDS SideBySide, FiniteSetTheorems, SequenceTheorems, TLAPS

\* A step of all parts is a step of one, as any other part sees it.
LEMMA Frames ==
    ASSUME [Next]_parts
    PROVE  /\ (OnDbSaveNext /\ UNCHANGED jmVars) \/ UNCHANGED <<dbVars, alive>>
                 \/ (JoinMonNext /\ UNCHANGED dbVars)
           /\ (JoinMonNext /\ UNCHANGED dbVars) \/ UNCHANGED jmVars
           /\ ResolveNext \/ UNCHANGED rsVars
           /\ ForbidsNext \/ UNCHANGED forbidVars
           /\ VhostsNext \/ UNCHANGED vhVars
           /\ ChannelRegNext \/ UNCHANGED crVars
           /\ AutoJoinNext \/ UNCHANGED autojoin
           /\ RegistrationNext \/ UNCHANGED rgVars
           /\ OnDbSaveNext \/ UNCHANGED dbVars
           /\ UNCHANGED part
BY DEF Next, parts, OnDbSaveStep, ResolveStep, AutoJoinStep, JoinMonStep, ForbidsStep,
       VhostsStep, RegistrationStep, ChannelRegStep

(***************************************************************************)
(* gen_vhostonreg                                                          *)
(***************************************************************************)
\* The hosts made since the counter last started anew have numbers it has left
\* behind; the hosts that are names are as distinct as the names.
Hosts ==
    \A n \in DOMAIN usercloak : HasHost(n) =>
        /\ n \in Clean =>
              usercloak[n] = [base |-> Base[n], number |-> Number[n], epoch |-> 0]
        /\ n \notin Clean =>
              /\ usercloak[n].number \in 0 .. Modulus - 1
              /\ usercloak[n].epoch \in 1 .. epoch
              /\ usercloak[n].epoch = epoch => usercloak[n].number < counter

VhInv == VhostsTypeOK /\ Hosts /\ HostsDistinct

LEMMA VhInit == VhostsInit => VhInv
BY VhostAssumption
   DEF VhostsInit, VhInv, VhostsTypeOK, Hosts, HostsDistinct, EmptyMap, HasHost

\* A map that gains an account without a host, or loses one, is as good.
LEMMA FewerHosts ==
    ASSUME VhInv, VhostsTypeOK', counter' = counter, epoch' = epoch,
           \A n \in DOMAIN usercloak' :
              HasHost(n)' => n \in DOMAIN usercloak /\ usercloak'[n] = usercloak[n]
    PROVE  VhInv'
<1>1. \A n \in DOMAIN usercloak' :
         HasHost(n)' => /\ n \in DOMAIN usercloak /\ HasHost(n)
                        /\ usercloak'[n] = usercloak[n]
  BY DEF HasHost, NoHost
<1>2. Hosts'
  BY <1>1 DEF Hosts, VhInv
<1>3. HostsDistinct'
  BY <1>1 DEF HostsDistinct, VhInv, SameHost
<1>4. QED
  BY <1>2, <1>3 DEF VhInv

LEMMA AddHostOK ==
    ASSUME VhInv, NEW name \in Names, AddHost(name), vh_loaded,
           UNCHANGED vh_loaded, verified' \subseteq DOMAIN usercloak'
    PROVE  VhInv'
<1>1. /\ DOMAIN usercloak' = DOMAIN usercloak \cup {name}
      /\ usercloak'[name] = HostOf(name)
      /\ \A n \in DOMAIN usercloak : n # name => usercloak'[n] = usercloak[n]
  BY DEF AddHost, Put
<1>2. /\ counter \in 0 .. Modulus - 1 /\ epoch \in 1 .. MaxEpochs + 1
      /\ Modulus \in Nat \ {0} /\ MaxEpochs \in Nat
  BY VhostAssumption DEF VhInv, VhostsTypeOK
<1>3. /\ name \in Clean => UNCHANGED <<counter, epoch>>
      /\ counter' \in 0 .. Modulus - 1 /\ epoch' \in 1 .. MaxEpochs + 1
      /\ epoch' = epoch => counter' >= counter
      /\ name \notin Clean => (epoch' = epoch /\ counter' = counter + 1) \/ epoch' = epoch + 1
      /\ epoch' = epoch \/ epoch' = epoch + 1
  BY <1>2 DEF AddHost, Count
<1>4. VhostsTypeOK'
  BY <1>1, <1>3 DEF VhInv, VhostsTypeOK
<1>5. ASSUME NEW n \in DOMAIN usercloak', n # name, HasHost(n)'
      PROVE  n \in DOMAIN usercloak /\ HasHost(n) /\ usercloak'[n] = usercloak[n]
  BY <1>1, <1>5 DEF HasHost, NoHost
<1>6. /\ name \in Clean =>
            HostOf(name) = [base |-> Base[name], number |-> Number[name], epoch |-> 0]
      /\ name \notin Clean => HostOf(name).number = counter /\ HostOf(name).epoch = epoch
  BY DEF HostOf
<1>7. Hosts'
  <2> SUFFICES ASSUME NEW n \in DOMAIN usercloak', HasHost(n)'
               PROVE  /\ n \in Clean =>
                            usercloak'[n] = [base |-> Base[n], number |-> Number[n], epoch |-> 0]
                      /\ n \notin Clean =>
                            /\ usercloak'[n].number \in 0 .. Modulus - 1
                            /\ usercloak'[n].epoch \in 1 .. epoch'
                            /\ usercloak'[n].epoch = epoch' => usercloak'[n].number < counter'
    BY DEF Hosts
  <2>1. CASE n = name
    BY <2>1, <1>1, <1>2, <1>3, <1>6
  <2>2. CASE n # name
    BY <2>2, <1>2, <1>3, <1>5 DEF Hosts, VhInv
  <2>3. QED
    BY <2>1, <2>2
<1>8. ASSUME NEW n \in DOMAIN usercloak', n # name, HasHost(n)', HasHost(name)',
             usercloak'[n].base = usercloak'[name].base,
             usercloak'[n].number = usercloak'[name].number,
             usercloak'[n].epoch = usercloak'[name].epoch
      PROVE  FALSE
  <2>1. /\ n \in Clean =>
              usercloak'[n] = [base |-> Base[n], number |-> Number[n], epoch |-> 0]
        /\ n \notin Clean =>
              /\ usercloak'[n].epoch \in 1 .. epoch
              /\ usercloak'[n].epoch = epoch => usercloak'[n].number < counter
              /\ usercloak'[n].number \in 0 .. Modulus - 1
    BY <1>5, <1>8 DEF Hosts, VhInv
  <2>2. CASE name \in Clean
    BY <2>1, <2>2, <1>1, <1>2, <1>6, <1>8, VhostAssumption
  <2>3. CASE name \notin Clean
    BY <2>1, <2>3, <1>1, <1>2, <1>6, <1>8
  <2>4. QED
    BY <2>2, <2>3
<1>9. HostsDistinct'
  <2> SUFFICES ASSUME NEW m \in DOMAIN usercloak', NEW n \in DOMAIN usercloak',
                      m # n, HasHost(m)', HasHost(n)', SameHost(m, n)',
                      usercloak'[m].epoch = usercloak'[n].epoch
               PROVE  FALSE
    BY DEF HostsDistinct
  <2>1. CASE m = name
    BY <2>1, <1>8 DEF SameHost
  <2>2. CASE n = name
    BY <2>2, <1>8 DEF SameHost
  <2>3. CASE m # name /\ n # name
    BY <2>3, <1>5 DEF HostsDistinct, VhInv, SameHost
  <2>4. QED
    BY <2>1, <2>2, <2>3
<1>10. QED
  BY <1>4, <1>7, <1>9 DEF VhInv

LEMMA VhNext == VhInv /\ (VhostsNext \/ UNCHANGED vhVars) => VhInv'
<1> SUFFICES ASSUME VhInv, VhostsNext \/ UNCHANGED vhVars PROVE VhInv'
  OBVIOUS
<1>1. CASE UNCHANGED vhVars
  BY <1>1 DEF vhVars, VhInv, VhostsTypeOK, Hosts, HostsDistinct, HasHost, SameHost
<1>2. ASSUME NEW name \in Names, RegisterUnverified(name) PROVE VhInv'
  <2>1. VhostsTypeOK'
    BY <1>2 DEF RegisterUnverified, Put, VhInv, VhostsTypeOK
  <2>2. QED
    BY <1>2, <2>1, FewerHosts DEF RegisterUnverified, Put, HasHost, NoHost
<1>3. ASSUME NEW name \in Names, RegisterVerified(name) PROVE VhInv'
  <2>1. verified' \subseteq DOMAIN usercloak'
    BY <1>3 DEF RegisterVerified, AddHost, Put, VhInv, VhostsTypeOK
  <2>2. CASE vh_loaded
    BY <1>3, <2>1, <2>2, AddHostOK DEF RegisterVerified
  <2>3. CASE ~vh_loaded
    <3>1. VhostsTypeOK'
      BY <1>3, <2>1, <2>3 DEF RegisterVerified, AddHost, Put, VhInv, VhostsTypeOK
    <3>2. QED
      BY <1>3, <2>3, <3>1, FewerHosts DEF RegisterVerified, AddHost, Put, HasHost, NoHost
  <2>4. QED
    BY <2>2, <2>3
<1>4. ASSUME NEW name \in Names, Verify(name) PROVE VhInv'
  <2>1. verified' \subseteq DOMAIN usercloak'
    BY <1>4 DEF Verify, AddHost, Put, VhInv, VhostsTypeOK
  <2>2. CASE vh_loaded
    BY <1>4, <2>1, <2>2, AddHostOK DEF Verify
  <2>3. CASE ~vh_loaded
    <3>1. VhostsTypeOK'
      BY <1>4, <2>1, <2>3 DEF Verify, VhInv, VhostsTypeOK
    <3>2. QED
      BY <1>4, <2>3, <3>1, FewerHosts DEF Verify, HasHost
  <2>4. QED
    BY <2>2, <2>3
<1>5. ASSUME NEW name \in Names, IdentifyHost(name) PROVE VhInv'
  <2>1. verified' \subseteq DOMAIN usercloak'
    BY <1>5 DEF IdentifyHost, AddHost, Put, VhInv, VhostsTypeOK
  <2>2. QED
    BY <1>5, <2>1, AddHostOK DEF IdentifyHost
<1>6. ASSUME NEW name \in Names, DropHost(name) PROVE VhInv'
  <2>1. VhostsTypeOK'
    BY <1>6 DEF DropHost, Del, VhInv, VhostsTypeOK
  <2>2. QED
    BY <1>6, <2>1, FewerHosts DEF DropHost, Del, HasHost
<1>7. CASE UnloadVhosts
  <2>1. VhostsTypeOK'
    BY <1>7 DEF UnloadVhosts, VhInv, VhostsTypeOK
  <2>2. QED
    BY <1>7, <2>1, FewerHosts DEF UnloadVhosts, HasHost
<1>8. CASE LoadVhosts
  <2>1. /\ epoch \in 1 .. MaxEpochs + 1 /\ MaxEpochs \in Nat /\ epoch < MaxEpochs
        /\ epoch' = epoch + 1 /\ counter' \in 0 .. Modulus - 1
        /\ UNCHANGED <<usercloak, verified>> /\ vh_loaded' = TRUE
    BY <1>8, VhostAssumption DEF LoadVhosts, VhInv, VhostsTypeOK
  <2>2. VhostsTypeOK'
    BY <2>1 DEF VhInv, VhostsTypeOK
  <2>3. Hosts'
    BY <2>1 DEF VhInv, Hosts, HasHost, NoHost
  <2>4. HostsDistinct'
    BY <2>1 DEF VhInv, HostsDistinct, HasHost, NoHost, SameHost
  <2>5. QED
    BY <2>2, <2>3, <2>4 DEF VhInv
<1>9. QED
  BY <1>1, <1>2, <1>3, <1>4, <1>5, <1>6, <1>7, <1>8 DEF VhostsNext

\* Two accounts have one host only if the counter has started anew or wrapped
\* between the two, or if one is called what the other's host was made to be.
THEOREM HostsAlwaysDistinct == Spec => []HostsDistinct
<1>1. Init => VhInv
  BY VhInit DEF Init
<1>2. VhInv /\ [Next]_parts => VhInv'
  BY VhNext, Frames
<1>3. VhInv => HostsDistinct
  BY DEF VhInv
<1>4. QED
  BY <1>1, <1>2, <1>3, PTL DEF Spec

(***************************************************************************)
(* ns_forbid                                                               *)
(***************************************************************************)
\* An account without an address was made by FORBID ON, and whoever used it
\* since has left a trace in the time of its last login; an account made by
\* FORBID ON that has an address has been used.  Owned nicks include the name.
ForbidTraces(name) ==
    LET a == account[name]
    IN  /\ a.email = NoEmail => a.forbidden /\ (a.taken <=> ~a.same)
        /\ a.forbidden /\ a.email # NoEmail => a.taken
        /\ IF owned THEN name \in a.nicks ELSE a.nicks = {}
        /\ IsFiniteSet(a.nicks)

FbInv == ForbidsTypeOK /\ \A name \in DOMAIN account : ForbidTraces(name)

LEMMA FbInit == ForbidsInit => FbInv
BY DEF ForbidsInit, FbInv, ForbidsTypeOK, EmptyMap

LEMMA FbMade ==
    ASSUME NEW name \in Nicks, NEW email \in {NoEmail, "address"},
           NEW forbidden \in BOOLEAN, forbidden <=> email = NoEmail, FbInv,
           account' = Put(account, name, NewAccount(name, email, forbidden)),
           UNCHANGED owned
    PROVE  FbInv'
<1> DEFINE a == NewAccount(name, email, forbidden)
<1>1. /\ DOMAIN account' = DOMAIN account \cup {name}
      /\ account'[name] = a
      /\ \A n \in DOMAIN account : n # name => account'[n] = account[n]
  BY DEF Put
<1>2. /\ a \in AccountRecord
      /\ a.email = email /\ a.forbidden = forbidden /\ a.taken = FALSE /\ a.same = TRUE
      /\ a.nicks = IF owned THEN {name} ELSE {}
  BY FreezeAssumption DEF NewAccount, AccountRecord, Thawed
<1>3. IsFiniteSet(a.nicks)
  BY <1>2, FS_Singleton, FS_EmptySet
<1>4. ForbidsTypeOK'
  <2>1. \A n \in DOMAIN account' : account'[n] \in AccountRecord
    BY <1>1, <1>2 DEF FbInv, ForbidsTypeOK
  <2>2. account' \in [DOMAIN account' -> AccountRecord]
    BY <2>1 DEF Put
  <2>3. QED
    BY <1>1, <2>2 DEF FbInv, ForbidsTypeOK
<1>5. ASSUME NEW n \in DOMAIN account' PROVE ForbidTraces(n)'
  <2>1. CASE n = name
    BY <2>1, <1>1, <1>2, <1>3 DEF ForbidTraces
  <2>2. CASE n # name
    BY <2>2, <1>1 DEF ForbidTraces, FbInv
  <2>3. QED
    BY <2>1, <2>2
<1>6. QED
  BY <1>4, <1>5 DEF FbInv

LEMMA FbChanged ==
    ASSUME FbInv, NEW name \in DOMAIN account, NEW a \in AccountRecord, Change(name, a),
           a.email = NoEmail => a.forbidden /\ (a.taken <=> ~a.same),
           a.forbidden /\ a.email # NoEmail => a.taken,
           IF owned THEN name \in a.nicks ELSE a.nicks = {},
           IsFiniteSet(a.nicks)
    PROVE  FbInv'
<1>1. /\ DOMAIN account' = DOMAIN account
      /\ account'[name] = a
      /\ \A n \in DOMAIN account : n # name => account'[n] = account[n]
      /\ UNCHANGED owned
  BY DEF Change, Put
<1>2. ForbidsTypeOK'
  <2>1. \A n \in DOMAIN account' : account'[n] \in AccountRecord
    BY <1>1 DEF FbInv, ForbidsTypeOK
  <2>2. account' \in [DOMAIN account' -> AccountRecord]
    BY <2>1 DEF Change, Put
  <2>3. QED
    BY <1>1, <2>2 DEF FbInv, ForbidsTypeOK
<1>3. ASSUME NEW n \in DOMAIN account' PROVE ForbidTraces(n)'
  <2>1. CASE n = name
    BY <2>1, <1>1 DEF ForbidTraces
  <2>2. CASE n # name
    BY <2>2, <1>1 DEF ForbidTraces, FbInv
  <2>3. QED
    BY <2>1, <2>2
<1>4. QED
  BY <1>2, <1>3 DEF FbInv

LEMMA FbDropped ==
    ASSUME FbInv, NEW name, account' = Del(account, name), UNCHANGED owned
    PROVE  FbInv'
<1>1. /\ DOMAIN account' \subseteq DOMAIN account
      /\ \A n \in DOMAIN account' : account'[n] = account[n]
      /\ account' \in [DOMAIN account' -> AccountRecord]
  BY DEF Del, FbInv, ForbidsTypeOK
<1>2. QED
  BY <1>1 DEF FbInv, ForbidsTypeOK, ForbidTraces

\* What the record of an account says, for the steps that change one.
LEMMA FbRecord ==
    ASSUME FbInv, NEW name \in DOMAIN account
    PROVE  /\ account[name] \in AccountRecord
           /\ ForbidTraces(name)
           /\ name \in Nicks
BY DEF FbInv, ForbidsTypeOK

LEMMA FbNext == FbInv /\ (ForbidsNext \/ UNCHANGED forbidVars) => FbInv'
<1> SUFFICES ASSUME FbInv, ForbidsNext \/ UNCHANGED forbidVars PROVE FbInv'
  OBVIOUS
<1>1. CASE UNCHANGED forbidVars
  BY <1>1 DEF forbidVars, FbInv, ForbidsTypeOK, ForbidTraces
<1>2. ASSUME NEW name \in Nicks, MakeForbid(name) \/ RegisterAccount(name) PROVE FbInv'
  BY <1>2, FbMade DEF MakeForbid, RegisterAccount, NoEmail
<1>3. ASSUME NEW name \in Nicks,
             DestroyForbid(name) \/ DropAccount(name) \/ \E u \in BOOLEAN : Expire(name, u)
      PROVE  FbInv'
  BY <1>3, FbDropped DEF DestroyForbid, DropAccount, Expire
<1>4. ASSUME NEW name \in Nicks, Freeze(name) PROVE FbInv'
  <2> DEFINE a == [account[name] EXCEPT !.frozen = 0]
  <2>1. name \in DOMAIN account /\ Change(name, a)
    BY <1>4 DEF Freeze
  <2>2. /\ a \in AccountRecord
        /\ a.email = account[name].email /\ a.forbidden = account[name].forbidden
        /\ a.taken = account[name].taken /\ a.same = account[name].same
        /\ a.nicks = account[name].nicks
    BY <2>1, FbRecord, FreezeAssumption DEF AccountRecord, Thawed
  <2> HIDE DEF a
  <2>3. QED
    BY <2>1, <2>2, FbRecord, FbChanged DEF ForbidTraces
<1>5. ASSUME NEW name \in Nicks, Thaw(name) PROVE FbInv'
  <2> DEFINE a == [account[name] EXCEPT !.frozen = Thawed]
  <2>1. name \in DOMAIN account /\ Change(name, a)
    BY <1>5 DEF Thaw
  <2>2. /\ a \in AccountRecord
        /\ a.email = account[name].email /\ a.forbidden = account[name].forbidden
        /\ a.taken = account[name].taken /\ a.same = account[name].same
        /\ a.nicks = account[name].nicks
    BY <2>1, FbRecord, FreezeAssumption DEF AccountRecord, Thawed
  <2> HIDE DEF a
  <2>3. QED
    BY <2>1, <2>2, FbRecord, FbChanged DEF ForbidTraces
<1>6. ASSUME NEW name \in Nicks, NEW hold \in BOOLEAN, Hold(name, hold) PROVE FbInv'
  <2> DEFINE a == [account[name] EXCEPT !.hold = hold]
  <2>1. name \in DOMAIN account /\ Change(name, a)
    BY <1>6 DEF Hold
  <2>2. /\ a \in AccountRecord
        /\ a.email = account[name].email /\ a.forbidden = account[name].forbidden
        /\ a.taken = account[name].taken /\ a.same = account[name].same
        /\ a.nicks = account[name].nicks
    BY <2>1, FbRecord DEF AccountRecord
  <2> HIDE DEF a
  <2>3. QED
    BY <2>1, <2>2, FbRecord, FbChanged DEF ForbidTraces
<1>7. ASSUME NEW name \in Nicks, Login(name) PROVE FbInv'
  <2> DEFINE a == [account[name] EXCEPT !.same = @ /\ account[name].first,
                                        !.taken = @ \/ ~account[name].first]
  <2>1. name \in DOMAIN account /\ Change(name, a)
    BY <1>7 DEF Login
  <2>2. /\ a \in AccountRecord
        /\ a.email = account[name].email /\ a.forbidden = account[name].forbidden
        /\ a.taken = (account[name].taken \/ ~account[name].first)
        /\ a.same = (account[name].same /\ account[name].first)
        /\ a.nicks = account[name].nicks
    BY <2>1, FbRecord DEF AccountRecord
  <2> HIDE DEF a
  <2>3. /\ a.email = NoEmail => a.forbidden /\ (a.taken <=> ~a.same)
        /\ a.forbidden /\ a.email # NoEmail => a.taken
    BY <2>1, <2>2, FbRecord DEF ForbidTraces
  <2>4. QED
    BY <2>1, <2>2, <2>3, FbRecord, FbChanged DEF ForbidTraces
<1>8. ASSUME NEW name \in Nicks, SetAddress(name) PROVE FbInv'
  <2> DEFINE a == [account[name] EXCEPT !.email = "address", !.taken = TRUE]
  <2>1. name \in DOMAIN account /\ Change(name, a)
    BY <1>8 DEF SetAddress
  <2>2. /\ a \in AccountRecord
        /\ a.email = "address" /\ a.taken = TRUE /\ a.nicks = account[name].nicks
    BY <2>1, FbRecord DEF AccountRecord
  <2> HIDE DEF a
  <2>3. QED
    BY <2>1, <2>2, FbRecord, FbChanged DEF ForbidTraces, NoEmail
<1>9. ASSUME NEW name \in Nicks, NEW nick \in Nicks, Group(name, nick) PROVE FbInv'
  <2> DEFINE a == [account[name] EXCEPT !.nicks = @ \cup {nick}]
  <2>1. name \in DOMAIN account /\ Change(name, a) /\ owned
    BY <1>9 DEF Group
  <2>2. /\ a \in AccountRecord
        /\ a.email = account[name].email /\ a.forbidden = account[name].forbidden
        /\ a.taken = account[name].taken /\ a.same = account[name].same
        /\ a.nicks = account[name].nicks \cup {nick}
    BY <2>1, FbRecord DEF AccountRecord
  <2> HIDE DEF a
  <2>3. IsFiniteSet(a.nicks)
    BY <2>1, <2>2, FbRecord, FS_AddElement DEF ForbidTraces
  <2>4. QED
    BY <2>1, <2>2, <2>3, FbRecord, FbChanged DEF ForbidTraces
<1>10. ASSUME NEW name \in Nicks, NEW nick \in Nicks, Ungroup(name, nick) PROVE FbInv'
  <2> DEFINE a == [account[name] EXCEPT !.nicks = @ \ {nick}]
  <2>1. name \in DOMAIN account /\ Change(name, a) /\ nick # name
    BY <1>10 DEF Ungroup
  <2>2. /\ a \in AccountRecord
        /\ a.email = account[name].email /\ a.forbidden = account[name].forbidden
        /\ a.taken = account[name].taken /\ a.same = account[name].same
        /\ a.nicks = account[name].nicks \ {nick}
    BY <2>1, FbRecord DEF AccountRecord
  <2> HIDE DEF a
  <2>3. IsFiniteSet(a.nicks)
    BY <2>1, <2>2, FbRecord, FS_RemoveElement DEF ForbidTraces
  <2>4. QED
    BY <2>1, <2>2, <2>3, FbRecord, FbChanged DEF ForbidTraces
<1>11. CASE TimePasses
  <2>1. /\ DOMAIN account' = DOMAIN account /\ UNCHANGED owned
        /\ \A n \in DOMAIN account : account'[n] = Aged(account[n])
        /\ account' \in [DOMAIN account -> {account'[n] : n \in DOMAIN account}]
    BY <1>11 DEF TimePasses
  <2>2. ASSUME NEW n \in DOMAIN account
        PROVE  /\ account'[n] \in AccountRecord
               /\ account'[n].email = account[n].email
               /\ account'[n].forbidden = account[n].forbidden
               /\ account'[n].taken = account[n].taken
               /\ account'[n].same = account[n].same
               /\ account'[n].nicks = account[n].nicks
    <3>1. account[n].frozen \in Thawed .. FreezeExpire
      BY FbRecord DEF AccountRecord
    <3> DEFINE frozen == IF account[n].frozen = Thawed \/ account[n].frozen >= FreezeExpire
                         THEN account[n].frozen ELSE account[n].frozen + 1
    <3>2. frozen \in Thawed .. FreezeExpire
      BY <3>1, FreezeAssumption DEF Thawed
    <3>3. account'[n] = [account[n] EXCEPT !.first = FALSE, !.frozen = frozen]
      BY <2>1, Zenon DEF Aged
    <3> HIDE DEF frozen
    <3>4. QED
      BY <3>2, <3>3, FbRecord DEF AccountRecord
  <2>3. ForbidsTypeOK'
    BY <2>1, <2>2 DEF FbInv, ForbidsTypeOK
  <2>4. QED
    BY <2>1, <2>2, <2>3 DEF FbInv, ForbidTraces
<1>12. QED
  BY <1>1, <1>2, <1>3, <1>4, <1>5, <1>6, <1>7, <1>8, <1>9, <1>10, <1>11 DEF ForbidsNext

\* FORBID OFF takes away what FORBID ON made and nobody has used since, and
\* nothing else, whatever operators and users did to it in between.
THEOREM LiftsExactlyTheForbidden == Spec => []LiftableIffForbidden
<1>1. Init => FbInv
  BY FbInit DEF Init
<1>2. FbInv /\ [Next]_parts => FbInv'
  BY FbNext, Frames
<1>3. FbInv => LiftableIffForbidden
  <2> SUFFICES ASSUME FbInv, NEW name \in DOMAIN account
               PROVE  Liftable(account[name]) <=>
                        /\ account[name].forbidden /\ ~account[name].taken
                        /\ account[name].frozen # Thawed /\ account[name].nicks = {name}
    BY DEF LiftableIffForbidden
  <2>1. Cardinality(account[name].nicks) = 1 <=> account[name].nicks = {name}
    <3>1. Cardinality(account[name].nicks) = 1 <=> \E x : account[name].nicks = {x}
      BY FbRecord, FS_Singleton DEF ForbidTraces
    <3>2. (\E x : account[name].nicks = {x}) <=> account[name].nicks = {name}
      BY FbRecord DEF ForbidTraces
    <3>3. QED
      BY <3>1, <3>2
  <2>2. /\ account[name].email = NoEmail =>
             account[name].forbidden /\ (account[name].taken <=> ~account[name].same)
        /\ account[name].forbidden /\ account[name].email # NoEmail => account[name].taken
    BY FbRecord DEF ForbidTraces
  <2>3. QED
    BY <2>1, <2>2 DEF Liftable
<1>4. QED
  BY <1>1, <1>2, <1>3, PTL DEF Spec

(***************************************************************************)
(* on_db_save and os_joinmon, which can end services                       *)
(***************************************************************************)
DbInv ==
    /\ mine \in Nat /\ old \in Nat
    /\ OneCommand
    /\ ~mixed => old = 0

LEMMA DbNext ==
    ASSUME DbInv, OnDbSaveNext
    PROVE  DbInv' /\ (alive /\ ~alive' => mixed)
<1>1. CASE OldFinished
  <2>1. old > 0 /\ old \in Nat /\ UNCHANGED <<mine, mixed>> /\ old' = old - 1
    BY <1>1 DEF OldFinished, DbInv
  <2>2. mixed
    BY <2>1 DEF DbInv
  <2>3. QED
    BY <2>1, <2>2 DEF DbInv, OneCommand
<1>2. CASE SaveWhileRunning \/ SavePipeFails \/ SaveForkFails \/ LoadOnDbSave \/ RehashCommand
  BY <1>2 DEF SaveWhileRunning, SavePipeFails, SaveForkFails, LoadOnDbSave, RehashCommand,
              DbInv, OneCommand, OnDbSaveNext, OldFinished
<1>3. CASE SaveStarts /\ UNCHANGED alive
  BY <1>3 DEF SaveStarts, DbInv, OneCommand
<1>4. CASE Finished /\ UNCHANGED alive
  BY <1>4 DEF Finished, DbInv, OneCommand
<1>5. CASE UnloadOnDbSave /\ UNCHANGED alive
  <2>1. ~mixed' => ~mixed /\ ~(mine > 0)
    BY <1>5, Zenon DEF UnloadOnDbSave
  <2>2. ~running' /\ old' = old + mine /\ mine' = 0
    BY <1>5, Zenon DEF UnloadOnDbSave
  <2>3. QED
    BY <1>5, <2>1, <2>2 DEF DbInv, OneCommand
<1>6. QED
  BY <1>1, <1>2, <1>3, <1>4, <1>5 DEF OnDbSaveNext

Entry == [user : Patterns, reason : {"copy", "constant"}]

\* No pattern is there twice, in memory or in the file.
Distinct(list) ==
    /\ list \in Seq(Entry)
    /\ \A i, j \in DOMAIN list : list[i].user = list[j].user => i = j

JmInv ==
    /\ Distinct(monlist) /\ Distinct(jmRows)
    /\ \A i \in DOMAIN monlist : monlist[i].reason = "constant" => monlist[i].user \in unreasoned

LEMMA DelMonitorOK ==
    ASSUME JmInv, NEW p \in Patterns, DelMonitor(p)
    PROVE  JmInv' /\ (alive /\ ~alive' => p \in unreasoned)
<1>1. PICK i \in DOMAIN monlist :
        /\ monlist[i].user = p
        /\ monlist' = [j \in 1 .. Len(monlist) - 1 |-> monlist[IF j < i THEN j ELSE j + 1]]
        /\ alive' \in IF monlist[i].reason = "constant" THEN BOOLEAN ELSE {TRUE}
  BY DEF DelMonitor
<1>2. /\ monlist \in Seq(Entry) /\ Len(monlist) \in Nat
      /\ DOMAIN monlist = 1 .. Len(monlist)
  BY DEF JmInv, Distinct
<1>3. ASSUME NEW j \in 1 .. Len(monlist) - 1
      PROVE  \E k \in DOMAIN monlist :
                k = (IF j < i THEN j ELSE j + 1) /\ k # i /\ monlist'[j] = monlist[k]
  BY <1>1, <1>2
<1>4. monlist' \in Seq(Entry) /\ DOMAIN monlist' = 1 .. Len(monlist) - 1
  <2>1. \A j \in 1 .. Len(monlist) - 1 : monlist'[j] \in Entry
    BY <1>2, <1>3
  <2>2. Len(monlist) - 1 \in Nat
    BY <1>2
  <2>3. QED
    BY <1>1, <2>1, <2>2
<1>5. Distinct(monlist')
  <2> SUFFICES ASSUME NEW j \in 1 .. Len(monlist) - 1, NEW k \in 1 .. Len(monlist) - 1,
                      monlist'[j].user = monlist'[k].user
               PROVE  j = k
    BY <1>4 DEF Distinct
  <2>1. PICK a \in DOMAIN monlist :
          a = (IF j < i THEN j ELSE j + 1) /\ monlist'[j] = monlist[a]
    BY <1>3
  <2>2. PICK b \in DOMAIN monlist :
          b = (IF k < i THEN k ELSE k + 1) /\ monlist'[k] = monlist[b]
    BY <1>3
  <2>3. a = b
    BY <2>1, <2>2 DEF JmInv, Distinct
  <2>4. QED
    BY <1>2, <2>1, <2>2, <2>3
<1>6. ASSUME NEW j \in DOMAIN monlist', monlist'[j].reason = "constant"
      PROVE  monlist'[j].user \in unreasoned'
  <2>1. PICK k \in DOMAIN monlist : k # i /\ monlist'[j] = monlist[k]
    BY <1>3, <1>4
  <2>2. monlist[k].user # p /\ monlist[k].user \in unreasoned
    BY <1>1, <1>6, <2>1 DEF JmInv, Distinct
  <2>3. QED
    BY <2>1, <2>2 DEF DelMonitor
<1>7. JmInv'
  BY <1>5, <1>6 DEF JmInv, DelMonitor
<1>8. alive /\ ~alive' => p \in unreasoned
  BY <1>1 DEF JmInv
<1>9. QED
  BY <1>7, <1>8

LEMMA JmNext ==
    ASSUME JmInv, JoinMonNext
    PROVE  JmInv' /\ (alive /\ ~alive' => \E p \in unreasoned : DelMonitor(p))
<1>1. ASSUME NEW p \in Patterns, NEW reason \in {"copy", "constant"}, AddMonitor(p, reason)
      PROVE  JmInv' /\ alive' = alive
  <2> DEFINE e == [user |-> p, reason |-> reason]
  <2>1. /\ monlist' = Append(monlist, e) /\ monlist \in Seq(Entry) /\ e \in Entry
        /\ UNCHANGED <<alive, jmRows>>
    BY <1>1 DEF AddMonitor, JmInv, Distinct, Entry
  <2>2. /\ monlist' \in Seq(Entry) /\ Len(monlist') = Len(monlist) + 1
        /\ Len(monlist) \in Nat
        /\ \A i \in 1 .. Len(monlist) : monlist'[i] = monlist[i]
        /\ monlist'[Len(monlist) + 1] = e
    BY <2>1
  <2>3. \A i \in 1 .. Len(monlist) : monlist[i].user # p
    BY <1>1, <2>1 DEF AddMonitor, Monitored
  <2>4. Distinct(monlist')
    <3> SUFFICES ASSUME NEW i \in 1 .. Len(monlist) + 1, NEW j \in 1 .. Len(monlist) + 1,
                        monlist'[i].user = monlist'[j].user
                 PROVE  i = j
      BY <2>2 DEF Distinct
    <3>1. CASE i = Len(monlist) + 1 \/ j = Len(monlist) + 1
      BY <2>2, <2>3, <3>1
    <3>2. CASE i # Len(monlist) + 1 /\ j # Len(monlist) + 1
      BY <2>1, <2>2, <3>2 DEF JmInv, Distinct
    <3>3. QED
      BY <3>1, <3>2
  <2>5. ASSUME NEW i \in 1 .. Len(monlist) + 1, monlist'[i].reason = "constant"
        PROVE  monlist'[i].user \in unreasoned'
    <3>1. CASE i = Len(monlist) + 1
      BY <1>1, <2>2, <2>5, <3>1 DEF AddMonitor
    <3>2. CASE i # Len(monlist) + 1
      <4>1. /\ i \in DOMAIN monlist /\ monlist'[i] = monlist[i]
            /\ monlist[i].user \in unreasoned /\ monlist[i].user # p
        BY <2>1, <2>2, <2>3, <2>5, <3>2 DEF JmInv
      <4>2. QED
        BY <1>1, <4>1 DEF AddMonitor
    <3>3. QED
      BY <3>1, <3>2
  <2>6. QED
    BY <2>1, <2>2, <2>4, <2>5 DEF JmInv
<1>2. CASE SaveMonitors
  BY <1>2 DEF SaveMonitors, JmInv
<1>3. CASE RestartServices
  <2>1. /\ DOMAIN monlist' = DOMAIN jmRows
        /\ \A i \in DOMAIN jmRows :
              monlist'[i] = [jmRows[i] EXCEPT !.reason = "copy"]
    BY <1>3 DEF RestartServices, Restored
  <2>2. /\ jmRows \in Seq(Entry)
        /\ \A i, j \in DOMAIN jmRows : jmRows[i].user = jmRows[j].user => i = j
    BY DEF JmInv, Distinct
  <2>3. ASSUME NEW i \in DOMAIN jmRows
        PROVE  /\ monlist'[i] \in Entry
               /\ monlist'[i].user = jmRows[i].user
               /\ monlist'[i].reason = "copy"
    <3>1. jmRows[i] \in Entry
      BY <2>2
    <3>2. QED
      BY <2>1, <3>1 DEF Entry
  <2>4. monlist' \in Seq(Entry)
    <3>1. DOMAIN jmRows = 1 .. Len(jmRows) /\ Len(jmRows) \in Nat
      BY <2>2
    <3>2. monlist' = [i \in 1 .. Len(jmRows) |-> [jmRows[i] EXCEPT !.reason = "copy"]]
      BY <1>3, <3>1 DEF RestartServices, Restored
    <3>3. \A i \in 1 .. Len(jmRows) : [jmRows[i] EXCEPT !.reason = "copy"] \in Entry
      BY <2>1, <2>3, <3>1
    <3>4. QED
      BY <3>1, <3>2, <3>3
  <2>5. Distinct(monlist')
    BY <2>1, <2>2, <2>3, <2>4 DEF Distinct
  <2>6. QED
    BY <1>3, <2>1, <2>3, <2>5 DEF RestartServices, JmInv
<1>4. ASSUME NEW p \in Patterns, DelMonitor(p)
      PROVE  JmInv' /\ (alive /\ ~alive' => \E q \in unreasoned : DelMonitor(q))
  BY <1>4, DelMonitorOK
<1>5. QED
  BY <1>1, <1>2, <1>3, <1>4 DEF JoinMonNext, SaveMonitors, RestartServices

\* Commands of on_db_save never overlap unless the module was unloaded under
\* one, and services end only then, or by the DEL of an entry of os_joinmon that
\* was made without a reason since they started.
THEOREM OnlyOldFaultsCanKill == Spec => OnlyOldFaultsKill
<1> DEFINE Inv == DbInv /\ JmInv
           Step == /\ OneCommand'
                   /\ alive /\ ~alive' => mixed \/ \E p \in unreasoned : DelMonitor(p)
<1>1. Init => Inv
  <2> SUFFICES ASSUME Init PROVE Inv
    OBVIOUS
  <2>1. DbInv
    <3>1. mine = 0 /\ old = 0 /\ ~running
      BY DEF Init, OnDbSaveInit
    <3>2. QED
      BY <3>1 DEF DbInv, OneCommand
  <2>2. JmInv
    BY DEF Init, JoinMonInit, JmInv, Distinct
  <2>3. QED
    BY <2>1, <2>2
<1>2. Inv /\ [Next]_parts => Inv' /\ Step
  <2> SUFFICES ASSUME Inv, [Next]_parts PROVE Inv' /\ Step
    OBVIOUS
  <2>1. CASE UNCHANGED <<dbVars, alive, jmVars>>
    BY <2>1 DEF dbVars, jmVars, DbInv, JmInv, OneCommand, Distinct
  <2>2. CASE OnDbSaveNext /\ UNCHANGED jmVars
    BY <2>2, DbNext DEF jmVars, JmInv, Distinct, DbInv
  <2>3. CASE JoinMonNext /\ UNCHANGED dbVars
    <3>1. DbInv'
      BY <2>3 DEF dbVars, DbInv, OneCommand
    <3>2. QED
      BY <2>3, <3>1, JmNext DEF DbInv
  <2>4. QED
    BY <2>1, <2>2, <2>3, Frames
<1>3. Inv /\ [Next]_parts => [Step]_parts
  BY <1>2
<1>4. Spec => [][Step]_parts
  BY <1>1, <1>2, <1>3, PTL DEF Spec
<1>5. QED
  BY <1>4 DEF OnlyOldFaultsKill

(***************************************************************************)
(* os_resolve                                                              *)
(***************************************************************************)
RequestsOf(s) == {q \in Requests : source[q] = s}

RsInv ==
    /\ rs_loaded \in BOOLEAN
    /\ source \in [Requests -> Sources \cup {NoSource}]
    /\ refs \in [Sources -> Int] /\ lost \in [Sources -> Nat]
    /\ \A s \in Sources \ asked : RequestsOf(s) = {} /\ lost[s] = 0
    /\ SourceHeldForItsRequests

LEMMA InFlightType ==
    ASSUME NEW s
    PROVE  /\ IsFiniteSet(RequestsOf(s)) /\ InFlight(s) = Cardinality(RequestsOf(s))
           /\ InFlight(s) \in Nat
BY ResolveAssumption, FS_Subset, FS_CardinalityType DEF RequestsOf, InFlight

LEMMA InFlightTypeNext ==
    ASSUME NEW s
    PROVE  /\ IsFiniteSet(RequestsOf(s)') /\ InFlight(s)' = Cardinality(RequestsOf(s)')
           /\ InFlight(s)' \in Nat
BY ResolveAssumption, FS_Subset, FS_CardinalityType DEF RequestsOf, InFlight

LEMMA RsInit == ResolveInit => RsInv
<1> SUFFICES ASSUME ResolveInit PROVE RsInv
  OBVIOUS
<1>1. \A s \in Sources : RequestsOf(s) = {}
  BY ResolveAssumption DEF ResolveInit, RequestsOf
<1>2. \A s \in Sources : InFlight(s) = 0
  BY <1>1, InFlightType, FS_EmptySet
<1>3. QED
  BY <1>1, <1>2 DEF ResolveInit, RsInv, SourceHeldForItsRequests

LEMMA ResolveOK ==
    ASSUME RsInv, NEW s \in Sources, Resolve(s)
    PROVE  RsInv'
<1>1. PICK q4 \in Requests, q6 \in Requests :
        /\ source[q4] = NoSource /\ source[q6] = NoSource /\ q4 # q6
        /\ source' = [source EXCEPT ![q4] = s, ![q6] = s]
  BY DEF Resolve
<1>2. /\ s \notin asked /\ asked' = asked \cup {s} /\ rs_loaded = TRUE
      /\ refs' = [refs EXCEPT ![s] = 2] /\ UNCHANGED <<rs_loaded, lost>>
  BY DEF Resolve, RsInv
<1>3. RequestsOf(s)' = {q4} \cup {q6}
  BY <1>1, <1>2 DEF RequestsOf, RsInv
<1>4. InFlight(s)' = 2
  <2>1. Cardinality({q4}) = 1 /\ IsFiniteSet({q4})
    BY FS_Singleton
  <2>2. Cardinality({q4} \cup {q6}) = 2
    <3> DEFINE S == {q4}
    <3>1. IsFiniteSet(S) /\ Cardinality(S) = 1 /\ q6 \notin S
      BY <1>1, <2>1
    <3> HIDE DEF S
    <3>2. Cardinality(S \cup {q6}) = 1 + 1
      BY <3>1, FS_AddElement
    <3>3. QED
      BY <3>2 DEF S
  <2>3. QED
    BY <1>3, <2>2, InFlightTypeNext
<1>5. ASSUME NEW t \in Sources, t # s
      PROVE  RequestsOf(t)' = RequestsOf(t) /\ InFlight(t)' = InFlight(t)
  <2>1. RequestsOf(t)' = RequestsOf(t)
    BY <1>1, <1>5, ResolveAssumption DEF RequestsOf, RsInv
  <2>2. QED
    BY <2>1, InFlightType, InFlightTypeNext
<1>6. \A t \in Sources : refs'[t] = InFlight(t)' + lost'[t]
  BY <1>2, <1>4, <1>5 DEF RsInv, SourceHeldForItsRequests
<1>7. \A t \in Sources \ asked' : RequestsOf(t)' = {} /\ lost'[t] = 0
  BY <1>2, <1>5 DEF RsInv
<1>8. QED
  BY <1>1, <1>2, <1>6, <1>7 DEF RsInv, SourceHeldForItsRequests

LEMMA AnswerOK ==
    ASSUME RsInv, NEW q \in Requests, Answer(q) \/ NoReply(q)
    PROVE  RsInv'
<1>1. PICK s \in Sources :
        /\ s = source[q] /\ rs_loaded = TRUE
        /\ source' = [source EXCEPT ![q] = NoSource]
        /\ UNCHANGED <<rs_loaded, asked>>
        /\ \/ refs' = [refs EXCEPT ![s] = @ - 1] /\ UNCHANGED lost
           \/ lost' = [lost EXCEPT ![s] = @ + 1] /\ UNCHANGED refs
  <2>1. source[q] \in Sources
    BY DEF Answer, NoReply, RsInv
  <2>2. QED
    BY <2>1 DEF Answer, NoReply, RsInv
<1>2. RequestsOf(s)' = RequestsOf(s) \ {q} /\ q \in RequestsOf(s)
  BY <1>1, ResolveAssumption DEF RequestsOf, RsInv
<1>3. InFlight(s)' = InFlight(s) - 1
  BY <1>2, InFlightType, InFlightTypeNext, FS_RemoveElement
<1>4. ASSUME NEW t \in Sources, t # s
      PROVE  RequestsOf(t)' = RequestsOf(t) /\ InFlight(t)' = InFlight(t)
  <2>1. RequestsOf(t)' = RequestsOf(t)
    BY <1>1, <1>4, ResolveAssumption DEF RequestsOf, RsInv
  <2>2. QED
    BY <2>1, InFlightType, InFlightTypeNext
<1>5. s \in asked
  BY <1>1, <1>2 DEF RsInv
<1>6. \A t \in Sources : refs'[t] = InFlight(t)' + lost'[t]
  <2> SUFFICES ASSUME NEW t \in Sources PROVE refs'[t] = InFlight(t)' + lost'[t]
    OBVIOUS
  <2>1. refs[t] = InFlight(t) + lost[t] /\ refs[t] \in Int /\ lost[t] \in Nat
        /\ InFlight(t) \in Nat
    BY InFlightType DEF RsInv, SourceHeldForItsRequests
  <2>2. CASE t = s
    BY <1>1, <1>3, <2>1, <2>2 DEF RsInv
  <2>3. CASE t # s
    BY <1>1, <1>4, <2>1, <2>3 DEF RsInv
  <2>4. QED
    BY <2>2, <2>3
<1>7. \A t \in Sources \ asked' : RequestsOf(t)' = {} /\ lost'[t] = 0
  BY <1>1, <1>4, <1>5 DEF RsInv
<1>8. /\ source' \in [Requests -> Sources \cup {NoSource}]
      /\ refs' \in [Sources -> Int] /\ lost' \in [Sources -> Nat]
  BY <1>1 DEF RsInv
<1>9. QED
  BY <1>1, <1>6, <1>7, <1>8 DEF RsInv, SourceHeldForItsRequests

LEMMA UnloadResolveOK == RsInv /\ UnloadResolve => RsInv'
<1> SUFFICES ASSUME RsInv, UnloadResolve PROVE RsInv'
  OBVIOUS
<1>1. /\ rs_loaded' = FALSE /\ UNCHANGED <<refs, asked>>
      /\ lost' = [s \in Sources |-> lost[s] + InFlight(s)]
      /\ source' = [q \in Requests |-> NoSource]
  BY DEF UnloadResolve
<1>2. \A s \in Sources : RequestsOf(s)' = {} /\ InFlight(s)' = 0
  <2>1. \A s \in Sources : RequestsOf(s)' = {}
    BY <1>1, ResolveAssumption DEF RequestsOf
  <2>2. QED
    BY <2>1, InFlightTypeNext, FS_EmptySet
<1>3. ASSUME NEW s \in Sources
      PROVE  /\ lost'[s] \in Nat /\ refs'[s] = InFlight(s)' + lost'[s]
             /\ s \notin asked' => lost'[s] = 0
  <2>1. refs[s] = InFlight(s) + lost[s] /\ refs[s] \in Int /\ lost[s] \in Nat
        /\ InFlight(s) \in Nat
    BY InFlightType DEF RsInv, SourceHeldForItsRequests
  <2>2. s \notin asked => InFlight(s) = 0 /\ lost[s] = 0
    BY InFlightType, FS_EmptySet DEF RsInv
  <2>3. QED
    BY <1>1, <1>2, <2>1, <2>2
<1>4. QED
  BY <1>1, <1>2, <1>3 DEF RsInv, SourceHeldForItsRequests

LEMMA RsNext == RsInv /\ (ResolveNext \/ UNCHANGED rsVars) => RsInv'
<1>1. RsInv /\ UNCHANGED rsVars => RsInv'
  BY DEF rsVars, RsInv, SourceHeldForItsRequests, RequestsOf, InFlight
<1>2. RsInv /\ LoadResolve => RsInv'
  BY DEF LoadResolve, RsInv, SourceHeldForItsRequests, RequestsOf, InFlight
<1>3. QED
  BY <1>1, <1>2, ResolveOK, AnswerOK, UnloadResolveOK DEF ResolveNext

\* A source is held by its requests in flight and by those that were lost, and
\* no request outlives its heap.
THEOREM SourcesAlwaysHeld == Spec => []SourceHeldForItsRequests
<1>1. Init => RsInv
  BY RsInit DEF Init
<1>2. RsInv /\ [Next]_parts => RsInv'
  BY RsNext, Frames
<1>3. RsInv => SourceHeldForItsRequests
  BY DEF RsInv
<1>4. QED
  BY <1>1, <1>2, <1>3, PTL DEF Spec

(***************************************************************************)
(* cs_fregister, mlocktweaker, cs_updown                                   *)
(***************************************************************************)
CrInv ==
    /\ chan = [exists |-> chan.exists, modes |-> chan.modes, status |-> chan.status]
    /\ mychan = [registered |-> mychan.registered, on |-> mychan.on, off |-> mychan.off,
                 closed |-> mychan.closed, flags |-> mychan.flags]
    /\ LocksAgree

LEMMA CrInit == ChannelRegInit => CrInv
BY DEF ChannelRegInit, CrInv, LocksAgree, NoChannel, NotRegistered

LEMMA CrNext ==
    ASSUME CrInv, ChannelRegNext \/ UNCHANGED crVars
    PROVE  CrInv'
<1>1. CASE UNCHANGED crVars
  BY <1>1 DEF crVars, CrInv, LocksAgree
<1>2. ASSUME NEW approved \in BOOLEAN, FRegister(approved) PROVE CrInv'
  <2>1. /\ mychan' = Tweaked(DefaultLock) /\ UNCHANGED tweak
    BY <1>2 DEF FRegister
  <2> DEFINE lock == DefaultLock
  <2>2. lock = [registered |-> TRUE, on |-> {"n", "t"}, off |-> lock.off,
                closed |-> FALSE, flags |-> lock.flags]
    <3> DEFINE off == {"l", "k"} \ chan.modes
               flags == {"founder", "useowner", "useprotect", "autoop", "op", "autovoice",
                         "voice"}
               on == {"n", "t"}
    <3>1. lock = [NotRegistered EXCEPT !.registered = TRUE, !.on = on, !.off = off,
                                       !.flags = flags]
      BY Zenon DEF DefaultLock
    <3> HIDE DEF lock, off, flags, on
    <3>2. lock = [registered |-> TRUE, on |-> on, off |-> lock.off, closed |-> FALSE,
                  flags |-> lock.flags]
      BY <3>1 DEF NotRegistered
    <3>3. QED
      BY <3>2 DEF on
  <2>3. {"n", "t"} \cap lock.off = {}
    BY DEF DefaultLock, NotRegistered
  <2> HIDE DEF lock
  <2>4. /\ mychan' = [registered |-> mychan'.registered, on |-> mychan'.on,
                      off |-> mychan'.off, closed |-> mychan'.closed, flags |-> mychan'.flags]
        /\ mychan'.on \cap mychan'.off = {}
    <3>1. CASE tweak = NotLoaded
      BY <2>1, <2>2, <2>3, <3>1 DEF Tweaked, lock
    <3>2. CASE tweak # NotLoaded
      <4> DEFINE on == lock.on \cup Given(tweak, "+")
                 off == (lock.off \cup Given(tweak, "-")) \ on
      <4>1. mychan' = [lock EXCEPT !.on = on, !.off = off]
        BY <2>1, <3>2 DEF Tweaked, lock
      <4>2. on \cap off = {}
        OBVIOUS
      <4> HIDE DEF on, off
      <4>3. QED
        BY <4>1, <4>2, <2>2
    <3>3. QED
      BY <3>1, <3>2
  <2>5. chan' = [exists |-> chan'.exists, modes |-> chan'.modes, status |-> chan'.status]
    <3> DEFINE modes == IF regmode THEN chan.modes \cup {"r"} ELSE chan.modes
               status == IF chan.status = {"out"} THEN chan.status ELSE Founded(chan.status)
    <3>1. chan' = [chan EXCEPT !.modes = modes, !.status = status]
      BY <1>2, Zenon DEF FRegister
    <3> HIDE DEF modes, status
    <3>2. QED
      BY <3>1 DEF CrInv
  <2>6. QED
    BY <2>4, <2>5 DEF CrInv, LocksAgree
<1>3. ASSUME UNCHANGED mychan,
             \E modes, status :
                \/ chan' = [chan EXCEPT !.modes = modes, !.status = status]
                \/ chan' = [exists |-> TRUE, modes |-> modes, status |-> status]
                \/ chan' = NoChannel
      PROVE  CrInv'
  BY <1>3 DEF CrInv, LocksAgree, NoChannel
<1>4. CASE DropChannel
  BY <1>4 DEF DropChannel, NotRegistered, CrInv, LocksAgree
<1>5. ASSUME UNCHANGED chan, \E x : \/ mychan' = [mychan EXCEPT !.flags = x]
                                    \/ mychan' = [mychan EXCEPT !.closed = x]
                                    \/ mychan' = mychan
      PROVE  CrInv'
  BY <1>5 DEF CrInv, LocksAgree
<1>6. ASSUME Up \/ Down \/ JoinOrPart \/ \E s \in Statuses : SetStatus(s) PROVE CrInv'
  <2>1. UNCHANGED mychan /\ \E status : chan' = [chan EXCEPT !.status = status]
    BY <1>6 DEF Up, Down, JoinOrPart, SetStatus
  <2>2. QED
    BY <2>1 DEF CrInv, LocksAgree
<1>7. ASSUME NEW m, SetModes(m) PROVE CrInv'
  <2>1. UNCHANGED mychan /\ \E modes : chan' = [chan EXCEPT !.modes = modes]
    BY <1>7 DEF SetModes
  <2>2. QED
    BY <2>1 DEF CrInv, LocksAgree
<1>8. CASE ChannelAppears \/ ChannelEmpties
  BY <1>8, <1>3 DEF ChannelAppears, ChannelEmpties
<1>9. ASSUME CloseChannel \/ (\E flags \in FlagSets : SetFlags(flags))
             \/ \E text : Configure(text)
      PROVE  CrInv'
  BY <1>9, <1>5 DEF CloseChannel, SetFlags, Configure
<1>10. QED
  BY <1>1, <1>2, <1>4, <1>6, <1>7, <1>8, <1>9 DEF ChannelRegNext

LEMMA UpThenDownOK ==
    ASSUME CrInv
    PROVE  UpThenDown
<1>1. ASSUME Up, {"q", "a"} \subseteq chan'.status \ chan.status PROVE FALSE
  <2>1. chan'.status = chan.status \cup Granted(chan.status)
    BY <1>1 DEF Up, CrInv
  <2>2. "q" \in Granted(chan.status) /\ "a" \in Granted(chan.status) /\ "q" \notin chan.status
    BY <1>1, <2>1
  <2>3. QED
    BY <2>2 DEF Granted
<1>2. ASSUME Down PROVE chan'.status \cap Granted({}) = {}
  <2>1. chan'.status = chan.status \ Statuses
    BY <1>2 DEF Down, CrInv
  <2>2. Granted({}) \subseteq Statuses
    BY DEF Granted
  <2>3. QED
    BY <2>1, <2>2
<1>3. QED
  BY <1>1, <1>2 DEF UpThenDown

\* No mode is ever locked both on and off, UP makes nobody owner and protected at
\* once, and DOWN takes all that UP gives.
THEOREM StatusAndLocksHold == Spec => StatusAndLocks
<1>1. Init => CrInv
  BY CrInit DEF Init
<1>2. CrInv /\ [Next]_parts => CrInv' /\ [LocksAgree' /\ UpThenDown]_crVars
  BY CrNext, UpThenDownOK, Frames DEF CrInv
<1>3. QED
  BY <1>1, <1>2, PTL DEF Spec, StatusAndLocks

(***************************************************************************)
(* Induction and recursion: the library gives the least-number principle   *)
(* for sets (WFMin), so a statement is proved for every number by taking   *)
(* the set of the numbers it holds for.                                    *)
(***************************************************************************)
\* Every set of natural numbers that has an element has a least one.
LEMMA LeastNumber ==
    ASSUME NEW T \in SUBSET Nat, T # {}
    PROVE  \E m \in T : \A n \in T : m <= n
<1> DEFINE Less == {ss \in Nat \X Nat : ss[1] < ss[2]}
<1>1. IsWellFoundedOn(Less, Nat)
  BY NatLessThanWellFounded DEF OpToRel
<1> HIDE DEF Less
<1>2. PICK m \in T : \A n \in T : ~(<<n, m>> \in Less)
  BY <1>1, WFMin
<1>3. \A n \in T : ~(n < m)
  BY <1>2 DEF Less
<1> QED BY <1>3

\* A set with 0, and with the successor of each of its numbers, has them all.
LEMMA Induction ==
    ASSUME NEW T \in SUBSET Nat, 0 \in T, \A n \in T : n + 1 \in T
    PROVE  T = Nat
<1> SUFFICES ASSUME Nat \ T # {} PROVE FALSE
  OBVIOUS
<1>1. PICK m \in Nat \ T : \A n \in Nat \ T : m <= n
  BY LeastNumber
<1>2. m - 1 \in Nat /\ m - 1 \in T
  BY <1>1
<1>3. (m - 1) + 1 \in T
  BY <1>2
<1> QED BY <1>1, <1>3

Follows(f, N, first, step) ==
    f[0] = first /\ \A n \in 1 .. N : f[n] = step[n][f[n - 1]]

\* A function on 0 .. N may be given by its first value and the step from each
\* value to the next.
LEMMA Recursion ==
    ASSUME NEW S, NEW N \in Nat, NEW first \in S, NEW step \in [1 .. N -> [S -> S]]
    PROVE  \E f \in [0 .. N -> S] : Follows(f, N, first, step)
<1> DEFINE Upto(k) ==
              \E f \in [0 .. k -> S] :
                 f[0] = first /\ \A n \in 1 .. k : f[n] = step[n][f[n - 1]]
           T == {k \in Nat : k <= N => Upto(k)}
<1>1. 0 \in T
  <2> DEFINE g == [i \in 0 .. 0 |-> first]
  <2>1. g \in [0 .. 0 -> S] /\ g[0] = first
    OBVIOUS
  <2> HIDE DEF g
  <2>2. Upto(0)
    BY <2>1
  <2> QED BY <2>2
<1>2. ASSUME NEW k \in T PROVE k + 1 \in T
  <2> SUFFICES ASSUME k + 1 <= N PROVE Upto(k + 1)
    OBVIOUS
  <2>1. k \in Nat /\ Upto(k)
    OBVIOUS
  <2>2. PICK f \in [0 .. k -> S] :
           f[0] = first /\ \A n \in 1 .. k : f[n] = step[n][f[n - 1]]
    BY <2>1
  <2> DEFINE g == [i \in 0 .. k + 1 |-> IF i = k + 1 THEN step[k + 1][f[k]] ELSE f[i]]
  <2>3. k + 1 \in 1 .. N /\ f[k] \in S
    BY <2>1
  <2>4. step[k + 1][f[k]] \in S
    BY <2>3
  <2>5. g \in [0 .. k + 1 -> S]
    BY <2>1, <2>4
  <2>6. g[0] = first
    BY <2>1, <2>2
  <2>7. ASSUME NEW n \in 1 .. k + 1 PROVE g[n] = step[n][g[n - 1]]
    <3>1. n - 1 \in 0 .. k /\ g[n - 1] = f[n - 1]
      BY <2>1
    <3>2. CASE n = k + 1
      BY <3>1, <3>2, <2>1
    <3>3. CASE n # k + 1
      <4>1. n \in 1 .. k /\ g[n] = f[n]
        BY <3>3, <2>1
      <4> QED BY <4>1, <3>1, <2>2
    <3> QED BY <3>2, <3>3
  <2> HIDE DEF g
  <2> QED BY <2>5, <2>6, <2>7
<1> HIDE DEF Upto
<1>3. T = Nat
  <2>1. T \in SUBSET Nat
    OBVIOUS
  <2> HIDE DEF T
  <2> QED BY <1>1, <1>2, <2>1, Induction
<1>4. Upto(N)
  BY <1>3
<1> QED BY <1>4 DEF Upto, Follows

(***************************************************************************)
(* The types of all variables.                                             *)
(***************************************************************************)
\* Every command holds two descriptors, and a failed fork has taken four.
DbTypes == OnDbSaveTypeOK /\ fds + 2 * (mine + old) <= FdLimit

LEMMA DbTypesNext == DbTypes /\ (OnDbSaveNext \/ UNCHANGED dbVars) => DbTypes'
<1> SUFFICES ASSUME DbTypes, OnDbSaveNext \/ UNCHANGED dbVars PROVE DbTypes'
  OBVIOUS
<1> DEFINE Flags == /\ db_loaded \in BOOLEAN /\ command \in BOOLEAN /\ running \in BOOLEAN
                    /\ behind \in BOOLEAN /\ mixed \in BOOLEAN
           Counts == /\ mine \in Nat /\ old \in Nat /\ fds \in 0 .. FdLimit
                     /\ fds + 2 * (mine + old) <= FdLimit
<1>1. Flags /\ Counts /\ FdLimit \in Nat
  BY FdAssumption, Zenon DEF DbTypes, OnDbSaveTypeOK
<1>2. Flags'
  BY <1>1, Zenon
     DEF dbVars, OnDbSaveNext, OldFinished, SaveWhileRunning, SavePipeFails, SaveForkFails,
         SaveStarts, Finished, UnloadOnDbSave, LoadOnDbSave, RehashCommand
<1>3. \/ UNCHANGED <<mine, old, fds>>
      \/ old > 0 /\ old' = old - 1 /\ fds' = fds + 2 /\ UNCHANGED mine
      \/ fds >= 4 /\ fds' = fds - 4 /\ UNCHANGED <<mine, old>>
      \/ fds >= 4 /\ mine' = mine + 1 /\ fds' = fds - 2 /\ UNCHANGED old
      \/ mine > 0 /\ mine' = mine - 1 /\ fds' = fds + 2 /\ UNCHANGED old
      \/ old' = old + mine /\ mine' = 0 /\ UNCHANGED fds
  BY Zenon
     DEF dbVars, OnDbSaveNext, OldFinished, SaveWhileRunning, SavePipeFails, SaveForkFails,
         SaveStarts, Finished, UnloadOnDbSave, LoadOnDbSave, RehashCommand
<1>4. Counts'
  BY <1>1, <1>3
<1>5. QED
  BY <1>2, <1>4, Zenon DEF DbTypes, OnDbSaveTypeOK

\* A source has at most the two references of its two requests.
RsTypes == RsInv /\ asked \subseteq Sources /\ \A s \in Sources : refs[s] <= 2

LEMMA RsTypesNext == RsTypes /\ RsInv' /\ (ResolveNext \/ UNCHANGED rsVars) => RsTypes'
<1> SUFFICES ASSUME RsTypes, RsInv', ResolveNext \/ UNCHANGED rsVars
             PROVE  \A s \in Sources : refs'[s] <= 2
  BY DEF RsTypes, ResolveNext, Resolve, Answer, NoReply, UnloadResolve, LoadResolve, rsVars
<1>1. refs \in [Sources -> Int] /\ \A s \in Sources : refs[s] <= 2
  BY DEF RsTypes, RsInv
<1>2. ASSUME NEW s \in Sources, Resolve(s) PROVE \A t \in Sources : refs'[t] <= 2
  BY <1>1, <1>2 DEF Resolve
<1>3. ASSUME NEW q \in Requests, Answer(q) PROVE \A t \in Sources : refs'[t] <= 2
  BY <1>1, <1>3 DEF Answer
<1>4. CASE UNCHANGED refs
  BY <1>1, <1>4
<1>5. QED
  BY <1>2, <1>3, <1>4 DEF ResolveNext, NoReply, UnloadResolve, LoadResolve, rsVars

LEMMA RsTypesOK == RsTypes => ResolveTypeOK
<1> SUFFICES ASSUME RsTypes PROVE ResolveTypeOK
  OBVIOUS
<1>1. ASSUME NEW s \in Sources PROVE refs[s] \in 0 .. 2 /\ lost[s] \in 0 .. 2
  <2>1. refs[s] = InFlight(s) + lost[s] /\ lost[s] \in Nat /\ refs[s] \in Int /\ refs[s] <= 2
    BY DEF RsTypes, RsInv, SourceHeldForItsRequests
  <2>2. InFlight(s) \in Nat
    BY InFlightType
  <2>3. QED
    BY <2>1, <2>2
<1>2. asked \subseteq Sources
  BY DEF RsTypes
<1>3. QED
  BY <1>1, <1>2 DEF RsTypes, RsInv, ResolveTypeOK

\* What has no reason of its own is in the list: DEL takes it off both.
LEMMA UnreasonedNext ==
    unreasoned \subseteq Monitored /\ JmInv /\ (JoinMonNext \/ UNCHANGED jmVars)
        => (unreasoned \subseteq Monitored)'
<1> SUFFICES ASSUME unreasoned \subseteq Monitored, JmInv, JoinMonNext \/ UNCHANGED jmVars,
                    NEW u \in unreasoned'
             PROVE  u \in Monitored'
  OBVIOUS
<1>1. monlist \in Seq(Entry) /\ Len(monlist) \in Nat /\ DOMAIN monlist = 1 .. Len(monlist)
  BY DEF JmInv, Distinct
<1>2. ASSUME u \in unreasoned PROVE \E i \in DOMAIN monlist : monlist[i].user = u
  BY <1>2 DEF Monitored
<1>3. ASSUME NEW p \in Patterns, NEW reason \in {"copy", "constant"}, AddMonitor(p, reason)
      PROVE  u \in Monitored'
  <2> DEFINE e == [user |-> p, reason |-> reason]
  <2>1. /\ monlist' = Append(monlist, e) /\ u \in unreasoned \cup {p}
    BY <1>3 DEF AddMonitor
  <2>2. /\ DOMAIN monlist' = 1 .. Len(monlist) + 1
        /\ \A i \in 1 .. Len(monlist) : monlist'[i] = monlist[i]
        /\ monlist'[Len(monlist) + 1] = e
    BY <1>1, <2>1
  <2>3. \E i \in 1 .. Len(monlist) + 1 : monlist'[i].user = u
    <3>1. CASE u = p
      BY <1>1, <2>2, <3>1
    <3>2. CASE u \in unreasoned
      <4>1. PICK i \in 1 .. Len(monlist) : monlist[i].user = u
        BY <1>1, <1>2, <3>2
      <4>2. QED
        BY <1>1, <2>2, <4>1
    <3>3. QED
      BY <2>1, <3>1, <3>2
  <2>4. QED
    BY <2>2, <2>3 DEF Monitored
<1>4. ASSUME NEW p \in Patterns, DelMonitor(p) PROVE u \in Monitored'
  <2>1. PICK i \in DOMAIN monlist :
          /\ monlist[i].user = p
          /\ monlist' = [j \in 1 .. Len(monlist) - 1 |-> monlist[IF j < i THEN j ELSE j + 1]]
    BY <1>4 DEF DelMonitor
  <2>2. u \in unreasoned /\ u # p
    BY <1>4 DEF DelMonitor
  <2>3. PICK k \in DOMAIN monlist : monlist[k].user = u
    BY <1>2, <2>2
  <2> DEFINE j == IF k < i THEN k ELSE k - 1
  <2>4. k # i /\ j \in 1 .. Len(monlist) - 1 /\ (IF j < i THEN j ELSE j + 1) = k
    BY <1>1, <2>1, <2>2, <2>3
  <2> HIDE DEF j
  <2>5. j \in DOMAIN monlist' /\ monlist'[j] = monlist[k]
    BY <2>1, <2>4
  <2>6. QED
    BY <2>3, <2>5 DEF Monitored
<1>5. CASE SaveMonitors \/ RestartServices \/ UNCHANGED jmVars
  BY <1>2, <1>5 DEF SaveMonitors, RestartServices, jmVars, Monitored
<1>6. QED
  BY <1>3, <1>4, <1>5 DEF JoinMonNext

LEMMA JoinMonTypes == unreasoned \subseteq Monitored /\ JmInv => JoinMonTypeOK
<1> SUFFICES ASSUME unreasoned \subseteq Monitored, JmInv PROVE JoinMonTypeOK
  OBVIOUS
<1>1. DOMAIN monlist = 1 .. Len(monlist) /\ Len(monlist) \in Nat
  BY DEF JmInv, Distinct
<1>2. ASSUME NEW matching \in SUBSET Patterns,
             NEW i \in LoggedFor(matching), NEW j \in LoggedFor(matching)
      PROVE  i = j
  <2>1. /\ i \in 1 .. Len(monlist) /\ monlist[i].user \in matching
        /\ j \in 1 .. Len(monlist) /\ monlist[j].user \in matching
        /\ \A k \in 1 .. i - 1 : monlist[k].user \notin matching
        /\ \A k \in 1 .. j - 1 : monlist[k].user \notin matching
    BY <1>1 DEF LoggedFor
  <2>2. ~(i < j) /\ ~(j < i)
    BY <1>1, <2>1
  <2>3. QED
    BY <1>1, <2>1, <2>2
<1>3. QED
  BY <1>2 DEF JoinMonTypeOK, JmInv, Distinct

\* What a text is made of (the provers do not see that a comma is in STRING)
Characters == (STRING \cup {Comma}) \ {NoEntry[1]}

Text == Seq(Characters)

AjInv == autojoin = NoEntry \/ autojoin \in Text

(***************************************************************************)
(* ns_ajoin                                                                *)
(***************************************************************************)
\* One character read: j of the name have been matched before it.
ScanStep(list, name, i, j) ==
    IF j = Len(name) THEN j ELSE IF list[i] = name[j + 1] THEN j + 1 ELSE 0

\* What the scan has matched when it has read i characters, for every i
LEMMA ScanFacts ==
    ASSUME NEW list \in Text, NEW name \in Text
    PROVE  /\ Matched(list, name) \in [0 .. Len(list) -> 0 .. Len(name)]
           /\ Matched(list, name)[0] = 0
           /\ \A i \in 1 .. Len(list) :
                 Matched(list, name)[i] = ScanStep(list, name, i, Matched(list, name)[i - 1])
<1> DEFINE N == Len(list)
           S == 0 .. Len(name)
           step == [i \in 1 .. N |-> [j \in S |-> ScanStep(list, name, i, j)]]
           Solves(g) == g = [i \in 0 .. N |->
                               IF i = 0 THEN 0
                               ELSE LET j == g[i - 1]
                                    IN  IF j = Len(name) THEN j
                                        ELSE IF list[i] = name[j + 1] THEN j + 1 ELSE 0]
<1>1. N \in Nat /\ Len(name) \in Nat /\ 0 \in S
  BY DEF Text
<1>2. step \in [1 .. N -> [S -> S]]
  BY <1>1 DEF ScanStep
<1>3. PICK f \in [0 .. N -> S] : Follows(f, N, 0, step)
  <2> HIDE DEF N, S, step
  <2> QED BY <1>1, <1>2, Recursion
<1>4. f[0] = 0 /\ \A i \in 1 .. N : i - 1 \in 0 .. N /\ f[i] = ScanStep(list, name, i, f[i - 1])
  <2>1. f[0] = 0 /\ \A i \in 1 .. N : f[i] = step[i][f[i - 1]]
    BY <1>3 DEF Follows
  <2> HIDE DEF N, S
  <2>2. \A i \in 1 .. N : i - 1 \in 0 .. N /\ f[i - 1] \in S
    BY <1>1, <1>3
  <2> QED BY <2>1, <2>2
<1> HIDE DEF N, S, step
<1>5. Solves(f)
  <2>1. \A i \in 0 .. N : f[i] = IF i = 0 THEN 0
                                 ELSE LET j == f[i - 1]
                                      IN  IF j = Len(name) THEN j
                                          ELSE IF list[i] = name[j + 1] THEN j + 1 ELSE 0
    <3> TAKE i \in 0 .. N
    <3>1. CASE i = 0
      BY <1>4, <3>1
    <3>2. CASE i # 0
      <4>1. i \in 1 .. N
        BY <1>1, <3>2
      <4> QED BY <1>4, <3>2, <4>1 DEF ScanStep
    <3> QED BY <3>1, <3>2
  <2> QED BY <2>1, <1>3
<1> DEFINE m == Matched(list, name)
<1>6. m = CHOOSE g : Solves(g)
  BY DEF Matched, N
<1> HIDE DEF m
<1>7. Solves(m)
  <2> HIDE DEF Solves
  <2> QED BY <1>5, <1>6
<1>8. /\ m = [i \in 0 .. N |-> m[i]] /\ m[0] = 0
      /\ \A i \in 1 .. N : m[i] = ScanStep(list, name, i, m[i - 1])
  <2>1. m = [i \in 0 .. N |-> m[i]]
    BY <1>7
  <2>2. 0 \in 0 .. N /\ \A i \in 1 .. N : i \in 0 .. N /\ i # 0
    BY <1>1
  <2> QED BY <2>1, <2>2, <1>7 DEF ScanStep
<1>9. \A i \in 0 .. N : m[i] = f[i]
  <2> DEFINE T == {i \in Nat : i <= N => m[i] = f[i]}
  <2>1. 0 \in T
    BY <1>4, <1>8
  <2>2. ASSUME NEW i \in T PROVE i + 1 \in T
    <3> SUFFICES ASSUME i + 1 <= N PROVE m[i + 1] = f[i + 1]
      OBVIOUS
    <3>1. i \in Nat /\ m[i] = f[i] /\ i + 1 \in 1 .. N /\ (i + 1) - 1 = i
      BY <1>1
    <3> QED BY <3>1, <1>4, <1>8
  <2>3. T = Nat
    <3>1. T \in SUBSET Nat
      OBVIOUS
    <3> HIDE DEF T
    <3> QED BY <2>1, <2>2, <3>1, Induction
  <2>4. \A i \in 0 .. N : i \in Nat /\ i <= N
    BY <1>1
  <2> QED BY <2>3, <2>4
<1>10. m \in [0 .. N -> S]
  BY <1>3, <1>8, <1>9
<1> QED BY <1>8, <1>10 DEF m, N, S

\* Until it has found the name, the scan ends in as much of it as it counts.
LEMMA ScanMatches ==
    ASSUME NEW list \in Text, NEW name \in Text, NEW m, m = Matched(list, name)
    PROVE  \A i \in 0 .. Len(list) :
              /\ m[i] \in 0 .. Len(name) /\ m[i] <= i
              /\ i = 0 \/ m[i - 1] # Len(name) =>
                    \A k \in 1 .. m[i] : list[(i - m[i]) + k] = name[k]
<1> DEFINE N == Len(list)
           L == Len(name)
           Good(i) == /\ m[i] <= i
                      /\ i = 0 \/ m[i - 1] # L => \A k \in 1 .. m[i] : list[(i - m[i]) + k] = name[k]
           T == {i \in Nat : i <= N => Good(i)}
<1>1. /\ m[0] = 0 /\ \A i \in 1 .. N : m[i] = ScanStep(list, name, i, m[i - 1])
      /\ \A i \in 0 .. N : m[i] \in 0 .. L
  BY ScanFacts
<1>2. N \in Nat /\ L \in Nat
  BY DEF Text
<1> HIDE DEF N
<1>3. 0 \in T
  BY <1>1
<1>4. ASSUME NEW i \in T PROVE i + 1 \in T
  <2> SUFFICES ASSUME i + 1 <= N PROVE Good(i + 1)
    OBVIOUS
  <2>1. i \in Nat /\ Good(i) /\ i + 1 \in 1 .. N /\ (i + 1) - 1 = i /\ i \in 0 .. N
    BY <1>2
  <2>2. m[i + 1] = ScanStep(list, name, i + 1, m[i])
    BY <1>1, <2>1
  <2>3. m[i] \in 0 .. L /\ m[i] <= i
    BY <1>1, <2>1
  <2>4. m[i + 1] <= i + 1
    BY <1>2, <2>1, <2>2, <2>3 DEF ScanStep
  <2>5. ASSUME m[i] # L, NEW k \in 1 .. m[i + 1]
        PROVE  list[((i + 1) - m[i + 1]) + k] = name[k]
    <3>1. m[i + 1] = m[i] + 1 /\ list[i + 1] = name[m[i] + 1]
      BY <2>2, <2>5, <2>3, <2>1 DEF ScanStep
    <3>2. i = 0 \/ m[i - 1] # L
      <4>1. CASE i # 0
        <5>1. i \in 1 .. N /\ m[i] = ScanStep(list, name, i, m[i - 1])
          BY <1>1, <1>2, <2>1, <4>1
        <5>2. QED
          BY <5>1, <2>5 DEF ScanStep
      <4>2. QED
        BY <4>1
    <3>3. \A j \in 1 .. m[i] : list[(i - m[i]) + j] = name[j]
      BY <2>1, <3>2
    <3>4. ((i + 1) - m[i + 1]) + k = (i - m[i]) + k /\ k \in 1 .. m[i] + 1
      BY <1>2, <2>1, <2>3, <2>5, <3>1
    <3>5. CASE k = m[i] + 1
      <4>1. (i - m[i]) + k = i + 1
        BY <2>1, <2>3, <3>5
      <4>2. ((i + 1) - m[i + 1]) + k = i + 1
        BY <3>4, <4>1
      <4>3. QED
        BY <3>1, <3>5, <4>2
    <3>6. CASE k # m[i] + 1
      <4>1. k \in 1 .. m[i]
        BY <2>3, <3>4, <3>6
      <4>2. QED
        BY <3>3, <3>4, <4>1
    <3>7. QED
      BY <3>5, <3>6
  <2>6. QED
    BY <2>1, <2>4, <2>5
<1>5. T = Nat
  <2>1. T \in SUBSET Nat
    OBVIOUS
  <2> HIDE DEF T
  <2> QED BY <1>3, <1>4, <2>1, Induction
<1>6. \A i \in 0 .. N : i \in Nat /\ i <= N
  BY <1>2
<1> QED BY <1>1, <1>5, <1>6 DEF N

Found(list, name) ==
    CHOOSE i \in DOMAIN list :
        Matched(list, name)[i] = Len(name) /\ Matched(list, name)[i - 1] # Len(name)

FoundAt(list, name, end) ==
    /\ end \in 1 .. Len(list) /\ Len(name) <= end
    /\ \A k \in 1 .. Len(name) : list[(end - Len(name)) + k] = name[k]

\* A scan that has found a name has found it where DEL cuts.
LEMMA ScanEnd ==
    ASSUME NEW list \in Text, NEW name \in Text, name # <<>>,
           Matched(list, name)[Len(list)] = Len(name)
    PROVE  FoundAt(list, name, Found(list, name))
<1> DEFINE m == Matched(list, name)
           end == Found(list, name)
           N == Len(list)
           L == Len(name)
           T == {i \in Nat : i <= N /\ m[i] = L}
<1>0. /\ m = Matched(list, name) /\ m[N] = L
      /\ end = CHOOSE i \in DOMAIN list : m[i] = L /\ m[i - 1] # L
  BY DEF Found
<1> HIDE DEF m, end
<1>1. N \in Nat /\ L \in Nat /\ L # 0 /\ DOMAIN list = 1 .. N
  BY DEF Text
<1>2. N \in T /\ T \in SUBSET Nat
  BY <1>0, <1>1
<1>3. PICK e \in T : \A n \in T : e <= n
  <2> HIDE DEF T
  <2> QED BY <1>2, LeastNumber
<1>4. e # 0
  BY <1>0, <1>1, <1>3, ScanFacts
<1>5. e \in DOMAIN list /\ m[e] = L /\ m[e - 1] # L
  <2>1. e \in 1 .. N /\ e - 1 \in Nat /\ e - 1 <= N /\ ~(e <= e - 1)
    BY <1>1, <1>3, <1>4
  <2>2. QED
    BY <1>1, <1>3, <2>1
<1>6. end \in DOMAIN list /\ m[end] = L /\ m[end - 1] # L
  BY <1>0, <1>5
<1>7. /\ m[end] <= end
      /\ end = 0 \/ m[end - 1] # L => \A k \in 1 .. m[end] : list[(end - m[end]) + k] = name[k]
  <2>1. \A i \in 0 .. Len(list) :
           /\ m[i] \in 0 .. Len(name) /\ m[i] <= i
           /\ i = 0 \/ m[i - 1] # Len(name) =>
                 \A k \in 1 .. m[i] : list[(i - m[i]) + k] = name[k]
    BY <1>0, ScanMatches
  <2>2. end \in 0 .. N
    BY <1>1, <1>6
  <2> QED BY <2>1, <2>2
<1> QED BY <1>1, <1>6, <1>7 DEF FoundAt, end

LEMMA NoEntryLength == Len(NoEntry) = 1
BY DEF NoEntry

LEMMA NoEntryIsNoText == NoEntry \notin Text
<1> SUFFICES ASSUME NoEntry \in Text PROVE FALSE
  OBVIOUS
<1> DEFINE C == Characters
<1>1. NoEntry \in Seq(C)
  BY DEF Text
<1> HIDE DEF C
<1>2. 1 \in 1 .. Len(NoEntry)
  BY NoEntryLength
<1>3. NoEntry[1] \in C
  BY <1>1, <1>2
<1>4. QED
  BY <1>3 DEF C, Characters

LEMMA ItemsAreParts ==
    ASSUME NEW list, NEW x
    PROVE  x \in Items(list) <=>
              \E i, j \in DOMAIN list : Part(list, i, j) /\ x = SubSeq(list, i, j)
BY DEF Items

\* Between two parts there is a comma at least.
LEMMA PartsApart ==
    ASSUME NEW list \in Text, NEW a \in 1 .. Len(list), NEW b \in 1 .. Len(list),
           NEW i \in 1 .. Len(list), NEW j \in 1 .. Len(list),
           Part(list, a, b), Part(list, i, j), i # a \/ j # b
    PROVE  j + 2 <= a \/ b + 2 <= i
<1> DEFINE N == Len(list)
<1>1. N \in Nat
  BY DEF Text
<1>2. /\ a <= b /\ i <= j
      /\ \A k \in a .. b : list[k] # Comma
      /\ \A k \in i .. j : list[k] # Comma
      /\ a # 1 => list[a - 1] = Comma
      /\ i # 1 => list[i - 1] = Comma
      /\ b # N => list[b + 1] = Comma
      /\ j # N => list[j + 1] = Comma
  BY DEF Part
<1> HIDE DEF N
<1>3. a # 1 => a - 1 \notin i .. j
  BY <1>2
<1>4. i # 1 => i - 1 \notin a .. b
  BY <1>2
<1>5. b # N => b + 1 \notin i .. j
  BY <1>2
<1>6. j # N => j + 1 \notin a .. b
  BY <1>2
<1>7. a \in 1 .. N /\ b \in 1 .. N /\ i \in 1 .. N /\ j \in 1 .. N
  BY DEF N
<1> QED BY <1>1, <1>2, <1>3, <1>4, <1>5, <1>6, <1>7

\* Equal characters, equal items
LEMMA SameItem ==
    ASSUME NEW s \in Text, NEW t \in Text, NEW i \in Nat, NEW j \in Nat, NEW d \in Int,
           1 <= i, i <= j, j <= Len(s), 1 <= i + d, j + d <= Len(t),
           \A k \in i .. j : s[k] = t[k + d]
    PROVE  SubSeq(s, i, j) = SubSeq(t, i + d, j + d)
<1> DEFINE C == Characters
           u == SubSeq(s, i, j)
           v == SubSeq(t, i + d, j + d)
           p == i + d
           q == j + d
<1>1. \A k \in i .. j : s[k] \in C
  BY DEF Text
<1>2. p \in Int /\ q \in Int /\ \A k \in p .. q : t[k] \in C
  BY DEF Text
<1>3. /\ u \in Seq(C) /\ Len(u) = (j - i) + 1
      /\ \A k \in 1 .. (j - i) + 1 : u[k] = s[(i + k) - 1]
  <2> HIDE DEF C
  <2> QED BY <1>1, SubSeqProperties
<1>4. /\ v \in Seq(C) /\ Len(v) = (q - p) + 1
      /\ \A k \in 1 .. (q - p) + 1 : v[k] = t[(p + k) - 1]
  <2> HIDE DEF C, p, q
  <2>1. p <= q
    BY DEF p, q
  <2>2. v = SubSeq(t, p, q)
    BY DEF p, q
  <2> HIDE DEF v
  <2> QED BY <1>2, <2>1, <2>2, SubSeqProperties
<1>5. ASSUME NEW k \in 1 .. Len(u) PROVE u[k] = v[k]
  <2>1. k \in 1 .. (j - i) + 1 /\ k \in 1 .. (q - p) + 1
    BY <1>3
  <2>2. (i + k) - 1 \in i .. j /\ ((i + k) - 1) + d = (p + k) - 1
    BY <2>1
  <2>3. s[(i + k) - 1] = t[((i + k) - 1) + d]
    BY <2>2
  <2> HIDE DEF u, v, p, q
  <2> QED BY <1>3, <1>4, <2>1, <2>2, <2>3
<1>6. Len(u) = Len(v)
  BY <1>3, <1>4
<1> HIDE DEF C, u, v
<1>7. u = v
  BY <1>3, <1>4, <1>5, <1>6, SeqEqual
<1> QED BY <1>7 DEF u, v

\* What DEL leaves when it cuts a .. b out of the text
Cut(list, a, b) == Without(SubSeq(list, 1, a - 1), SubSeq(list, b + 1, Len(list)))

LEMMA CutShape ==
    ASSUME NEW list \in Text, NEW a \in 1 .. Len(list), NEW b \in 1 .. Len(list), a <= b
    PROVE  /\ b < Len(list) =>
                 /\ Cut(list, a, b) \in Text
                 /\ Len(Cut(list, a, b)) = (Len(list) - (b - a)) - 2
                 /\ \A k \in 1 .. a - 1 : Cut(list, a, b)[k] = list[k]
                 /\ \A k \in a .. (Len(list) - (b - a)) - 2 :
                       Cut(list, a, b)[k] = list[k + ((b - a) + 2)]
           /\ b = Len(list) /\ a # 1 =>
                 /\ Cut(list, a, b) \in Text /\ Len(Cut(list, a, b)) = a - 2
                 /\ \A k \in 1 .. a - 2 : Cut(list, a, b)[k] = list[k]
           /\ b = Len(list) /\ a = 1 => Cut(list, a, b) = NoEntry
<1> DEFINE C == Characters
           N == Len(list)
           before == SubSeq(list, 1, a - 1)
           after == SubSeq(list, b + 1, N)
           r == Cut(list, a, b)
<1>1. N \in Nat /\ a \in 1 .. N /\ b \in 1 .. N /\ \A k \in 1 .. N : list[k] \in C
  BY DEF Text
<1>2. r = Without(before, after)
  BY DEF Cut
<1> HIDE DEF C, N
<1>3. /\ before \in Seq(C) /\ Len(before) = a - 1
      /\ \A k \in 1 .. a - 1 : before[k] = list[k]
  <2> DEFINE top == a - 1
  <2>1. top \in Int /\ (\A k \in 1 .. top : list[k] \in C) /\ (~(1 <= top) => top = 0)
    BY <1>1
  <2> HIDE DEF top
  <2>2. /\ SubSeq(list, 1, top) \in Seq(C)
        /\ Len(SubSeq(list, 1, top)) = IF 1 <= top THEN (top - 1) + 1 ELSE 0
        /\ \A k \in 1 .. (top - 1) + 1 : SubSeq(list, 1, top)[k] = list[(1 + k) - 1]
    BY <2>1, SubSeqProperties
  <2>3. /\ before \in Seq(C) /\ Len(before) = top
        /\ \A k \in 1 .. top : before[k] = list[k]
    BY <2>1, <2>2 DEF top
  <2> HIDE DEF before
  <2> QED BY <2>3 DEF top
<1>4. /\ after \in Seq(C) /\ Len(after) = N - b
      /\ \A k \in 1 .. N - b : after[k] = list[b + k]
  <2> DEFINE first == b + 1
  <2>1. first \in Int /\ N \in Int /\ (\A k \in first .. N : list[k] \in C)
        /\ (~(first <= N) => N - b = 0) /\ (N - first) + 1 = N - b
    BY <1>1
  <2>2. \A k \in 1 .. N - b : (first + k) - 1 = b + k
    BY <1>1
  <2> HIDE DEF first
  <2>3. /\ SubSeq(list, first, N) \in Seq(C)
        /\ Len(SubSeq(list, first, N)) = IF first <= N THEN (N - first) + 1 ELSE 0
        /\ \A k \in 1 .. (N - first) + 1 : SubSeq(list, first, N)[k] = list[(first + k) - 1]
    BY <2>1, SubSeqProperties
  <2>4. after = SubSeq(list, first, N)
    BY DEF first
  <2> HIDE DEF after
  <2> QED BY <2>1, <2>2, <2>3, <2>4
<1> HIDE DEF before, after, r
<1>5. /\ (after = <<>>) <=> b = N
      /\ (before = <<>>) <=> a = 1
  BY <1>1, <1>3, <1>4
<1>6. ASSUME b < N
      PROVE  /\ r \in Seq(C) /\ Len(r) = (N - (b - a)) - 2
             /\ \A k \in 1 .. a - 1 : r[k] = list[k]
             /\ \A k \in a .. (N - (b - a)) - 2 : r[k] = list[k + ((b - a) + 2)]
  <2> DEFINE rest == Tail(after)
  <2>1. after # <<>> /\ r = before \o rest
    BY <1>1, <1>2, <1>5, <1>6 DEF Without
  <2>2. /\ rest \in Seq(C) /\ Len(rest) = (N - b) - 1
        /\ \A k \in 1 .. (N - b) - 1 : rest[k] = list[b + (k + 1)]
    <3>1. rest \in Seq(C) /\ Len(rest) = Len(after) - 1
          /\ \A k \in 1 .. Len(rest) : rest[k] = after[k + 1]
      BY <1>4, <2>1, HeadTailProperties
    <3> HIDE DEF rest
    <3>2. Len(rest) = (N - b) - 1
      BY <1>1, <1>4, <3>1
    <3>3. \A k \in 1 .. (N - b) - 1 : k \in 1 .. Len(rest) /\ k + 1 \in 1 .. N - b
      BY <1>1, <3>2
    <3> QED BY <1>4, <3>1, <3>2, <3>3
  <2> HIDE DEF rest
  <2>3. /\ r \in Seq(C) /\ Len(r) = Len(before) + Len(rest)
        /\ \A k \in 1 .. Len(before) + Len(rest) :
              r[k] = IF k <= Len(before) THEN before[k] ELSE rest[k - Len(before)]
    BY <1>3, <2>1, <2>2, ConcatProperties
  <2>4. Len(r) = (N - (b - a)) - 2
    BY <1>1, <1>3, <2>2, <2>3
  <2>5. \A k \in 1 .. a - 1 : r[k] = list[k]
    BY <1>1, <1>3, <1>6, <2>2, <2>3
  <2>6. ASSUME NEW k \in a .. (N - (b - a)) - 2 PROVE r[k] = list[k + ((b - a) + 2)]
    <3>1. k \in Int /\ k \in 1 .. (a - 1) + ((N - b) - 1) /\ ~(k <= a - 1)
      BY <1>1
    <3>2. r[k] = rest[k - (a - 1)]
      BY <1>3, <2>2, <2>3, <3>1
    <3>3. k - (a - 1) \in 1 .. (N - b) - 1 /\ b + ((k - (a - 1)) + 1) = k + ((b - a) + 2)
      BY <1>1, <3>1
    <3> QED BY <2>2, <3>2, <3>3
  <2> QED BY <2>3, <2>4, <2>5, <2>6
<1>7. ASSUME b = N, a # 1
      PROVE  /\ r \in Seq(C) /\ Len(r) = a - 2
             /\ \A k \in 1 .. a - 2 : r[k] = list[k]
  <2> DEFINE top == Len(before) - 1
  <2>1. r = SubSeq(before, 1, top)
    BY <1>2, <1>5, <1>7 DEF Without
  <2>2. top = a - 2 /\ top \in Nat /\ \A k \in 1 .. top : before[k] \in C /\ before[k] = list[k]
    BY <1>1, <1>3, <1>7
  <2> HIDE DEF top
  <2>3. /\ r \in Seq(C)
        /\ Len(r) = IF 1 <= top THEN (top - 1) + 1 ELSE 0
        /\ \A k \in 1 .. (top - 1) + 1 : r[k] = before[(1 + k) - 1]
    BY <2>1, <2>2, SubSeqProperties
  <2>4. \A k \in 1 .. top : k \in 1 .. (top - 1) + 1 /\ (1 + k) - 1 = k
    BY <2>2
  <2>5. Len(r) = top /\ \A k \in 1 .. top : r[k] = list[k]
    BY <2>2, <2>3, <2>4
  <2> QED BY <2>2, <2>3, <2>5
<1>8. b = N /\ a = 1 => r = NoEntry
  BY <1>2, <1>5 DEF Without
<1> QED BY <1>1, <1>6, <1>7, <1>8 DEF r, N, C, Text

\* From i to j the one text is what the other is d characters further on.
SamePart(r, list, i, j, d) ==
    /\ Part(list, i + d, j + d) <=> Part(r, i, j)
    /\ SubSeq(list, i + d, j + d) = SubSeq(r, i, j)

\* The parts before the one cut out are parts of what is left.
LEMMA PartsBefore ==
    ASSUME NEW list \in Text, NEW r \in Text, NEW a \in 1 .. Len(list), a # 1,
           list[a - 1] = Comma, a - 2 <= Len(r),
           \A k \in 1 .. a - 2 : r[k] = list[k],
           a - 2 = Len(r) \/ r[a - 1] = Comma,
           NEW i \in Nat, NEW j \in Nat, 1 <= i, i <= j, j + 2 <= a
    PROVE  /\ Part(list, i, j) <=> Part(r, i, j)
           /\ SubSeq(list, i, j) = SubSeq(r, i, j)
<1>1. Len(list) \in Nat /\ Len(r) \in Nat /\ a \in Int /\ a <= Len(list)
  BY DEF Text
<1>2. \A k \in i .. j : list[k] = r[k]
  OBVIOUS
<1>3. i # 1 => r[i - 1] = list[i - 1]
  OBVIOUS
<1>4. list[j + 1] = Comma <=> (j = Len(r) \/ r[j + 1] = Comma)
  <2>1. CASE j + 2 = a
    <3>1. j + 1 = a - 1 /\ (j = Len(r) <=> a - 2 = Len(r))
      BY <1>1, <2>1
    <3>2. QED
      BY <3>1
  <2>2. CASE j + 2 # a
    <3>1. j + 1 \in 1 .. a - 2 /\ j # Len(r)
      BY <1>1, <2>2
    <3>2. QED
      BY <3>1
  <2>3. QED
    BY <2>1, <2>2
<1>5. j # Len(list)
  BY <1>1
<1>6. Part(list, i, j) <=> Part(r, i, j)
  BY <1>2, <1>3, <1>4, <1>5 DEF Part
<1>7. SubSeq(list, i, j) = SubSeq(r, i, j)
  <2>1. \A k \in i .. j : list[k] = r[k + 0]
    BY <1>2
  <2>2. 0 \in Int /\ j <= Len(list) /\ 1 <= i + 0 /\ j + 0 <= Len(r) /\ i + 0 = i /\ j + 0 = j
    BY <1>1
  <2>3. SubSeq(list, i, j) = SubSeq(r, i + 0, j + 0)
    BY <2>1, <2>2, SameItem
  <2>4. QED
    BY <2>2, <2>3
<1>8. QED
  BY <1>6, <1>7

\* r is the text with d characters cut out at a, the last of them a comma.
MovedUp(list, r, a, d) ==
    /\ list \in Text /\ r \in Text /\ a \in 1 .. Len(list)
    /\ d \in Nat /\ d >= 2 /\ Len(r) = Len(list) - d /\ list[(a + d) - 1] = Comma
    /\ a = 1 \/ list[a - 1] = Comma
    /\ \A k \in 1 .. a - 1 : r[k] = list[k]
    /\ \A k \in a .. Len(list) - d : r[k] = list[k + d]

\* The parts behind the one cut out move up by its length and one comma.
LEMMA PartsAfter ==
    ASSUME NEW list, NEW r, NEW a, NEW d, MovedUp(list, r, a, d),
           NEW i \in Nat, NEW j \in Nat, a <= i, i <= j, j + d <= Len(list)
    PROVE  SamePart(r, list, i, j, d)
<1>0. /\ list \in Text /\ r \in Text /\ a \in 1 .. Len(list)
      /\ d \in Nat /\ d >= 2 /\ Len(r) = Len(list) - d /\ list[(a + d) - 1] = Comma
      /\ a = 1 \/ list[a - 1] = Comma
      /\ \A k \in 1 .. a - 1 : r[k] = list[k]
      /\ \A k \in a .. Len(list) - d : r[k] = list[k + d]
  BY DEF MovedUp
<1>1. Len(list) \in Nat /\ Len(r) \in Nat /\ a \in Nat /\ 1 <= a /\ a <= Len(list)
  BY <1>0 DEF Text
<1> USE <1>0
<1>2. \A k \in i .. j : k \in a .. Len(list) - d /\ r[k] = list[k + d]
  BY <1>1
<1>3. (\A k \in i + d .. j + d : list[k] # Comma) <=> (\A k \in i .. j : r[k] # Comma)
  <2>1. ASSUME \A k \in i + d .. j + d : list[k] # Comma, NEW k \in i .. j
        PROVE  r[k] # Comma
    <3>1. k + d \in i + d .. j + d
      OBVIOUS
    <3>2. QED
      BY <1>2, <2>1, <3>1
  <2>2. ASSUME \A k \in i .. j : r[k] # Comma, NEW k \in i + d .. j + d
        PROVE  list[k] # Comma
    <3>1. k - d \in i .. j /\ (k - d) + d = k
      OBVIOUS
    <3>2. QED
      BY <1>2, <2>2, <3>1
  <2>3. QED
    BY <2>1, <2>2
<1>4. list[(i + d) - 1] = Comma <=> (i = 1 \/ r[i - 1] = Comma)
  <2>1. CASE i = a
    <3>1. list[(i + d) - 1] = Comma /\ (a # 1 => i - 1 \in 1 .. a - 1)
      BY <1>1, <2>1
    <3>2. QED
      BY <2>1, <3>1
  <2>2. CASE i # a
    <3>1. i - 1 \in a .. Len(list) - d /\ i # 1 /\ (i - 1) + d = (i + d) - 1
      BY <1>1, <2>2
    <3>2. r[i - 1] = list[(i - 1) + d]
      BY <3>1
    <3>3. QED
      BY <3>1, <3>2
  <2>3. QED
    BY <2>1, <2>2
<1>5. (j + d = Len(list) \/ list[(j + d) + 1] = Comma) <=> (j = Len(r) \/ r[j + 1] = Comma)
  <2> DEFINE N == Len(list)
             M == Len(r)
  <2>0. N \in Nat /\ M \in Nat /\ M = N - d /\ j + d <= N
    BY <1>1
  <2> HIDE DEF N, M
  <2>1. CASE j + d = N
    <3>1. j = M
      BY <2>0, <2>1
    <3>2. QED
      BY <2>1, <3>1 DEF N, M
  <2>2. CASE j + d # N
    <3>0. j # M /\ j + 1 \in a .. N - d /\ (j + 1) + d = (j + d) + 1
      BY <1>1, <2>0, <2>2
    <3>1. j # Len(r) /\ j + 1 \in a .. Len(list) - d /\ (j + 1) + d = (j + d) + 1
      BY <3>0 DEF N, M
    <3>2. r[j + 1] = list[(j + 1) + d]
      BY <3>1
    <3>3. QED
      BY <2>2, <3>1, <3>2 DEF N
  <2>3. QED
    BY <2>1, <2>2
<1>6. i + d # 1 /\ i + d <= j + d
  BY <1>1
<1>7. Part(list, i + d, j + d) <=> Part(r, i, j)
  BY <1>3, <1>4, <1>5, <1>6 DEF Part
<1>8. SubSeq(r, i, j) = SubSeq(list, i + d, j + d)
  <2>1. /\ 1 <= i /\ j <= Len(r) /\ 1 <= i + d /\ d \in Int
        /\ \A k \in i .. j : r[k] = list[k + d]
    BY <1>1, <1>2
  <2>2. QED
    BY <2>1, SameItem
<1>9. QED
  BY <1>7, <1>8 DEF SamePart

OtherPart(list, a, b, i, j) == Part(list, i, j) /\ (i # a \/ j # b)

\* Cutting out one part leaves exactly the others.
LEMMA OthersStay ==
    ASSUME NEW list \in Text, NEW a \in 1 .. Len(list), NEW b \in 1 .. Len(list),
           Part(list, a, b), NEW x
    PROVE  x \in Listed(Cut(list, a, b)) <=>
              \E i, j \in 1 .. Len(list) : OtherPart(list, a, b, i, j) /\ x = SubSeq(list, i, j)
<1> DEFINE N == Len(list)
           r == Cut(list, a, b)
           Other == \E i, j \in 1 .. N : OtherPart(list, a, b, i, j) /\ x = SubSeq(list, i, j)
<1>1. /\ N \in Nat /\ a <= b /\ a \in 1 .. N /\ b \in 1 .. N
      /\ a = 1 \/ list[a - 1] = Comma
      /\ b = N \/ list[b + 1] = Comma
  BY DEF Text, Part
<1>2. ASSUME NEW i \in 1 .. N, NEW j \in 1 .. N, OtherPart(list, a, b, i, j)
      PROVE  i <= j /\ Part(list, i, j) /\ (j + 2 <= a \/ b + 2 <= i)
  BY <1>2, PartsApart DEF OtherPart, Part
<1> HIDE DEF r, N
<1>3. r \in Text => r # NoEntry /\ Len(r) \in Nat /\ DOMAIN r = 1 .. Len(r)
  BY NoEntryIsNoText DEF Text
<1>4. r \in Text => (x \in Listed(r) <=>
         \E i, j \in 1 .. Len(r) : Part(r, i, j) /\ x = SubSeq(r, i, j))
  <2> SUFFICES ASSUME r \in Text
               PROVE  x \in Listed(r) <=>
                         \E i, j \in 1 .. Len(r) : Part(r, i, j) /\ x = SubSeq(r, i, j)
    OBVIOUS
  <2>1. Listed(r) = Items(r) /\ DOMAIN r = 1 .. Len(r)
    BY <1>3 DEF Listed
  <2>2. x \in Items(r) <=> \E i, j \in DOMAIN r : Part(r, i, j) /\ x = SubSeq(r, i, j)
    BY ItemsAreParts
  <2>3. QED
    BY <2>1, <2>2
<1>5. ASSUME b < N PROVE x \in Listed(r) <=> Other
  <2> DEFINE d == (b - a) + 2
             M == Len(r)
  <2>1. /\ r \in Text /\ Len(r) = (N - (b - a)) - 2
        /\ \A k \in 1 .. a - 1 : r[k] = list[k]
        /\ \A k \in a .. (N - (b - a)) - 2 : r[k] = list[k + ((b - a) + 2)]
    BY <1>1, <1>5, CutShape DEF r, N
  <2>2. /\ d \in Nat /\ d >= 2 /\ M = N - d /\ M \in Nat /\ (a + d) - 1 = b + 1
        /\ (N - (b - a)) - 2 = N - d /\ a - 1 <= M /\ a \in Nat
    BY <1>1, <1>5, <2>1
  <2>3. list[(a + d) - 1] = Comma
    BY <1>1, <1>5, <2>2
  <2>4. \A k \in a .. N - d : r[k] = list[k + d]
    BY <2>1, <2>2
  <2> HIDE DEF d, M
  <2>5. ASSUME NEW i \in Nat, NEW j \in Nat, 1 <= i, i <= j, j + 2 <= a
        PROVE  (Part(list, i, j) <=> Part(r, i, j)) /\ SubSeq(list, i, j) = SubSeq(r, i, j)
    <3>1. a # 1
      BY <1>1, <2>5
    <3>2. /\ list[a - 1] = Comma /\ r[a - 1] = Comma /\ a - 2 <= Len(r)
          /\ \A k \in 1 .. a - 2 : r[k] = list[k]
      BY <1>1, <2>1, <2>2, <3>1 DEF M
    <3>3. QED
      BY <2>1, <2>5, <3>1, <3>2, PartsBefore
  <2>6. ASSUME NEW i \in Nat, NEW j \in Nat, a <= i, i <= j, j + d <= N
        PROVE  SamePart(r, list, i, j, d)
    <3>1. MovedUp(list, r, a, d)
      BY <1>1, <2>1, <2>2, <2>3, <2>4 DEF N, M, MovedUp
    <3>2. j + d <= Len(list)
      BY <2>6 DEF N
    <3>3. QED
      BY <2>6, <3>1, <3>2, PartsAfter
  <2>7. ASSUME NEW i \in 1 .. M, NEW j \in 1 .. M, Part(r, i, j), x = SubSeq(r, i, j)
        PROVE  Other
    <3>1. i <= j /\ i \in Nat /\ j \in Nat /\ 1 <= i
      BY <2>7 DEF Part
    <3>2. CASE j < a
      <4>1. j + 2 <= a
        <5>1. j # a - 1
          <6>1. a # 1 => r[a - 1] = Comma
            BY <1>1, <2>1, <2>2
          <6>2. QED
            BY <1>1, <2>7, <3>1, <6>1 DEF Part
        <5>2. QED
          BY <1>1, <3>1, <3>2, <5>1
      <4>2. Part(list, i, j) /\ x = SubSeq(list, i, j)
        BY <2>5, <2>7, <3>1, <4>1
      <4>3. i \in 1 .. N /\ j \in 1 .. N /\ i # a
        BY <1>1, <3>1, <4>1
      <4>4. QED
        BY <4>2, <4>3 DEF OtherPart
    <3>3. CASE a <= i
      <4>1. j + d <= N
        BY <1>1, <2>2
      <4>2. Part(list, i + d, j + d) /\ x = SubSeq(list, i + d, j + d)
        BY <2>6, <2>7, <3>1, <3>3, <4>1 DEF SamePart
      <4>3. i + d \in 1 .. N /\ j + d \in 1 .. N /\ i + d # a
        BY <1>1, <2>2, <3>1, <3>3, <4>1
      <4>4. QED
        BY <4>2, <4>3 DEF OtherPart
    <3>4. CASE i < a /\ a <= j
      <4>1. a # 1 /\ a - 1 \in i .. j /\ r[a - 1] = Comma
        BY <1>1, <2>1, <2>2, <3>1, <3>4
      <4>2. QED
        BY <2>7, <4>1 DEF Part
    <3>5. QED
      BY <1>1, <3>1, <3>2, <3>3, <3>4
  <2>8. ASSUME NEW i \in 1 .. N, NEW j \in 1 .. N, OtherPart(list, a, b, i, j),
               x = SubSeq(list, i, j)
        PROVE  \E p, q \in 1 .. M : Part(r, p, q) /\ x = SubSeq(r, p, q)
    <3>1. i <= j /\ Part(list, i, j) /\ i \in Nat /\ j \in Nat /\ 1 <= i
      BY <1>2, <2>8
    <3>2. CASE j + 2 <= a
      <4>1. Part(r, i, j) /\ x = SubSeq(r, i, j)
        BY <2>5, <2>8, <3>1, <3>2
      <4>2. i \in 1 .. M /\ j \in 1 .. M
        BY <1>1, <2>2, <3>1, <3>2
      <4>3. QED
        BY <4>1, <4>2
    <3>3. CASE b + 2 <= i
      <4> DEFINE p == i - d
                 q == j - d
      <4>1. p \in Nat /\ q \in Nat /\ a <= p /\ p <= q /\ q + d <= N /\ p + d = i /\ q + d = j
        BY <1>1, <2>2, <3>1, <3>3
      <4> HIDE DEF p, q
      <4>2. Part(r, p, q) /\ x = SubSeq(r, p, q)
        <5>1. SamePart(r, list, p, q, d)
          BY <2>6, <4>1
        <5>2. QED
          BY <2>8, <3>1, <4>1, <5>1 DEF SamePart
      <4>3. p \in 1 .. M /\ q \in 1 .. M
        BY <1>1, <2>2, <4>1
      <4>4. QED
        BY <4>2, <4>3
    <3>4. QED
      BY <1>2, <2>8, <3>2, <3>3
  <2>9. QED
    BY <1>4, <2>1, <2>7, <2>8 DEF M
<1>6. ASSUME b = N, a # 1 PROVE x \in Listed(r) <=> Other
  <2>1. /\ r \in Text /\ Len(r) = a - 2 /\ list[a - 1] = Comma
        /\ \A k \in 1 .. a - 2 : r[k] = list[k]
    BY <1>1, <1>6, CutShape DEF r, N
  <2>2. ASSUME NEW i \in Nat, NEW j \in Nat, 1 <= i, i <= j, j + 2 <= a
        PROVE  (Part(list, i, j) <=> Part(r, i, j)) /\ SubSeq(list, i, j) = SubSeq(r, i, j)
    <3>1. a - 2 <= Len(r)
      BY <1>1, <2>1
    <3>2. QED
      BY <1>6, <2>1, <2>2, <3>1, PartsBefore
  <2>3. ASSUME NEW i \in 1 .. Len(r), NEW j \in 1 .. Len(r), Part(r, i, j), x = SubSeq(r, i, j)
        PROVE  Other
    <3>1. i <= j /\ i \in Nat /\ j \in Nat /\ 1 <= i /\ j + 2 <= a
      BY <1>1, <2>1, <2>3 DEF Part
    <3>2. i \in 1 .. N /\ j \in 1 .. N /\ i # a
      BY <1>1, <3>1
    <3>3. QED
      BY <2>2, <2>3, <3>1, <3>2 DEF OtherPart
  <2>4. ASSUME NEW i \in 1 .. N, NEW j \in 1 .. N, OtherPart(list, a, b, i, j),
               x = SubSeq(list, i, j)
        PROVE  \E p, q \in 1 .. Len(r) : Part(r, p, q) /\ x = SubSeq(r, p, q)
    <3>1. i <= j /\ Part(list, i, j) /\ i \in Nat /\ j \in Nat /\ 1 <= i /\ j + 2 <= a
      BY <1>1, <1>2, <1>6, <2>4
    <3>2. i \in 1 .. Len(r) /\ j \in 1 .. Len(r)
      BY <1>1, <2>1, <3>1
    <3>3. QED
      BY <2>2, <2>4, <3>1, <3>2
  <2>5. QED
    BY <1>4, <2>1, <2>3, <2>4
<1>7. ASSUME b = N, a = 1 PROVE x \in Listed(r) <=> Other
  <2>1. r = NoEntry
    BY <1>1, <1>7, CutShape DEF r, N
  <2>2. ~Other
    BY <1>1, <1>2, <1>7
  <2>3. QED
    BY <2>1, <2>2 DEF Listed
<1>8. QED
  BY <1>1, <1>5, <1>6, <1>7 DEF r, N

LEMMA NamesAreText ==
    ASSUME NEW name \in ChannelNames
    PROVE  name \in Text /\ name # <<>>
<1> DEFINE Some == STRING \ {NoEntry[1]}
<1>1. name \in Seq(Some) /\ name # <<>>
  BY ChannelAssumption
<1>2. \A x \in Some : x \in Characters
  BY DEF Characters
<1> HIDE DEF Some
<1>3. name \in Seq(Characters)
  BY <1>1, <1>2
<1> QED BY <1>1, <1>3 DEF Text

\* DEL cuts out an occurrence of the name.
LEMMA DelCuts ==
    ASSUME autojoin \in Text, NEW name \in ChannelNames, DelChannel(name)
    PROVE  \E a, b \in 1 .. Len(autojoin) :
              /\ a <= b /\ b = (a + Len(name)) - 1
              /\ SubSeq(autojoin, a, b) = name
              /\ autojoin' = Cut(autojoin, a, b)
<1> DEFINE C == Characters
           list == autojoin
           L == Len(name)
           N == Len(list)
           end == Found(list, name)
           a == (end - L) + 1
<1>1. name \in Text /\ name # <<>> /\ L \in Nat /\ N \in Nat /\ L # 0
  BY NamesAreText DEF Text
<1>2. /\ Matched(list, name)[Len(list)] = Len(name)
      /\ autojoin' = Without(SubSeq(list, 1, end - L), SubSeq(list, end + 1, N))
  BY DEF DelChannel, Found
<1>3. /\ end \in 1 .. N /\ L <= end
      /\ \A k \in 1 .. L : list[(end - L) + k] = name[k]
  <2>1. FoundAt(list, name, end)
    BY <1>1, <1>2, ScanEnd
  <2> HIDE DEF end
  <2> QED BY <2>1 DEF FoundAt
<1> HIDE DEF end
<1>4. a \in 1 .. N /\ a <= end /\ end = (a + L) - 1 /\ a - 1 = end - L
  BY <1>1, <1>3
<1>5. autojoin' = Cut(list, a, end)
  BY <1>2, <1>4 DEF Cut
<1>6. SubSeq(list, a, end) = name
  <2> DEFINE d == 1 - a
  <2>1. /\ d \in Int /\ a \in Nat /\ end \in Nat /\ 1 <= a /\ end <= N
        /\ a + d = 1 /\ end + d = L
    BY <1>1, <1>3, <1>4
  <2>2. ASSUME NEW k \in a .. end PROVE list[k] = name[k + d]
    <3>1. k + d \in 1 .. L /\ (end - L) + (k + d) = k
      BY <1>1, <1>4, <2>1
    <3> QED BY <1>3, <3>1
  <2> HIDE DEF d, a
  <2>3. SubSeq(list, a, end) = SubSeq(name, a + d, end + d)
    <3>1. 1 <= a + d /\ end + d <= Len(name) /\ a <= end /\ end <= Len(list)
      BY <1>1, <1>4, <2>1
    <3> QED BY <1>1, <2>1, <2>2, <3>1, SameItem
  <2>4. SubSeq(name, 1, L) = name
    BY <1>1, SubSeqFull DEF Text
  <2> QED BY <2>1, <2>3, <2>4
<1> HIDE DEF a
<1> QED BY <1>3, <1>4, <1>5, <1>6

LEMMA AjNext == AjInv /\ (AutoJoinNext \/ UNCHANGED autojoin) => AjInv'
<1> SUFFICES ASSUME AjInv, AutoJoinNext \/ UNCHANGED autojoin PROVE AjInv'
  OBVIOUS
<1>1. CASE UNCHANGED autojoin
  BY <1>1 DEF AjInv
<1>2. ASSUME NEW name \in ChannelNames, AddChannel(name) PROVE AjInv'
  <2>1. name \in Text
    BY NamesAreText DEF Text
  <2>2. CASE autojoin = NoEntry
    BY <1>2, <2>1, <2>2 DEF AddChannel, AjInv
  <2>3. CASE autojoin # NoEntry
    <3> DEFINE C == Characters
               comma == <<Comma>>
    <3>1. autojoin \in Seq(C) /\ name \in Seq(C) /\ autojoin' = autojoin \o comma \o name
      BY <1>2, <2>1, <2>3 DEF AjInv, AddChannel, Text
    <3>2. comma \in Seq(C)
      <4>1. NoEntry[1] = "no entry" /\ Comma = ","
        BY DEF NoEntry, Comma
      <4>2. Comma \in C
        BY <4>1 DEF Characters
      <4> HIDE DEF C
      <4> QED BY <4>2
    <3> HIDE DEF C, comma
    <3>3. autojoin' \in Seq(C)
      BY <3>1, <3>2, ConcatProperties
    <3> QED BY <3>3 DEF C, AjInv, Text
  <2> QED BY <2>2, <2>3
<1>3. ASSUME NEW name \in ChannelNames, DelChannel(name) PROVE AjInv'
  <2>1. autojoin \in Text
    BY <1>3 DEF DelChannel, AjInv
  <2>2. PICK a \in 1 .. Len(autojoin), b \in 1 .. Len(autojoin) :
          a <= b /\ autojoin' = Cut(autojoin, a, b)
    BY <1>3, <2>1, DelCuts
  <2>3. b < Len(autojoin) \/ b = Len(autojoin)
    BY <2>1 DEF Text
  <2>4. Cut(autojoin, a, b) \in Text \/ Cut(autojoin, a, b) = NoEntry
    BY <2>1, <2>2, <2>3, CutShape
  <2> QED BY <2>2, <2>4 DEF AjInv
<1>4. CASE Clear
  BY <1>4 DEF Clear, AjInv
<1> QED BY <1>1, <1>2, <1>3, <1>4 DEF AutoJoinNext

LEMMA AjTypes == AjInv => AutoJoinTypeOK
<1> SUFFICES ASSUME autojoin \in Text, NEW i \in DOMAIN autojoin
             PROVE  autojoin[i] # "no entry"
  BY DEF AjInv, AutoJoinTypeOK
<1>1. autojoin[i] # NoEntry[1]
  BY DEF Text, Characters
<1>2. NoEntry[1] = "no entry"
  BY DEF NoEntry
<1> QED BY <1>1, <1>2

\* The only occurrence of a name that is an item is that item.
LEMMA RemovalIsExact ==
    ASSUME AjInv, NEW name \in ChannelNames, DelChannel(name), name \in Listed(autojoin),
           \A i, j \in Within(name, autojoin) : i = j
    PROVE  Listed(autojoin') = Listed(autojoin) \ {name}
<1> DEFINE N == Len(autojoin)
           L == Len(name)
<1>1. autojoin \in Text /\ autojoin # NoEntry /\ N \in Nat /\ L \in Nat
  BY NamesAreText DEF DelChannel, AjInv, Text
<1>2. PICK a \in 1 .. N, b \in 1 .. N :
        /\ a <= b /\ b = (a + L) - 1
        /\ SubSeq(autojoin, a, b) = name
        /\ autojoin' = Cut(autojoin, a, b)
  BY <1>1, DelCuts
<1>3. \A x : x \in Listed(autojoin) <=>
         \E i, j \in 1 .. N : Part(autojoin, i, j) /\ x = SubSeq(autojoin, i, j)
  <2>1. Listed(autojoin) = Items(autojoin) /\ DOMAIN autojoin = 1 .. N
    BY <1>1 DEF Listed, Text
  <2> TAKE x
  <2>2. x \in Items(autojoin) <=>
           \E i, j \in DOMAIN autojoin : Part(autojoin, i, j) /\ x = SubSeq(autojoin, i, j)
    BY ItemsAreParts
  <2> QED BY <2>1, <2>2
<1>4. ASSUME NEW i \in 1 .. N, NEW j \in 1 .. N, i <= j, SubSeq(autojoin, i, j) = name
      PROVE  i = a /\ j = b
  <2>1. Len(SubSeq(autojoin, i, j)) = (j - i) + 1
    <3> DEFINE C == Characters
    <3>1. \A k \in i .. j : autojoin[k] \in C
      BY <1>1 DEF Text
    <3> HIDE DEF C
    <3> QED BY <1>1, <1>4, <3>1, SubSeqProperties
  <2>2. j = (i + L) - 1 /\ i \in 1 .. (N - L) + 1
    BY <1>1, <1>4, <2>1
  <2>3. a \in 1 .. (N - L) + 1
    BY <1>1, <1>2
  <2>4. i \in Within(name, autojoin) /\ a \in Within(name, autojoin)
    BY <1>2, <1>4, <2>2, <2>3 DEF Within
  <2> QED BY <1>1, <1>2, <2>2, <2>4
<1>5. Part(autojoin, a, b)
  <2>1. PICK i \in 1 .. N, j \in 1 .. N : Part(autojoin, i, j) /\ name = SubSeq(autojoin, i, j)
    BY <1>3
  <2>2. i <= j
    BY <2>1 DEF Part
  <2> QED BY <1>4, <2>1, <2>2
<1>6. ASSUME NEW x
      PROVE  x \in Listed(autojoin') <=> x \in Listed(autojoin) /\ x # name
  <2>1. x \in Listed(autojoin') <=>
           \E i, j \in 1 .. N : OtherPart(autojoin, a, b, i, j) /\ x = SubSeq(autojoin, i, j)
    BY <1>1, <1>2, <1>5, OthersStay
  <2>2. \A i, j \in 1 .. N : Part(autojoin, i, j) /\ SubSeq(autojoin, i, j) = name => i = a /\ j = b
    BY <1>4 DEF Part
  <2>3. ASSUME x \in Listed(autojoin') PROVE x \in Listed(autojoin) /\ x # name
    <3>1. PICK i \in 1 .. N, j \in 1 .. N :
            Part(autojoin, i, j) /\ (i # a \/ j # b) /\ x = SubSeq(autojoin, i, j)
      BY <2>1, <2>3 DEF OtherPart
    <3> HIDE DEF N
    <3> QED BY <1>3, <2>2, <3>1
  <2>4. ASSUME x \in Listed(autojoin), x # name PROVE x \in Listed(autojoin')
    <3>1. PICK i \in 1 .. N, j \in 1 .. N : Part(autojoin, i, j) /\ x = SubSeq(autojoin, i, j)
      BY <1>3, <2>4
    <3>2. OtherPart(autojoin, a, b, i, j)
      BY <1>2, <2>4, <3>1 DEF OtherPart
    <3> HIDE DEF N
    <3> QED BY <2>1, <3>1, <3>2
  <2> QED BY <2>3, <2>4
<1> QED BY <1>6

\* What follows a comma is a text of its own, with the parts that are behind it.
LEMMA RestItems ==
    ASSUME NEW list \in Text, NEW e \in 1 .. Len(list), list[e] = Comma, NEW x
    PROVE  x \in Items(SubSeq(list, e + 1, Len(list))) <=>
              \E i, j \in 1 .. Len(list) : e < i /\ Part(list, i, j) /\ x = SubSeq(list, i, j)
<1> DEFINE N == Len(list)
           r == SubSeq(list, e + 1, N)
           M == N - e
<1>1. N \in Nat /\ e \in Nat /\ 1 <= e /\ e <= N /\ M \in Nat
  BY DEF Text
<1>2. r \in Text /\ Len(r) = M /\ DOMAIN r = 1 .. M /\ \A k \in 1 .. M : r[k] = list[k + e]
  <2> DEFINE C == Characters
             p == e + 1
  <2>1. \A k \in p .. N : list[k] \in C
    BY <1>1 DEF Text
  <2>2. p \in Int /\ N \in Int /\ (p <= N => (N - p) + 1 = M) /\ (~(p <= N) => M = 0)
    BY <1>1
  <2>3. \A k \in 1 .. M : p <= N /\ (p + k) - 1 = k + e /\ k \in 1 .. (N - p) + 1
    BY <1>1
  <2>4. r = SubSeq(list, p, N)
    OBVIOUS
  <2> HIDE DEF C, p, N, M, r
  <2>5. r \in Seq(C) /\ Len(r) = M /\ \A k \in 1 .. M : r[k] = list[(p + k) - 1]
    BY <2>1, <2>2, <2>3, <2>4, SubSeqProperties
  <2>6. \A k \in 1 .. M : r[k] = list[k + e]
    BY <2>3, <2>5
  <2> QED BY <2>5, <2>6 DEF C, Text
<1> HIDE DEF r, N, M
<1>3. ASSUME NEW i \in 1 .. M, NEW j \in 1 .. M
      PROVE  /\ Part(r, i, j) <=> Part(list, i + e, j + e)
             /\ i <= j => SubSeq(r, i, j) = SubSeq(list, i + e, j + e)
  <2>0. i + e \in 1 .. N /\ j + e \in 1 .. N /\ (i <= j <=> i + e <= j + e)
    BY <1>1 DEF M
  <2>1. (\A k \in i .. j : r[k] # Comma) <=> (\A k \in i + e .. j + e : list[k] # Comma)
    <3>1. ASSUME \A k \in i .. j : r[k] # Comma, NEW k \in i + e .. j + e
          PROVE  list[k] # Comma
      <4>1. k - e \in i .. j /\ k - e \in 1 .. M /\ (k - e) + e = k
        BY <1>1
      <4> QED BY <1>2, <3>1, <4>1
    <3>2. ASSUME \A k \in i + e .. j + e : list[k] # Comma, NEW k \in i .. j
          PROVE  r[k] # Comma
      <4>1. k + e \in i + e .. j + e /\ k \in 1 .. M
        BY <1>1
      <4> QED BY <1>2, <3>2, <4>1
    <3> QED BY <3>1, <3>2
  <2>2. (i = 1 \/ r[i - 1] = Comma) <=> (i + e = 1 \/ list[(i + e) - 1] = Comma)
    <3>1. CASE i = 1
      <4>1. (i + e) - 1 = e
        BY <1>1, <3>1
      <4> QED BY <3>1, <4>1
    <3>2. CASE i # 1
      <4>1. i - 1 \in 1 .. M /\ (i - 1) + e = (i + e) - 1 /\ i + e # 1
        BY <1>1, <3>2
      <4>2. r[i - 1] = list[(i - 1) + e]
        BY <1>2, <4>1
      <4> QED BY <3>2, <4>1, <4>2
    <3> QED BY <3>1, <3>2
  <2>3. (j = Len(r) \/ r[j + 1] = Comma) <=> (j + e = Len(list) \/ list[(j + e) + 1] = Comma)
    <3>0. j = M <=> j + e = N
      BY <1>1 DEF M
    <3>1. CASE j = M
      BY <1>2, <3>0, <3>1 DEF N
    <3>2. CASE j # M
      <4>1. j + 1 \in 1 .. M /\ (j + 1) + e = (j + e) + 1
        BY <1>1, <3>2
      <4>2. r[j + 1] = list[(j + 1) + e]
        BY <1>2, <4>1
      <4> QED BY <1>2, <3>0, <3>2, <4>1, <4>2 DEF N
    <3> QED BY <3>1, <3>2
  <2>4. Part(r, i, j) <=> Part(list, i + e, j + e)
    BY <2>0, <2>1, <2>2, <2>3 DEF Part
  <2>5. ASSUME i <= j PROVE SubSeq(r, i, j) = SubSeq(list, i + e, j + e)
    <3>1. /\ i \in Nat /\ j \in Nat /\ e \in Int /\ 1 <= i /\ j <= Len(r)
          /\ 1 <= i + e /\ j + e <= Len(list)
      BY <1>1, <1>2, <2>0 DEF N
    <3>2. \A k \in i .. j : r[k] = list[k + e]
      BY <1>1, <1>2
    <3> QED BY <1>2, <2>5, <3>1, <3>2, SameItem
  <2> QED BY <2>4, <2>5
<1>4. x \in Items(r) <=> \E i, j \in 1 .. M : Part(r, i, j) /\ x = SubSeq(r, i, j)
  <2>1. x \in Items(r) <=> \E i, j \in DOMAIN r : Part(r, i, j) /\ x = SubSeq(r, i, j)
    BY ItemsAreParts
  <2> QED BY <1>2, <2>1
<1>5. ASSUME x \in Items(r)
      PROVE  \E i, j \in 1 .. N : e < i /\ Part(list, i, j) /\ x = SubSeq(list, i, j)
  <2>1. PICK i \in 1 .. M, j \in 1 .. M : Part(r, i, j) /\ x = SubSeq(r, i, j)
    BY <1>4, <1>5
  <2>2. i <= j
    BY <2>1 DEF Part
  <2>3. Part(list, i + e, j + e) /\ x = SubSeq(list, i + e, j + e)
    BY <1>3, <2>1, <2>2
  <2>4. i + e \in 1 .. N /\ j + e \in 1 .. N /\ e < i + e
    BY <1>1 DEF M
  <2> QED BY <2>3, <2>4
<1>6. ASSUME NEW i \in 1 .. N, NEW j \in 1 .. N, e < i, Part(list, i, j), x = SubSeq(list, i, j)
      PROVE  x \in Items(r)
  <2>1. i <= j
    BY <1>6 DEF Part
  <2>2. i - e \in 1 .. M /\ j - e \in 1 .. M /\ (i - e) + e = i /\ (j - e) + e = j /\ i - e <= j - e
    BY <1>1, <1>6, <2>1 DEF M
  <2>3. Part(r, i - e, j - e) /\ x = SubSeq(r, i - e, j - e)
    BY <1>3, <1>6, <2>2
  <2> QED BY <1>4, <2>2, <2>3
<1> QED BY <1>5, <1>6 DEF r, N

\* What is joined is what is listed if an entry without a space comes first.
LEMMA JoinedIsListed ==
    ASSUME NEW list, list \in Text \/ list = NoEntry, WholeFirst(list)
    PROVE  Joined(list) = Listed(list)
<1>1. CASE list = NoEntry
  BY <1>1 DEF Joined, Listed
<1>2. CASE list \in Text
  <2> DEFINE N == Len(list)
             Seps == {Space, Comma}
             starts == {i \in DOMAIN list : list[i] \notin Seps}
             first == Min(starts)
             ends == {i \in DOMAIN list : i > first /\ list[i] \in Seps}
             end == IF ends = {} THEN N + 1 ELSE Min(ends)
             head == SubSeq(list, first, end - 1)
             rest == SubSeq(list, end + 1, N)
  <2>1. list # NoEntry /\ N \in Nat /\ DOMAIN list = 1 .. N
    BY <1>2, NoEntryIsNoText DEF Text
  <2>2. PICK a \in 1 .. N, b \in 1 .. N : Part(list, a, b) /\ \A k \in 1 .. b : list[k] # Space
    BY <2>1 DEF WholeFirst
  <2>3. a <= b /\ a \in starts
    <3>1. a <= b /\ list[a] # Comma
      BY <2>2 DEF Part
    <3> QED BY <2>1, <2>2, <3>1
  <2>4. Joined(list) = {head} \cup Items(rest) /\ Listed(list) = Items(list)
    BY <2>1, <2>3 DEF Joined, Listed
  <2>5. first \in starts /\ \A i \in starts : first <= i
    <3> HIDE DEF starts
    <3>1. starts \subseteq Nat /\ starts # {}
      BY <2>1, <2>3 DEF starts
    <3> QED BY <3>1, LeastNumber DEF Min
  <2>6. /\ end \in 1 .. N + 1 /\ first < end
        /\ \A k \in first .. end - 1 : k \in 1 .. N /\ list[k] \notin Seps
        /\ end # N + 1 => list[end] \in Seps
    <3>0. first \in 1 .. N /\ list[first] \notin Seps
      BY <2>1, <2>5
    <3> HIDE DEF first
    <3>1. CASE ends = {}
      <4>1. \A k \in first .. N : k \in 1 .. N /\ list[k] \notin Seps
        BY <2>1, <3>0, <3>1
      <4> QED BY <2>1, <3>0, <3>1, <4>1
    <3>2. CASE ends # {}
      <4>1. ends \subseteq Nat
        BY <2>1
      <4>2. end \in ends /\ \A i \in ends : end <= i
        <5> HIDE DEF ends
        <5> QED BY <3>2, <4>1, LeastNumber DEF Min
      <4>3. end \in 1 .. N /\ first < end /\ list[end] \in Seps
        BY <2>1, <3>0, <4>2
      <4> HIDE DEF end
      <4>4. ASSUME NEW k \in first .. end - 1 PROVE k \in 1 .. N /\ list[k] \notin Seps
        <5>1. k \in 1 .. N /\ ~(end <= k) /\ (k = first \/ k > first)
          BY <2>1, <3>0, <4>3
        <5> QED BY <2>1, <3>0, <4>2, <5>1
      <4> QED BY <2>1, <4>3, <4>4
    <3> QED BY <3>1, <3>2
  <2> HIDE DEF first, end
  <2>7. first \in 1 .. N /\ first <= a /\ end - 1 \in 1 .. N
    BY <2>1, <2>3, <2>5, <2>6
  <2>8. \A k \in 1 .. first - 1 : list[k] = Comma
    <3> TAKE k \in 1 .. first - 1
    <3>1. k \in 1 .. N /\ k \in 1 .. b /\ ~(first <= k)
      BY <2>1, <2>3, <2>7
    <3> QED BY <2>1, <2>2, <2>5, <3>1
  <2>9. end = N + 1 \/ list[end] = Comma
    <3> SUFFICES ASSUME end # N + 1 PROVE list[end] = Comma
      OBVIOUS
    <3>1. end \in 1 .. N /\ list[end] \in Seps
      BY <2>1, <2>6
    <3>2. CASE end <= b
      BY <2>2, <3>1, <3>2
    <3>3. CASE ~(end <= b)
      <4>0. b \in Nat /\ end \in Nat /\ end <= N /\ N \in Nat
        BY <2>1, <3>1
      <4>1. b + 1 \in 1 .. N /\ b # N /\ b + 1 <= end
        <5> HIDE DEF N, Seps
        <5> QED BY <3>3, <4>0
      <4>2. list[b + 1] = Comma
        BY <2>2, <4>1 DEF Part
      <4>3. ~(b + 1 \in first .. end - 1)
        BY <2>6, <4>2
      <4>4. b + 1 = end
        <5>1. first \in Nat /\ a \in Nat /\ first <= a /\ a <= b
          BY <2>1, <2>3, <2>7
        <5> QED BY <4>0, <4>1, <4>3, <5>1
      <4> QED BY <4>2, <4>4
    <3> QED BY <3>2, <3>3
  <2>10. Part(list, first, end - 1)
    <3>1. first <= end - 1 /\ (end - 1) + 1 = end /\ (end - 1 = N <=> end = N + 1)
      BY <2>1, <2>6, <2>7
    <3>2. \A k \in first .. end - 1 : list[k] # Comma
      BY <2>6
    <3>3. first = 1 \/ list[first - 1] = Comma
      <4>1. first # 1 => first - 1 \in 1 .. first - 1
        BY <2>7
      <4> QED BY <2>8, <4>1
    <3> QED BY <2>9, <3>1, <3>2, <3>3 DEF Part
  <2>11. ASSUME NEW i \in 1 .. N, NEW j \in 1 .. N, Part(list, i, j)
         PROVE  \/ i = first /\ j = end - 1
                \/ end <= N /\ end < i
    <3>1. i <= j /\ list[i] # Comma
      BY <2>11 DEF Part
    <3>2. ~(i < first)
      <4> SUFFICES ASSUME i < first PROVE FALSE
        OBVIOUS
      <4>1. i \in 1 .. first - 1
        BY <2>7
      <4> QED BY <2>8, <3>1, <4>1
    <3>3. ASSUME i # first \/ j # end - 1 PROVE (end - 1) + 2 <= i
      <4>1. j + 2 <= first \/ (end - 1) + 2 <= i
        BY <1>2, <2>7, <2>10, <2>11, <3>3, PartsApart
      <4> QED BY <2>7, <3>1, <3>2, <4>1
    <3> QED BY <2>1, <2>6, <3>3
  <2>12. ASSUME NEW x PROVE x \in Items(list) <=> x = head \/ x \in Items(rest)
    <3>1. x \in Items(list) <=> \E i, j \in 1 .. N : Part(list, i, j) /\ x = SubSeq(list, i, j)
      <4>1. x \in Items(list) <=>
               \E i, j \in DOMAIN list : Part(list, i, j) /\ x = SubSeq(list, i, j)
        BY ItemsAreParts
      <4> QED BY <2>1, <4>1
    <3>2. CASE end = N + 1
      <4>1. Items(rest) = {}
        <5>1. N + 1 <= end /\ end + 1 > N
          BY <2>1, <3>2
        <5>2. rest = <<>>
          BY <2>1, <3>2, <5>1
        <5> HIDE DEF rest
        <5>3. DOMAIN rest = {}
          BY <5>2
        <5> QED BY <5>3 DEF Items
      <4> HIDE DEF rest
      <4> HIDE DEF N
      <4>2. ASSUME NEW i \in 1 .. N, NEW j \in 1 .. N, Part(list, i, j)
            PROVE  i = first /\ j = end - 1
        <5>1. ~(end <= N)
          BY <2>1, <3>2
        <5> QED BY <2>11, <4>2, <5>1
      <4> QED BY <2>7, <2>10, <3>1, <4>1, <4>2
    <3>3. CASE end # N + 1
      <4>1. end \in 1 .. N /\ list[end] = Comma
        BY <2>1, <2>6, <2>9, <3>3
      <4>2. x \in Items(rest) <=>
               \E i, j \in 1 .. N : end < i /\ Part(list, i, j) /\ x = SubSeq(list, i, j)
        BY <1>2, <4>1, RestItems
      <4> HIDE DEF N, rest
      <4> QED BY <2>7, <2>10, <2>11, <3>1, <4>2
    <3> QED BY <3>2, <3>3
  <2> HIDE DEF head, rest
  <2> QED BY <2>4, <2>12
<1> QED BY <1>1, <1>2

\* DEL of a channel whose name is part of no other entry takes that one off the list
\* and leaves the others, wherever the commas are, and as long as what comes first has
\* no space the same is true of what is joined.
THEOREM RemovalAlwaysExact == Spec => ExactRemoval
<1>1. Init => AjInv
  BY DEF Init, AutoJoinInit, AjInv
<1>2. AjInv /\ [Next]_parts => AjInv'
  BY AjNext, Frames
<1> DEFINE Exact ==
      \A name \in ChannelNames :
          (/\ DelChannel(name)
           /\ name \in Listed(autojoin)
           /\ \A i, j \in Within(name, autojoin) : i = j) =>
              /\ Listed(autojoin') = Listed(autojoin) \ {name}
              /\ WholeFirst(autojoin) /\ WholeFirst(autojoin') =>
                    Joined(autojoin') = Joined(autojoin) \ {name}
<1>3. AjInv /\ AjInv' => [Exact]_autojoin
  <2> SUFFICES ASSUME AjInv, AjInv', NEW name \in ChannelNames, DelChannel(name),
                      name \in Listed(autojoin), \A i, j \in Within(name, autojoin) : i = j
               PROVE  /\ Listed(autojoin') = Listed(autojoin) \ {name}
                      /\ WholeFirst(autojoin) /\ WholeFirst(autojoin') =>
                            Joined(autojoin') = Joined(autojoin) \ {name}
    OBVIOUS
  <2>1. Listed(autojoin') = Listed(autojoin) \ {name}
    BY RemovalIsExact
  <2>2. WholeFirst(autojoin) => Joined(autojoin) = Listed(autojoin)
    BY JoinedIsListed DEF AjInv
  <2>3. WholeFirst(autojoin') => Joined(autojoin') = Listed(autojoin')
    BY JoinedIsListed DEF AjInv
  <2> QED BY <2>1, <2>2, <2>3
<1>4. Spec => [][Exact]_autojoin
  BY <1>1, <1>2, <1>3, PTL DEF Spec
<1> QED BY <1>4 DEF ExactRemoval

(***************************************************************************)
(* The checks of a registration                                            *)
(***************************************************************************)
\* No check takes back what one before it has decided.
LEMMA ChecksOnlyAdd ==
    ASSUME NEW name \in Checking, NEW v \in Nat, NEW c, NEW email, NEW guest
    PROVE  /\ Check(name, v, c, email, guest) \in Nat
           /\ Check(name, v, c, email, guest) = 0 <=>
                 v = 0 /\ Check(name, 0, c, email, guest) = 0
<1>1. CASE name = "ns_goodmail"
  BY <1>1 DEF Check, GoodMail
<1>2. CASE name = "ns_mxcheck"
  BY <1>2 DEF Check, MxCheck
<1>3. CASE name = "ns_guestnoreg"
  BY <1>3 DEF Check, GuestNoReg
<1>4. CASE name = "ns_waitreg"
  BY <1>4 DEF Check, WaitReg
<1>5. CASE name = "sasl_blacklist"
  BY <1>5 DEF Check
<1>6. CASE name = "os_defcon"
  BY <1>6 DEF Check
<1> QED BY <1>1, <1>2, <1>3, <1>4, <1>5, <1>6 DEF Checking

\* What the hook called n-th makes of the verdict
VerdictStep(n, v, c, email, guest) ==
    IF HookOrder[n] \in checks THEN Check(HookOrder[n], v, c, email, guest) ELSE v

Verdicts(c, email, guest) ==
    CHOOSE f : f = [i \in 0 .. Len(HookOrder) |->
                       IF i = 0 THEN 0
                       ELSE IF HookOrder[i] \in checks
                            THEN Check(HookOrder[i], f[i - 1], c, email, guest)
                            ELSE f[i - 1]]

LEMMA ApprovedIsVerdict ==
    ASSUME NEW c, NEW email, NEW guest
    PROVE  Approved(c, email, guest) <=> Verdicts(c, email, guest)[Len(HookOrder)] = 0
BY DEF Approved, Verdicts

LEMMA VerdictFacts ==
    ASSUME NEW c, NEW email, NEW guest
    PROVE  /\ Verdicts(c, email, guest)[0] = 0
           /\ \A n \in 1 .. Len(HookOrder) :
                 Verdicts(c, email, guest)[n] =
                    VerdictStep(n, Verdicts(c, email, guest)[n - 1], c, email, guest)
<1> DEFINE N == Len(HookOrder)
           S == Nat
           step == [n \in 1 .. N |-> [v \in S |-> VerdictStep(n, v, c, email, guest)]]
           Solves(g) == g = [i \in 0 .. N |->
                               IF i = 0 THEN 0
                               ELSE IF HookOrder[i] \in checks
                                    THEN Check(HookOrder[i], g[i - 1], c, email, guest)
                                    ELSE g[i - 1]]
<1>1. N \in Nat /\ 0 \in S /\ \A n \in 1 .. N : HookOrder[n] \in Checking
  BY HookAssumption
<1>2. step \in [1 .. N -> [S -> S]]
  <2>1. \A n \in 1 .. N : \A v \in Nat : VerdictStep(n, v, c, email, guest) \in Nat
    BY <1>1, ChecksOnlyAdd DEF VerdictStep
  <2> QED BY <2>1
<1>3. PICK f \in [0 .. N -> S] : Follows(f, N, 0, step)
  <2> HIDE DEF N, S, step
  <2> QED BY <1>1, <1>2, Recursion
<1>4. f[0] = 0 /\ \A n \in 1 .. N : f[n] = VerdictStep(n, f[n - 1], c, email, guest)
  <2>1. f[0] = 0 /\ \A n \in 1 .. N : f[n] = step[n][f[n - 1]]
    BY <1>3 DEF Follows
  <2> HIDE DEF N, S
  <2>2. \A n \in 1 .. N : n - 1 \in 0 .. N /\ f[n - 1] \in S
    BY <1>1, <1>3
  <2> QED BY <2>1, <2>2
<1> HIDE DEF N, S, step
<1>5. Solves(f)
  <2>1. \A i \in 0 .. N : f[i] = IF i = 0 THEN 0
                                 ELSE IF HookOrder[i] \in checks
                                      THEN Check(HookOrder[i], f[i - 1], c, email, guest)
                                      ELSE f[i - 1]
    <3> TAKE i \in 0 .. N
    <3>1. CASE i = 0
      BY <1>4, <3>1
    <3>2. CASE i # 0
      <4>1. i \in 1 .. N
        BY <1>1, <3>2
      <4> QED BY <1>4, <3>2, <4>1 DEF VerdictStep
    <3> QED BY <3>1, <3>2
  <2> QED BY <2>1, <1>3
<1> DEFINE r == Verdicts(c, email, guest)
<1>6. r = CHOOSE g : Solves(g)
  BY DEF Verdicts, N
<1> HIDE DEF r
<1>7. Solves(r)
  <2> HIDE DEF Solves
  <2> QED BY <1>5, <1>6
<1>8. r[0] = 0 /\ \A n \in 1 .. N : r[n] = VerdictStep(n, r[n - 1], c, email, guest)
  <2>1. 0 \in 0 .. N /\ \A n \in 1 .. N : n \in 0 .. N /\ n # 0
    BY <1>1
  <2> QED BY <1>7, <2>1 DEF VerdictStep
<1> QED BY <1>8 DEF r, N

\* Whatever the order of the hooks, all of them have to agree.
LEMMA AllHaveToAgree ==
    ASSUME RegistrationTypeOK, NEW c, NEW email, NEW guest
    PROVE  Approved(c, email, guest) <=> \A m \in checks : Check(m, 0, c, email, guest) = 0
<1> DEFINE N == Len(HookOrder)
           r == Verdicts(c, email, guest)
           Agree(k) == HookOrder[k] \in checks => Check(HookOrder[k], 0, c, email, guest) = 0
           T == {n \in Nat : n <= N => r[n] \in Nat /\ (r[n] = 0 <=> \A k \in 1 .. n : Agree(k))}
<1>1. /\ N \in Nat /\ DOMAIN HookOrder = 1 .. N
      /\ \A n \in 1 .. N : HookOrder[n] \in Checking
  BY HookAssumption
<1>2. r[0] = 0 /\ \A n \in 1 .. N : r[n] = VerdictStep(n, r[n - 1], c, email, guest)
  BY VerdictFacts
<1> HIDE DEF N, r
<1>3. 0 \in T
  BY <1>2
<1>4. ASSUME NEW n \in T PROVE n + 1 \in T
  <2> SUFFICES ASSUME n + 1 <= N
               PROVE  r[n + 1] \in Nat /\ (r[n + 1] = 0 <=> \A k \in 1 .. n + 1 : Agree(k))
    OBVIOUS
  <2>1. /\ n \in Nat /\ n + 1 \in 1 .. N /\ (n + 1) - 1 = n
        /\ r[n] \in Nat /\ (r[n] = 0 <=> \A k \in 1 .. n : Agree(k))
    BY <1>1
  <2>2. r[n + 1] = VerdictStep(n + 1, r[n], c, email, guest) /\ HookOrder[n + 1] \in Checking
    BY <1>1, <1>2, <2>1
  <2>3. r[n + 1] \in Nat /\ (r[n + 1] = 0 <=> r[n] = 0 /\ Agree(n + 1))
    BY <2>1, <2>2, ChecksOnlyAdd DEF VerdictStep
  <2>4. (\A k \in 1 .. n + 1 : Agree(k)) <=> (\A k \in 1 .. n : Agree(k)) /\ Agree(n + 1)
    <3> HIDE DEF Agree
    <3>1. \A k \in 1 .. n + 1 : k \in 1 .. n \/ k = n + 1
      BY <2>1
    <3>2. (\A k \in 1 .. n : k \in 1 .. n + 1) /\ n + 1 \in 1 .. n + 1
      BY <2>1
    <3> QED BY <3>1, <3>2
  <2> HIDE DEF Agree
  <2> QED BY <2>1, <2>3, <2>4
<1>5. T = Nat
  <2>1. T \in SUBSET Nat
    OBVIOUS
  <2> HIDE DEF T
  <2> QED BY <1>3, <1>4, <2>1, Induction
<1>6. r[N] = 0 <=> \A k \in 1 .. N : Agree(k)
  BY <1>1, <1>5
<1>7. (\A k \in 1 .. N : Agree(k)) <=> \A m \in checks : Check(m, 0, c, email, guest) = 0
  <2>1. \A m \in checks : \E k \in 1 .. N : m = HookOrder[k]
    BY <1>1 DEF RegistrationTypeOK
  <2> QED BY <2>1
<1>8. Approved(c, email, guest) <=> r[N] = 0
  BY ApprovedIsVerdict DEF r, N
<1> QED BY <1>6, <1>7, <1>8

\* What a connection has shown, if the blacklist asks for it
Shown(record) ==
    Blacklisting /\ restricted /\ record.bad /\ ~record.changed
        /\ record.account # NoAccount =>
            record.proof \in permitted \cup {NoMechanism}

RgInv ==
    /\ RegistrationTypeOK
    /\ \A c \in Conns : conn[c].state = "off" => conn[c].account = NoAccount
    /\ \A c \in Conns : Shown(conn[c])

LEMMA RgInit == RegistrationInit => RgInv
<1> SUFFICES ASSUME RegistrationInit PROVE RgInv
  OBVIOUS
<1>1. Off \in Connection /\ Off.account = NoAccount
  BY DEF Off, Connection, NoAccount, NoMechanism
<1>2. \A c \in Conns : conn[c] = Off
  BY DEF RegistrationInit
<1>3. RegistrationTypeOK
  BY <1>1 DEF RegistrationInit, RegistrationTypeOK
<1> QED BY <1>1, <1>2, <1>3 DEF RgInv, Shown

LEMMA RgRecord ==
    ASSUME RgInv, NEW c \in Conns
    PROVE  /\ conn[c] \in Connection /\ Shown(conn[c])
           /\ conn[c].state = "off" => conn[c].account = NoAccount
BY DEF RgInv, RegistrationTypeOK

\* A step of one connection
LEMMA RgSet ==
    ASSUME RgInv, NEW c \in Conns, NEW record \in Connection, Set(c, record),
           UNCHANGED listVars, Shown(record),
           record.state = "off" => record.account = NoAccount
    PROVE  RgInv'
<1>1. /\ conn' = [conn EXCEPT ![c] = record] /\ conn \in [Conns -> Connection]
      /\ conn' \in [Conns -> Connection]
      /\ UNCHANGED <<checks, maillist, guestnicks, lockdown, restricted, permitted>>
  BY DEF Set, listVars, RgInv, RegistrationTypeOK
<1>2. RegistrationTypeOK'
  BY <1>1 DEF RgInv, RegistrationTypeOK
<1>3. UNCHANGED <<checks, restricted, permitted>> /\ (Blacklisting' <=> Blacklisting)
  BY <1>1 DEF Blacklisting
<1>4. ASSUME NEW d \in Conns
      PROVE  Shown(conn[d])' /\ (conn'[d].state = "off" => conn'[d].account = NoAccount)
  <2>1. conn'[d] = record \/ conn'[d] = conn[d]
    BY <1>1
  <2>2. Shown(conn[d]) /\ (conn[d].state = "off" => conn[d].account = NoAccount)
    BY RgRecord
  <2> QED BY <1>3, <2>1, <2>2 DEF Shown
<1> QED BY <1>2, <1>4 DEF RgInv

\* A client that is let through a check has nothing to show.
LEMMA NotRestricted ==
    ASSUME NEW c \in Conns, ~RestrictedUser(c), NEW record, record.bad = conn[c].bad
    PROVE  Shown(record)
BY HookAssumption DEF RestrictedUser, Shown

LEMMA RegisterOK ==
    ASSUME RgInv, NEW c \in Conns \cup {Web}, NEW email, NEW guest, Register(c, email, guest)
    PROVE  RgInv'
<1>1. CASE c = Web
  <2>1. UNCHANGED <<conn, checks, maillist, guestnicks, lockdown, restricted, permitted>>
    BY <1>1 DEF Register, listVars
  <2> QED BY <2>1 DEF RgInv, RegistrationTypeOK, Shown, Blacklisting
<1>2. CASE c # Web
  <2> DEFINE record == [conn[c] EXCEPT !.account = "account", !.proof = "service"]
  <2>1. c \in Conns /\ conn[c].state = "user" /\ Set(c, record) /\ UNCHANGED listVars
        /\ Approved(c, email, guest)
    BY <1>2 DEF Register
  <2>2. record \in Connection /\ record.bad = conn[c].bad /\ record.state = "user"
    BY <2>1, RgRecord DEF Connection
  <2>3. ~RestrictedUser(c)
    <3> SUFFICES ASSUME RestrictedUser(c) PROVE FALSE
      OBVIOUS
    <3>1. "sasl_blacklist" \in checks
      BY DEF RestrictedUser, Blacklisting
    <3>2. Check("sasl_blacklist", 0, c, email, guest) = 0
      BY <2>1, <3>1, AllHaveToAgree DEF RgInv
    <3>3. Check("sasl_blacklist", 0, c, email, guest) = 1
      BY DEF Check
    <3> QED BY <3>2, <3>3
  <2> HIDE DEF record
  <2>4. Shown(record)
    BY <2>1, <2>2, <2>3, NotRestricted
  <2> QED BY <2>1, <2>2, <2>4, RgSet
<1> QED BY <1>1, <1>2

\* The steps of a connection but REGISTER
LEMMA ConnectionOK ==
    ASSUME RgInv, NEW c \in Conns,
           \/ \E bad \in BOOLEAN : Connect(c, bad)
           \/ \E m \in Mechanisms \cup {NoMechanism} : StartMechanism(c, m)
           \/ SaslLogin(c) \/ Introduce(c) \/ Identify(c) \/ Logout(c)
           \/ SetVhost(c) \/ Waited(c) \/ Disconnect(c)
    PROVE  RgInv'
<1> DEFINE was == conn[c]
<1>1. was \in Connection /\ Shown(was) /\ (was.state = "off" => was.account = NoAccount)
  BY RgRecord
<1>2. ASSUME NEW bad \in BOOLEAN, Connect(c, bad) PROVE RgInv'
  <2> DEFINE record == [Off EXCEPT !.state = "session", !.bad = bad]
  <2>1. /\ record \in Connection /\ record.account = NoAccount
    BY DEF Off, Connection, NoAccount, NoMechanism
  <2>2. Set(c, record) /\ UNCHANGED listVars
    BY <1>2 DEF Connect
  <2> HIDE DEF record
  <2> QED BY <2>1, <2>2, RgSet DEF Shown
<1>3. ASSUME NEW m \in Mechanisms \cup {NoMechanism}, StartMechanism(c, m) PROVE RgInv'
  <2> DEFINE record == [was EXCEPT !.mech = m]
  <2>1. /\ record \in Connection /\ record.state = was.state /\ record.account = was.account
        /\ record.bad = was.bad /\ record.changed = was.changed /\ record.proof = was.proof
    BY <1>1 DEF Connection
  <2>2. Set(c, record) /\ UNCHANGED listVars
    BY <1>3 DEF StartMechanism
  <2> HIDE DEF record
  <2> QED BY <1>1, <2>1, <2>2, RgSet DEF Shown
<1>4. CASE SaslLogin(c)
  <2> DEFINE record == [was EXCEPT !.account = "account", !.proof = was.mech]
  <2>1. /\ record \in Connection /\ record.state = was.state /\ was.state = "session"
        /\ record.bad = was.bad /\ record.proof = was.mech
    BY <1>1, <1>4 DEF Connection, SaslLogin
  <2>2. Set(c, record) /\ UNCHANGED listVars /\ SaslAllowed(c)
    BY <1>4 DEF SaslLogin
  <2> HIDE DEF record
  <2>3. Shown(record)
    BY <2>1, <2>2 DEF Shown, SaslAllowed, RestrictedSession
  <2> QED BY <2>1, <2>2, <2>3, RgSet
<1>5. CASE Introduce(c)
  <2> DEFINE record == [was EXCEPT !.state = "user"]
  <2>1. /\ record \in Connection /\ record.state = "user" /\ record.account = was.account
        /\ record.bad = was.bad /\ record.changed = was.changed /\ record.proof = was.proof
    BY <1>1 DEF Connection
  <2>2. Set(c, record) /\ UNCHANGED listVars
    BY <1>5 DEF Introduce
  <2> HIDE DEF record
  <2> QED BY <1>1, <2>1, <2>2, RgSet DEF Shown
<1>6. CASE Identify(c)
  <2> DEFINE record == [was EXCEPT !.account = "account", !.proof = "service"]
  <2>1. /\ record \in Connection /\ record.state = "user" /\ record.bad = was.bad
    BY <1>1, <1>6 DEF Connection, Identify
  <2>2. Set(c, record) /\ UNCHANGED listVars /\ ~RestrictedUser(c)
    BY <1>6 DEF Identify
  <2> HIDE DEF record
  <2>3. Shown(record)
    BY <2>1, <2>2, NotRestricted
  <2> QED BY <2>1, <2>2, <2>3, RgSet
<1>7. CASE Logout(c)
  <2> DEFINE record == [was EXCEPT !.account = NoAccount, !.proof = NoMechanism]
  <2>1. record \in Connection /\ record.account = NoAccount
    BY <1>1 DEF Connection
  <2>2. Set(c, record) /\ UNCHANGED listVars
    BY <1>7 DEF Logout
  <2> HIDE DEF record
  <2> QED BY <2>1, <2>2, RgSet DEF Shown
<1>8. CASE SetVhost(c)
  <2> DEFINE record == [was EXCEPT !.badvhost = ~@]
  <2>1. /\ record \in Connection /\ record.state = was.state /\ record.account = was.account
        /\ record.bad = was.bad /\ record.changed = was.changed /\ record.proof = was.proof
    BY <1>1 DEF Connection
  <2>2. Set(c, record) /\ UNCHANGED listVars
    BY <1>8 DEF SetVhost
  <2> HIDE DEF record
  <2> QED BY <1>1, <2>1, <2>2, RgSet DEF Shown
<1>9. CASE Waited(c)
  <2> DEFINE record == [was EXCEPT !.fresh = FALSE]
  <2>1. /\ record \in Connection /\ record.state = was.state /\ record.account = was.account
        /\ record.bad = was.bad /\ record.changed = was.changed /\ record.proof = was.proof
    BY <1>1 DEF Connection
  <2>2. Set(c, record) /\ UNCHANGED listVars
    BY <1>9 DEF Waited
  <2> HIDE DEF record
  <2> QED BY <1>1, <2>1, <2>2, RgSet DEF Shown
<1>10. CASE Disconnect(c)
  <2>1. Off \in Connection /\ Off.account = NoAccount
    BY DEF Off, Connection, NoAccount, NoMechanism
  <2>2. Set(c, Off) /\ UNCHANGED listVars
    BY <1>10 DEF Disconnect
  <2> QED BY <2>1, <2>2, RgSet DEF Shown
<1> QED BY <1>2, <1>3, <1>4, <1>5, <1>6, <1>7, <1>8, <1>9, <1>10

\* A step of the lists that leaves the blacklist alone
LEMMA OtherLists ==
    ASSUME RgInv, RegistrationTypeOK', UNCHANGED <<conn, restricted, permitted>>,
           Blacklisting' => Blacklisting
    PROVE  RgInv'
BY DEF RgInv, Shown

\* A step that changes the blacklist marks everyone who is there.
LEMMA ListsChanged ==
    ASSUME RgInv, Changed, checks' \subseteq {HookOrder[i] : i \in DOMAIN HookOrder},
           maillist' \subseteq Emails, guestnicks' \in BOOLEAN, lockdown' \in BOOLEAN,
           restricted' \in BOOLEAN, permitted' \subseteq Mechanisms
    PROVE  RgInv'
<1>1. ASSUME NEW c \in Conns
      PROVE  /\ conn'[c] \in Connection
             /\ conn'[c].state = conn[c].state /\ conn'[c].account = conn[c].account
             /\ conn'[c].changed \/ conn[c].state = "off"
  <2> DEFINE flag == conn[c].changed \/ conn[c].state # "off"
  <2>1. conn'[c] = [conn[c] EXCEPT !.changed = flag] /\ flag \in BOOLEAN
    BY DEF Changed
  <2>2. flag \/ conn[c].state = "off"
    OBVIOUS
  <2> HIDE DEF flag
  <2>3. conn[c] \in Connection
    BY RgRecord
  <2> QED BY <2>1, <2>2, <2>3 DEF Connection
<1>2. conn' \in [Conns -> Connection]
  <2>1. conn' = [c \in Conns |-> conn'[c]]
    BY DEF Changed
  <2> QED BY <1>1, <2>1
<1>3. RegistrationTypeOK'
  BY <1>2 DEF RegistrationTypeOK
<1>4. \A c \in Conns : /\ conn'[c].state = "off" => conn'[c].account = NoAccount
                       /\ conn'[c].changed \/ conn'[c].account = NoAccount
  BY <1>1, RgRecord
<1> QED BY <1>3, <1>4 DEF RgInv, Shown

LEMMA RgNext == RgInv /\ (RegistrationNext \/ UNCHANGED rgVars) => RgInv'
<1> SUFFICES ASSUME RgInv, RegistrationNext \/ UNCHANGED rgVars PROVE RgInv'
  OBVIOUS
<1>0. /\ RegistrationTypeOK
      /\ checks \subseteq {HookOrder[i] : i \in DOMAIN HookOrder} /\ maillist \subseteq Emails
      /\ guestnicks \in BOOLEAN /\ lockdown \in BOOLEAN
      /\ restricted \in BOOLEAN /\ permitted \subseteq Mechanisms
  BY DEF RgInv, RegistrationTypeOK
<1>1. CASE UNCHANGED rgVars
  BY <1>1 DEF rgVars, listVars, RgInv, RegistrationTypeOK, Shown, Blacklisting
<1>2. ASSUME NEW hosts \in SUBSET {"bad", "other"}, NEW mechs \in SUBSET Mechanisms,
             BlacklistBlock(hosts, mechs)
      PROVE  RgInv'
  <2>1. UNCHANGED <<checks, maillist, guestnicks, lockdown>>
        /\ restricted' \in BOOLEAN /\ permitted' \subseteq Mechanisms
    <3>1. /\ UNCHANGED <<checks, maillist, guestnicks, lockdown>>
          /\ restricted' = restricted \/ restricted' = ("bad" \in hosts)
          /\ permitted' = permitted \/ permitted' = mechs
      BY <1>2, Zenon DEF BlacklistBlock
    <3>2. ("bad" \in hosts) \in BOOLEAN
      OBVIOUS
    <3> QED BY <1>0, <3>1, <3>2
  <2>2. CASE Changed
    BY <1>0, <2>1, <2>2, ListsChanged
  <2>3. CASE UNCHANGED <<conn, restricted, permitted>>
    <3>1. RegistrationTypeOK'
      BY <1>0, <2>1, <2>3 DEF RegistrationTypeOK
    <3> QED BY <2>1, <2>3, <3>1, OtherLists DEF Blacklisting
  <2>4. Changed \/ UNCHANGED <<conn, restricted, permitted>>
    BY <1>2 DEF BlacklistBlock
  <2> QED BY <2>2, <2>3, <2>4
<1>3. ASSUME NEW b \in BOOLEAN, GuestBlock(b) \/ Defcon(b) PROVE RgInv'
  <2>1. RegistrationTypeOK'
    BY <1>0, <1>3 DEF GuestBlock, Defcon, RegistrationTypeOK
  <2> QED BY <1>3, <2>1, OtherLists DEF GuestBlock, Defcon, Blacklisting
<1>4. ASSUME NEW email \in Emails, GoodMailCommand(email) PROVE RgInv'
  <2>1. RegistrationTypeOK'
    BY <1>0, <1>4 DEF GoodMailCommand, RegistrationTypeOK
  <2> QED BY <1>4, <2>1, OtherLists DEF GoodMailCommand, Blacklisting
<1>5. ASSUME NEW i \in DOMAIN HookOrder, UnloadCheck(HookOrder[i]) PROVE RgInv'
  <2> DEFINE m == HookOrder[i]
  <2>1. /\ checks' = checks \ {m} /\ maillist' \subseteq Emails
        /\ guestnicks' \in BOOLEAN /\ lockdown' \in BOOLEAN
    BY <1>0, <1>5 DEF UnloadCheck
  <2>2. CASE m = "sasl_blacklist"
    <3>1. restricted' = FALSE /\ permitted' = {} /\ Changed
      BY <1>5, <2>2 DEF UnloadCheck
    <3> QED BY <1>0, <2>1, <3>1, ListsChanged
  <2>3. CASE m # "sasl_blacklist"
    <3>1. UNCHANGED <<restricted, permitted, conn>>
      BY <1>5, <2>3 DEF UnloadCheck
    <3>2. RegistrationTypeOK'
      BY <1>0, <2>1, <3>1 DEF RegistrationTypeOK
    <3> QED BY <2>1, <3>1, <3>2, OtherLists DEF Blacklisting
  <2> QED BY <2>2, <2>3
<1>6. ASSUME NEW i \in DOMAIN HookOrder, LoadCheck(HookOrder[i]) PROVE RgInv'
  <2> DEFINE m == HookOrder[i]
  <2>1. checks' = checks \cup {m}
        /\ UNCHANGED <<maillist, guestnicks, lockdown, restricted, permitted>>
    BY <1>6 DEF LoadCheck
  <2>2. CASE m = "sasl_blacklist"
    BY <1>0, <1>6, <2>1, <2>2, ListsChanged DEF LoadCheck
  <2>3. CASE m # "sasl_blacklist"
    <3>1. UNCHANGED conn
      BY <1>6, <2>3 DEF LoadCheck
    <3>2. RegistrationTypeOK'
      BY <1>0, <2>1, <3>1 DEF RegistrationTypeOK
    <3> QED BY <2>1, <2>3, <3>1, <3>2, OtherLists DEF Blacklisting
  <2> QED BY <2>2, <2>3
<1> QED BY <1>1, <1>2, <1>3, <1>4, <1>5, <1>6, RegisterOK, ConnectionOK DEF RegistrationNext

\* Whoever comes from a restricted address has shown who they are, and no check
\* of a registration is passed over, in whatever order the modules were loaded.
THEOREM NobodyEverSlipsPast == Spec => []NobodySlipsPast
<1>1. Init => RgInv
  BY RgInit DEF Init
<1>2. RgInv /\ [Next]_parts => RgInv'
  BY RgNext, Frames
<1>3. RgInv => NobodySlipsPast
  <2> SUFFICES ASSUME RgInv PROVE NobodySlipsPast
    OBVIOUS
  <2>1. RestrictedShowWhoTheyAre
    BY DEF RgInv, Shown, RestrictedShowWhoTheyAre
  <2>2. EveryCheckCounts
    BY AllHaveToAgree DEF RgInv, EveryCheckCounts
  <2> QED BY <2>1, <2>2 DEF NobodySlipsPast
<1> QED BY <1>1, <1>2, <1>3, PTL DEF Spec

\* Every variable of every part keeps its type; no pattern is monitored twice.
THEOREM TypeCorrect == Spec => []TypeOK
<1> DEFINE Inv == /\ part \in Parts /\ alive \in BOOLEAN
                  /\ DbTypes /\ RsTypes /\ AjInv
                  /\ JmInv /\ unreasoned \subseteq Monitored
                  /\ FbInv /\ VhInv /\ RgInv
<1>1. Init => Inv
  <2> SUFFICES ASSUME Init PROVE Inv
    OBVIOUS
  <2>1. DbTypes
    <3>1. mine = 0 /\ old = 0 /\ fds = FdLimit
      BY DEF Init, OnDbSaveInit
    <3>2. /\ db_loaded \in BOOLEAN /\ command \in BOOLEAN /\ running \in BOOLEAN
          /\ behind \in BOOLEAN /\ mixed \in BOOLEAN
      BY DEF Init, OnDbSaveInit
    <3> QED BY <3>1, <3>2, FdAssumption DEF DbTypes, OnDbSaveTypeOK
  <2>2. RsTypes
    BY RsInit DEF Init, ResolveInit, RsTypes
  <2>3. AjInv
    BY DEF Init, AutoJoinInit, AjInv
  <2>4. JmInv /\ unreasoned \subseteq Monitored
    BY DEF Init, JoinMonInit, JmInv, Distinct
  <2> QED BY <2>1, <2>2, <2>3, <2>4, FbInit, VhInit, RgInit DEF Init
<1>2. Inv /\ [Next]_parts => Inv'
  <2> SUFFICES ASSUME Inv, [Next]_parts PROVE Inv'
    OBVIOUS
  <2>1. part' = part
    BY Frames
  <2>2. alive' \in BOOLEAN
    BY DEF Next, parts, OnDbSaveStep, ResolveStep, AutoJoinStep, JoinMonStep, ForbidsStep,
           VhostsStep, RegistrationStep, ChannelRegStep, OnDbSaveNext, OldFinished,
           JoinMonNext, AddMonitor, DelMonitor, SaveMonitors, RestartServices
  <2>3. DbTypes'
    BY DbTypesNext, Frames
  <2>4. RsTypes'
    <3>1. RsInv'
      BY RsNext, Frames DEF RsTypes
    <3> QED BY <3>1, RsTypesNext, Frames
  <2>5. AjInv'
    BY AjNext, Frames
  <2>6. JmInv' /\ (unreasoned \subseteq Monitored)'
    <3>1. JoinMonNext \/ UNCHANGED jmVars
      BY Frames
    <3>2. JmInv'
      BY <3>1, JmNext DEF jmVars, JmInv, Distinct
    <3> QED BY <3>1, <3>2, UnreasonedNext
  <2>7. FbInv' /\ VhInv' /\ RgInv'
    BY FbNext, VhNext, RgNext, Frames
  <2> QED BY <2>1, <2>2, <2>3, <2>4, <2>5, <2>6, <2>7
<1>3. Inv => TypeOK
  BY RsTypesOK, AjTypes, JoinMonTypes DEF DbTypes, FbInv, VhInv, RgInv, TypeOK
<1> QED BY <1>1, <1>2, <1>3, PTL DEF Spec
=============================================================================
