-------------------------- MODULE AnnounceservProofs --------------------------
(***************************************************************************)
(* Proofs about Announceserv.  The invariant says of the list in memory and*)
(* of the rows of the database that no name occurs twice; the list a       *)
(* restart brings back is the second one.  Without the module there is no  *)
(* list: that is why dropping an account then leaves no request behind.    *)
(***************************************************************************)
EXTENDS Announceserv, FiniteSetTheorems, TLAPS

Unique(list) == \A i, j \in DOMAIN list : list[i].nick = list[j].nick => i = j

Good(list) == list \in Seq(Request) /\ Unique(list)

Typed(acc) == DOMAIN acc \subseteq Accounts /\ acc \in [DOMAIN acc -> Names]

IInv ==
    /\ Good(reqlist) /\ Good(saved.rows)
    /\ Typed(account) /\ Typed(saved.account)
    /\ ~loaded => reqlist = <<>>

\* Taking an element out of a list moves the later ones up by one.
LEMMA RemoveAtFacts ==
    ASSUME NEW S, NEW list \in Seq(S), NEW k \in DOMAIN list
    PROVE  /\ RemoveAt(list, k) \in Seq(S)
           /\ Len(RemoveAt(list, k)) = Len(list) - 1
           /\ \A i \in 1 .. Len(list) - 1 :
                 RemoveAt(list, k)[i] = IF i < k THEN list[i] ELSE list[i + 1]
<1>1. k \in 1 .. Len(list) /\ Len(list) \in Nat
  OBVIOUS
<1>2. RemoveAt(list, k) = SubSeq(list, 1, k - 1) \o SubSeq(list, k + 1, Len(list))
  BY DEF RemoveAt
<1>3. /\ SubSeq(list, 1, k - 1) \in Seq(S)
      /\ Len(SubSeq(list, 1, k - 1)) = k - 1
      /\ \A i \in 1 .. k - 1 : SubSeq(list, 1, k - 1)[i] = list[i]
  BY <1>1
<1>4. /\ SubSeq(list, k + 1, Len(list)) \in Seq(S)
      /\ Len(SubSeq(list, k + 1, Len(list))) = Len(list) - k
      /\ \A i \in 1 .. Len(list) - k : SubSeq(list, k + 1, Len(list))[i] = list[i + k]
  BY <1>1
<1> DEFINE front == SubSeq(list, 1, k - 1)
           back == SubSeq(list, k + 1, Len(list))
<1>8. front \in Seq(S) /\ back \in Seq(S)
  BY <1>3, <1>4
<1>9. /\ \A i \in 1 .. k - 1 : front[i] = list[i]
      /\ \A i \in 1 .. Len(list) - k : back[i] = list[i + k]
  BY <1>3, <1>4
<1>6. Len(front) = k - 1 /\ Len(back) = Len(list) - k
  BY <1>3, <1>4
<1>10. RemoveAt(list, k) = front \o back
  BY <1>2
<1> HIDE DEF front, back
<1>5. /\ front \o back \in Seq(S)
      /\ Len(front \o back) = Len(front) + Len(back)
      /\ \A i \in 1 .. Len(front) + Len(back) :
            (front \o back)[i] = IF i <= Len(front) THEN front[i] ELSE back[i - Len(front)]
  BY <1>8
<1>7. ASSUME NEW i \in 1 .. k - 1 PROVE (front \o back)[i] = list[i]
  BY <1>1, <1>9, <1>5, <1>6
<1>11. ASSUME NEW i \in k .. Len(list) - 1 PROVE (front \o back)[i] = list[i + 1]
  <2>1. i - Len(front) \in 1 .. Len(list) - k /\ i - Len(front) + k = i + 1
    BY <1>1, <1>6
  <2>2. i \in 1 .. Len(front) + Len(back) /\ ~(i <= Len(front))
    BY <1>1, <1>6
  <2>3. (front \o back)[i] = back[i - Len(front)]
    BY <2>2, <1>5
  <2> QED BY <2>1, <2>3, <1>9
<1>12. ASSUME NEW i \in 1 .. Len(list) - 1
       PROVE  (front \o back)[i] = IF i < k THEN list[i] ELSE list[i + 1]
  <2>1. CASE i < k
    <3>1. i \in 1 .. k - 1
      BY <2>1, <1>1
    <3>2. (front \o back)[i] = list[i]
      BY <3>1, <1>7
    <3> QED BY <3>2, <2>1
  <2>2. CASE ~(i < k)
    <3>1. i \in k .. Len(list) - 1
      BY <2>2, <1>1
    <3>2. (front \o back)[i] = list[i + 1]
      BY <3>1, <1>11
    <3> QED BY <3>2, <2>2
  <2> QED BY <2>1, <2>2
<1>13. Len(front \o back) = Len(list) - 1
  BY <1>1, <1>5, <1>6
<1>14. /\ front \o back \in Seq(S)
       /\ \A i \in 1 .. Len(list) - 1 :
             (front \o back)[i] = IF i < k THEN list[i] ELSE list[i + 1]
  BY <1>5, <1>12
<1>15. QED
  <2> DEFINE joined == front \o back
  <2>1. joined = RemoveAt(list, k)
    BY <1>10
  <2>2. /\ joined \in Seq(S) /\ Len(joined) = Len(list) - 1
        /\ \A i \in 1 .. Len(list) - 1 :
              joined[i] = IF i < k THEN list[i] ELSE list[i + 1]
    BY <1>13, <1>14
  <2> HIDE DEF joined
  <2>3. QED
    BY <2>1, <2>2, Zenon

\* A name has one request at most, so the first is it.
LEMMA FirstOfFacts ==
    ASSUME NEW nick, Good(reqlist), Pending(nick) # {}
    PROVE  /\ FirstOf(nick) \in DOMAIN reqlist
           /\ Pending(nick) = {FirstOf(nick)}
<1>1. PICK k \in Pending(nick) : TRUE
  OBVIOUS
<1>2. k \in DOMAIN reqlist /\ Pending(nick) = {k} /\ k \in Int
  BY <1>1 DEF Pending, Good, Unique
<1>3. \A j \in Pending(nick) : k <= j
  BY <1>2
<1>4. FirstOf(nick) = k
  BY <1>2, <1>3 DEF FirstOf
<1> QED BY <1>2, <1>4

NicksIn(list) == {list[i].nick : i \in DOMAIN list}

\* What is left when a name's request is taken off: the others.
LEMMA TakeOffFacts ==
    ASSUME NEW nick, Good(reqlist), TakeOff(nick)
    PROVE  /\ Good(reqlist')
           /\ NicksIn(reqlist') = NicksIn(reqlist) \ {nick}
<1>1. CASE Pending(nick) = {}
  BY <1>1 DEF TakeOff, Pending, NicksIn
<1>2. CASE Pending(nick) # {}
  <2> DEFINE k == FirstOf(nick)
  <2>1. k \in DOMAIN reqlist /\ Pending(nick) = {k} /\ reqlist' = RemoveAt(reqlist, k)
    BY <1>2, FirstOfFacts DEF TakeOff
  <2>2. reqlist \in Seq(Request) /\ Len(reqlist) \in Nat /\ DOMAIN reqlist = 1 .. Len(reqlist)
    BY DEF Good
  <2> HIDE DEF k
  <2>3. /\ reqlist' \in Seq(Request) /\ DOMAIN reqlist' = 1 .. Len(reqlist) - 1
        /\ \A i \in 1 .. Len(reqlist) - 1 :
              reqlist'[i] = IF i < k THEN reqlist[i] ELSE reqlist[i + 1]
    BY <2>1, <2>2, RemoveAtFacts
  <2>4. Unique(reqlist')
    <3> DEFINE old(i) == IF i < k THEN i ELSE i + 1
    <3>1. \A i \in DOMAIN reqlist' : old(i) \in DOMAIN reqlist /\ reqlist'[i] = reqlist[old(i)]
      BY <2>1, <2>2, <2>3
    <3>2. \A i, j \in DOMAIN reqlist' : old(i) = old(j) => i = j
      BY <2>1, <2>2, <2>3
    <3> HIDE DEF old
    <3> QED BY <3>1, <3>2 DEF Good, Unique
  <2>5. \A i \in DOMAIN reqlist : i # k =>
           \E j \in DOMAIN reqlist' : reqlist'[j] = reqlist[i]
    <3> TAKE i \in DOMAIN reqlist
    <3> HAVE i # k
    <3>1. CASE i < k
      <4>1. i \in DOMAIN reqlist' /\ reqlist'[i] = reqlist[i]
        BY <3>1, <2>1, <2>2, <2>3
      <4> QED BY <4>1
    <3>2. CASE i > k
      <4>1. i - 1 \in DOMAIN reqlist' /\ reqlist'[i - 1] = reqlist[i]
        BY <3>2, <2>1, <2>2, <2>3
      <4> QED BY <4>1
    <3> QED BY <3>1, <3>2, <2>1, <2>2
  <2>6. \A j \in DOMAIN reqlist' :
           \E i \in DOMAIN reqlist : i # k /\ reqlist'[j] = reqlist[i]
    <3> TAKE j \in DOMAIN reqlist'
    <3>1. CASE j < k
      BY <3>1, <2>1, <2>2, <2>3
    <3>2. CASE j >= k
      <4>1. j + 1 \in DOMAIN reqlist /\ reqlist'[j] = reqlist[j + 1] /\ j + 1 # k
        BY <3>2, <2>1, <2>2, <2>3
      <4> QED BY <4>1
    <3> QED BY <3>1, <3>2, <2>1, <2>2, <2>3
  <2>7. \A i \in DOMAIN reqlist : reqlist[i].nick = nick <=> i = k
    BY <2>1 DEF Pending
  <2>8. NicksIn(reqlist') = NicksIn(reqlist) \ {nick}
    BY <2>5, <2>6, <2>7 DEF NicksIn
  <2> QED BY <2>3, <2>4, <2>8 DEF Good
<1> QED BY <1>1, <1>2

LEMMA EmptyFacts == Good(<<>>) /\ NicksIn(<<>>) = {}
BY DEF Good, Unique, NicksIn

LEMMA InitIInv == Init => IInv
BY EmptyFacts DEF Init, IInv, Typed, EmptyMap

\* A request is added only when there is none with the name.
LEMMA AddFacts ==
    ASSUME NEW nick \in Names, NEW t \in Texts, Good(reqlist), MayRequest(nick),
           reqlist' = Append(reqlist, [nick |-> nick, text |-> t])
    PROVE  Good(reqlist') /\ NicksIn(reqlist') = NicksIn(reqlist) \cup {nick}
<1> DEFINE r == [nick |-> nick, text |-> t]
<1>1. r \in Request /\ r.nick = nick
  BY DEF Request
<1> HIDE DEF r
<1>2. /\ reqlist \in Seq(Request) /\ Len(reqlist) \in Nat
      /\ DOMAIN reqlist = 1 .. Len(reqlist)
  BY DEF Good
<1>3. /\ reqlist' \in Seq(Request) /\ DOMAIN reqlist' = 1 .. Len(reqlist) + 1
      /\ \A i \in DOMAIN reqlist : reqlist'[i] = reqlist[i]
      /\ reqlist'[Len(reqlist) + 1] = r
  BY <1>1, <1>2 DEF r
<1>4. \A i \in DOMAIN reqlist : reqlist[i].nick # nick
  BY DEF MayRequest, Pending
<1>5. \A i \in DOMAIN reqlist' : i \in DOMAIN reqlist \/ i = Len(reqlist) + 1
  BY <1>2, <1>3
<1>6. Unique(reqlist')
  BY <1>1, <1>3, <1>4, <1>5 DEF Good, Unique
<1>7. NicksIn(reqlist') = NicksIn(reqlist) \cup {nick}
  <2>1. NicksIn(reqlist') \subseteq NicksIn(reqlist) \cup {nick}
    BY <1>1, <1>3, <1>5 DEF NicksIn
  <2>2. NicksIn(reqlist) \subseteq NicksIn(reqlist')
    BY <1>2, <1>3 DEF NicksIn
  <2>3. nick \in NicksIn(reqlist')
    <3>1. Len(reqlist) + 1 \in DOMAIN reqlist'
      BY <1>2, <1>3
    <3> QED BY <3>1, <1>1, <1>3 DEF NicksIn
  <2> QED BY <2>1, <2>2, <2>3
<1> QED BY <1>3, <1>6, <1>7 DEF Good

\* What a step leaves in the list of names, and in the accounts.
LEMMA NextKeepsIInv == IInv /\ [Next]_vars => IInv'
<1> SUFFICES ASSUME IInv, [Next]_vars PROVE IInv'
  OBVIOUS
<1> USE DEF IInv
<1>1. ASSUME NEW a \in Accounts, NEW t \in Texts, MakeRequest(a, t) PROVE IInv'
  <2>1. account[a] \in Names
    BY <1>1 DEF MakeRequest, Typed
  <2> QED BY <1>1, <2>1, AddFacts DEF MakeRequest
<1>2. ASSUME NEW nick, TakeOff(nick), loaded, UNCHANGED <<loaded, account, saved>> PROVE IInv'
  BY <1>2, TakeOffFacts
<1>3. ASSUME NEW a \in Accounts, DropAccount(a) PROVE IInv'
  <2>1. Typed(account')
    BY <1>3 DEF DropAccount, Del, Typed
  <2>2. Good(reqlist') /\ (~loaded => reqlist' = <<>>)
    BY <1>3, TakeOffFacts DEF DropAccount
  <2> QED BY <1>3, <2>1, <2>2 DEF DropAccount
<1>9. ASSUME NEW a \in Accounts, DeleteAccount(a) PROVE IInv'
  <2>1. Typed(account')
    BY <1>9 DEF DeleteAccount, Del, Typed
  <2> QED BY <1>9, <2>1 DEF DeleteAccount
<1>4. ASSUME NEW a \in Accounts, NEW nick \in Names, Register(a, nick) \/ Rename(a, nick)
      PROVE  IInv'
  <2>1. account' = Put(account, a, nick)
    BY <1>4 DEF Register, Rename
  <2>2. Typed(account')
    BY <2>1 DEF Put, Typed
  <2> QED BY <1>4, <2>2 DEF Register, Rename
<1>5. CASE Save
  <2>1. saved'.account = account /\ saved'.rows = reqlist
    BY <1>5 DEF Save
  <2> QED BY <1>5, <2>1 DEF Save
<1>6. CASE Restart
  BY <1>6 DEF Restart, Restored
<1>7. CASE Unload
  BY <1>7, EmptyFacts DEF Unload
<1>8. CASE Load \/ Waiting \/ UNCHANGED vars
  BY <1>8 DEF Load, Waiting, vars
<1> QED
  BY <1>1, <1>2, <1>3, <1>4, <1>5, <1>6, <1>7, <1>8, <1>9
  DEF Next, Cancel, Activate, Reject

LEMMA Invariance == Spec => []IInv
BY InitIInv, NextKeepsIInv, PTL DEF Spec

\* as_reqlist never has two requests of a name: the loops that stop at the first
\* miss none.
THEOREM NamesAreUnique == Spec => []OneRequestPerName
<1>1. IInv => OneRequestPerName
  BY DEF IInv, Good, Unique, OneRequestPerName
<1> QED BY <1>1, Invariance, PTL

\* A list with one request for each name is not longer than there are names.
LEMMA GoodListsAreShort ==
    ASSUME NEW list, Good(list)
    PROVE  Len(list) <= Cardinality(Names)
<1> DEFINE I == 1 .. Len(list)
           nickOf == [i \in I |-> list[i].nick]
<1>1. Len(list) \in Nat /\ DOMAIN list = I /\ \A i \in I : list[i] \in Request
  BY DEF Good
<1>2. nickOf \in [I -> Names]
  BY <1>1 DEF Request
<1>3. \A i, j \in I : nickOf[i] = nickOf[j] => i = j
  BY <1>1 DEF Good, Unique
<1>4. Cardinality(I) = Len(list)
  BY <1>1, FS_Interval
<1> HIDE DEF I, nickOf
<1>5. nickOf \in Injection(I, Names)
  BY <1>2, <1>3 DEF Injection, IsInjective
<1>6. Cardinality(I) <= Cardinality(Names)
  BY <1>5, NamesAssumption, FS_Injection
<1> QED BY <1>4, <1>6

Seen ==
    /\ loaded \in BOOLEAN
    /\ shown \subseteq Request /\ sent \subseteq Request /\ hooked \subseteq Names

\* What operators see and what is sent comes from the list.
LEMMA NextKeepsSeen == IInv /\ Seen /\ [Next]_vars => Seen'
<1> SUFFICES ASSUME IInv, Seen, [Next]_vars PROVE Seen'
  OBVIOUS
<1>1. reqlist \in Seq(Request) /\ \A i \in DOMAIN reqlist : reqlist[i] \in Request
  BY DEF IInv, Good
<1>2. CASE Waiting
  <2>1. ToSet(reqlist) \subseteq Request
    BY <1>1 DEF ToSet
  <2> QED BY <1>2, <2>1 DEF Waiting, Quiet, Seen
<1>3. ASSUME NEW nick \in Names, Activate(nick) PROVE Seen'
  <2>1. FirstOf(nick) \in DOMAIN reqlist
    BY <1>3, FirstOfFacts DEF Activate, IInv
  <2> QED BY <1>1, <1>3, <2>1 DEF Activate, Seen
<1>4. CASE Quiet /\ shown' = shown /\ loaded' \in BOOLEAN
  BY <1>4 DEF Quiet, Seen
<1>5. CASE UNCHANGED vars
  BY <1>5 DEF vars, Seen
<1>6. ASSUME NEW a \in Accounts, DropAccount(a) PROVE Seen'
  <2>1. account[a] \in Names
    BY <1>6 DEF DropAccount, IInv, Typed
  <2> QED BY <1>6, <2>1 DEF DropAccount, Seen
<1> QED
  BY <1>2, <1>3, <1>4, <1>5, <1>6
  DEF Next, MakeRequest, Cancel, DeleteAccount, Register, Rename, Reject,
      Save, Restart, Unload, Load, Seen

\* Neither the list nor the rows of the database grow beyond one request for each
\* name, however often requests are made, saved and read again.
THEOREM TypeCorrect == Spec => []TypeOK
<1>1. Init => Seen
  BY DEF Init, Seen
<1>2. IInv /\ Seen => TypeOK
  <2> SUFFICES ASSUME IInv, Seen PROVE TypeOK
    OBVIOUS
  <2>1. \A list \in {reqlist, saved.rows} :
           list \in Seq(Request) /\ Len(list) <= Cardinality(Names)
    BY GoodListsAreShort DEF IInv, Good
  <2>2. \A acc \in {account, saved.account} :
           DOMAIN acc \subseteq Accounts /\ acc \in [DOMAIN acc -> Names]
    BY DEF IInv, Typed
  <2> QED BY <2>1, <2>2 DEF TypeOK, Seen
<1> QED BY <1>1, <1>2, Invariance, NextKeepsSeen, PTL DEF Spec

LEMMA OrphansAsNames ==
    \A acc, list : OrphansOf(acc, list) = NicksIn(list) \ NamesOf(acc)
BY DEF OrphansOf, NicksIn

NewOrphansHaveCauses ==
    \A nick \in OrphansOf(account', reqlist') \ OrphansOf(account, reqlist) :
        \/ \E a \in Accounts, new \in Names : Rename(a, new) /\ account[a] = nick
        \/ \E a \in Accounts : DeleteAccount(a) /\ account[a] = nick
        \/ Restart /\ nick \in OrphansOf(saved.account, saved.rows)

\* Only a rename and a deletion without the hook leave a request without an account.
THEOREM OrphansAreExplained == Spec => OrphansHaveCauses
<1>1. IInv /\ [Next]_vars => NewOrphansHaveCauses
  <2> SUFFICES ASSUME IInv, [Next]_vars,
                      NEW nick, nick \in NicksIn(reqlist'), nick \notin NamesOf(account'),
                      nick \notin NicksIn(reqlist) \/ nick \in NamesOf(account)
               PROVE  \/ \E a \in Accounts, new \in Names :
                            Rename(a, new) /\ account[a] = nick
                      \/ \E a \in Accounts : DeleteAccount(a) /\ account[a] = nick
                      \/ Restart /\ nick \in OrphansOf(saved.account, saved.rows)
    BY OrphansAsNames DEF NewOrphansHaveCauses
  <2> USE DEF IInv
  <2>1. ASSUME NEW a \in Accounts, NEW t \in Texts, MakeRequest(a, t) PROVE FALSE
    <3>1. account[a] \in Names /\ account[a] \in NamesOf(account)
      BY <2>1 DEF MakeRequest, Typed, NamesOf
    <3>2. NicksIn(reqlist') = NicksIn(reqlist) \cup {account[a]}
      BY <2>1, <3>1, AddFacts DEF MakeRequest
    <3> QED BY <2>1, <3>1, <3>2 DEF MakeRequest
  <2>2. ASSUME NEW n, TakeOff(n), UNCHANGED account PROVE FALSE
    BY <2>2, TakeOffFacts
  <2>3. ASSUME NEW a \in Accounts, DropAccount(a) PROVE FALSE
    <3>1. NamesOf(account) \subseteq NamesOf(account') \cup {account[a]}
      BY <2>3 DEF DropAccount, Del, NamesOf
    <3>2. CASE loaded
      BY <2>3, <3>1, <3>2, TakeOffFacts DEF DropAccount
    <3>3. CASE ~loaded
      BY <2>3, <3>3, EmptyFacts DEF DropAccount
    <3> QED BY <3>2, <3>3
  <2>4. ASSUME NEW a \in Accounts, NEW n \in Names, Register(a, n) PROVE FALSE
    <3>1. NamesOf(account) \subseteq NamesOf(account')
      BY <2>4 DEF Register, Put, NamesOf
    <3> QED BY <2>4, <3>1 DEF Register
  <2>5. ASSUME NEW a \in Accounts, NEW n \in Names, Rename(a, n) PROVE account[a] = nick
    <3>1. NamesOf(account) \subseteq NamesOf(account') \cup {account[a]}
      BY <2>5 DEF Rename, Put, NamesOf
    <3> QED BY <2>5, <3>1 DEF Rename
  <2>9. ASSUME NEW a \in Accounts, DeleteAccount(a) PROVE account[a] = nick
    <3>1. NamesOf(account) \subseteq NamesOf(account') \cup {account[a]}
      BY <2>9 DEF DeleteAccount, Del, NamesOf
    <3> QED BY <2>9, <3>1 DEF DeleteAccount
  <2>6. ASSUME Restart PROVE nick \in OrphansOf(saved.account, saved.rows)
    BY <2>6, OrphansAsNames DEF Restart, Restored
  <2>7. CASE Unload
    BY <2>7, EmptyFacts DEF Unload
  <2>8. CASE UNCHANGED <<account, reqlist>>
    BY <2>8
  <2> QED
    BY <2>1, <2>2, <2>3, <2>4, <2>5, <2>6, <2>7, <2>8, <2>9
    DEF Next, Cancel, Activate, Reject, Waiting, Save, Load, vars
<1>2. [][NewOrphansHaveCauses]_vars <=> OrphansHaveCauses
  BY PTL DEF NewOrphansHaveCauses, OrphansHaveCauses
<1> QED BY <1>1, <1>2, Invariance, PTL DEF Spec
===============================================================================
