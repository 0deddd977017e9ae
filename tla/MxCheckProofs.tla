---------------------------- MODULE MxCheckProofs ----------------------------
(***************************************************************************)
(* Theorems about MxCheckAsync: the count and the slots for any number of  *)
(* children, and that with a single slot the module keeps its promise.     *)
(***************************************************************************)
EXTENDS MxCheckAsync, FiniteSetTheorems, FunctionTheorems, TLAPS

IInv == TypeOK /\ ChildrenCounted /\ MisfiledHasGapBelow

\* What the types say, in the form the steps below use it.
LEMMA Types ==
    ASSUME IInv
    PROVE  /\ MaxChildprocs \in Nat \ {0} /\ proccount \in Nat
           /\ proccount <= MaxChildprocs
           /\ \A p \in DOMAIN child :
                 child[p].slot \in Nat /\ child[p].slot < MaxChildprocs
BY CheckAssumption DEF IInv, TypeOK, Slots, ChildRecord

\* The running children are as many as the count says.
LEMMA Children ==
    ASSUME IInv
    PROVE  IsFiniteSet(DOMAIN child) /\ Cardinality(DOMAIN child) = proccount
BY FS_Subset, CheckAssumption DEF IInv, TypeOK, ChildrenCounted

\* A child beyond the count leaves fewer children than slots below the count.
LEMMA GapBelowCount ==
    ASSUME IInv, NEW pid \in DOMAIN child, child[pid].slot >= proccount
    PROVE  \E s \in 0 .. proccount - 1 : ~Taken(s)
<1> DEFINE Low == 0 .. proccount - 1
           Others == DOMAIN child \ {pid}
           g == [s \in Low |-> CHOOSE q \in DOMAIN child : child[q].slot = s]
<1>1. SUFFICES ASSUME \A s \in Low : Taken(s) PROVE FALSE
  OBVIOUS
<1>2. proccount \in Nat /\ child[pid].slot \in Nat
  BY Types
<1>3. ASSUME NEW s \in Low
      PROVE  g[s] \in DOMAIN child /\ child[g[s]].slot = s
  <2>1. \E q \in DOMAIN child : child[q].slot = s
    BY <1>1 DEF Taken
  <2>2. g[s] = CHOOSE q \in DOMAIN child : child[q].slot = s
    OBVIOUS
  <2>3. QED
    BY <2>1, <2>2, Zenon
<1>4. \A s \in Low : g[s] \in Others
  BY <1>2, <1>3
<1>5. g \in Injection(Low, Others)
  <2>1. g \in [Low -> Others]
    BY <1>4
  <2>2. \A s, t \in Low : g[s] = g[t] => s = t
    BY <1>3
  <2>3. QED
    BY <2>1, <2>2 DEF Injection, IsInjective
<1>6. IsFiniteSet(Others) /\ Cardinality(Others) = proccount - 1
  BY Children, FS_RemoveElement
<1>7. Cardinality(Low) = proccount
  <2>1. Cardinality(Low) = IF 0 > proccount - 1 THEN 0
                           ELSE (proccount - 1) - 0 + 1
    BY <1>2, FS_Interval
  <2>2. QED
    BY <1>2, <2>1
<1>8. Cardinality(Low) <= Cardinality(Others)
  BY <1>5, <1>6, FS_Injection
<1>9. QED
  BY <1>2, <1>6, <1>7, <1>8

LEMMA InitIInv == Init => IInv
<1> SUFFICES ASSUME Init PROVE IInv
  OBVIOUS
<1>1. DOMAIN account = {} /\ DOMAIN child = {}
  BY DEF Init, EmptyMap
<1>2. account \in [DOMAIN account -> Emails]
  BY DEF Init, EmptyMap
<1>3. child \in [DOMAIN child -> ChildRecord]
  BY DEF Init, EmptyMap
<1>4. procdata \in [Slots -> Registration \cup {Zeroed}]
  BY DEF Init
<1>5. proccount \in 0 .. MaxChildprocs
  BY CheckAssumption DEF Init
<1>6. TypeOK
  BY <1>1, <1>2, <1>3, <1>4, <1>5 DEF Init, TypeOK
<1>7. ChildrenCounted
  BY <1>1, FS_EmptySet DEF Init, ChildrenCounted
<1>8. QED
  BY <1>1, <1>6, <1>7 DEF IInv, MisfiledHasGapBelow

\* A registration that is let through with a child to check it.
LEMMA ForkOK ==
    ASSUME IInv, NEW n \in Accounts, NEW e \in Emails, MayCheck,
           NEW pid \in Pids \ DOMAIN child,
           child' = Put(child, pid,
                        [name |-> n, email |-> e, slot |-> NextSlot]),
           procdata' = [procdata EXCEPT
                           ![NextSlot] = [name |-> n, email |-> e]],
           proccount' = proccount + 1
    PROVE  /\ proccount' \in 0 .. MaxChildprocs
           /\ procdata' \in [Slots -> Registration \cup {Zeroed}]
           /\ DOMAIN child' \subseteq Pids
           /\ child' \in [DOMAIN child' -> ChildRecord]
           /\ proccount' = Cardinality(DOMAIN child')
           /\ \A p \in DOMAIN child' : procdata'[child'[p].slot] # Zeroed
           /\ MisfiledHasGapBelow'
<1> DEFINE job == [name |-> n, email |-> e, slot |-> NextSlot]
<1>1. proccount \in Nat /\ NextSlot = proccount /\ NextSlot \in Slots
  BY Types DEF MayCheck, NextSlot, Slots
<1>2. /\ DOMAIN child' = DOMAIN child \cup {pid}
      /\ child'[pid] = job
      /\ \A p \in DOMAIN child : child'[p] = child[p]
  BY DEF Put
<1>3. /\ procdata'[NextSlot] = [name |-> n, email |-> e]
      /\ \A s \in Slots \ {NextSlot} : procdata'[s] = procdata[s]
      /\ procdata' \in [Slots -> Registration \cup {Zeroed}]
  BY <1>1 DEF IInv, TypeOK, Registration
<1>4. \A p \in DOMAIN child : child[p].slot \in Slots /\ child[p].slot \in Nat
  BY Types DEF Slots
<1>5. child' \in [DOMAIN child' -> ChildRecord]
  <2>1. job \in ChildRecord
    BY <1>1 DEF ChildRecord
  <2>2. \A p \in DOMAIN child : child[p] \in ChildRecord
    BY DEF IInv, TypeOK
  <2>3. QED
    BY <2>1, <2>2 DEF Put
<1>6. proccount' = Cardinality(DOMAIN child')
  BY <1>2, Children, FS_AddElement
<1>7. \A p \in DOMAIN child' : procdata'[child'[p].slot] # Zeroed
  <2>1. procdata'[NextSlot] # Zeroed
    <3>1. procdata'[NextSlot].name = n
      BY <1>3
    <3>2. QED
      BY <3>1, CheckAssumption DEF Zeroed
  <2>2. \A p \in DOMAIN child : procdata[child[p].slot] # Zeroed
    BY DEF IInv, ChildrenCounted
  <2>3. QED
    BY <1>2, <1>3, <1>4, <2>1, <2>2
<1>8. MisfiledHasGapBelow'
  <2> SUFFICES ASSUME NEW p \in DOMAIN child', Misfiled(p)'
               PROVE  \E s \in 0 .. child'[p].slot - 1 : ~Taken(s)'
    BY DEF MisfiledHasGapBelow
  <2>1. p \in DOMAIN child /\ child'[p] = child[p]
    BY <1>2, <1>3 DEF Misfiled
  <2>2. \A s : ~Taken(s) /\ s # NextSlot => ~Taken(s)'
    BY <1>2 DEF Taken
  <2>3. CASE child[p].slot >= proccount
    <3>1. PICK s \in 0 .. proccount - 1 : ~Taken(s)
      BY <2>1, <2>3, GapBelowCount
    <3>2. s \in 0 .. child'[p].slot - 1 /\ s # NextSlot
      BY <1>1, <1>4, <2>1, <2>3
    <3>3. QED
      BY <2>2, <3>1, <3>2
  <2>4. CASE child[p].slot < proccount
    <3>1. Misfiled(p)
      BY <1>1, <1>3, <1>4, <2>1, <2>4 DEF Misfiled
    <3>2. PICK s \in 0 .. child[p].slot - 1 : ~Taken(s)
      BY <2>1, <3>1 DEF IInv, MisfiledHasGapBelow
    <3>3. s # NextSlot
      BY <1>1, <1>4, <2>1, <2>4
    <3>4. QED
      BY <2>1, <2>2, <3>2, <3>3
  <2>5. child[p].slot >= proccount \/ child[p].slot < proccount
    BY <1>1, <1>4, <2>1
  <2>6. QED
    BY <2>3, <2>4, <2>5
<1>9. proccount' \in 0 .. MaxChildprocs
  BY Types DEF MayCheck
<1>10. DOMAIN child' \subseteq Pids
  BY <1>2 DEF IInv, TypeOK
<1>11. QED
  BY <1>3, <1>5, <1>6, <1>7, <1>8, <1>9, <1>10

\* A child that ends, whatever its answer.
LEMMA ReapOK ==
    ASSUME IInv, NEW pid, Reap(pid)
    PROVE  /\ proccount' \in 0 .. MaxChildprocs
           /\ procdata' \in [Slots -> Registration \cup {Zeroed}]
           /\ DOMAIN child' \subseteq Pids
           /\ child' \in [DOMAIN child' -> ChildRecord]
           /\ ChildrenCounted' /\ MisfiledHasGapBelow'
<1>1. /\ pid \in DOMAIN child /\ DOMAIN child' = DOMAIN child \ {pid}
      /\ \A p \in DOMAIN child' : child'[p] = child[p]
      /\ proccount' = proccount - 1 /\ procdata' = procdata
  BY DEF Reap, Del
<1>2. proccount' = Cardinality(DOMAIN child')
  BY <1>1, Children, FS_RemoveElement
<1>3. proccount > 0
  BY <1>1, Children, FS_EmptySet DEF IInv, TypeOK
<1>4. child' \in [DOMAIN child' -> ChildRecord]
  BY <1>1 DEF IInv, TypeOK, Reap, Del
<1>5. ChildrenCounted'
  BY <1>1, <1>2 DEF IInv, ChildrenCounted
<1>6. MisfiledHasGapBelow'
  <2>1. \A s : ~Taken(s) => ~Taken(s)'
    BY <1>1 DEF Taken
  <2>2. \A p \in DOMAIN child' : Misfiled(p)' => Misfiled(p)
    BY <1>1 DEF Misfiled
  <2>3. QED
    BY <1>1, <2>1, <2>2 DEF IInv, MisfiledHasGapBelow
<1>7. proccount' \in 0 .. MaxChildprocs
  BY <1>1, <1>3, Types
<1>8. QED
  BY <1>1, <1>4, <1>5, <1>6, <1>7 DEF IInv, TypeOK

LEMMA AccountsOK ==
    ASSUME IInv, NEW n \in Accounts, NEW e \in Emails, NEW m,
           account' \in {account, Put(account, n, e), Del(account, m),
                         [account EXCEPT ![n] = e]}
    PROVE  /\ DOMAIN account' \subseteq Accounts
           /\ account' \in [DOMAIN account' -> Emails]
BY DEF IInv, TypeOK, Put, Del

LEMMA DelOK ==
    ASSUME IInv, NEW m, account' \in {account, Del(account, m)}
    PROVE  /\ DOMAIN account' \subseteq Accounts
           /\ account' \in [DOMAIN account' -> Emails]
BY DEF IInv, TypeOK, Del

LEMMA NextIInv == IInv /\ [Next]_vars => IInv'
<1> SUFFICES ASSUME IInv, [Next]_vars PROVE IInv'
  OBVIOUS
<1>1. ASSUME UNCHANGED <<proccount, procdata, child>>,
             loaded' \in BOOLEAN,
             DOMAIN account' \subseteq Accounts,
             account' \in [DOMAIN account' -> Emails]
      PROVE  IInv'
  BY <1>1 DEF IInv, TypeOK, ChildrenCounted, MisfiledHasGapBelow, Misfiled,
              Taken
<1>2. ASSUME NEW n \in Accounts, NEW e \in Emails, NEW accepted \in BOOLEAN,
             Register(n, e, accepted)
      PROVE  IInv'
  <2>1. /\ DOMAIN account' \subseteq Accounts
        /\ account' \in [DOMAIN account' -> Emails]
    BY <1>2, AccountsOK DEF Register
  <2>2. CASE ~loaded
    BY <1>1, <1>2, <2>1, <2>2 DEF Register, IInv, TypeOK
  <2>3. CASE loaded
    <3>1. PICK pid \in Pids \ DOMAIN child :
              child' = Put(child, pid,
                           [name |-> n, email |-> e, slot |-> NextSlot])
      BY <1>2, <2>3 DEF Register
    <3>2. QED
      BY <1>2, <2>1, <2>3, <3>1, ForkOK
         DEF Register, IInv, TypeOK, ChildrenCounted
  <2>4. QED
    BY <2>2, <2>3
<1>3. ASSUME NEW n \in Accounts, NEW e \in Emails, SetEmail(n, e)
      PROVE  IInv'
  BY <1>1, <1>3, AccountsOK DEF SetEmail, IInv, TypeOK
<1>4. ASSUME NEW n \in Accounts, Drop(n)
      PROVE  IInv'
  BY <1>1, <1>4, DelOK DEF Drop, IInv, TypeOK
<1>5. ASSUME NEW pid, NEW found,
             ChildExits(pid, found) \/ ChildKilled(pid)
      PROVE  IInv'
  <2>1. PICK m : account' \in {account, Del(account, m)}
    BY <1>5 DEF ChildExits, ChildKilled
  <2>2. Reap(pid) /\ loaded' = loaded
    BY <1>5 DEF ChildExits, ChildKilled, Reap
  <2>3. QED
    BY <2>1, <2>2, DelOK, ReapOK DEF IInv, TypeOK
<1>6. ASSUME Unload
      PROVE  IInv'
  <2>1. DOMAIN child' = {} /\ child' \in [DOMAIN child' -> ChildRecord]
    BY <1>6 DEF Unload, EmptyMap
  <2>2. TypeOK'
    <3>1. procdata' \in [Slots -> Registration \cup {Zeroed}]
      BY <1>6 DEF Unload
    <3>2. proccount' \in 0 .. MaxChildprocs
      BY <1>6, CheckAssumption DEF Unload
    <3>3. QED
      BY <1>6, <2>1, <3>1, <3>2 DEF Unload, IInv, TypeOK
  <2>3. ChildrenCounted' /\ MisfiledHasGapBelow'
    BY <1>6, <2>1, FS_EmptySet
       DEF Unload, ChildrenCounted, MisfiledHasGapBelow
  <2>4. QED
    BY <2>2, <2>3 DEF IInv
<1>7. ASSUME Load
      PROVE  IInv'
  BY <1>1, <1>7 DEF Load, IInv, TypeOK
<1>8. CASE UNCHANGED vars
  BY <1>1, <1>8 DEF vars, IInv, TypeOK
<1>9. QED
  BY <1>2, <1>3, <1>4, <1>5, <1>6, <1>7, <1>8 DEF Next

\* The invariant holds for every number of slots, accounts and addresses.
THEOREM Invariance == Spec => []IInv
BY InitIInv, NextIInv, PTL DEF Spec

\* Every variable has its type; no child is filed outside the array.
THEOREM TypeCorrect == Spec => []TypeOK
<1>1. IInv => TypeOK
  BY DEF IInv
<1>2. QED
  BY <1>1, Invariance, PTL

\* No child is ever given a slot outside the array, the table of children and
\* its count agree, and where a slot is misfiled a lower one is free.
THEOREM SlotsAlwaysAgree == Spec => [](TypeOK /\ SlotsAgree)
<1>1. IInv => TypeOK /\ SlotsAgree
  BY DEF IInv, SlotsAgree
<1>2. QED
  BY <1>1, Invariance, PTL

(***************************************************************************)
(* The promise.                                                            *)
(***************************************************************************)
CheckStep == Check!Next \/ UNCHANGED <<loaded, account, Checks>>

LEMMA ChecksFacts ==
    /\ DOMAIN Checks = DOMAIN child
    /\ \A p \in DOMAIN child :
          Checks[p] = [name |-> child[p].name, email |-> child[p].email]
BY DEF Checks

LEMMA ExitStep ==
    ASSUME IInv, NEW pid, NEW found \in BOOLEAN, ChildExits(pid, found),
           ~Misfiled(pid)
    PROVE  CheckStep
<1>1. /\ pid \in DOMAIN child /\ pid \in Pids /\ loaded' = loaded
      /\ child' = Del(child, pid)
  BY DEF ChildExits, Reap, IInv, TypeOK
<1>2. Checks' = Del(Checks, pid)
  BY <1>1 DEF Checks, Del
<1>3. procdata[child[pid].slot] = Checks[pid]
  BY <1>1 DEF Misfiled, Checks
<1>4. Checks[pid].name = child[pid].name /\ Checks[pid].email = child[pid].email
  BY <1>1 DEF Checks
<1>5. account' = IF ~found /\ Refused(Checks[pid])
                 THEN Del(account, Checks[pid].name) ELSE account
  BY <1>3 DEF ChildExits
<1>6. Check!Verdict(pid, found)
  BY <1>1, <1>2, <1>4, <1>5
     DEF Check!Verdict, Refused, Check!Del, Del, Checks
<1>7. QED
  BY <1>1, <1>6 DEF CheckStep, Check!Next

LEMMA RegisterStep ==
    ASSUME NEW n \in Accounts, NEW e \in Emails, NEW accepted \in BOOLEAN,
           Register(n, e, accepted)
    PROVE  CheckStep
<1>1. CASE ~loaded
  <2>1. Checks' = Checks
    BY <1>1 DEF Register, Checks
  <2>2. CASE accepted
    <3>1. Check!RegisterUnchecked(n, e)
      BY <1>1, <2>1, <2>2 DEF Register, Check!RegisterUnchecked, Check!Put, Put
    <3>2. QED
      BY <3>1 DEF CheckStep, Check!Next
  <2>3. CASE ~accepted
    BY <2>1, <2>3 DEF Register, CheckStep
  <2>4. QED
    BY <2>2, <2>3
<1>2. CASE loaded
  <2>1. PICK pid \in Pids \ DOMAIN child :
            child' = Put(child, pid,
                         [name |-> n, email |-> e, slot |-> NextSlot])
    BY <1>2 DEF Register
  <2>2. Checks' = Put(Checks, pid, [name |-> n, email |-> e])
    BY <2>1 DEF Checks, Put
  <2>3. Check!Register(n, e)
    BY <1>2, <2>1, <2>2, ChecksFacts
       DEF Register, Check!Register, Check!Put, Put
  <2>4. QED
    BY <2>3 DEF CheckStep, Check!Next
<1>3. QED
  BY <1>1, <1>2

LEMMA RightStep ==
    ASSUME IInv, [Next]_vars, \A pid \in DOMAIN child : ~Misfiled(pid)
    PROVE  CheckStep
<1>1. ASSUME NEW n \in Accounts, NEW e \in Emails, SetEmail(n, e)
      PROVE  CheckStep
  <2>1. Check!SetEmail(n, e)
    BY <1>1 DEF SetEmail, Check!SetEmail, Checks
  <2>2. QED
    BY <2>1 DEF CheckStep, Check!Next
<1>2. ASSUME NEW n \in Accounts, Drop(n)
      PROVE  CheckStep
  <2>1. Check!Drop(n)
    BY <1>2 DEF Drop, Check!Drop, Checks, Del, Check!Del
  <2>2. QED
    BY <2>1 DEF CheckStep, Check!Next
<1>3. ASSUME NEW pid \in Pids, NEW found \in BOOLEAN, ChildExits(pid, found)
      PROVE  CheckStep
  BY <1>3, ExitStep DEF ChildExits, Reap
<1>4. ASSUME NEW pid \in Pids, ChildKilled(pid)
      PROVE  CheckStep
  <2>1. Checks' = Del(Checks, pid)
    BY <1>4 DEF ChildKilled, Reap, Checks, Del
  <2>2. Check!NoVerdict(pid)
    BY <1>4, <2>1, ChecksFacts
       DEF ChildKilled, Reap, Check!NoVerdict, Check!Del, Del
  <2>3. QED
    BY <2>2 DEF CheckStep, Check!Next
<1>5. ASSUME Unload
      PROVE  CheckStep
  <2>1. Checks' = Check!EmptyMap
    BY <1>5 DEF Unload, Checks, EmptyMap, Check!EmptyMap
  <2>2. Check!Forget
    BY <1>5, <2>1 DEF Unload, Check!Forget
  <2>3. QED
    BY <2>2 DEF CheckStep, Check!Next
<1>6. ASSUME Load
      PROVE  CheckStep
  <2>1. Check!Load
    BY <1>6 DEF Load, Check!Load, Checks
  <2>2. QED
    BY <2>1 DEF CheckStep, Check!Next
<1>7. CASE UNCHANGED vars
  BY <1>7 DEF vars, CheckStep, Checks
<1>8. QED
  BY <1>1, <1>2, <1>3, <1>4, <1>5, <1>6, <1>7, RegisterStep DEF Next

\* Whatever the number of slots, the module does what a check by itself would
\* do as long as no slot is misfiled.
THEOREM MisfilingIsTheOnlyHarm == Spec => OnlyMisfilingHurts
<1>1. IInv /\ [Next]_vars =>
        [(\A pid \in DOMAIN child : ~Misfiled(pid)) => CheckStep]_vars
  BY RightStep
<1>2. Spec => [][(\A pid \in DOMAIN child : ~Misfiled(pid)) => CheckStep]_vars
  BY <1>1, Invariance, PTL DEF Spec
<1>3. QED
  BY <1>2 DEF OnlyMisfilingHurts, CheckStep

\* With one child at a time every verdict reaches the registration it is about:
\* the module implements the synchronous check.
THEOREM OneSlotIsEnough == MaxChildprocs = 1 => (Spec => SameAsSynchronous)
<1> SUFFICES ASSUME MaxChildprocs = 1 PROVE Spec => SameAsSynchronous
  OBVIOUS
<1>1. IInv => \A pid \in DOMAIN child : ~Misfiled(pid)
  <2> SUFFICES ASSUME IInv, NEW pid \in DOMAIN child PROVE ~Misfiled(pid)
    OBVIOUS
  <2>1. child[pid].slot = 0
    BY Types
  <2>2. QED
    BY <2>1 DEF IInv, MisfiledHasGapBelow
<1>2. Init => Check!Init
  BY DEF Init, Check!Init, Checks, EmptyMap, Check!EmptyMap
<1>3. IInv /\ [Next]_vars => [Check!Next]_(Check!vars)
  BY <1>1, RightStep DEF CheckStep, Check!vars
<1>4. QED
  BY <1>2, <1>3, Invariance, PTL DEF Spec, SameAsSynchronous, Check!Spec
=============================================================================
