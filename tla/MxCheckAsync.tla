---------------------------- MODULE MxCheckAsync ----------------------------
(***************************************************************************)
(* src/src/ns_mxcheck_async.c: on a registration it forks a child that     *)
(* looks up the mail domain, lets the registration pass, and takes the     *)
(* account back when the child's answer is bad.  What a child is about is  *)
(* remembered in one of a few static slots.                                *)
(* Operators named Bad... are wrong variants of the one below them.        *)
(***************************************************************************)
EXTENDS Naturals, FiniteSets, Maps

CONSTANTS
    Accounts,       \* account names
    Emails,         \* mail addresses
    MaxChildprocs,  \* MAX_CHILDPROCS, 10
    Pids            \* process ids

ASSUME CheckAssumption ==
    /\ "unset" \notin Accounts
    /\ MaxChildprocs \in Nat \ {0}
    /\ IsFiniteSet(Pids) /\ Cardinality(Pids) >= MaxChildprocs

VARIABLES
    loaded,
    account,    \* account name -> mail address (kept by the services core)
    proccount,
    procdata,   \* the static slots, as they were last written
    child       \* the children that run, with the registration each was forked
                \* for and the slot its callback will read

vars == <<loaded, account, proccount, procdata, child>>

Registration == [name : Accounts, email : Emails]
Zeroed == [name |-> "unset", email |-> "unset"]
Slots == 0 .. MaxChildprocs - 1
ChildRecord == [name : Accounts, email : Emails, slot : Slots]

Init ==
    /\ loaded = TRUE
    /\ account = EmptyMap
    /\ proccount = 0
    /\ procdata = [s \in Slots |-> Zeroed]
    /\ child = EmptyMap

BadMayCheck == proccount <= MaxChildprocs

\* "Sorry, too many registrations in progress." otherwise
MayCheck == proccount < MaxChildprocs

BadNextSlot == IF proccount = 0 THEN 0 ELSE proccount - 1

NextSlot == proccount

\* check_registration and then the core: the account exists once no hook has
\* refused it.  When fork fails, or there is no slot, nothing changes.
Register(n, e, accepted) ==
    /\ n \notin DOMAIN account
    /\ IF loaded
       THEN /\ MayCheck
            /\ \E pid \in Pids \ DOMAIN child :
                  child' = Put(child, pid,
                              [name |-> n, email |-> e, slot |-> NextSlot])
            /\ procdata' = [procdata EXCEPT
                              ![NextSlot] = [name |-> n, email |-> e]]
            /\ proccount' = proccount + 1
       ELSE UNCHANGED <<child, procdata, proccount>>
    /\ account' = IF accepted THEN Put(account, n, e) ELSE account
    /\ UNCHANGED loaded

\* NickServ SET EMAIL and DROP, by the owner or by a services operator
SetEmail(n, e) ==
    /\ n \in DOMAIN account
    /\ account' = [account EXCEPT ![n] = e]
    /\ UNCHANGED <<loaded, proccount, procdata, child>>

Drop(n) ==
    /\ n \in DOMAIN account
    /\ account' = Del(account, n)
    /\ UNCHANGED <<loaded, proccount, procdata, child>>

BadReap(pid) ==
    /\ pid \in DOMAIN child
    /\ child' = Del(child, pid)
    /\ proccount' = proccount
    /\ UNCHANGED <<loaded, procdata>>

\* childproc_cb, up to its first return
Reap(pid) ==
    /\ pid \in DOMAIN child
    /\ child' = Del(child, pid)
    /\ proccount' = proccount - 1
    /\ UNCHANGED <<loaded, procdata>>

BadRefused(pd) == pd.name \in DOMAIN account

\* The account the slot names still has the address that was checked.
Refused(pd) == pd.name \in DOMAIN account /\ account[pd.name] = pd.email

\* childproc_cb for a child that exited: 0 when its look-ups found something,
\* 1 when they found nothing or failed.  Either answer may come for any
\* address: a failed look-up of the MX records and of the host counts as none,
\* and the number of records of an answer that cannot be parsed is whatever
\* the unset ns_msg holds.
ChildExits(pid, found) ==
    /\ Reap(pid)
    /\ LET pd == procdata[child[pid].slot]
       IN  account' = IF ~found /\ Refused(pd)
                      THEN Del(account, pd.name) ELSE account

\* childproc_cb for a child that was killed by a signal
ChildKilled(pid) == Reap(pid) /\ UNCHANGED account

\* childproc_delete_all forgets the children; the image is zeroed when loaded
\* again.
Unload ==
    /\ loaded /\ loaded' = FALSE
    /\ child' = EmptyMap
    /\ proccount' = 0
    /\ procdata' = [s \in Slots |-> Zeroed]
    /\ UNCHANGED account

Load ==
    /\ ~loaded /\ loaded' = TRUE
    /\ UNCHANGED <<account, proccount, procdata, child>>

ChildEnds(pid) ==
    \/ \E found \in BOOLEAN : ChildExits(pid, found)
    \/ ChildKilled(pid)

Next ==
    \/ \E n \in Accounts, e \in Emails :
          \/ \E accepted \in BOOLEAN : Register(n, e, accepted)
          \/ SetEmail(n, e)
    \/ \E n \in Accounts : Drop(n)
    \/ \E pid \in Pids, found \in BOOLEAN : ChildExits(pid, found)
    \/ \E pid \in Pids : ChildKilled(pid)
    \/ Unload
    \/ Load

Spec == Init /\ [][Next]_vars

\* The resolver of every child times out in the end, and the loop reaps it.
FairSpec == Spec /\ \A pid \in Pids : WF_vars(ChildEnds(pid))

(***************************************************************************)
(* Properties.                                                             *)
(***************************************************************************)
\* Every variable has its type; above all no child was given a slot outside
\* the static array.
TypeOK ==
    /\ loaded \in BOOLEAN
    /\ DOMAIN account \subseteq Accounts
    /\ account \in [DOMAIN account -> Emails]
    /\ proccount \in 0 .. MaxChildprocs
    /\ procdata \in [Slots -> Registration \cup {Zeroed}]
    /\ DOMAIN child \subseteq Pids
    /\ child \in [DOMAIN child -> ChildRecord]

\* The count that decides whether a registration is refused is the number of
\* children, however they end, and across unloading; and no callback finds
\* its slot unwritten.
ChildrenCounted ==
    /\ proccount = Cardinality(DOMAIN child)
    /\ \A pid \in DOMAIN child : procdata[child[pid].slot] # Zeroed

\* A count that goes down with every answer, whichever child it is from, lets a
\* new child take the slot of one that runs.  It never hurts a child as long as
\* every slot below its own is taken: where the slot says something else than
\* the child was forked for, one of those is free.
Misfiled(pid) ==
    procdata[child[pid].slot]
        # [name |-> child[pid].name, email |-> child[pid].email]
Taken(s) == \E pid \in DOMAIN child : child[pid].slot = s

MisfiledHasGapBelow ==
    \A pid \in DOMAIN child :
        Misfiled(pid) => \E s \in 0 .. child[pid].slot - 1 : ~Taken(s)

\* The count, the slots and the children that run say the same, but for slots
\* taken over when a lower one had become free.
SlotsAgree == ChildrenCounted /\ MisfiledHasGapBelow

\* "Try again later" helps: a full table of children does not stay full.
RefusalsEnd == (proccount = MaxChildprocs) ~> (proccount < MaxChildprocs)

\* An answer that comes in takes back no other account than the one the answer
\* is about, with the address that was looked up.
VerdictsFallOnTheirOwn ==
    [][child' # child =>
        \A n \in DOMAIN account \ DOMAIN account' :
            \E pid \in DOMAIN child \ DOMAIN child' :
                child[pid].name = n /\ child[pid].email = account[n]]_vars

\* The service checks each registration by itself and takes back exactly the
\* one an answer is about.
Checks == [pid \in DOMAIN child |->
              [name |-> child[pid].name, email |-> child[pid].email]]
Check == INSTANCE MailCheck WITH checks <- Checks
SameAsSynchronous == Check!Spec

\* With any number of slots, a step does something else than a check by itself,
\* whose look-ups may fail too, only when a slot is misfiled.
OnlyMisfilingHurts ==
    [][(\A pid \in DOMAIN child : ~Misfiled(pid)) =>
          Check!Next \/ UNCHANGED <<loaded, account, Checks>>]_vars
=============================================================================
