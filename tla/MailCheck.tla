------------------------------ MODULE MailCheck ------------------------------
(***************************************************************************)
(* What src/README.md promises of ns_mxcheck_async.c, "Same as             *)
(* ns_mxcheck.c, but asynchronous": each registration is checked by itself,*)
(* and a bad verdict takes back exactly the registration it is about.      *)
(***************************************************************************)
EXTENDS Maps

CONSTANTS Accounts, Emails, Pids

VARIABLES
    loaded,    \* the module is there to check
    account,   \* the registered accounts and their mail addresses
    checks     \* the checks under way, and the registration each is about

vars == <<loaded, account, checks>>

Init == loaded = TRUE /\ account = EmptyMap /\ checks = EmptyMap

\* A registration starts a check; what is checked after it may still refuse it.
Register(n, e) ==
    /\ loaded /\ n \notin DOMAIN account
    /\ \E p \in Pids \ DOMAIN checks :
          checks' = Put(checks, p, [name |-> n, email |-> e])
    /\ account' \in {account, Put(account, n, e)}
    /\ UNCHANGED loaded

RegisterUnchecked(n, e) ==
    /\ ~loaded /\ n \notin DOMAIN account
    /\ account' = Put(account, n, e)
    /\ UNCHANGED <<loaded, checks>>

\* A look-up that found no mail domain, because there is none or because it
\* failed, takes the registration back, unless the account is gone or has
\* another address by now.
Verdict(p, found) ==
    /\ p \in DOMAIN checks
    /\ checks' = Del(checks, p)
    /\ LET reg == checks[p]
       IN  account' = IF /\ ~found
                         /\ reg.name \in DOMAIN account
                         /\ account[reg.name] = reg.email
                      THEN Del(account, reg.name) ELSE account
    /\ UNCHANGED loaded

\* The check ends without an answer.
NoVerdict(p) ==
    /\ p \in DOMAIN checks
    /\ checks' = Del(checks, p)
    /\ UNCHANGED <<loaded, account>>

SetEmail(n, e) ==
    /\ n \in DOMAIN account
    /\ account' = [account EXCEPT ![n] = e]
    /\ UNCHANGED <<loaded, checks>>

Drop(n) ==
    /\ n \in DOMAIN account
    /\ account' = Del(account, n)
    /\ UNCHANGED <<loaded, checks>>

\* The module is unloaded, and forgets what it was checking.
Forget == loaded /\ ~loaded' /\ checks' = EmptyMap /\ UNCHANGED account

Load == ~loaded /\ loaded' /\ UNCHANGED <<account, checks>>

Next ==
    \/ \E n \in Accounts, e \in Emails :
          Register(n, e) \/ RegisterUnchecked(n, e) \/ SetEmail(n, e)
    \/ \E n \in Accounts : Drop(n)
    \/ \E p \in Pids, found \in BOOLEAN : Verdict(p, found)
    \/ \E p \in Pids : NoVerdict(p)
    \/ Forget
    \/ Load

Spec == Init /\ [][Next]_vars
=============================================================================
