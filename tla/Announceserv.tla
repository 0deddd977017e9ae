---------------------------- MODULE Announceserv ----------------------------
(***************************************************************************)
(* src/src/ircd_announceserv.c: users request announcements, which services*)
(* operators look through, activate or reject.  Requests are kept under the*)
(* name the account had, in a list that is saved with the accounts.        *)
(* Operators named Bad... are wrong variants of the one below them.        *)
(***************************************************************************)
EXTENDS Naturals, FiniteSets, Sequences, SequencesExt, Maps

CONSTANTS
    Accounts,
    Names,      \* account names
    Texts       \* announcements, subject and text

\* Names have a bounded length.
ASSUME NamesAssumption == IsFiniteSet(Names)

VARIABLES
    loaded,
    account,    \* the registered accounts and their names (services core)
    reqlist,    \* as_reqlist
    shown,      \* what the operators have seen in the last WAITING
    sent,       \* the announcements sent at the last step
    hooked,     \* the name for which the last step called the hook on dropped accounts
    saved       \* the database: accounts and AR rows

vars == <<loaded, account, reqlist, shown, sent, hooked, saved>>

Request == [nick : Names, text : Texts]

NamesOf(acc) == {acc[a] : a \in DOMAIN acc}

Init ==
    /\ loaded = TRUE
    /\ account = EmptyMap
    /\ reqlist = <<>> /\ shown = {} /\ sent = {} /\ hooked = {}
    /\ saved = [account |-> EmptyMap, rows |-> <<>>]

Pending(nick) == {i \in DOMAIN reqlist : reqlist[i].nick = nick}

\* The loops of all handlers stop at the first request with the name.
FirstOf(nick) == CHOOSE i \in Pending(nick) : \A j \in Pending(nick) : i <= j

BadTakeOff(nick) == reqlist' = reqlist

TakeOff(nick) ==
    reqlist' = IF Pending(nick) = {} THEN reqlist ELSE RemoveAt(reqlist, FirstOf(nick))

Quiet == sent' = {} /\ hooked' = {}

BadMayRequest(nick) == Len(reqlist) \notin Pending(nick)

\* "You cannot request more than one announcement."
MayRequest(nick) == Pending(nick) = {}

\* as_cmd_request
MakeRequest(a, t) ==
    /\ loaded /\ a \in DOMAIN account
    /\ MayRequest(account[a])
    /\ reqlist' = Append(reqlist, [nick |-> account[a], text |-> t])
    /\ Quiet
    /\ UNCHANGED <<loaded, account, shown, saved>>

\* as_cmd_cancel
Cancel(a) ==
    /\ loaded /\ a \in DOMAIN account
    /\ TakeOff(account[a])
    /\ Quiet
    /\ UNCHANGED <<loaded, account, shown, saved>>

\* as_cmd_waiting
Waiting ==
    /\ loaded
    /\ shown' = ToSet(reqlist)
    /\ Quiet
    /\ UNCHANGED <<loaded, account, reqlist, saved>>

\* as_cmd_activate: by name, of a request the operator has seen
Activate(nick) ==
    /\ loaded /\ Pending(nick) # {}
    /\ \E r \in shown : r.nick = nick
    /\ sent' = {reqlist[FirstOf(nick)]} /\ hooked' = {}
    /\ TakeOff(nick)
    /\ UNCHANGED <<loaded, account, shown, saved>>

\* as_cmd_reject
Reject(nick) ==
    /\ loaded
    /\ TakeOff(nick)
    /\ Quiet
    /\ UNCHANGED <<loaded, account, shown, saved>>

\* The services core registers, renames (SET ACCOUNTNAME) and drops accounts (DROP,
\* expiry); dropping one calls the hook account_drop_request.
Register(a, nick) ==
    /\ a \notin DOMAIN account /\ nick \notin NamesOf(account)
    /\ account' = Put(account, a, nick)
    /\ Quiet
    /\ UNCHANGED <<loaded, reqlist, shown, saved>>

Rename(a, nick) ==
    /\ a \in DOMAIN account /\ nick \notin NamesOf(account)
    /\ account' = Put(account, a, nick)
    /\ Quiet
    /\ UNCHANGED <<loaded, reqlist, shown, saved>>

DropAccount(a) ==
    /\ a \in DOMAIN account
    /\ account' = Del(account, a)
    /\ IF loaded THEN TakeOff(account[a]) ELSE UNCHANGED reqlist
    /\ sent' = {} /\ hooked' = {account[a]}
    /\ UNCHANGED <<loaded, shown, saved>>

\* ns_mxcheck_async.c and ns_forbid.c unref an account without calling the hook on
\* dropped accounts, and the request stays.
DeleteAccount(a) ==
    /\ a \in DOMAIN account
    /\ account' = Del(account, a)
    /\ Quiet
    /\ UNCHANGED <<loaded, reqlist, shown, saved>>

BadRestored == reqlist \o saved.rows

\* db_h_ar, for each row
Restored == saved.rows

\* write_asreqdb, when the database is written
Save ==
    /\ saved' = [account |-> account, rows |-> reqlist]
    /\ Quiet
    /\ UNCHANGED <<loaded, account, reqlist, shown>>

\* Services stop at any time and start again from the database.
Restart ==
    /\ loaded' = TRUE
    /\ account' = saved.account
    /\ reqlist' = Restored
    /\ Quiet
    /\ UNCHANGED <<shown, saved>>

\* The list is lost with the image, and rows are only read at start.
Unload ==
    /\ loaded /\ loaded' = FALSE
    /\ reqlist' = <<>>
    /\ Quiet
    /\ UNCHANGED <<account, shown, saved>>

Load ==
    /\ ~loaded /\ loaded' = TRUE
    /\ Quiet
    /\ UNCHANGED <<account, reqlist, shown, saved>>

Next ==
    \/ \E a \in Accounts :
          \/ \E t \in Texts : MakeRequest(a, t)
          \/ Cancel(a)
          \/ DropAccount(a)
          \/ DeleteAccount(a)
          \/ \E nick \in Names : Register(a, nick) \/ Rename(a, nick)
    \/ Waiting
    \/ \E nick \in Names : Activate(nick) \/ Reject(nick)
    \/ Save
    \/ Restart
    \/ Unload
    \/ Load

Spec == Init /\ [][Next]_vars

(***************************************************************************)
(* Properties.                                                             *)
(***************************************************************************)
\* Every variable has its type; the list does not grow beyond one request for
\* each name, in memory or in the database.
TypeOK ==
    /\ loaded \in BOOLEAN
    /\ \A acc \in {account, saved.account} :
          DOMAIN acc \subseteq Accounts /\ acc \in [DOMAIN acc -> Names]
    /\ \A list \in {reqlist, saved.rows} :
          list \in Seq(Request) /\ Len(list) <= Cardinality(Names)
    /\ shown \subseteq Request /\ sent \subseteq Request /\ hooked \subseteq Names

\* A name never has two requests, whatever is renamed, dropped, saved and read
\* again: all handlers, looking for the first, find the only one.
OneRequestPerName ==
    \A i, j \in DOMAIN reqlist : reqlist[i].nick = reqlist[j].nick => i = j

OrphansOf(acc, list) == {list[i].nick : i \in DOMAIN list} \ NamesOf(acc)

\* A request under a name that no account has comes from a rename, or from a
\* deletion that calls no hook, at once or by way of the database; accounts that
\* are dropped leave none, nor does a crash between the drop and the next save.
OrphansHaveCauses ==
    [][\A nick \in OrphansOf(account', reqlist') \ OrphansOf(account, reqlist) :
          \/ \E a \in Accounts, new \in Names : Rename(a, new) /\ account[a] = nick
          \/ \E a \in Accounts : DeleteAccount(a) /\ account[a] = nick
          \/ Restart /\ nick \in OrphansOf(saved.account, saved.rows)]_vars

(***************************************************************************)
(* What the source says of itself and does not do.                         *)
(***************************************************************************)
\* "request network announcements that will then (when approved by a soper) be
\* sent": what is sent is what the operators have looked through.
SentIsApproved == [][sent' \subseteq shown']_vars
=============================================================================
