------------------------------- MODULE Forbids -------------------------------
(***************************************************************************)
(* src/src/ns_forbid.c and ns_freezeexpire.c, with the accounts as         *)
(* ns_fregister.c and the commands of NickServ make and change them.  A    *)
(* forbidden nick is an account that nobody can log in to; nothing marks   *)
(* it as one, so FORBID OFF goes by what such an account looks like.       *)
(* Operators named Bad... are wrong variants of the one below them.        *)
(***************************************************************************)
EXTENDS Integers, FiniteSets, Maps

CONSTANTS
    Nicks,
    FreezeExpire    \* nickserv::freeze_expire

ASSUME FreezeAssumption == FreezeExpire \in Nat

VARIABLES
    owned,      \* nicks belong to accounts (not no_nick_ownership)
    account     \* name -> account

forbidVars == <<owned, account>>

NoEmail == "noemail"
Thawed == -1

\* first: it is still the second of the registration
\* same: the last login was in that second
\* forbidden, taken: made by FORBID ON; logged in to later, or given an address.
\* A login in the very second of the FORBID leaves no trace and is not "taken".
NewAccount(name, email, forbidden) ==
    [nicks |-> IF owned THEN {name} ELSE {}, email |-> email,
     frozen |-> IF forbidden THEN 0 ELSE Thawed, hold |-> forbidden,
     first |-> TRUE, same |-> TRUE, forbidden |-> forbidden, taken |-> FALSE]

ForbidsInit == owned \in BOOLEAN /\ account = EmptyMap

NicksInUse == UNION {account[a].nicks : a \in DOMAIN account}

Registered(name) == IF owned THEN name \in NicksInUse ELSE name \in DOMAIN account

\* make_forbid
MakeForbid(name) ==
    /\ ~Registered(name)
    /\ account' = Put(account, name, NewAccount(name, NoEmail, TRUE))
    /\ UNCHANGED owned

\* REGISTER, and ns_cmd_fregister which looks at no check of REGISTER's
RegisterAccount(name) ==
    /\ ~Registered(name)
    /\ account' = Put(account, name, NewAccount(name, "address", FALSE))
    /\ UNCHANGED owned

BadLiftable(a) == a.frozen # Thawed /\ Cardinality(a.nicks) = 1

\* destroy_forbid
Liftable(a) ==
    /\ a.frozen # Thawed /\ a.same
    /\ Cardinality(a.nicks) = 1
    /\ a.email = NoEmail

DestroyForbid(name) ==
    /\ name \in DOMAIN account /\ Liftable(account[name])
    /\ account' = Del(account, name)
    /\ UNCHANGED owned

Change(name, a) == account' = Put(account, name, a) /\ UNCHANGED owned

\* FREEZE ON and OFF, HOLD ON and OFF
Freeze(name) ==
    /\ name \in DOMAIN account /\ account[name].frozen = Thawed
    /\ Change(name, [account[name] EXCEPT !.frozen = 0])

Thaw(name) ==
    /\ name \in DOMAIN account /\ account[name].frozen # Thawed
    /\ Change(name, [account[name] EXCEPT !.frozen = Thawed])

Hold(name, hold) ==
    /\ name \in DOMAIN account /\ account[name].hold # hold
    /\ Change(name, [account[name] EXCEPT !.hold = hold])

\* Only accounts that are not frozen are logged in to; a forbidden nick that was
\* thawed first needs a password from an operator.
Login(name) ==
    /\ name \in DOMAIN account /\ account[name].frozen = Thawed
    /\ Change(name, [account[name] EXCEPT !.same = @ /\ account[name].first,
                                          !.taken = @ \/ ~account[name].first])

SetAddress(name) ==
    /\ name \in DOMAIN account /\ account[name].frozen = Thawed
    /\ Change(name, [account[name] EXCEPT !.email = "address", !.taken = TRUE])

Group(name, nick) ==
    /\ owned /\ ~Registered(nick) /\ nick \notin DOMAIN account
    /\ name \in DOMAIN account /\ account[name].frozen = Thawed
    /\ Change(name, [account[name] EXCEPT !.nicks = @ \cup {nick}])

Ungroup(name, nick) ==
    /\ name \in DOMAIN account /\ nick \in account[name].nicks \ {name}
    /\ Change(name, [account[name] EXCEPT !.nicks = @ \ {nick}])

DropAccount(name) ==
    /\ name \in DOMAIN account
    /\ account' = Del(account, name)
    /\ UNCHANGED owned

\* The expiry of accounts asks the hook about those that are not held.
\* user_expiry_hook: frozen for so long, or already to expire for another reason
Expire(name, unused) ==
    /\ name \in DOMAIN account /\ ~account[name].hold
    /\ \/ unused
       \/ /\ FreezeExpire # 0 /\ account[name].frozen # Thawed
          /\ account[name].frozen >= FreezeExpire
    /\ account' = Del(account, name)
    /\ UNCHANGED owned

Aged(a) ==
    [a EXCEPT !.first = FALSE,
              !.frozen = IF @ = Thawed \/ @ >= FreezeExpire THEN @ ELSE @ + 1]

TimePasses ==
    /\ account' = [name \in DOMAIN account |-> Aged(account[name])]
    /\ UNCHANGED owned

ForbidsNext ==
    \/ \E name \in Nicks :
          \/ MakeForbid(name)
          \/ RegisterAccount(name)
          \/ DestroyForbid(name)
          \/ Freeze(name)
          \/ Thaw(name)
          \/ \E hold \in BOOLEAN : Hold(name, hold)
          \/ Login(name)
          \/ SetAddress(name)
          \/ \E nick \in Nicks : Group(name, nick) \/ Ungroup(name, nick)
          \/ DropAccount(name)
          \/ \E unused \in BOOLEAN : Expire(name, unused)
    \/ TimePasses

(***************************************************************************)
(* Properties.                                                             *)
(***************************************************************************)
AccountRecord ==
    [nicks : SUBSET Nicks, email : {NoEmail, "address"},
     frozen : Thawed .. FreezeExpire, hold : BOOLEAN, first : BOOLEAN,
     same : BOOLEAN, forbidden : BOOLEAN, taken : BOOLEAN]

ForbidsTypeOK ==
    /\ owned \in BOOLEAN
    /\ DOMAIN account \subseteq Nicks
    /\ account \in [DOMAIN account -> AccountRecord]

\* FORBID OFF takes away what FORBID ON made, and nothing that somebody has come
\* to use since.  It knows every such account, whatever operators did to it,
\* when nicks are owned, and none when they are not: what FORBID ON makes then
\* has no nick.
LiftableIffForbidden ==
    \A name \in DOMAIN account :
        LET a == account[name]
        IN  Liftable(a) <=> /\ a.forbidden /\ ~a.taken
                            /\ a.frozen # Thawed /\ a.nicks = {name}
=============================================================================
