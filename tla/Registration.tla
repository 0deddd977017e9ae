---------------------------- MODULE Registration ----------------------------
(***************************************************************************)
(* Who may have an account, and who may use it: the modules that share the *)
(* hooks user_can_register, user_can_login and user_can_logout             *)
(* (src/src/ns_goodmail.c, ns_mxcheck.c, ns_guestnoreg.c, ns_waitreg.c,    *)
(* os_defcon.c and sasl_blacklist.c).  A check of a registration sees what *)
(* the checks before it have decided, and each treats that in its own way. *)
(* Operators named Bad... are wrong variants of the one below them.        *)
(***************************************************************************)
EXTENDS Integers, Sequences, FiniteSets

CONSTANTS
    Conns, Web,     \* clients of the network, and a source that is none
    Emails,         \* addresses, each of a domain of its own
    Undeliverable,  \* those of a domain without MX and A records
    Mechanisms,
    HookOrder,      \* the order in which the checks were loaded
    MaxUnloaded     \* bound: modules unloaded at once

\* The modules that hook user_can_register
Checking == {"ns_goodmail", "ns_mxcheck", "ns_guestnoreg", "ns_waitreg",
             "sasl_blacklist", "os_defcon"}

ASSUME HookAssumption == HookOrder \in Seq(Checking) /\ Web \notin Conns

VARIABLES
    checks,         \* modules that are loaded
    maillist,       \* ns_maillist, patterns that match one address each
    guestnicks,     \* whether the account names in question are in the list
    lockdown,       \* DEFCON is below 5
    restricted,     \* the address "bad" is in restricted_hosts
    permitted,      \* permitted_mechanisms
    conn            \* client -> its connection

listVars == <<checks, maillist, guestnicks, lockdown, restricted, permitted>>
rgVars == <<listVars, conn>>

NoAccount == "none"
NoMechanism == "none"

\* proof: how the account was come by.  changed: since the client connected,
\* the blacklist was configured otherwise, loaded or unloaded.
Connection ==
    [state : {"off", "session", "user"}, bad : BOOLEAN, badvhost : BOOLEAN,
     fresh : BOOLEAN, mech : Mechanisms \cup {NoMechanism},
     account : {NoAccount, "account"},
     proof : Mechanisms \cup {NoMechanism, "service"}, changed : BOOLEAN]

Off == [state |-> "off", bad |-> FALSE, badvhost |-> FALSE, fresh |-> TRUE,
        mech |-> NoMechanism, account |-> NoAccount, proof |-> NoMechanism,
        changed |-> FALSE]

RegistrationInit ==
    /\ checks = {HookOrder[i] : i \in DOMAIN HookOrder}
    /\ maillist = {} /\ guestnicks = FALSE /\ lockdown = FALSE
    /\ restricted = FALSE /\ permitted = {}
    /\ conn = [c \in Conns |-> Off]

Blacklisting == "sasl_blacklist" \in checks

\* is_restricted_session: the host and the address of the client
RestrictedSession(c) == Blacklisting /\ restricted /\ conn[c].bad

\* is_restricted_user: the virtual host as well
RestrictedUser(c) ==
    Blacklisting /\ restricted /\ c # Web /\ (conn[c].bad \/ conn[c].badvhost)

(***************************************************************************)
(* The checks of a registration.  verdict is what "approved" is so far: a  *)
(* registration goes through if it is 0 in the end.                        *)
(***************************************************************************)
GoodMail(verdict, email) ==
    IF verdict # 0 \/ email \in maillist THEN verdict ELSE 1

BadMxCheck(verdict, email) == IF email \in Undeliverable THEN 1 ELSE 0

MxCheck(verdict, email) ==
    IF verdict # 0 \/ email \notin Undeliverable THEN verdict ELSE 1

\* One more for each prefix of the list that the name begins with
GuestNoReg(verdict, guest) == IF guest /\ guestnicks THEN verdict + 1 ELSE verdict

\* Sources that are no clients wait for nothing.
WaitReg(verdict, c) == IF c # Web /\ conn[c].fresh THEN verdict + 1 ELSE verdict

Check(name, verdict, c, email, guest) ==
    CASE name = "ns_goodmail" -> GoodMail(verdict, email)
      [] name = "ns_mxcheck" -> MxCheck(verdict, email)
      [] name = "ns_guestnoreg" -> GuestNoReg(verdict, guest)
      [] name = "ns_waitreg" -> WaitReg(verdict, c)
      [] name = "sasl_blacklist" -> IF RestrictedUser(c) THEN verdict + 1 ELSE verdict
      [] name = "os_defcon" -> IF lockdown THEN verdict + 1 ELSE verdict

\* hook_call_user_can_register
Approved(c, email, guest) ==
    LET approved[i \in 0 .. Len(HookOrder)] ==
            IF i = 0 THEN 0
            ELSE IF HookOrder[i] \in checks
                 THEN Check(HookOrder[i], approved[i - 1], c, email, guest)
                 ELSE approved[i - 1]
    IN  approved[Len(HookOrder)] = 0

Set(c, record) == conn' = [conn EXCEPT ![c] = record]

Register(c, email, guest) ==
    /\ c # Web => conn[c].state = "user" /\ conn[c].account = NoAccount
    /\ Approved(c, email, guest)
    /\ IF c = Web THEN UNCHANGED conn
       ELSE Set(c, [conn[c] EXCEPT !.account = "account", !.proof = "service"])
    /\ UNCHANGED listVars

(***************************************************************************)
(* Connections.                                                            *)
(***************************************************************************)
Connect(c, bad) ==
    /\ conn[c].state = "off"
    /\ Set(c, [Off EXCEPT !.state = "session", !.bad = bad])
    /\ UNCHANGED listVars

StartMechanism(c, m) ==
    /\ conn[c].state = "session"
    /\ Set(c, [conn[c] EXCEPT !.mech = m])
    /\ UNCHANGED listVars

\* blacklist_can_login, asked by SASL for a session
SaslAllowed(c) ==
    conn[c].mech # NoMechanism /\ RestrictedSession(c) => conn[c].mech \in permitted

\* The exchange ends with an account that is not yet the session's.
SaslLogin(c) ==
    /\ conn[c].state = "session" /\ conn[c].account = NoAccount
    /\ SaslAllowed(c)
    /\ Set(c, [conn[c] EXCEPT !.account = "account", !.proof = conn[c].mech])
    /\ UNCHANGED listVars

Introduce(c) ==
    /\ conn[c].state = "session"
    /\ Set(c, [conn[c] EXCEPT !.state = "user"])
    /\ UNCHANGED listVars

\* IDENTIFY: blacklist_can_login, asked by another service
Identify(c) ==
    /\ conn[c].state = "user" /\ conn[c].account = NoAccount
    /\ ~RestrictedUser(c)
    /\ Set(c, [conn[c] EXCEPT !.account = "account", !.proof = "service"])
    /\ UNCHANGED listVars

\* blacklist_can_logout
Logout(c) ==
    /\ conn[c].state = "user" /\ conn[c].account # NoAccount
    /\ ~RestrictedUser(c)
    /\ Set(c, [conn[c] EXCEPT !.account = NoAccount, !.proof = NoMechanism])
    /\ UNCHANGED listVars

SetVhost(c) ==
    /\ conn[c].state = "user"
    /\ Set(c, [conn[c] EXCEPT !.badvhost = ~@])
    /\ UNCHANGED listVars

\* waitreg_time goes by for a client.
Waited(c) ==
    /\ conn[c].state = "user" /\ conn[c].fresh
    /\ Set(c, [conn[c] EXCEPT !.fresh = FALSE])
    /\ UNCHANGED listVars

Disconnect(c) == conn[c].state # "off" /\ Set(c, Off) /\ UNCHANGED listVars

(***************************************************************************)
(* Lists.                                                                  *)
(***************************************************************************)
Changed == conn' = [c \in Conns |->
                       [conn[c] EXCEPT !.changed = @ \/ conn[c].state # "off"]]

\* c_restricted_hosts, c_permitted_mechanisms: a block with entries replaces the
\* list, one without leaves it.
BlacklistBlock(hosts, mechs) ==
    /\ Blacklisting
    /\ restricted' = IF hosts = {} THEN restricted ELSE "bad" \in hosts
    /\ permitted' = IF mechs = {} THEN permitted ELSE mechs
    /\ IF <<restricted', permitted'>> # <<restricted, permitted>> THEN Changed
       ELSE UNCHANGED conn
    /\ UNCHANGED <<checks, maillist, guestnicks, lockdown>>

\* guestnoreg_config_purge and guestnoreg_config_handler, in one rehash
GuestBlock(listed) ==
    /\ "ns_guestnoreg" \in checks /\ guestnicks' = listed
    /\ UNCHANGED <<checks, maillist, lockdown, restricted, permitted, conn>>

Defcon(on) ==
    /\ "os_defcon" \in checks /\ lockdown' = on
    /\ UNCHANGED <<checks, maillist, guestnicks, restricted, permitted, conn>>

\* ns_cmd_goodmail, ADD and DEL
GoodMailCommand(email) ==
    /\ "ns_goodmail" \in checks
    /\ maillist' \in {maillist \cup {email}, maillist \ {email}}
    /\ UNCHANGED <<checks, guestnicks, lockdown, restricted, permitted, conn>>

\* mod_deinit: what a module keeps in its image goes with it.
UnloadCheck(m) ==
    /\ m \in checks /\ checks' = checks \ {m}
    /\ Cardinality(checks') >= Len(HookOrder) - MaxUnloaded
    /\ maillist' = IF m = "ns_goodmail" THEN {} ELSE maillist
    /\ guestnicks' = (guestnicks /\ m # "ns_guestnoreg")
    /\ lockdown' = (lockdown /\ m # "os_defcon")
    /\ IF m = "sasl_blacklist"
       THEN restricted' = FALSE /\ permitted' = {} /\ Changed
       ELSE UNCHANGED <<restricted, permitted, conn>>

LoadCheck(m) ==
    /\ m \notin checks /\ checks' = checks \cup {m}
    /\ UNCHANGED <<maillist, guestnicks, lockdown, restricted, permitted>>
    /\ IF m = "sasl_blacklist" THEN Changed ELSE UNCHANGED conn

RegistrationNext ==
    \/ \E c \in Conns :
          \/ \E bad \in BOOLEAN : Connect(c, bad)
          \/ \E m \in Mechanisms \cup {NoMechanism} : StartMechanism(c, m)
          \/ SaslLogin(c)
          \/ Introduce(c)
          \/ Identify(c)
          \/ Logout(c)
          \/ SetVhost(c)
          \/ Waited(c)
          \/ Disconnect(c)
    \/ \E c \in Conns \cup {Web}, email \in Emails, guest \in BOOLEAN :
          Register(c, email, guest)
    \/ \E hosts \in SUBSET {"bad", "other"}, mechs \in SUBSET Mechanisms :
          BlacklistBlock(hosts, mechs)
    \/ \E b \in BOOLEAN : GuestBlock(b) \/ Defcon(b)
    \/ \E email \in Emails : GoodMailCommand(email)
    \/ \E i \in DOMAIN HookOrder : UnloadCheck(HookOrder[i]) \/ LoadCheck(HookOrder[i])

(***************************************************************************)
(* Properties.                                                             *)
(***************************************************************************)
RegistrationTypeOK ==
    /\ checks \subseteq {HookOrder[i] : i \in DOMAIN HookOrder}
    /\ maillist \subseteq Emails
    /\ guestnicks \in BOOLEAN /\ lockdown \in BOOLEAN
    /\ restricted \in BOOLEAN /\ permitted \subseteq Mechanisms
    /\ conn \in [Conns -> Connection]

\* A client from a restricted address that has an account has shown who they are
\* by a permitted mechanism, or by a session that had lost its mechanism, as long
\* as the blacklist is what it was when they connected: registration, other
\* services and what comes after the connection give no other way.
RestrictedShowWhoTheyAre ==
    \A c \in Conns :
        Blacklisting /\ restricted /\ conn[c].bad /\ ~conn[c].changed
            /\ conn[c].account # NoAccount =>
                conn[c].proof \in permitted \cup {NoMechanism}

\* A registration goes through exactly when every module that is loaded would
\* let it through by itself, whatever the order of the hooks.
EveryCheckCounts ==
    \A c \in Conns \cup {Web}, email \in Emails, guest \in BOOLEAN :
        Approved(c, email, guest) <=>
            \A m \in checks : Check(m, 0, c, email, guest) = 0
=============================================================================
