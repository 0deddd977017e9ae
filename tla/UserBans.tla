------------------------------ MODULE UserBans ------------------------------
(***************************************************************************)
(* The modules that k-line users by themselves, together: dnsbl.c,         *)
(* os_akillnicklist.c, os_klinechan.c and os_defcon.c at level 1.  They    *)
(* know of each other only by the flag UF_KLINESENT of the user.  The      *)
(* properties are those of Dnsbl.                                          *)
(* Operators named Bad... are wrong variants of the one below them.        *)
(***************************************************************************)
EXTENDS Dnsbl

CONSTANT Channels    \* registered channels

VARIABLES
    closers,     \* the channels with KLINECHAN ON
    lockdown     \* the DEFCON level is 1

allVars == <<module, action, exempts, rows, blacklists, mem, query, closers,
             lockdown>>

BansInit == Init /\ closers = {} /\ lockdown = FALSE

\* aknl_nickhook, on connecting and on changing nicks; matches: the nick, the
\* user name or the real name is in a list; spared: is_autokline_exempt
NickHook(u, matches, spared) == IF matches /\ ~spared THEN Ban(u) ELSE u

\* defcon_useradd spares nobody.
DefconHook(u) == IF lockdown THEN Ban(u) ELSE u

\* user_add calls the hooks of the three modules; whatever their order, the
\* look-up of dnsbl.c starts.
Connects(s, ip) ==
    /\ \E matches, spared \in BOOLEAN :
          Connect(s, DefconHook(NickHook(NewUser(ip), matches, spared)))
    /\ UNCHANGED <<closers, lockdown>>

\* user_nickchange
NickChange(s) ==
    /\ module # "crashed" /\ s \in Online
    /\ \E matches, spared \in BOOLEAN :
          mem' = [mem EXCEPT ![s] = NickHook(@, matches, spared)]
    /\ UNCHANGED <<module, action, exempts, rows, blacklists, query,
                   closers, lockdown>>

BadKlinechanHook(u, c, spared) ==
    IF c \in closers /\ ~spared THEN [u EXCEPT !.bans = u.bans + 1] ELSE u

\* klinechan_check_join; spared: PRIV_JOIN_STAFFONLY or is_autokline_exempt
KlinechanHook(u, c, spared) == IF c \in closers /\ ~spared THEN Ban(u) ELSE u

Join(s, c) ==
    /\ module # "crashed" /\ s \in Online
    /\ \E spared \in BOOLEAN :
          mem' = [mem EXCEPT ![s] = KlinechanHook(@, c, spared)]
    /\ UNCHANGED <<module, action, exempts, rows, blacklists, query,
                   closers, lockdown>>

\* os_cmd_klinechan ON (of a channel that is not CHAN_LOG) and OFF
KlinechanOn(c) ==
    /\ module # "crashed" /\ c \notin closers
    /\ closers' = closers \cup {c}
    /\ UNCHANGED <<vars, lockdown>>

\* and the channel is dropped, with its metadata
KlinechanOff(c) ==
    /\ module # "crashed" /\ c \in closers
    /\ closers' = closers \ {c}
    /\ UNCHANGED <<vars, lockdown>>

\* os_cmd_defcon, and the end of a lockdown
SetLockdown ==
    /\ module # "crashed"
    /\ lockdown' = ~lockdown
    /\ UNCHANGED <<vars, closers>>

\* The database may be older than the last KLINECHAN; the level is 5 again.
StartAgain ==
    /\ \E conf \in SUBSET Blacklists : Restart(conf)
    /\ lockdown' = FALSE /\ closers' \in SUBSET Channels

BansNext ==
    \/ \E s \in Structs : NickChange(s) \/ \E ip \in Ips : Connects(s, ip)
    \/ \E s \in Structs, c \in Channels : Join(s, c)
    \/ \E c \in Channels : KlinechanOn(c) \/ KlinechanOff(c)
    \/ SetLockdown
    \/ Others /\ UNCHANGED <<closers, lockdown>>
    \/ StartAgain

BansSpec == BansInit /\ [][BansNext]_allVars
=============================================================================
