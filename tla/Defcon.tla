------------------------------- MODULE Defcon -------------------------------
(***************************************************************************)
(* src/src/os_defcon.c: a network-wide lockdown that an operator sets and  *)
(* a timer lifts.  At levels 1 and 2 services ignore everyone, at 1 to 3   *)
(* channels are closed to unregistered users.                              *)
(* Operators named Bad... are wrong variants of the one below them.        *)
(***************************************************************************)
EXTENDS Integers, Maps

CONSTANTS
    Channels,
    Params,         \* the numbers given to DEFCON
    DefconTimeout   \* 900 s

ASSUME DefconAssumption ==
    /\ Params \subseteq Int
    /\ DefconTimeout \in Nat \ {0}

VARIABLES
    loaded,
    level,
    timer,       \* the pointer defcon_timer
    left,        \* what the one-shot timer has left; NoTimer if there is none
    ignored,     \* who put "*@*" on the ignore list of services
    channels     \* existing channel -> it has mode +R

vars == <<loaded, level, timer, left, ignored, channels>>

Levels == 1..5
Null == "null"
Live == "live"
Freed == "freed"     \* it points to a timer the loop has freed
NoTimer == -1
Nobody == "nobody"

Init ==
    /\ loaded = TRUE /\ level = 5
    /\ timer = Null /\ left = NoTimer
    /\ ignored = Nobody
    /\ channels = EmptyMap

BadSvsignore(lvl) == ignored' = IF lvl <= 2 THEN "defcon" ELSE ignored

\* defcon_svsignore: an ignore of "*@*" is not added twice, and whoever set it,
\* it is removed at the higher levels.
Svsignore(lvl) ==
    ignored' = IF lvl > 2 THEN Nobody
               ELSE IF ignored = Nobody THEN "defcon" ELSE ignored

BadForceChanModes(lvl) == channels' = [c \in DOMAIN channels |-> lvl <= 4]

\* defcon_forcechanmodes
ForceChanModes(lvl) == channels' = [c \in DOMAIN channels |-> lvl <= 3]

BadArm == timer' = Live /\ left' = DefconTimeout

\* The timer is armed when there never was one or DEFCON 5 has removed it, not
\* when it has fired: the pointer is left as it is then.
Arm ==
    IF timer = Null
    THEN timer' = Live /\ left' = DefconTimeout
    ELSE UNCHANGED <<timer, left>>

BadDisarm == UNCHANGED timer /\ left' = NoTimer

\* Destroying a timer that is gone takes no live one with it.
Disarm == timer' = Null /\ left' = NoTimer

\* os_cmd_defcon
SetLevel(lvl) ==
    /\ loaded
    /\ lvl \in Levels
    /\ level' = lvl
    /\ Svsignore(lvl)
    /\ ForceChanModes(lvl)
    /\ IF lvl < 5 THEN Arm ELSE Disarm
    /\ UNCHANGED loaded

BadReject(lvl) ==
    /\ loaded
    /\ lvl \notin Levels
    /\ level' = lvl
    /\ UNCHANGED <<loaded, timer, left, ignored, channels>>

\* "Defcon level must be between 1 and 5", and the level is 5 from now on.
Reject(lvl) ==
    /\ loaded
    /\ lvl \notin Levels
    /\ level' = 5
    /\ UNCHANGED <<loaded, timer, left, ignored, channels>>

\* defcon_timeoutfunc; the loop frees a timer that fires once.
Timeout ==
    /\ left = 0
    /\ level' = 5
    /\ Svsignore(5)
    /\ ForceChanModes(5)
    /\ left' = NoTimer /\ timer' = Freed
    /\ UNCHANGED loaded

\* A timer that is due runs before time goes on.
Tick ==
    /\ left > 0
    /\ left' = left - 1
    /\ UNCHANGED <<loaded, level, timer, ignored, channels>>

\* mod_deinit lifts nothing, and the image is fresh when loaded again.
Unload ==
    /\ loaded /\ loaded' = FALSE
    /\ level' = 5
    /\ timer' = Null /\ left' = NoTimer
    /\ UNCHANGED <<ignored, channels>>

Load ==
    /\ ~loaded /\ loaded' = TRUE
    /\ UNCHANGED <<level, timer, left, ignored, channels>>

\* OperServ IGNORE ADD and DEL of "*@*"
OperIgnore ==
    /\ ignored' \in {Nobody, "oper"}
    /\ ignored' # ignored /\ (ignored' = Nobody \/ ignored = Nobody)
    /\ UNCHANGED <<loaded, level, timer, left, channels>>

\* Channels come and go, and their operators set and unset +R.
ChannelMode(c, closed) ==
    /\ channels' = Put(channels, c, closed)
    /\ c \notin DOMAIN channels => ~closed
    /\ UNCHANGED <<loaded, level, timer, left, ignored>>

ChannelGone(c) ==
    /\ c \in DOMAIN channels
    /\ channels' = Del(channels, c)
    /\ UNCHANGED <<loaded, level, timer, left, ignored>>

Next ==
    \/ \E lvl \in Params : SetLevel(lvl) \/ Reject(lvl)
    \/ Timeout
    \/ Tick
    \/ Unload
    \/ Load
    \/ OperIgnore
    \/ \E c \in Channels, closed \in BOOLEAN : ChannelMode(c, closed)
    \/ \E c \in Channels : ChannelGone(c)

Spec == Init /\ [][Next]_vars

\* The event loop always gets back to its timers, and its clock goes on.
FairSpec == Spec /\ WF_vars(Timeout) /\ WF_vars(Tick)

(***************************************************************************)
(* Properties.                                                             *)
(***************************************************************************)
TypeOK ==
    /\ loaded \in BOOLEAN /\ level \in Levels
    /\ timer \in {Null, Live, Freed} /\ left \in {NoTimer} \cup 0 .. DefconTimeout
    /\ ignored \in {Nobody, "defcon", "oper"}
    /\ DOMAIN channels \subseteq Channels
    /\ channels \in [DOMAIN channels -> BOOLEAN]

\* The pointer knows the timer: no timer runs that DEFCON 5 and mod_deinit could
\* not destroy, and no lockdown begins without one having been armed.
TimerKnown ==
    /\ left # NoTimer <=> timer = Live
    /\ level < 5 => timer # Null

\* Once the timer runs no command puts off the end of the lockdown.
NeverProlonged == [][timer = Live /\ timer' = Live => left' <= left]_vars

\* A lockdown with a timer is lifted completely, through all changes of level,
\* rejected commands and other operators' ignores, unless the module goes.
ArmedLockdownIsLifted ==
    timer = Live ~>
        \/ ~loaded
        \/ /\ level = 5 /\ ignored = Nobody
           /\ \A c \in DOMAIN channels : ~channels[c]

(***************************************************************************)
(* What the source says of itself and does not do.                         *)
(***************************************************************************)
\* "By default, any setting except 5 will expire after 15 minutes"
SettingExpires == level < 5 ~> level = 5
=============================================================================
