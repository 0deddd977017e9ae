---------------------------- MODULE ChannelModes ----------------------------
(***************************************************************************)
(* Lockdowns (Defcon) together with the other modules that set modes on    *)
(* all channels: src/src/os_savechanmodes.c, which writes them to a file   *)
(* and restores them from it, and os_modeall.c.  A dump made in a lockdown *)
(* has the lockdown's +R in it.                                            *)
(* Operators named Bad... are wrong variants of the one below them.        *)
(***************************************************************************)
EXTENDS Defcon

CONSTANT Topics

VARIABLES
    extra,    \* channel -> its topic, and who set +R
    file,     \* chanmodes.txt: channel -> what was dumped of it
    stray     \* a lockdown was left without anything to end it

modeVars == <<vars, extra, file, stray>>

NoTopic == "no topic"
Plain == [topic |-> NoTopic, closedBy |-> "nobody"]

ModesInit == Init /\ extra = EmptyMap /\ file = EmptyMap /\ stray = FALSE

Extra(c) == IF c \in DOMAIN channels THEN extra[c] ELSE Plain
Closed(c) == c \in DOMAIN channels /\ channels[c]

\* Whoever sets +R where it is set already changes nothing.
Carry(by) ==
    extra' = [c \in DOMAIN channels' |->
                 [Extra(c) EXCEPT
                     !.closedBy = IF ~channels'[c] THEN "nobody"
                                  ELSE IF Closed(c) THEN @ ELSE by]]

ByDefcon == {c \in DOMAIN extra : extra[c].closedBy = "defcon"}

\* DEFCON 4 and 5 and the time-out open every channel, strays too.
LockdownStep ==
    /\ \/ /\ \/ \E lvl \in Params : SetLevel(lvl)
             \/ Timeout
          /\ stray' = FALSE
       \/ /\ \/ \E lvl \in Params : Reject(lvl)
             \/ Unload
          /\ stray' = (stray \/ left' = NoTimer)
       \/ Tick /\ UNCHANGED stray
       \/ Load /\ UNCHANGED stray
       \/ OperIgnore /\ UNCHANGED stray
    /\ Carry("defcon")
    /\ UNCHANGED file

\* Channel operators, and MODEALL on the channels there are
OthersSetModes ==
    /\ \/ \E c \in Channels, closed \in BOOLEAN : ChannelMode(c, closed)
       \/ \E c \in Channels : ChannelGone(c)
    /\ Carry("operator")
    /\ UNCHANGED <<file, stray>>

\* os_cmd_modeall, as far as +R goes
ModeAll(closed) ==
    /\ channels' = [c \in DOMAIN channels |-> closed]
    /\ Carry("operator")
    /\ UNCHANGED <<loaded, level, timer, left, ignored, file, stray>>

SetTopic(c, topic) ==
    /\ c \in DOMAIN channels
    /\ extra' = [extra EXCEPT ![c].topic = topic]
    /\ UNCHANGED <<vars, file, stray>>

\* os_cmd_savechanmodes
SaveChanModes ==
    /\ file' = [c \in DOMAIN channels |->
                   [closed |-> channels[c], topic |-> extra[c].topic]]
    /\ UNCHANGED <<vars, extra, stray>>

\* os_cmd_loadchanmodes: ChanServ joins each channel of the file, which makes
\* those that were gone, adds the modes, and sets the topic where there is none
\* (and adds the bans, which are left out here).  Nothing is taken away.
LoadChanModes ==
    /\ channels' = [c \in DOMAIN channels \cup DOMAIN file |->
                       Closed(c) \/ (c \in DOMAIN file /\ file[c].closed)]
    /\ extra' = [c \in DOMAIN channels' |->
                    IF c \notin DOMAIN file THEN extra[c]
                    ELSE [topic |-> IF Extra(c).topic = NoTopic THEN file[c].topic
                                    ELSE Extra(c).topic,
                          closedBy |-> IF ~channels'[c] THEN "nobody"
                                       ELSE IF Closed(c) THEN Extra(c).closedBy ELSE "file"]]
    /\ UNCHANGED <<loaded, level, timer, left, ignored, file, stray>>

ModesNext ==
    \/ LockdownStep
    \/ OthersSetModes
    \/ \E closed \in BOOLEAN : ModeAll(closed)
    \/ \E c \in Channels, t \in Topics \cup {NoTopic} : SetTopic(c, t)
    \/ SaveChanModes
    \/ LoadChanModes

ModesSpec == ModesInit /\ [][ModesNext]_modeVars

\* The event loop always gets back to its timers, and its clock goes on.
FairModesSpec ==
    /\ ModesSpec
    /\ WF_modeVars(Timeout /\ LockdownStep)
    /\ WF_modeVars(Tick /\ LockdownStep)

(***************************************************************************)
(* Properties.                                                             *)
(***************************************************************************)
\* +R that a lockdown has set is gone when the lockdown is over, unless the
\* module went or a rejected command put the level back to 5 when no timer ran;
\* and unless it came back from a dump, channel operators alone set it then.
NothingLeftBehind ==
    ByDefcon # {} => level <= 3 \/ timer = Live \/ stray
=============================================================================
