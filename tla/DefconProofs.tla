---------------------------- MODULE DefconProofs ----------------------------
(***************************************************************************)
(* Theorems about Defcon and ChannelModes, for every timeout, parameter    *)
(* and set of channels.                                                    *)
(***************************************************************************)
EXTENDS ChannelModes, TLAPS

IInv == TypeOK /\ TimerKnown

LEMMA InitIInv == Init => IInv
BY DEF Init, IInv, TypeOK, TimerKnown, EmptyMap, Levels, Null, Live, NoTimer

ChannelsTyped ==
    /\ DOMAIN channels \subseteq Channels
    /\ channels \in [DOMAIN channels -> BOOLEAN]

LEMMA ForceChanModesOK ==
    ASSUME IInv, NEW lvl \in Int, ForceChanModes(lvl)
    PROVE  ChannelsTyped'
BY DEF IInv, TypeOK, ForceChanModes, ChannelsTyped

LEMMA SvsignoreOK ==
    ASSUME IInv, NEW lvl \in Int, Svsignore(lvl)
    PROVE  ignored' \in {Nobody, "defcon", "oper"}
BY DEF IInv, TypeOK, Svsignore

LEMMA SetLevelOK ==
    ASSUME IInv, NEW lvl \in Params, SetLevel(lvl)
    PROVE  IInv'
<1>1. lvl \in Int /\ lvl \in Levels /\ loaded' = loaded /\ level' = lvl
  BY DefconAssumption DEF SetLevel
<1>2. ChannelsTyped' /\ ignored' \in {Nobody, "defcon", "oper"}
  BY <1>1, ForceChanModesOK, SvsignoreOK DEF SetLevel
<1>3. /\ timer' \in {Null, Live, Freed}
      /\ left' \in {NoTimer} \cup 0 .. DefconTimeout
      /\ left' # NoTimer <=> timer' = Live
      /\ level' < 5 => timer' # Null
  <2>1. CASE lvl < 5
    BY <1>1, <2>1, DefconAssumption
       DEF SetLevel, Arm, IInv, TypeOK, TimerKnown, Null, Live, Freed, NoTimer
  <2>2. CASE ~(lvl < 5)
    BY <1>1, <2>2
       DEF SetLevel, Disarm, IInv, TypeOK, TimerKnown, Null, Live, Freed,
           NoTimer
  <2>3. QED
    BY <2>1, <2>2
<1>4. QED
  BY <1>1, <1>2, <1>3 DEF IInv, TypeOK, TimerKnown, ChannelsTyped

LEMMA TimeoutOK == IInv /\ Timeout => IInv'
<1> SUFFICES ASSUME IInv, Timeout PROVE IInv'
  OBVIOUS
<1>1. ChannelsTyped' /\ ignored' \in {Nobody, "defcon", "oper"}
  BY ForceChanModesOK, SvsignoreOK DEF Timeout
<1>2. QED
  BY <1>1 DEF Timeout, IInv, TypeOK, TimerKnown, ChannelsTyped, Levels, Null,
              Live, Freed, NoTimer

LEMMA NextIInv == IInv /\ [Next]_vars => IInv'
<1> SUFFICES ASSUME IInv, [Next]_vars PROVE IInv'
  OBVIOUS
<1>1. ASSUME NEW lvl \in Params, Reject(lvl) PROVE IInv'
  BY <1>1 DEF Reject, IInv, TypeOK, TimerKnown, Levels
<1>2. CASE Tick
  BY <1>2, DefconAssumption DEF Tick, IInv, TypeOK, TimerKnown, NoTimer
<1>3. CASE Unload
  <2>1. TimerKnown'
    BY <1>3 DEF Unload, TimerKnown, Null, Live, NoTimer
  <2>2. level' \in Levels /\ loaded' \in BOOLEAN
    <3>1. level' = 5 /\ loaded' = FALSE
      BY <1>3, Zenon DEF Unload
    <3>2. level' \in Levels
      BY <3>1 DEF Levels
    <3>3. loaded' \in BOOLEAN
      BY <3>1, Zenon
    <3>4. QED
      BY <3>2, <3>3
  <2>3. TypeOK'
    BY <1>3, <2>2 DEF Unload, IInv, TypeOK
  <2>4. QED
    BY <2>1, <2>3 DEF IInv
<1>4. CASE Load
  BY <1>4 DEF Load, IInv, TypeOK, TimerKnown
<1>5. CASE OperIgnore
  BY <1>5 DEF OperIgnore, IInv, TypeOK, TimerKnown
<1>6. ASSUME NEW c \in Channels, NEW closed \in BOOLEAN,
             ChannelMode(c, closed) \/ ChannelGone(c)
      PROVE  IInv'
  <2>1. ChannelsTyped'
    BY <1>6 DEF ChannelMode, ChannelGone, ChannelsTyped, Put, Del, IInv, TypeOK
  <2>2. QED
    BY <1>6, <2>1 DEF ChannelMode, ChannelGone, ChannelsTyped, IInv, TypeOK,
                      TimerKnown
<1>7. CASE UNCHANGED vars
  BY <1>7 DEF vars, IInv, TypeOK, TimerKnown
<1>8. QED
  BY <1>1, <1>2, <1>3, <1>4, <1>5, <1>6, <1>7, SetLevelOK, TimeoutOK DEF Next

\* The pointer and the timer of the loop agree, whatever the order of levels,
\* rejected commands, timeouts and reloads.
THEOREM TimerAlwaysKnown == Spec => [](TypeOK /\ TimerKnown)
<1>1. Spec => []IInv
  BY InitIInv, NextIInv, PTL DEF Spec
<1>2. QED
  BY <1>1, PTL DEF IInv

\* The time left only falls while one timer runs.
NotProlonged == timer = Live /\ timer' = Live => left' <= left

\* No sequence of commands prolongs a lockdown whose timer runs.
THEOREM LockdownsNeverProlonged == Spec => NeverProlonged
<1>1. ASSUME IInv, [Next]_vars PROVE NotProlonged
  <2> SUFFICES ASSUME timer = Live, timer' = Live PROVE left' <= left
    BY DEF NotProlonged
  <2>1. left \in Int
    BY <1>1, DefconAssumption DEF IInv, TypeOK, NoTimer
  <2>2. CASE UNCHANGED left
    BY <2>1, <2>2
  <2>3. CASE Tick
    BY <2>1, <2>3 DEF Tick
  <2>4. ASSUME NEW lvl, SetLevel(lvl) PROVE UNCHANGED left
    BY <2>4 DEF SetLevel, Arm, Disarm, Null, Live
  <2>5. ~Timeout /\ ~Unload
    BY DEF Timeout, Unload, Live, Freed, Null
  <2>6. QED
    BY <1>1, <2>2, <2>3, <2>4, <2>5
       DEF Next, Reject, Load, OperIgnore, ChannelMode, ChannelGone, vars
<1>2. IInv /\ [Next]_vars => [NotProlonged]_vars
  BY <1>1
<1>3. Spec => [][NotProlonged]_vars
  BY <1>2, TimerAlwaysKnown, PTL DEF Spec, IInv
<1>4. QED
  BY <1>3 DEF NeverProlonged, NotProlonged

(***************************************************************************)
(* The lockdown among the other modules that set channel modes.            *)
(***************************************************************************)
Extras ==
    [topic : Topics \cup {NoTopic},
     closedBy : {"nobody", "defcon", "operator", "file"}]
Dumps == [closed : BOOLEAN, topic : Topics \cup {NoTopic}]

\* Somebody is known to have set every +R that is there, and nobody the others.
ExtraOK ==
    /\ DOMAIN extra = DOMAIN channels
    /\ extra \in [DOMAIN extra -> Extras]
    /\ \A c \in DOMAIN extra : ~channels[c] => extra[c].closedBy = "nobody"
    /\ DOMAIN file \subseteq Channels
    /\ file \in [DOMAIN file -> Dumps]
    /\ stray \in BOOLEAN

ModesInv == IInv /\ ExtraOK /\ NothingLeftBehind

LEMMA ModesInitInv == ModesInit => ModesInv
<1> SUFFICES ASSUME ModesInit PROVE ModesInv
  OBVIOUS
<1>1. IInv
  BY InitIInv DEF ModesInit
<1>2. ExtraOK
  BY DEF ModesInit, Init, ExtraOK, EmptyMap
<1>3. NothingLeftBehind
  BY DEF ModesInit, NothingLeftBehind, ByDefcon, EmptyMap
<1>4. QED
  BY <1>1, <1>2, <1>3 DEF ModesInv

\* What the record of who set +R is after a step that is not a restoration.
LEMMA CarryOK ==
    ASSUME ModesInv, IInv', NEW by \in {"defcon", "operator"}, Carry(by),
           UNCHANGED file, stray' \in BOOLEAN
    PROVE  /\ ExtraOK'
           /\ \A c \in ByDefcon' :
                 channels'[c] /\ (c \in ByDefcon \/ (by = "defcon" /\ ~Closed(c)))
<1>1. /\ DOMAIN extra' = DOMAIN channels'
      /\ \A c \in DOMAIN channels' :
            extra'[c] = [Extra(c) EXCEPT
                            !.closedBy = IF ~channels'[c] THEN "nobody"
                                         ELSE IF Closed(c) THEN @ ELSE by]
  BY DEF Carry
<1>2. ASSUME NEW c PROVE Extra(c) \in Extras
  BY DEF Extra, Extras, Plain, ModesInv, ExtraOK
<1>3. ASSUME NEW c \in DOMAIN channels'
      PROVE  /\ extra'[c] \in Extras
             /\ ~channels'[c] => extra'[c].closedBy = "nobody"
             /\ extra'[c].closedBy = "defcon" =>
                   channels'[c] /\ (c \in ByDefcon \/ (by = "defcon" /\ ~Closed(c)))
  <2>1. /\ extra'[c].topic = Extra(c).topic
        /\ extra'[c].closedBy = IF ~channels'[c] THEN "nobody"
                                ELSE IF Closed(c) THEN Extra(c).closedBy ELSE by
        /\ extra'[c] \in Extras
    BY <1>1, <1>2 DEF Extras
  <2>2. Closed(c) => c \in DOMAIN extra /\ Extra(c) = extra[c]
    BY DEF Closed, Extra, ModesInv, ExtraOK
  <2>3. QED
    BY <2>1, <2>2 DEF ByDefcon
<1>4. extra' \in [DOMAIN extra' -> Extras]
  BY <1>1, <1>3 DEF Carry
<1>5. ExtraOK'
  BY <1>1, <1>3, <1>4 DEF ExtraOK, ModesInv
<1>6. QED
  BY <1>1, <1>3, <1>5 DEF ByDefcon

LEMMA LockdownStepOK == ModesInv /\ LockdownStep => ModesInv'
<1> SUFFICES ASSUME ModesInv, LockdownStep PROVE ModesInv'
  OBVIOUS
<1>1. IInv'
  BY NextIInv DEF ModesInv, LockdownStep, Next
<1>2. stray' \in BOOLEAN
  BY DEF LockdownStep, ModesInv, ExtraOK
<1>3. ExtraOK' /\ \A c \in ByDefcon' :
                     channels'[c] /\ (c \in ByDefcon \/ ~Closed(c))
  BY <1>1, <1>2, CarryOK DEF LockdownStep
<1>4. NothingLeftBehind'
  <2>1. ASSUME NEW lvl \in Params, SetLevel(lvl) PROVE NothingLeftBehind'
    <3>1. lvl \in 1 .. 5 /\ level' = lvl
      BY <2>1 DEF SetLevel, Levels
    <3>2. CASE lvl <= 3
      BY <3>1, <3>2 DEF NothingLeftBehind
    <3>3. CASE ~(lvl <= 3)
      <4>1. \A c \in DOMAIN channels' : ~channels'[c]
        BY <2>1, <3>1, <3>3 DEF SetLevel, ForceChanModes
      <4>2. QED
        BY <4>1, <1>3 DEF NothingLeftBehind, ByDefcon, ExtraOK
    <3>4. QED
      BY <3>2, <3>3
  <2>2. CASE Timeout
    <3>1. channels' = [c \in DOMAIN channels |-> 5 <= 3]
      BY <2>2, Zenon DEF Timeout, ForceChanModes
    <3>2. \A c \in DOMAIN channels' : ~channels'[c]
      <4>1. ~(5 <= 3)
        OBVIOUS
      <4>2. QED
        BY <3>1, <4>1, Zenon
    <3>3. QED
      BY <3>2, <1>3 DEF NothingLeftBehind, ByDefcon, ExtraOK
  <2>3. CASE stray' = (stray \/ left' = NoTimer)
    <3>1. left' # NoTimer => timer' = Live
      BY <1>1 DEF IInv, TimerKnown, Live
    <3>2. QED
      BY <2>3, <3>1 DEF NothingLeftBehind, Live
  <2>4. CASE (Tick \/ Load \/ OperIgnore) /\ UNCHANGED stray
    <3>1. UNCHANGED <<channels, level, timer, stray>>
      BY <2>4 DEF Tick, Load, OperIgnore
    <3>2. \A c \in ByDefcon' : c \in ByDefcon
      BY <3>1, <1>3 DEF Closed, ByDefcon, ExtraOK
    <3>3. QED
      BY <3>1, <3>2 DEF ModesInv, NothingLeftBehind, Live
  <2>5. QED
    BY <2>1, <2>2, <2>3, <2>4 DEF LockdownStep
<1>5. QED
  BY <1>1, <1>3, <1>4 DEF ModesInv

LEMMA OthersSetModesOK ==
    ASSUME ModesInv, OthersSetModes \/ \E closed \in BOOLEAN : ModeAll(closed)
    PROVE  ModesInv'
<1>1. IInv'
  <2>1. CASE OthersSetModes
    BY <2>1, NextIInv DEF ModesInv, OthersSetModes, Next
  <2>2. ASSUME NEW closed \in BOOLEAN, ModeAll(closed) PROVE IInv'
    BY <2>2 DEF ModeAll, ModesInv, IInv, TypeOK, TimerKnown
  <2>3. QED
    BY <2>1, <2>2
<1>2. UNCHANGED <<level, timer, stray>> /\ Carry("operator") /\ UNCHANGED file
  BY DEF OthersSetModes, ModeAll, ChannelMode, ChannelGone
<1>3. ExtraOK' /\ \A c \in ByDefcon' : c \in ByDefcon
  BY <1>1, <1>2, CarryOK DEF ModesInv, ExtraOK
<1>4. NothingLeftBehind'
  BY <1>2, <1>3 DEF ModesInv, NothingLeftBehind, Live
<1>5. QED
  BY <1>1, <1>3, <1>4 DEF ModesInv

LEMMA SetTopicOK ==
    ASSUME ModesInv, NEW c \in Channels, NEW t \in Topics \cup {NoTopic}, SetTopic(c, t)
    PROVE  ModesInv'
<1>1. IInv'
  BY DEF SetTopic, vars, ModesInv, IInv, TypeOK, TimerKnown
<1>2. extra' \in [DOMAIN extra -> Extras]
      /\ \A d \in DOMAIN extra : extra'[d].closedBy = extra[d].closedBy
  <2>1. ASSUME NEW d \in DOMAIN extra
        PROVE  extra'[d] \in Extras /\ extra'[d].closedBy = extra[d].closedBy
    BY DEF SetTopic, ModesInv, ExtraOK, Extras
  <2>2. QED
    BY <2>1 DEF SetTopic, ModesInv, ExtraOK
<1>3. ExtraOK'
  BY <1>2 DEF SetTopic, vars, ModesInv, ExtraOK
<1>4. NothingLeftBehind'
  BY <1>2 DEF SetTopic, vars, ModesInv, NothingLeftBehind, ByDefcon, Live
<1>5. QED
  BY <1>1, <1>3, <1>4 DEF ModesInv

LEMMA SaveChanModesOK == ModesInv /\ SaveChanModes => ModesInv'
<1> SUFFICES ASSUME ModesInv, SaveChanModes PROVE ModesInv'
  OBVIOUS
<1>1. IInv'
  BY DEF SaveChanModes, vars, ModesInv, IInv, TypeOK, TimerKnown
<1>2. DOMAIN file' \subseteq Channels /\ file' \in [DOMAIN file' -> Dumps]
  BY DEF SaveChanModes, ModesInv, IInv, TypeOK, ExtraOK, Dumps, Extras
<1>3. ExtraOK'
  BY <1>2 DEF SaveChanModes, vars, ModesInv, ExtraOK
<1>4. NothingLeftBehind'
  BY DEF SaveChanModes, vars, ModesInv, NothingLeftBehind, ByDefcon, Live
<1>5. QED
  BY <1>1, <1>3, <1>4 DEF ModesInv

LEMMA LoadChanModesOK == ModesInv /\ LoadChanModes => ModesInv'
<1> SUFFICES ASSUME ModesInv, LoadChanModes PROVE ModesInv'
  OBVIOUS
<1>1. /\ DOMAIN channels' = DOMAIN channels \cup DOMAIN file
      /\ \A c \in DOMAIN channels' :
            channels'[c] = (Closed(c) \/ (c \in DOMAIN file /\ file[c].closed))
      /\ DOMAIN extra' = DOMAIN channels'
  BY DEF LoadChanModes
<1>2. \A c \in DOMAIN channels' : channels'[c] \in BOOLEAN
  BY <1>1 DEF Closed
<1>3. IInv'
  BY <1>1, <1>2 DEF LoadChanModes, ModesInv, ExtraOK, IInv, TypeOK, TimerKnown
<1>4. ASSUME NEW c \in DOMAIN extra'
      PROVE  /\ extra'[c] \in Extras
             /\ ~channels'[c] => extra'[c].closedBy = "nobody"
             /\ extra'[c].closedBy = "defcon" => c \in ByDefcon
  <2>1. Extra(c) \in Extras
    BY DEF Extra, Extras, Plain, ModesInv, ExtraOK
  <2>2. Closed(c) => Extra(c) = extra[c] /\ c \in DOMAIN extra
    BY DEF Closed, Extra, ModesInv, ExtraOK
  <2>3. CASE c \in DOMAIN file
    <3>1. extra'[c] =
            [topic |-> IF Extra(c).topic = NoTopic THEN file[c].topic
                       ELSE Extra(c).topic,
             closedBy |-> IF ~channels'[c] THEN "nobody"
                          ELSE IF Closed(c) THEN Extra(c).closedBy ELSE "file"]
      BY <2>3, <1>1 DEF LoadChanModes
    <3>2. file[c].topic \in Topics \cup {NoTopic}
      BY <2>3 DEF ModesInv, ExtraOK, Dumps
    <3>3. QED
      BY <3>1, <3>2, <2>1, <2>2 DEF Extras, ByDefcon
  <2>4. CASE c \notin DOMAIN file
    <3>1. c \in DOMAIN channels /\ c \in DOMAIN extra /\ extra'[c] = extra[c]
      BY <2>4, <1>1 DEF LoadChanModes, ModesInv, ExtraOK
    <3>2. ~channels'[c] => ~channels[c]
      BY <2>4, <3>1, <1>1 DEF Closed
    <3>3. QED
      BY <3>1, <3>2 DEF ModesInv, ExtraOK, ByDefcon
  <2>5. QED
    BY <2>3, <2>4
<1>5. extra' \in [DOMAIN extra' -> Extras]
  BY <1>4 DEF LoadChanModes
<1>6. ExtraOK'
  BY <1>1, <1>4, <1>5 DEF LoadChanModes, ModesInv, ExtraOK
<1>7. NothingLeftBehind'
  <2>1. \A c \in ByDefcon' : c \in ByDefcon
    BY <1>4 DEF ByDefcon
  <2>2. QED
    BY <2>1 DEF LoadChanModes, ModesInv, NothingLeftBehind, Live
<1>8. QED
  BY <1>3, <1>6, <1>7 DEF ModesInv

\* Every +R that a lockdown has set is gone when the lockdown is over, but for
\* lockdowns that nothing ends: whatever other modules, dumps and channel
\* operators do with the same mode.
THEOREM LockdownsLeaveNothingBehind ==
    ModesSpec => [](TypeOK /\ TimerKnown /\ NothingLeftBehind)
<1>1. ModesInv /\ UNCHANGED modeVars => ModesInv'
  BY DEF modeVars, vars, ModesInv, IInv, TypeOK, TimerKnown, ExtraOK, NothingLeftBehind,
         ByDefcon, Live
<1>2. ModesInv /\ [ModesNext]_modeVars => ModesInv'
  BY <1>1, LockdownStepOK, OthersSetModesOK, SetTopicOK, SaveChanModesOK,
     LoadChanModesOK DEF ModesNext
<1>3. ModesInv => TypeOK /\ TimerKnown /\ NothingLeftBehind
  BY DEF ModesInv, IInv
<1>4. QED
  BY <1>2, <1>3, ModesInitInv, PTL DEF ModesSpec

\* The levels and pointers by themselves: a rejected command leaves no level
\* that is none.
THEOREM TypeCorrect == ModesSpec => []TypeOK
BY LockdownsLeaveNothingBehind, PTL
=============================================================================
