------------------------------- MODULE Wumpus -------------------------------
(***************************************************************************)
(* The game service of src/src/wumpus.c.  One global game_t is changed by  *)
(* the commands of IRC users, by the user_delete hook, by two timers of    *)
(* the event loop and by loading and unloading the module.  Handlers run   *)
(* to completion, so each is one action; every rand() is a free choice.    *)
(* Operators named Bad... are wrong variants of the one below them; the    *)
(* properties have to notice them.                                         *)
(***************************************************************************)
EXTENDS Integers, FiniteSets

CONSTANTS
    Users,        \* the people who can be on the network
    Mazes,        \* the mazes build_maze can draw, functions room -> 3 exits
    Objects,      \* which of "pit", "bats" and "arrows" it scatters
    WantSizes,    \* the maze sizes given to START (100 when none is given)
    MinSize,      \* 10: build_maze refuses less
    MaxSize,      \* 300: start_game caps wantsize
    UIntRange,    \* 2^32: wantsize is an unsigned int
    StartArrows,  \* 10
    MoreArrows,   \* 5, found in a room by a player who has none
    PlayerHp,     \* 30
    PlayerWound,  \* 10
    WumpusHp,     \* 70
    WumpusWound,  \* 5
    Speed,        \* 60, the period of the wumpus's first moves
    SpeedUp,      \* 3, what each wound takes off the period
    StartDelay,   \* 60, how long a lobby stays open
    TimerIds      \* identities of event loop timers

VARIABLES
    loaded,       \* the module is loaded
    online,       \* the users connected to the network
    player,       \* wumpus.players: what is known of each user who joined
    running, starting, wantsize,
    exits,        \* the exits of every room; NoMaze when rmemctx is NULL
    contents,     \* room -> what it contains
    occupants,    \* room -> the room's own list of players
    wumpus,       \* the room the wumpus is in
    wump_hp, speed,
    moveTimer, startTimer,  \* the two timer pointers of game_t
    timers        \* the timers the event loop holds, by identity

gameVars  == <<player, running, exits, contents, occupants, wumpus>>
timerVars == <<moveTimer, startTimer, timers>>
vars == <<loaded, online, gameVars, starting, wantsize, wump_hp, speed,
          timerVars>>

(***************************************************************************)
(* Values.                                                                 *)
(***************************************************************************)
Contents == {"nothing", "wumpus", "pit", "bats", "arrows", "crystalball"}

NoRoom == -1                      \* a NULL location, or wumpus.wumpus = -1
NoMaze == [r \in {} |-> {}]       \* rmemctx = NULL
Null   == "null"
Freed  == "freed"                 \* a pointer to a timer that is gone

Players == DOMAIN player
Rooms   == DOMAIN exits
Exits(r) == {exits[r][i] : i \in 1..3}

\* The j-th exit of room r: a room other than r is taken as it comes; only when
\* the first draw was r itself are the redraws compared with the exits so far.
NextExit(r, drawn, size) ==
    LET direct == (0 .. size - 1) \ {r}
        redraw == direct \ drawn
    IN  direct \cup redraw

\* The mazes the loop over the rooms can produce.
Buildable(m) ==
    \E size \in MinSize .. MaxSize :
        /\ DOMAIN m = 0 .. size - 1
        /\ \A r \in DOMAIN m :
              /\ DOMAIN m[r] = 1..3
              /\ \A j \in 1..3 :
                    m[r][j] \in NextExit(r, {m[r][i] : i \in 1 .. j - 1}, size)

ASSUME SizeAssumption ==
    /\ MinSize \in Nat /\ MinSize >= 2
    /\ MaxSize \in Nat /\ MaxSize >= MinSize
    /\ UIntRange \in Nat /\ UIntRange > MaxSize
    /\ WantSizes \subseteq (-(UIntRange - MaxSize) .. UIntRange - 1)

ASSUME MazeAssumption ==
    /\ Objects \subseteq {"pit", "bats", "arrows"}
    /\ \A m \in Mazes : Buildable(m)

ASSUME PlayerAssumption ==
    /\ IsFiniteSet(Users)
    /\ StartArrows \in Nat /\ MoreArrows \in Nat /\ MoreArrows <= StartArrows
    /\ PlayerWound \in Nat /\ PlayerWound > 0
    /\ PlayerHp \in Nat /\ PlayerHp > 0

\* 5 * 60 >= 3 * 70: a dying wumpus would still have a positive period.
ASSUME SpeedAssumption ==
    /\ WumpusHp \in Nat /\ WumpusHp > 0
    /\ WumpusWound \in Nat /\ WumpusWound > 0
    /\ SpeedUp \in Nat /\ SpeedUp > 0
    /\ Speed \in Nat /\ WumpusWound * Speed >= SpeedUp * WumpusHp
    /\ StartDelay \in Nat /\ StartDelay >= Speed

ASSUME TimerAssumption ==
    /\ Null \notin TimerIds /\ Freed \notin TimerIds /\ TimerIds # {}
    /\ \A a, b \in TimerIds : TimerIds \ {a, b} # {}

(***************************************************************************)
(* The event loop's timers (libmowgli, outside this repository).           *)
(***************************************************************************)
NewTimer == CHOOSE t \in TimerIds : t \notin DOMAIN timers

AddTimer(ts, t, kind, period) ==
    [x \in DOMAIN ts \cup {t} |->
        IF x = t THEN [kind |-> kind, left |-> period, period |-> period]
        ELSE ts[x]]

\* Destroying NULL is a logged no-op; destroying what is gone frees nothing live.
Destroy(ts, t) == [x \in DOMAIN ts \ {t} |-> ts[x]]

Rearm(ts, t) ==
    [x \in DOMAIN ts |->
        IF x = t THEN [ts[x] EXCEPT !.left = ts[x].period] ELSE ts[x]]

Due(t) == timers[t].left = 0

(***************************************************************************)
(* The parts that handlers call.                                           *)
(***************************************************************************)
\* resign_player for every user in S
Resign(ps, S) == [u \in DOMAIN ps \ S |-> ps[u]]
BadLeaveRooms(S) == occupants
LeaveRooms(S) == [r \in DOMAIN occupants |-> occupants[r] \ S]

\* end_game, except for its timer
ClearGame ==
    /\ player' = [u \in {} |-> {}]
    /\ exits' = NoMaze
    /\ contents' = NoMaze
    /\ occupants' = NoMaze
    /\ wumpus' = NoRoom
    /\ running' = FALSE

BadDropMoveTimer(ts) == timers' = ts /\ moveTimer' = Null

\* end_game, its timer: the pointer is destroyed and set to NULL
DropMoveTimer(ts) ==
    /\ timers' = Destroy(ts, moveTimer)
    /\ moveTimer' = Null

BadCheckLastPersonAlive(ps, cs, w) ==
    IF Cardinality(DOMAIN ps) = 1
    THEN ClearGame
    ELSE /\ player' = ps
         /\ contents' = cs
         /\ occupants' = LeaveRooms(Players \ DOMAIN ps)
         /\ wumpus' = w
         /\ UNCHANGED <<exits, running>>

\* check_last_person_alive, once the dead are removed
CheckLastPersonAlive(ps, cs, w) ==
    IF Cardinality(DOMAIN ps) <= 1
    THEN ClearGame
    ELSE /\ player' = ps
         /\ contents' = cs
         /\ occupants' = LeaveRooms(Players \ DOMAIN ps)
         /\ wumpus' = w
         /\ UNCHANGED <<exits, running>>

\* regen_obj
Regen(cs, obj) == {[cs EXCEPT ![r] = obj] : r \in Rooms}

BadMoveWumpus(ps) ==
    \E cs \in Regen(contents, contents[wumpus]), tr \in Exits(wumpus) :
        CheckLastPersonAlive(
            Resign(ps, {u \in Players : player[u].location = wumpus}),
            [[cs EXCEPT ![wumpus] = "nothing"] EXCEPT ![tr] = "wumpus"],
            tr)

\* move_wumpus with a maze: what its old room contains is generated again
\* somewhere, that room is emptied, and the wumpus goes through a random exit,
\* on top of what was there, and eats who is there.
MoveWumpus(ps) ==
    \E cs \in Regen(contents, contents[wumpus]), tr \in Exits(wumpus) :
        CheckLastPersonAlive(
            Resign(ps, {u \in Players : player[u].location = tr}),
            [[cs EXCEPT ![wumpus] = "nothing"] EXCEPT ![tr] = "wumpus"],
            tr)

BadEndOfGameTimer(ts) == DropMoveTimer(ts)

\* The timer of a game that its last step may have ended
EndOfGameTimer(ts) ==
    IF running' THEN timers' = ts /\ UNCHANGED moveTimer ELSE DropMoveTimer(ts)

(***************************************************************************)
(* Commands before the game.                                               *)
(***************************************************************************)
AsUnsigned(n) == IF n < 0 THEN UIntRange + n ELSE n

BadStart(u, size) ==
    /\ loaded /\ u \in online
    /\ ~running /\ ~starting
    /\ starting' = TRUE
    /\ wantsize' = AsUnsigned(size)
    /\ UNCHANGED <<loaded, online, gameVars, wump_hp, speed, timerVars>>

Start(u, size) ==
    /\ loaded /\ u \in online
    /\ ~running /\ ~starting
    /\ starting' = TRUE
    /\ wantsize' = AsUnsigned(size)
    /\ startTimer' = NewTimer
    /\ timers' = AddTimer(timers, NewTimer, "start", StartDelay)
    /\ UNCHANGED <<loaded, online, gameVars, wump_hp, speed, moveTimer>>

NewPlayer == [location |-> NoRoom, arrows |-> StartArrows, hp |-> PlayerHp]

BadJoin(u) ==
    /\ loaded /\ u \in online
    /\ u \notin Players
    /\ player' = [x \in Players \cup {u} |->
                     IF x = u THEN NewPlayer ELSE player[x]]
    /\ UNCHANGED <<loaded, online, running, starting, wantsize, exits,
                   contents, occupants, wumpus, wump_hp, speed, timerVars>>

Join(u) ==
    /\ loaded /\ u \in online
    /\ starting /\ ~running
    /\ u \notin Players
    /\ player' = [x \in Players \cup {u} |->
                     IF x = u THEN NewPlayer ELSE player[x]]
    /\ UNCHANGED <<loaded, online, running, starting, wantsize, exits,
                   contents, occupants, wumpus, wump_hp, speed, timerVars>>

(***************************************************************************)
(* The start timer, which fires once.                                      *)
(***************************************************************************)
\* What pits, bats, arrows and last the crystal ball can leave in the rooms
\* once the wumpus is put in room w: later objects replace earlier ones.
Layouts(rooms, w) ==
    {c \in [rooms -> {"nothing", "wumpus", "crystalball"} \cup Objects] :
        /\ \E ball \in rooms :
              \A r \in rooms : c[r] = "crystalball" <=> r = ball
        /\ \A r \in rooms : c[r] = "wumpus" => r = w
        /\ c[w] # "nothing"}

\* The loop frees a timer that fires once: pointers to it are stale from then on.
FreeStartTimer(ts, t) ==
    /\ timers' = Destroy(ts, t)
    /\ startTimer' = IF startTimer = t THEN Freed ELSE startTimer

Capped == IF wantsize >= MaxSize THEN MaxSize ELSE wantsize

StartGame(t) ==
    /\ loaded
    /\ t \in DOMAIN timers /\ timers[t].kind = "start" /\ Due(t)
    /\ starting' = FALSE
    /\ UNCHANGED <<loaded, online>>
    /\ \/ /\ Cardinality(Players) < 2         \* "Not enough players to play."
          /\ FreeStartTimer(timers, t)
          /\ UNCHANGED <<gameVars, wantsize, wump_hp, speed, moveTimer>>
       \/ /\ Cardinality(Players) >= 2        \* "Maze generation failed"
          /\ wantsize' = Capped
          /\ Capped < MinSize
          /\ ClearGame
          /\ FreeStartTimer(Destroy(timers, moveTimer), t)
          /\ moveTimer' = Null
          /\ UNCHANGED <<wump_hp, speed>>
       \/ /\ Cardinality(Players) >= 2        \* "The game has started!"
          /\ wantsize' = Capped
          /\ Capped >= MinSize
          /\ exits' \in {m \in Mazes : DOMAIN m = 0 .. Capped - 1}
          /\ wumpus' \in DOMAIN exits'
          /\ contents' \in Layouts(DOMAIN exits', wumpus')
          /\ \E at \in [Players -> DOMAIN exits'] :
                /\ player' = [u \in Players |->
                                 [player[u] EXCEPT !.location = at[u]]]
                /\ occupants' = [r \in DOMAIN exits' |->
                                    {u \in Players : at[u] = r}]
          /\ running' = TRUE
          /\ wump_hp' = WumpusHp
          /\ speed' = Speed
          /\ moveTimer' = NewTimer
          /\ startTimer' = Null
          /\ timers' = Destroy(AddTimer(timers, NewTimer, "move", Speed), t)

(***************************************************************************)
(* The move timer, which repeats: the loop rearms it unless the handler    *)
(* destroyed it.                                                           *)
(***************************************************************************)
MoveTimerFires(t) ==
    /\ loaded
    /\ t \in DOMAIN timers /\ timers[t].kind = "move" /\ Due(t)
    /\ UNCHANGED <<loaded, online, starting, wantsize, wump_hp, speed,
                   startTimer>>
    /\ \/ /\ exits = NoMaze       \* "move_wumpus() called while game not running!"
          /\ timers' = Rearm(Destroy(timers, moveTimer), t)
          /\ moveTimer' = IF moveTimer = Null THEN Null ELSE Freed
          /\ UNCHANGED gameVars
       \/ /\ exits # NoMaze
          /\ MoveWumpus(player)
          /\ EndOfGameTimer(Rearm(timers, t))

(***************************************************************************)
(* Commands during the game.                                               *)
(***************************************************************************)
Playing(u) == loaded /\ u \in Players /\ running

BadAfterPickup(cs, dest) == Regen(cs, cs[dest])

\* What the arrows or the crystal ball found in dest become: they turn up in a
\* random room.
AfterPickup(cs, dest) ==
    IF cs[dest] \in {"arrows", "crystalball"}
    THEN Regen([cs EXCEPT ![dest] = "nothing"], cs[dest])
    ELSE {cs}

\* The rest of move_player once the room dest is known: the wumpus, then a pit,
\* kill; otherwise the player picks up what is there and changes rooms.
Arrive(u, dest, cs) ==
    IF dest = wumpus \/ cs[dest] = "pit"
    THEN /\ CheckLastPersonAlive(Resign(player, {u}), cs, wumpus)
         /\ EndOfGameTimer(timers)
    ELSE /\ contents' \in AfterPickup(cs, dest)
         /\ player' = [player EXCEPT
               ![u] = [location |-> dest, hp |-> @.hp,
                       arrows |-> IF cs[dest] = "arrows" /\ @.arrows = 0
                                  THEN MoreArrows ELSE @.arrows]]
         /\ occupants' = [r \in Rooms |->
                             IF r = dest THEN occupants[r] \cup {u}
                             ELSE occupants[r] \ {u}]
         /\ UNCHANGED <<exits, wumpus, running, moveTimer, timers>>

\* move_player.  Bats carry the player, and themselves, to a random room.
Move(u, id) ==
    /\ Playing(u)
    /\ id \in Exits(player[u].location)
    /\ \/ /\ contents[id] = "bats"
          /\ \E target \in Rooms :
                Arrive(u, target, [[contents EXCEPT ![id] = "nothing"]
                                            EXCEPT ![target] = "bats"])
       \/ /\ contents[id] # "bats"
          /\ Arrive(u, id, contents)
    /\ UNCHANGED <<loaded, online, starting, wantsize, wump_hp, speed,
                   startTimer>>

\* The shooter's arrow is gone whatever it meets.
Loosed(u) == [player EXCEPT ![u].arrows = @ - 1]

BadShootAnArrow(u, target) ==
    /\ Playing(u)
    /\ target \in Exits(player[u].location)
    /\ UNCHANGED <<loaded, online, starting, wantsize, startTimer>>

ShootAnArrow(u, target) ==
    /\ Playing(u)
    /\ player[u].arrows > 0
    /\ target \in Exits(player[u].location)
    /\ player[u].location # target
    /\ UNCHANGED <<loaded, online, starting, wantsize, startTimer>>

ShootNothing(u, target) ==
    /\ ShootAnArrow(u, target)
    /\ occupants[target] = {} /\ contents[target] # "wumpus"
    /\ player' = Loosed(u)
    /\ UNCHANGED <<running, exits, contents, occupants, wumpus, wump_hp, speed,
                   moveTimer, timers>>

\* tp stands for the head of the room's list; hit is rand() % 3 < 2.
ShootPlayer(u, target, tp, hit) ==
    /\ ShootAnArrow(u, target)
    /\ tp \in occupants[target]
    /\ IF hit /\ player[tp].hp <= PlayerWound
       THEN /\ player' = Resign(Loosed(u), {tp})
            /\ occupants' = LeaveRooms({tp})
       ELSE /\ player' = IF hit
                         THEN [Loosed(u) EXCEPT ![tp].hp = @ - PlayerWound]
                         ELSE Loosed(u)
            /\ UNCHANGED occupants
    /\ UNCHANGED <<running, exits, contents, wumpus, wump_hp, speed, moveTimer,
                   timers>>

BadAngrier == wump_hp' = wump_hp - WumpusWound /\ speed' = speed - 2 * SpeedUp

Angrier == wump_hp' = wump_hp - WumpusWound /\ speed' = speed - SpeedUp

BadHurryUp == moveTimer' = Null /\ timers' = Destroy(timers, moveTimer)

HurryUp ==
    /\ moveTimer' = NewTimer
    /\ timers' = AddTimer(Destroy(timers, moveTimer), NewTimer, "move", speed')

\* A wound that does not kill moves the wumpus at once and then replaces the
\* move timer by a faster one, also when that move ended the game.
ShootWumpus(u, target, hit) ==
    /\ ShootAnArrow(u, target)
    /\ occupants[target] = {} /\ contents[target] = "wumpus"
    /\ \/ /\ hit /\ wump_hp > 0 /\ wump_hp <= WumpusWound
          /\ ClearGame
          /\ DropMoveTimer(timers)
          /\ UNCHANGED <<wump_hp, speed>>
       \/ /\ hit /\ wump_hp > WumpusWound
          /\ Angrier
          /\ MoveWumpus(Loosed(u))
          /\ HurryUp
       \/ /\ ~hit \/ wump_hp <= 0
          /\ MoveWumpus(Loosed(u))
          /\ EndOfGameTimer(timers)
          /\ UNCHANGED <<wump_hp, speed>>

CmdResign(u) ==
    /\ Playing(u)
    /\ player' = Resign(player, {u})
    /\ occupants' = LeaveRooms({u})
    /\ UNCHANGED <<loaded, online, running, starting, wantsize, exits, contents,
                   wumpus, wump_hp, speed, timerVars>>

Reset ==
    /\ loaded /\ running
    /\ ClearGame
    /\ DropMoveTimer(timers)
    /\ starting' = FALSE
    /\ UNCHANGED <<loaded, online, wantsize, wump_hp, speed, startTimer>>

(***************************************************************************)
(* The network, the clock and the module itself.                           *)
(***************************************************************************)
UserAdded(u) ==
    /\ u \notin online
    /\ online' = online \cup {u}
    /\ UNCHANGED <<loaded, gameVars, starting, wantsize, wump_hp, speed,
                   timerVars>>

BadUserDeleted(u) ==
    /\ u \in online
    /\ online' = online \ {u}
    /\ player' = IF running THEN Resign(player, {u}) ELSE player
    /\ occupants' = LeaveRooms({u})
    /\ UNCHANGED <<loaded, running, starting, wantsize, exits, contents, wumpus,
                   wump_hp, speed, timerVars>>

UserDeleted(u) ==
    /\ u \in online
    /\ online' = online \ {u}
    /\ player' = Resign(player, {u})
    /\ occupants' = LeaveRooms({u})
    /\ UNCHANGED <<loaded, running, starting, wantsize, exits, contents, wumpus,
                   wump_hp, speed, timerVars>>

\* Time passes once the timers that are due have run.
Tick ==
    /\ DOMAIN timers # {}
    /\ \A t \in DOMAIN timers : ~Due(t)
    /\ timers' = [t \in DOMAIN timers |-> [timers[t] EXCEPT !.left = @ - 1]]
    /\ UNCHANGED <<loaded, online, gameVars, starting, wantsize, wump_hp, speed,
                   moveTimer, startTimer>>

\* The state of a freshly loaded image: all zero.
Zeroed ==
    /\ running' = FALSE /\ starting' = FALSE /\ wantsize' = 0
    /\ player' = [u \in {} |-> {}]
    /\ exits' = NoMaze /\ contents' = NoMaze /\ occupants' = NoMaze
    /\ wumpus' = 0 /\ wump_hp' = 0 /\ speed' = 0
    /\ moveTimer' = Null /\ startTimer' = Null

\* mod_deinit: end_game when a game runs, then both timers
Unload ==
    /\ loaded /\ loaded' = FALSE
    /\ timers' = Destroy(Destroy(timers, moveTimer), startTimer)
    /\ Zeroed
    /\ UNCHANGED online

Load ==
    /\ ~loaded /\ loaded' = TRUE
    /\ UNCHANGED <<online, gameVars, starting, wantsize, wump_hp, speed,
                   timerVars>>

Init ==
    /\ loaded = TRUE /\ online = {}
    /\ running = FALSE /\ starting = FALSE /\ wantsize = 0
    /\ player = [u \in {} |-> {}]
    /\ exits = NoMaze /\ contents = NoMaze /\ occupants = NoMaze
    /\ wumpus = 0 /\ wump_hp = 0 /\ speed = 0
    /\ moveTimer = Null /\ startTimer = Null
    /\ timers = [t \in {} |-> {}]

TimerFires == \E t \in TimerIds : StartGame(t) \/ MoveTimerFires(t)

Next ==
    \/ \E u \in Users :
          \/ \E size \in WantSizes : Start(u, size)
          \/ Join(u)
          \/ \E id \in Rooms : Move(u, id)
          \/ \E target \in Rooms : ShootNothing(u, target)
          \/ \E target \in Rooms, tp \in Users, hit \in BOOLEAN :
                ShootPlayer(u, target, tp, hit)
          \/ \E target \in Rooms, hit \in BOOLEAN : ShootWumpus(u, target, hit)
          \/ CmdResign(u)
          \/ UserAdded(u)
          \/ UserDeleted(u)
    \/ Reset
    \/ TimerFires
    \/ Tick
    \/ Unload
    \/ Load

Spec == Init /\ [][Next]_vars

\* The event loop always gets back to its timers, and its clock goes on.
FairSpec == Spec /\ WF_vars(TimerFires) /\ WF_vars(Tick)

(***************************************************************************)
(* Properties.                                                             *)
(***************************************************************************)
PlayerRecord == [location : {NoRoom} \cup (0 .. MaxSize - 1),
                 arrows : 0 .. StartArrows, hp : 1 .. PlayerHp]
TimerRecord == [kind : {"start", "move"}, left : Nat, period : Nat \ {0}]
Pointers == {Null, Freed} \cup TimerIds

\* Every variable of the game has the type the C declarations and the handlers
\* give it; arrows never exceed the ten of a new player and no player at zero
\* hp is kept.
TypeOK ==
    /\ loaded \in BOOLEAN /\ running \in BOOLEAN /\ starting \in BOOLEAN
    /\ online \subseteq Users
    /\ Players \subseteq Users /\ player \in [Players -> PlayerRecord]
    /\ wantsize \in 0 .. UIntRange - 1
    /\ exits = NoMaze \/ exits \in Mazes
    /\ contents \in [Rooms -> Contents]
    /\ occupants \in [Rooms -> SUBSET Users]
    /\ wumpus \in Rooms \cup {NoRoom, 0}
    /\ wump_hp \in 0 .. WumpusHp /\ speed \in 0 .. Speed
    /\ moveTimer \in Pointers /\ startTimer \in Pointers
    /\ DOMAIN timers \subseteq TimerIds
    /\ timers \in [DOMAIN timers -> TimerRecord]

\* The maze exists exactly while a game runs; then every player and the wumpus
\* are in one of its rooms, and the room's own list of players says the same
\* as the players' locations (move_player, resign_player and init_game keep
\* the two in step by hand).
RoomsAgree ==
    /\ running <=> exits # NoMaze
    /\ running => wumpus \in Rooms
    /\ running => \A u \in Players : player[u].location \in Rooms
    /\ \A r \in Rooms : occupants[r] = {u \in Players : player[u].location = r}

\* Nobody who has left the network is still a player, so no player_t holds a
\* freed user_t (the user_delete hook, in the lobby as well as in a game).
PlayersOnline == Players \subseteq online

\* The lists that the handlers keep by hand agree: room by room with the
\* players' locations, and player by player with the users on the network.
GameAgrees == RoomsAgree /\ PlayersOnline

\* While a game runs, the period of the wumpus's moves has fallen in step with
\* its wounds and both stay positive: a period of zero would turn the move
\* timer into one that fires only once.
SpeedMatchesWounds ==
    running =>
        /\ WumpusWound * (Speed - speed) = SpeedUp * (WumpusHp - wump_hp)
        /\ wump_hp > 0 /\ speed > 0

\* Each live timer is the one its pointer in game_t holds, so there is never a
\* second move timer and mod_deinit leaves none behind.
TimersOwned ==
    \A t \in DOMAIN timers :
        t = IF timers[t].kind = "move" THEN moveTimer ELSE startTimer

\* A lobby has its timer, and a running game has a move timer whose period is
\* the current speed.
TimersDrive ==
    /\ starting => startTimer \in DOMAIN timers
    /\ running => /\ moveTimer \in DOMAIN timers
                  /\ timers[moveTimer].period = speed
                  /\ startTimer = Null

\* Within a game the number of rooms holding an object never grows: objects
\* are carried, picked up, regenerated or trampled, never duplicated, above all
\* not the one crystal ball.
ObjectsNeverMultiply ==
    [][running /\ running' =>
        \A obj \in {"pit", "bats", "arrows", "crystalball"} :
            Cardinality({r \in Rooms : contents'[r] = obj})
                <= Cardinality({r \in Rooms : contents[r] = obj})]_vars

\* Once a game is under way nobody survives a step that brings them and the
\* wumpus together, whoever of the two moved.
MeetingIsFatal ==
    [][running /\ running' =>
        \A u \in DOMAIN player' :
            player'[u].location = wumpus' =>
                player[u].location = wumpus /\ wumpus' = wumpus]_vars

\* A lobby closes, by a game, by a refusal or with the module.
LobbyCloses == starting ~> ~starting

\* A game in which resignations, arrows or disconnections, none of which looks
\* for a winner, left at most one player ends all the same: the wumpus's next
\* move looks.
LonelyGameEnds == (running /\ Cardinality(Players) <= 1) ~> ~running

\* Neither a lobby nor a game without a second player blocks the service.
EveryGameEnds == LobbyCloses /\ LonelyGameEnds

\* The wumpus leaves every room it is in while the game lasts; shots at it
\* restart its timer but cannot hold it for ever.
WumpusNeverRests ==
    \A r \in 0 .. MaxSize - 1 :
        (running /\ wumpus = r) ~> ~(running /\ wumpus = r)

\* What a game looks like from outside.
Phase == CASE ~loaded -> "gone"
           [] running -> "playing"
           [] starting -> "lobby"
           [] OTHER -> "idle"

\* The service implements the life of a game: whatever the order of commands,
\* deaths, disconnections and timers, games have two players or more when they
\* begin, nobody enters one that is under way, and a game ends empty.
Lifecycle == INSTANCE WumpusLifecycle WITH phase <- Phase, roster <- Players
LifecycleHolds == Lifecycle!Spec
=============================================================================
