---------------------------- MODULE WumpusProofs ----------------------------
(***************************************************************************)
(* Proofs about Wumpus, for every value of its constants.                  *)
(***************************************************************************)
EXTENDS Wumpus, FiniteSetTheorems, TLAPS

(***************************************************************************)
(* The maze.                                                               *)
(***************************************************************************)
\* Every exit of a room of a maze the builder can draw leads to another room
\* of that maze (build_maze redraws while the draw is the room itself).
LEMMA MazeFacts ==
    ASSUME NEW m \in Mazes
    PROVE  /\ DOMAIN m \subseteq 0 .. MaxSize - 1
           /\ 0 \in DOMAIN m
           /\ m # NoMaze
           /\ \A r \in DOMAIN m, i \in 1..3 : m[r][i] \in DOMAIN m \ {r}
<1>1. PICK size \in MinSize .. MaxSize :
        /\ DOMAIN m = 0 .. size - 1
        /\ \A r \in DOMAIN m :
              /\ DOMAIN m[r] = 1..3
              /\ \A j \in 1..3 :
                    m[r][j] \in NextExit(r, {m[r][i] : i \in 1 .. j - 1}, size)
  BY MazeAssumption DEF Buildable
<1>2. size \in Nat /\ size >= 2 /\ size <= MaxSize
  BY SizeAssumption
<1>3. DOMAIN m \subseteq 0 .. MaxSize - 1 /\ 0 \in DOMAIN m
  BY <1>1, <1>2, SizeAssumption
<1>4. m # NoMaze
  BY <1>3 DEF NoMaze
<1>5. ASSUME NEW r \in DOMAIN m, NEW i \in 1..3
      PROVE  m[r][i] \in DOMAIN m \ {r}
  BY <1>1 DEF NextExit
<1>6. QED
  BY <1>3, <1>4, <1>5

\* The same of the maze in play.
LEMMA MazeExits ==
    ASSUME exits \in Mazes
    PROVE  /\ Rooms \subseteq 0 .. MaxSize - 1
           /\ \A r \in Rooms : Exits(r) \subseteq Rooms \ {r}
BY MazeFacts DEF Rooms, Exits

(***************************************************************************)
(* The variables of the game itself.                                       *)
(***************************************************************************)
GameType ==
    /\ running \in BOOLEAN
    /\ Players \subseteq Users /\ player \in [Players -> PlayerRecord]
    /\ exits = NoMaze \/ exits \in Mazes
    /\ contents \in [Rooms -> Contents]
    /\ occupants \in [Rooms -> SUBSET Users]
    /\ wumpus \in Rooms \cup {NoRoom, 0}

GameInv == GameType /\ RoomsAgree

\* end_game leaves an empty, consistent game.
LEMMA ClearGameOK == ClearGame => GameInv' /\ Players' = {}
BY DEF ClearGame, GameInv, GameType, RoomsAgree, Players, Rooms, NoMaze

\* Removing dead players and moving the wumpus keeps the game consistent, with
\* or without a winner.
LEMMA CheckLastPersonAliveOK ==
    ASSUME GameInv, running,
           NEW ps, DOMAIN ps \subseteq Players,
           ps \in [DOMAIN ps -> PlayerRecord],
           \A u \in DOMAIN ps : ps[u].location = player[u].location,
           NEW cs \in [Rooms -> Contents], NEW w \in Rooms,
           CheckLastPersonAlive(ps, cs, w)
    PROVE  GameInv' /\ Players' \subseteq Players
<1>1. CASE ClearGame
  BY <1>1, ClearGameOK
<1>2. CASE /\ player' = ps /\ contents' = cs
           /\ occupants' = LeaveRooms(Players \ DOMAIN ps)
           /\ wumpus' = w /\ UNCHANGED <<exits, running>>
  <2>1. Players' = DOMAIN ps /\ Rooms' = Rooms
    BY <1>2 DEF Players, Rooms
  <2>2. occupants' = [r \in Rooms |-> occupants[r] \ (Players \ DOMAIN ps)]
    BY <1>2 DEF LeaveRooms, GameInv, GameType
  <2>3. GameType'
    BY <1>2, <2>1, <2>2 DEF GameInv, GameType
  <2>4. \A r \in Rooms' :
            occupants'[r] = {u \in Players' : player'[u].location = r}
    BY <1>2, <2>1, <2>2 DEF GameInv, RoomsAgree
  <2>5. RoomsAgree'
    BY <1>2, <2>1, <2>4 DEF GameInv, RoomsAgree
  <2>6. QED
    BY <2>1, <2>3, <2>5 DEF GameInv
<1>3. QED
  BY <1>1, <1>2 DEF CheckLastPersonAlive

\* The wumpus's move keeps the game consistent, also when the shooter's quiver
\* changed just before it.
LEMMA MoveWumpusOK ==
    ASSUME GameInv, running,
           NEW ps \in [Players -> PlayerRecord],
           \A u \in Players : ps[u].location = player[u].location,
           MoveWumpus(ps)
    PROVE  GameInv' /\ Players' \subseteq Players
<1>1. exits \in Mazes /\ wumpus \in Rooms
  BY DEF GameInv, GameType, RoomsAgree
<1>2. PICK r \in Rooms, tr \in Exits(wumpus) :
        CheckLastPersonAlive(
            Resign(ps, {u \in Players : player[u].location = tr}),
            [[[contents EXCEPT ![r] = contents[wumpus]] EXCEPT ![wumpus] = "nothing"]
                EXCEPT ![tr] = "wumpus"],
            tr)
  BY DEF MoveWumpus, Regen
<1> DEFINE S  == {u \in Players : player[u].location = tr}
           cs == [[[contents EXCEPT ![r] = contents[wumpus]]
                     EXCEPT ![wumpus] = "nothing"] EXCEPT ![tr] = "wumpus"]
<1>3. tr \in Rooms
  BY <1>1, <1>2, MazeExits
<1>4. cs \in [Rooms -> Contents]
  BY <1>1, <1>3 DEF GameInv, GameType, Contents
<1>5. /\ DOMAIN Resign(ps, S) = Players \ S
      /\ Resign(ps, S) \in [DOMAIN Resign(ps, S) -> PlayerRecord]
      /\ \A u \in DOMAIN Resign(ps, S) :
            Resign(ps, S)[u].location = player[u].location
  BY DEF Resign
<1>6. CheckLastPersonAlive(Resign(ps, S), cs, tr)
  BY <1>2
<1> HIDE DEF S, cs
<1>7. QED
  BY <1>3, <1>4, <1>5, <1>6, CheckLastPersonAliveOK

\* A player's arrival in a room, fatal or not, keeps the game consistent.
LEMMA ArriveOK ==
    ASSUME GameInv, running,
           NEW u \in Players, NEW dest \in Rooms,
           NEW cs \in [Rooms -> Contents],
           Arrive(u, dest, cs)
    PROVE  GameInv' /\ Players' \subseteq Players
<1>1. exits \in Mazes /\ wumpus \in Rooms
  BY DEF GameInv, GameType, RoomsAgree
<1>2. CASE CheckLastPersonAlive(Resign(player, {u}), cs, wumpus)
  <2>1. /\ DOMAIN Resign(player, {u}) = Players \ {u}
        /\ Resign(player, {u}) \in [DOMAIN Resign(player, {u}) -> PlayerRecord]
        /\ \A v \in DOMAIN Resign(player, {u}) :
              Resign(player, {u})[v].location = player[v].location
    BY DEF Resign, GameInv, GameType, Players
  <2>2. QED
    BY <1>1, <1>2, <2>1, CheckLastPersonAliveOK
<1>3. CASE /\ contents' \in AfterPickup(cs, dest)
           /\ player' = [player EXCEPT
                 ![u] = [location |-> dest, hp |-> @.hp,
                         arrows |-> IF cs[dest] = "arrows" /\ @.arrows = 0
                                    THEN MoreArrows ELSE @.arrows]]
           /\ occupants' = [r \in Rooms |->
                               IF r = dest THEN occupants[r] \cup {u}
                               ELSE occupants[r] \ {u}]
           /\ UNCHANGED <<exits, wumpus, running, moveTimer, timers>>
  <2>1. contents' \in [Rooms -> Contents]
    BY <1>3 DEF AfterPickup, Regen, Contents
  <2>2. Rooms' = Rooms /\ Players' = Players
    BY <1>3 DEF Rooms, Players
  <2>3. dest \in 0 .. MaxSize - 1
    BY <1>1, MazeExits
  <2>4. player[u].arrows \in 0 .. StartArrows
    BY DEF GameInv, GameType, PlayerRecord
  <2> DEFINE quiver == IF cs[dest] = "arrows" /\ player[u].arrows = 0
                       THEN MoreArrows
                       ELSE player[u].arrows
  <2>5. quiver \in 0 .. StartArrows
    BY <2>4, PlayerAssumption
  <2>6. player' = [player EXCEPT ![u] = [location |-> dest, hp |-> player[u].hp,
                                         arrows |-> quiver]]
    BY <1>3
  <2> HIDE DEF quiver
  <2>7. player' \in [Players -> PlayerRecord]
    BY <2>3, <2>5, <2>6 DEF GameInv, GameType, PlayerRecord
  <2>8. occupants' \in [Rooms -> SUBSET Users]
    BY <1>3 DEF GameInv, GameType
  <2>9. GameType'
    BY <1>3, <2>1, <2>2, <2>7, <2>8 DEF GameInv, GameType
  <2>10. \A v \in Players : player'[v].location =
                               IF v = u THEN dest ELSE player[v].location
    BY <2>6 DEF GameInv, GameType
  <2>11. RoomsAgree'
    BY <1>3, <2>2, <2>10 DEF GameInv, RoomsAgree
  <2>12. QED
    BY <2>2, <2>9, <2>11 DEF GameInv
<1>4. QED
  BY <1>2, <1>3 DEF Arrive

\* init_game puts every player in a room of the new maze, in both records.
LEMMA StartGameOK ==
    ASSUME GameInv, NEW t, StartGame(t)
    PROVE  GameInv' /\ Players' \subseteq Players
<1>1. CASE UNCHANGED gameVars
  BY <1>1 DEF gameVars, GameInv, GameType, RoomsAgree, Players, Rooms
<1>2. CASE ClearGame
  BY <1>2, ClearGameOK
<1>3. ASSUME exits' \in Mazes,
             wumpus' \in DOMAIN exits',
             contents' \in Layouts(DOMAIN exits', wumpus'),
             NEW at \in [Players -> DOMAIN exits'],
             player' = [u \in Players |-> [player[u] EXCEPT !.location = at[u]]],
             occupants' = [r \in DOMAIN exits' |-> {u \in Players : at[u] = r}],
             running' = TRUE
      PROVE  GameInv' /\ Players' \subseteq Players
  <2>1. Rooms' \subseteq 0 .. MaxSize - 1 /\ exits' # NoMaze
    BY <1>3, MazeFacts DEF Rooms
  <2>2. Players' = Players /\ Rooms' = DOMAIN exits'
    BY <1>3 DEF Players, Rooms
  <2>3. contents' \in [Rooms' -> Contents]
    BY <1>3, <2>2, MazeAssumption DEF Layouts, Contents
  <2>4. ASSUME NEW u \in Players
        PROVE  player'[u] \in PlayerRecord /\ player'[u].location = at[u]
    <3>1. player[u] \in PlayerRecord /\ at[u] \in 0 .. MaxSize - 1
      BY <1>3, <2>1, <2>2 DEF GameInv, GameType
    <3>2. player'[u] = [player[u] EXCEPT !.location = at[u]]
      BY <1>3
    <3>3. QED
      BY <3>1, <3>2 DEF PlayerRecord
  <2>5. player' \in [Players' -> PlayerRecord]
    BY <1>3, <2>2, <2>4
  <2>6. occupants' \in [Rooms' -> SUBSET Users]
    BY <1>3, <2>2 DEF GameInv, GameType
  <2>7. GameType'
    BY <1>3, <2>2, <2>3, <2>5, <2>6 DEF GameInv, GameType
  <2>8. RoomsAgree'
    BY <1>3, <2>1, <2>2, <2>4 DEF RoomsAgree
  <2>9. QED
    BY <2>2, <2>7, <2>8 DEF GameInv
<1>4. QED
  BY <1>1, <1>2, <1>3 DEF StartGame

\* Loosing an arrow changes nothing but the shooter's quiver.
LEMMA LoosedOK ==
    ASSUME GameType, NEW u \in Players, player[u].arrows > 0
    PROVE  /\ Loosed(u) \in [Players -> PlayerRecord]
           /\ \A v \in Players : Loosed(u)[v].location = player[v].location
           /\ \A v \in Players \ {u} : Loosed(u)[v] = player[v]
<1>1. ASSUME NEW v \in Players
      PROVE  /\ Loosed(u)[v] \in PlayerRecord
             /\ Loosed(u)[v].location = player[v].location
             /\ v # u => Loosed(u)[v] = player[v]
  <2>1. player[v] \in PlayerRecord
    BY DEF GameType
  <2>2. Loosed(u)[v] = IF v = u
                       THEN [player[v] EXCEPT !.arrows = player[v].arrows - 1]
                       ELSE player[v]
    BY DEF Loosed, Players
  <2>3. player[u].arrows - 1 \in 0 .. StartArrows
    BY PlayerAssumption DEF GameType, PlayerRecord
  <2>4. QED
    BY <2>1, <2>2, <2>3 DEF PlayerRecord
<1>2. Loosed(u) = [v \in Players |-> Loosed(u)[v]]
  BY DEF Loosed, Players, GameType
<1>3. QED
  BY <1>1, <1>2

\* A player who is shot loses hit points or leaves the game, in both records.
LEMMA ShootPlayerOK ==
    ASSUME GameInv, NEW u, NEW target, NEW tp, NEW hit \in BOOLEAN,
           ShootPlayer(u, target, tp, hit)
    PROVE  GameInv' /\ Players' \subseteq Players
<1>1. /\ running /\ u \in Players
      /\ player[u].location # target /\ player[u].arrows > 0
  BY DEF ShootPlayer, ShootAnArrow, Playing
<1>2. target \in Rooms
  BY <1>1, MazeExits DEF GameInv, GameType, RoomsAgree, ShootPlayer, ShootAnArrow
<1>3. tp \in Players /\ player[tp].location = target /\ tp # u
  BY <1>1, <1>2 DEF ShootPlayer, GameInv, RoomsAgree
<1>4. /\ Loosed(u) \in [Players -> PlayerRecord]
      /\ \A v \in Players : Loosed(u)[v].location = player[v].location
      /\ Loosed(u)[tp] = player[tp]
  BY <1>1, <1>3, LoosedOK DEF GameInv
<1>5. Rooms' = Rooms /\ wumpus' = wumpus /\ running' = running
      /\ exits' = exits /\ contents' = contents
  BY DEF ShootPlayer, Rooms
<1>6. CASE player' = Resign(Loosed(u), {tp}) /\ occupants' = LeaveRooms({tp})
  <2>1. /\ Players' = Players \ {tp}
        /\ player' \in [Players' -> PlayerRecord]
        /\ \A v \in Players' : player'[v].location = player[v].location
    BY <1>4, <1>6 DEF Resign, Players
  <2>2. occupants' = [r \in Rooms |-> occupants[r] \ {tp}]
    BY <1>6 DEF LeaveRooms, GameInv, GameType
  <2>3. QED
    BY <1>5, <2>1, <2>2 DEF GameInv, GameType, RoomsAgree
<1>7. CASE /\ player' = IF hit
                        THEN [Loosed(u) EXCEPT ![tp].hp = @ - PlayerWound]
                        ELSE Loosed(u)
           /\ ~(hit /\ player[tp].hp <= PlayerWound)
           /\ UNCHANGED occupants
  <2>1. hit => player[tp].hp - PlayerWound \in 1 .. PlayerHp
    BY <1>3, <1>7, PlayerAssumption DEF GameInv, GameType, PlayerRecord
  <2>2. /\ Players' = Players
        /\ player' \in [Players -> PlayerRecord]
        /\ \A v \in Players : player'[v].location = player[v].location
    BY <1>3, <1>4, <1>7, <2>1 DEF Players, PlayerRecord
  <2>3. QED
    BY <1>5, <1>7, <2>2 DEF GameInv, GameType, RoomsAgree
<1>8. QED
  BY <1>6, <1>7 DEF ShootPlayer

\* A shot at the wumpus: it dies, it moves, or both the game and the move end.
LEMMA ShootWumpusOK ==
    ASSUME GameInv, NEW u, NEW target, NEW hit \in BOOLEAN,
           ShootWumpus(u, target, hit)
    PROVE  GameInv' /\ Players' \subseteq Players
<1>1. running /\ u \in Players /\ player[u].arrows > 0
  BY DEF ShootWumpus, HurryUp, ShootAnArrow, Playing
<1>2. CASE ClearGame
  BY <1>2, ClearGameOK
<1>3. CASE MoveWumpus(Loosed(u))
  BY <1>1, <1>3, LoosedOK, MoveWumpusOK DEF GameInv
<1>4. QED
  BY <1>2, <1>3 DEF ShootWumpus, HurryUp

\* A shot at nothing.
LEMMA ShootNothingOK ==
    ASSUME GameInv, NEW u, NEW target, ShootNothing(u, target)
    PROVE  GameInv' /\ Players' \subseteq Players
<1>1. u \in Players /\ player[u].arrows > 0
  BY DEF ShootNothing, ShootAnArrow, Playing
<1>2. /\ player' \in [Players -> PlayerRecord] /\ Players' = Players
      /\ \A v \in Players : player'[v].location = player[v].location
  BY <1>1, LoosedOK DEF ShootNothing, GameInv, Players
<1>3. QED
  BY <1>2 DEF ShootNothing, GameInv, GameType, RoomsAgree, Rooms

\* Resignations and disconnections, in a game or in a lobby.
LEMMA ResignOK ==
    ASSUME GameInv, NEW u,
           player' = Resign(player, {u}), occupants' = LeaveRooms({u}),
           UNCHANGED <<running, exits, contents, wumpus>>
    PROVE  GameInv' /\ Players' = Players \ {u}
<1>1. /\ Players' = Players \ {u}
      /\ player' \in [Players' -> PlayerRecord]
      /\ \A v \in Players' : player'[v].location = player[v].location
  BY DEF Resign, Players, GameInv, GameType
<1>2. occupants' = [r \in Rooms |-> occupants[r] \ {u}]
  BY DEF LeaveRooms, GameInv, GameType
<1>3. Rooms' = Rooms
  BY DEF Rooms
<1>4. QED
  BY <1>1, <1>2, <1>3 DEF GameInv, GameType, RoomsAgree

\* Joining a lobby, while there is no maze.
LEMMA JoinOK ==
    ASSUME GameInv, NEW u \in Users, Join(u)
    PROVE  GameInv' /\ Players' = Players \cup {u}
<1>1. ~running /\ ~running' /\ exits = NoMaze /\ exits' = NoMaze
  BY DEF Join, GameInv, RoomsAgree
<1>2. Players' = Players \cup {u} /\ Rooms' = Rooms /\ Rooms = {}
  BY <1>1 DEF Join, Players, Rooms, NoMaze
<1>3. NewPlayer \in PlayerRecord
  BY PlayerAssumption DEF NewPlayer, PlayerRecord
<1>4. player' \in [Players' -> PlayerRecord]
  BY <1>2, <1>3 DEF Join, GameInv, GameType
<1>5. QED
  BY <1>1, <1>2, <1>4 DEF Join, GameInv, GameType, RoomsAgree

\* A move, on foot or by bats.
LEMMA MoveOK ==
    ASSUME GameInv, NEW u, NEW id, Move(u, id)
    PROVE  GameInv' /\ Players' \subseteq Players
<1>1. running /\ u \in Players /\ exits \in Mazes
  BY DEF Move, Playing, GameInv, GameType, RoomsAgree
<1>2. id \in Rooms
  BY <1>1, MazeExits DEF Move, GameInv, RoomsAgree
<1>3. ASSUME NEW target \in Rooms
      PROVE  [[contents EXCEPT ![id] = "nothing"] EXCEPT ![target] = "bats"]
                \in [Rooms -> Contents]
  BY DEF GameInv, GameType, Contents
<1>4. contents \in [Rooms -> Contents]
  BY DEF GameInv, GameType
<1>5. QED
  BY <1>1, <1>2, <1>3, <1>4, ArriveOK DEF Move

(***************************************************************************)
(* The game variables over every step.                                     *)
(***************************************************************************)
\* No step of any actor makes the two records of who is where differ, keeps a
\* maze without a game, or brings in a player who is not on the network.
LEMMA GameInvStep ==
    ASSUME GameInv, PlayersOnline, [Next]_vars
    PROVE  GameInv' /\ PlayersOnline'
<1> USE DEF PlayersOnline
<1>1. CASE UNCHANGED gameVars /\ (UNCHANGED online \/ \E u \in Users : UserAdded(u))
  BY <1>1 DEF gameVars, GameInv, GameType, RoomsAgree, Players, Rooms, UserAdded
<1>2. ASSUME NEW u \in Users, Join(u)
      PROVE  GameInv' /\ PlayersOnline'
  BY <1>2, JoinOK DEF Join
<1>3. ASSUME NEW u \in Users, NEW id \in Rooms, Move(u, id)
      PROVE  GameInv' /\ PlayersOnline'
  BY <1>3, MoveOK DEF Move
<1>4. ASSUME NEW u \in Users, NEW target \in Rooms, ShootNothing(u, target)
      PROVE  GameInv' /\ PlayersOnline'
  BY <1>4, ShootNothingOK DEF ShootNothing, ShootAnArrow
<1>5. ASSUME NEW u \in Users, NEW target \in Rooms, NEW tp \in Users,
             NEW hit \in BOOLEAN, ShootPlayer(u, target, tp, hit)
      PROVE  GameInv' /\ PlayersOnline'
  BY <1>5, ShootPlayerOK DEF ShootPlayer, ShootAnArrow
<1>6. ASSUME NEW u \in Users, NEW target \in Rooms, NEW hit \in BOOLEAN,
             ShootWumpus(u, target, hit)
      PROVE  GameInv' /\ PlayersOnline'
  BY <1>6, ShootWumpusOK DEF ShootWumpus, HurryUp, ShootAnArrow
<1>7. ASSUME NEW u \in Users, CmdResign(u)
      PROVE  GameInv' /\ PlayersOnline'
  BY <1>7, ResignOK DEF CmdResign
<1>8. ASSUME NEW u \in Users, UserDeleted(u)
      PROVE  GameInv' /\ PlayersOnline'
  BY <1>8, ResignOK DEF UserDeleted
<1>9. CASE Reset
  BY <1>9, ClearGameOK DEF Reset
<1>10. ASSUME NEW t \in TimerIds, StartGame(t)
       PROVE  GameInv' /\ PlayersOnline'
  BY <1>10, StartGameOK DEF StartGame
<1>11. ASSUME NEW t \in TimerIds, MoveTimerFires(t), ~UNCHANGED gameVars
       PROVE  GameInv' /\ PlayersOnline'
  <2>1. running /\ MoveWumpus(player)
    BY <1>11 DEF MoveTimerFires, GameInv, RoomsAgree
  <2>2. player \in [Players -> PlayerRecord]
    BY DEF GameInv, GameType
  <2>3. GameInv' /\ Players' \subseteq Players
    BY <2>1, <2>2, MoveWumpusOK
  <2>4. QED
    BY <1>11, <2>3 DEF MoveTimerFires
<1>12. CASE Unload
  <2>1. /\ Players' = {} /\ player' = [u \in {} |-> {}] /\ Rooms' = {}
        /\ exits' = NoMaze /\ contents' = NoMaze /\ occupants' = NoMaze
        /\ wumpus' = 0 /\ running' = FALSE
    BY <1>12 DEF Unload, Zeroed, Players, Rooms, NoMaze
  <2>2. QED
    BY <1>12, <2>1 DEF GameInv, GameType, RoomsAgree, NoMaze
<1>13. ASSUME NEW u \in Users, NEW size \in WantSizes, Start(u, size)
       PROVE  UNCHANGED gameVars /\ UNCHANGED online
  BY <1>13 DEF Start
<1>14. Tick \/ Load \/ UNCHANGED vars => UNCHANGED gameVars /\ UNCHANGED online
  BY DEF Tick, Load, vars
<1>15. ASSUME NEW t \in TimerIds, MoveTimerFires(t)
       PROVE  UNCHANGED online
  BY <1>15 DEF MoveTimerFires
<1>16. ASSUME NEW u \in Users, UserAdded(u)
       PROVE  UNCHANGED gameVars
  BY <1>16 DEF UserAdded
<1>17. QED
  BY <1>1, <1>2, <1>3, <1>4, <1>5, <1>6, <1>7, <1>8, <1>9, <1>10, <1>11,
     <1>12, <1>13, <1>14, <1>15, <1>16 DEF Next, TimerFires

(***************************************************************************)
(* The speed of the wumpus.                                                *)
(***************************************************************************)
SpeedInv ==
    /\ wump_hp \in 0 .. WumpusHp /\ speed \in 0 .. Speed
    /\ SpeedMatchesWounds

\* a * (c - x) = b * (d - y) keeps x positive as long as y is.
LEMMA StayPositive ==
    ASSUME NEW a \in Nat, a > 0, NEW b \in Nat, b > 0,
           NEW c \in Nat, NEW d \in Nat, a * c >= b * d,
           NEW x \in Int, NEW y \in Nat, y > 0,
           a * (c - x) = b * (d - y)
    PROVE  x > 0
<1>1. a * c - a * x = b * d - b * y
  BY a * (c - x) = a * c - a * x, b * (d - y) = b * d - b * y
<1>2. b * y > 0
  OBVIOUS
<1>3. a * x > 0
  BY <1>1, <1>2
<1>4. QED
  BY <1>3

\* The first period is positive.
LEMMA SpeedPositive == Speed > 0
BY SpeedAssumption, StayPositive

\* The one step that wounds the wumpus changes its speed in proportion.
LEMMA AngrierOK ==
    ASSUME SpeedInv, running, wump_hp > WumpusWound, Angrier
    PROVE  /\ wump_hp' \in 1 .. WumpusHp
           /\ speed' \in 1 .. Speed /\ speed' < Speed
           /\ WumpusWound * (Speed - speed') = SpeedUp * (WumpusHp - wump_hp')
<1> USE SpeedAssumption
<1>1. wump_hp' \in 1 .. WumpusHp /\ speed' \in Int /\ speed' < Speed
  BY DEF Angrier, SpeedInv
<1>2. WumpusWound * (Speed - speed') = SpeedUp * (WumpusHp - wump_hp')
  <2>1. WumpusWound * (Speed - speed) = SpeedUp * (WumpusHp - wump_hp)
    BY DEF SpeedInv, SpeedMatchesWounds
  <2>2. /\ speed \in Int /\ wump_hp \in Int
        /\ Speed - speed' = (Speed - speed) + SpeedUp
        /\ WumpusHp - wump_hp' = (WumpusHp - wump_hp) + WumpusWound
    BY DEF Angrier, SpeedInv
  <2>3. /\ WumpusWound * (Speed - speed')
             = WumpusWound * (Speed - speed) + WumpusWound * SpeedUp
        /\ SpeedUp * (WumpusHp - wump_hp')
             = SpeedUp * (WumpusHp - wump_hp) + SpeedUp * WumpusWound
    BY <2>2
  <2>4. QED
    BY <2>1, <2>3
<1>3. speed' > 0
  BY <1>1, <1>2, StayPositive
<1>4. QED
  BY <1>1, <1>2, <1>3

\* The speed over every step: it changes when a game begins, with a wound and
\* when the module goes.
LEMMA SpeedInvStep ==
    ASSUME SpeedInv, [Next]_vars
    PROVE  SpeedInv'
<1> USE SpeedAssumption
<1>1. CASE UNCHANGED <<wump_hp, speed>> /\ (running' => running)
  BY <1>1 DEF SpeedInv, SpeedMatchesWounds
<1>2. ASSUME NEW t, StartGame(t), ~UNCHANGED <<wump_hp, speed>>
      PROVE  SpeedInv'
  <2>1. wump_hp' = WumpusHp /\ speed' = Speed
    BY <1>2 DEF StartGame
  <2>2. QED
    BY <2>1, SpeedPositive DEF SpeedInv, SpeedMatchesWounds
<1>3. ASSUME NEW u, NEW target, NEW hit, ShootWumpus(u, target, hit),
             ~UNCHANGED <<wump_hp, speed>>
      PROVE  SpeedInv'
  <2>1. running /\ wump_hp > WumpusWound /\ Angrier
    BY <1>3 DEF ShootWumpus, HurryUp, ShootAnArrow, Playing
  <2>2. QED
    BY <2>1, AngrierOK DEF SpeedInv, SpeedMatchesWounds
<1>4. CASE Unload
  BY <1>4 DEF Unload, Zeroed, SpeedInv, SpeedMatchesWounds
<1>5. ASSUME NEW t, StartGame(t), UNCHANGED <<wump_hp, speed>>, running', ~running
      PROVE  SpeedInv'
  <2>1. wump_hp' = WumpusHp /\ speed' = Speed
    BY <1>5 DEF StartGame, ClearGame, gameVars
  <2>2. QED
    BY <2>1, SpeedPositive DEF SpeedInv, SpeedMatchesWounds
<1>6. ASSUME NEW ps, NEW cs, NEW w, CheckLastPersonAlive(ps, cs, w)
      PROVE  running' => running
  BY <1>6 DEF CheckLastPersonAlive, ClearGame
<1>7. ASSUME NEW ps, MoveWumpus(ps)
      PROVE  running' => running
  BY <1>6, <1>7 DEF MoveWumpus
<1>8. ASSUME NEW u \in Users, NEW id, Move(u, id)
      PROVE  UNCHANGED <<wump_hp, speed>> /\ (running' => running)
  BY <1>6, <1>8 DEF Move, Arrive
<1>9. ASSUME NEW t, MoveTimerFires(t)
      PROVE  UNCHANGED <<wump_hp, speed>> /\ (running' => running)
  BY <1>7, <1>9 DEF MoveTimerFires, gameVars
<1>10. ASSUME NEW u, NEW target, NEW hit, ShootWumpus(u, target, hit)
       PROVE  running' => running
  BY <1>10 DEF ShootWumpus, HurryUp, ShootAnArrow, Playing
<1>11. ASSUME NEW u \in Users,
              \/ \E size \in WantSizes : Start(u, size)
              \/ Join(u) \/ CmdResign(u) \/ UserAdded(u) \/ UserDeleted(u)
              \/ \E target \in Rooms : ShootNothing(u, target)
              \/ \E target \in Rooms, tp \in Users, hit \in BOOLEAN :
                    ShootPlayer(u, target, tp, hit)
       PROVE  UNCHANGED <<wump_hp, speed>> /\ (running' => running)
  <2>1. ASSUME NEW size, Start(u, size)
        PROVE  UNCHANGED <<wump_hp, speed>> /\ (running' => running)
    BY <2>1 DEF Start, gameVars
  <2>2. Join(u) \/ CmdResign(u) \/ UserAdded(u) \/ UserDeleted(u)
          => UNCHANGED <<wump_hp, speed>> /\ (running' => running)
    BY DEF Join, CmdResign, UserAdded, UserDeleted, gameVars
  <2>3. ASSUME NEW target, ShootNothing(u, target)
        PROVE  UNCHANGED <<wump_hp, speed>> /\ (running' => running)
    BY <2>3 DEF ShootNothing
  <2>4. ASSUME NEW target, NEW tp, NEW hit, ShootPlayer(u, target, tp, hit)
        PROVE  UNCHANGED <<wump_hp, speed>> /\ (running' => running)
    BY <2>4 DEF ShootPlayer
  <2>5. QED
    BY <1>11, <2>1, <2>2, <2>3, <2>4
<1>12. Reset \/ Tick \/ Load \/ UNCHANGED vars
         => UNCHANGED <<wump_hp, speed>> /\ (running' => running)
  BY DEF Reset, ClearGame, Tick, Load, vars, gameVars
<1>13. QED
  BY <1>1, <1>2, <1>3, <1>4, <1>5, <1>8, <1>9, <1>10, <1>11, <1>12
     DEF Next, TimerFires

(***************************************************************************)
(* The timers.                                                             *)
(***************************************************************************)
\* What is known of the timers.  The last conjunct is the race the code wins by
\* its periods alone: a move timer left behind by a game fires, and is gone,
\* before the lobby that may have been opened since can start the next game.
TimerInv ==
    /\ moveTimer \in DOMAIN timers \cup {Null, Freed}
    /\ startTimer \in DOMAIN timers \cup {Null, Freed}
    /\ DOMAIN timers \subseteq TimerIds
    /\ timers \in [DOMAIN timers -> TimerRecord]
    /\ TimersOwned /\ TimersDrive
    /\ moveTimer \in DOMAIN timers => timers[moveTimer].kind = "move"
    /\ startTimer \in DOMAIN timers => timers[startTimer].kind = "start"
    /\ starting \in BOOLEAN /\ loaded \in BOOLEAN
    /\ startTimer \in DOMAIN timers <=> starting
    /\ running => ~starting
    /\ ~loaded => moveTimer = Null /\ startTimer = Null /\ ~running
    /\ ~running /\ moveTimer \in DOMAIN timers =>
          timers[moveTimer].left <
              IF starting THEN timers[startTimer].left ELSE StartDelay

\* There is always an identity left for a new timer.
LEMMA NewTimerOK ==
    ASSUME TimerInv
    PROVE  /\ NewTimer \in TimerIds /\ NewTimer \notin DOMAIN timers
           /\ NewTimer # Null /\ NewTimer # Freed
<1>1. DOMAIN timers \subseteq {moveTimer, startTimer} \cap TimerIds
  BY DEF TimerInv, TimersOwned
<1>2. \E t \in TimerIds : t \notin DOMAIN timers
  BY <1>1, TimerAssumption
<1>3. QED
  BY <1>2, TimerAssumption DEF NewTimer

\* While a game runs its move timer is the only one.
LEMMA OneTimer ==
    ASSUME TimerInv, running
    PROVE  DOMAIN timers = {moveTimer} /\ startTimer = Null /\ ~starting
           /\ moveTimer \in TimerIds /\ loaded
BY TimerAssumption DEF TimerInv, TimersOwned, TimersDrive

\* A step that leaves the timers alone.
LEMMA SameTimers ==
    ASSUME TimerInv, UNCHANGED <<timerVars, starting, speed>>,
           running' = running, loaded' = loaded \/ loaded' = TRUE
    PROVE  TimerInv'
BY DEF TimerInv, timerVars, TimersOwned, TimersDrive

\* A game that goes on or ends with its timer, in any handler that looks for a
\* winner.
LEMMA EndOfGameTimerOK ==
    ASSUME TimerInv, running, running' \in BOOLEAN,
           UNCHANGED <<loaded, starting, startTimer, speed>>,
           NEW ts, EndOfGameTimer(ts),
           ts = timers \/ ts = Rearm(timers, moveTimer)
    PROVE  TimerInv'
<1>1. /\ DOMAIN timers = {moveTimer} /\ startTimer = Null /\ ~starting
      /\ moveTimer \in TimerIds /\ loaded
  BY OneTimer
<1>2. /\ DOMAIN ts = {moveTimer}
      /\ ts[moveTimer] \in TimerRecord /\ ts[moveTimer].kind = "move"
      /\ ts[moveTimer].period = speed
      /\ ts = [t \in DOMAIN ts |-> ts[t]]
  <2>1. /\ timers[moveTimer] \in TimerRecord /\ timers[moveTimer].kind = "move"
        /\ timers[moveTimer].period = speed
        /\ timers = [t \in DOMAIN timers |-> timers[t]]
    BY <1>1 DEF TimerInv, TimersDrive
  <2>2. CASE ts = timers
    BY <1>1, <2>1, <2>2
  <2>3. CASE ts = Rearm(timers, moveTimer)
    <3>1. DOMAIN ts = {moveTimer} /\ ts = [t \in DOMAIN ts |-> ts[t]]
      BY <1>1, <2>3 DEF Rearm
    <3>2. ts[moveTimer] = [timers[moveTimer] EXCEPT
                              !.left = timers[moveTimer].period]
      BY <1>1, <2>3 DEF Rearm
    <3>3. QED
      BY <2>1, <3>1, <3>2 DEF TimerRecord
  <2>4. QED
    BY <2>2, <2>3
<1>3. CASE running'
  <2>1. timers' = ts /\ moveTimer' = moveTimer
    BY <1>3 DEF EndOfGameTimer
  <2>2. QED
    BY <1>1, <1>2, <1>3, <2>1, TimerAssumption
       DEF TimerInv, TimersOwned, TimersDrive
<1>4. CASE ~running'
  <2>1. timers' = Destroy(ts, moveTimer) /\ moveTimer' = Null
    BY <1>4 DEF EndOfGameTimer, DropMoveTimer
  <2>2. DOMAIN timers' = {} /\ timers' = [t \in {} |-> timers'[t]]
    BY <1>2, <2>1 DEF Destroy
  <2>3. QED
    BY <1>1, <1>4, <2>1, <2>2, TimerAssumption
       DEF TimerInv, TimersOwned, TimersDrive
<1>5. QED
  BY <1>3, <1>4

\* START adds the lobby's timer; a move timer that is still there has less time
\* left.
LEMMA StartTimerOK ==
    ASSUME TimerInv, NEW u, NEW size, Start(u, size)
    PROVE  TimerInv'
<1> DEFINE new == NewTimer
<1>1. /\ new \in TimerIds /\ new \notin DOMAIN timers /\ new # Null /\ new # Freed
  BY NewTimerOK
<1>2. /\ startTimer' = new /\ starting' /\ ~starting /\ ~running /\ loaded
      /\ starting' \in BOOLEAN
      /\ timers' = AddTimer(timers, new, "start", StartDelay)
      /\ UNCHANGED <<loaded, moveTimer, speed, running>>
  BY DEF Start, gameVars
<1> HIDE DEF new
<1>3. /\ DOMAIN timers' = DOMAIN timers \cup {new}
      /\ timers' = [t \in DOMAIN timers' |-> timers'[t]]
      /\ timers'[new] = [kind |-> "start", left |-> StartDelay,
                         period |-> StartDelay]
      /\ \A t \in DOMAIN timers : timers'[t] = timers[t]
  BY <1>1, <1>2 DEF AddTimer
<1>4. timers'[new] \in TimerRecord
  BY <1>3, SpeedAssumption, SpeedPositive DEF TimerRecord
<1>5. timers' \in [DOMAIN timers' -> TimerRecord] /\ DOMAIN timers' \subseteq TimerIds
  BY <1>1, <1>3, <1>4 DEF TimerInv
<1>6. timers'[new].kind = "start" /\ timers'[new].left = StartDelay
  BY <1>3
<1>7. startTimer \notin DOMAIN timers
  BY <1>2 DEF TimerInv
<1>8. moveTimer \in DOMAIN timers => moveTimer # new
  BY <1>1
<1>9. TimersOwned' /\ TimersDrive'
  BY <1>1, <1>2, <1>3, <1>6, <1>7 DEF TimerInv, TimersOwned, TimersDrive
<1>10. moveTimer' \in DOMAIN timers' => moveTimer \in DOMAIN timers
  <2>1. moveTimer # new
    BY <1>1 DEF TimerInv
  <2>2. QED
    BY <1>2, <1>3, <2>1
<1>11. QED
  BY <1>1, <1>2, <1>3, <1>5, <1>6, <1>9, <1>10 DEF TimerInv

\* The end of the lobby: its timer is gone, and no move timer is left when a
\* game starts another.
LEMMA StartGameTimerOK ==
    ASSUME TimerInv, NEW t, StartGame(t)
    PROVE  TimerInv'
<1>1. /\ t = startTimer /\ t \in DOMAIN timers /\ t \in TimerIds
      /\ timers[t].left = 0 /\ starting /\ ~running /\ loaded
      /\ starting' = FALSE /\ loaded' = loaded
  BY DEF StartGame, Due, TimerInv, TimersOwned
<1>2. moveTimer \notin DOMAIN timers
  <2>1. ASSUME moveTimer \in DOMAIN timers PROVE FALSE
    <3>1. timers[moveTimer].left \in Nat /\ timers[moveTimer].left < 0
      BY <1>1, <2>1 DEF TimerInv, TimerRecord
    <3>2. QED
      BY <3>1
  <2>2. QED
    BY <2>1
<1>3. DOMAIN timers = {t} /\ moveTimer \in {Null, Freed}
  BY <1>1, <1>2 DEF TimerInv, TimersOwned
<1>4. CASE /\ FreeStartTimer(timers, t)
           /\ moveTimer' = moveTimer /\ running' = running
  <2>1. DOMAIN timers' = {} /\ timers' = [x \in {} |-> timers'[x]] /\ startTimer' = Freed
    BY <1>1, <1>3, <1>4 DEF FreeStartTimer, Destroy
  <2>2. QED
    BY <1>1, <1>3, <1>4, <2>1, TimerAssumption DEF TimerInv, TimersOwned, TimersDrive
<1>5. CASE /\ FreeStartTimer(Destroy(timers, moveTimer), t)
           /\ moveTimer' = Null /\ running' = FALSE
  <2>1. DOMAIN timers' = {} /\ timers' = [x \in {} |-> timers'[x]] /\ startTimer' = Freed
    BY <1>1, <1>3, <1>5 DEF FreeStartTimer, Destroy
  <2>2. QED
    BY <1>1, <1>3, <1>5, <2>1, TimerAssumption DEF TimerInv, TimersOwned, TimersDrive
<1>6. CASE /\ speed' = Speed /\ moveTimer' = NewTimer /\ startTimer' = Null
           /\ timers' = Destroy(AddTimer(timers, NewTimer, "move", Speed), t)
           /\ running' = TRUE
  <2> DEFINE new == NewTimer
  <2>1. new \in TimerIds /\ new # t /\ new # Null /\ new # Freed
    BY <1>1, NewTimerOK
  <2>2. /\ moveTimer' = new
        /\ timers' = Destroy(AddTimer(timers, new, "move", Speed), t)
    BY <1>6
  <2> HIDE DEF new
  <2>3. /\ DOMAIN timers' = {new} /\ timers' = [x \in {new} |-> timers'[x]]
        /\ timers'[new] = [kind |-> "move", left |-> Speed, period |-> Speed]
    BY <1>3, <2>1, <2>2 DEF AddTimer, Destroy
  <2>4. /\ timers'[new] \in TimerRecord /\ timers'[new].kind = "move"
        /\ timers'[new].period = Speed
    BY <2>3, SpeedAssumption, SpeedPositive DEF TimerRecord
  <2>5. QED
    BY <1>1, <1>6, <2>1, <2>2, <2>3, <2>4, TimerAssumption
       DEF TimerInv, TimersOwned, TimersDrive
<1>7. QED
  BY <1>4, <1>5, <1>6 DEF StartGame, ClearGame, gameVars

\* The move timer fires in a game or after it; in the second case it is gone.
LEMMA MoveTimerOK ==
    ASSUME TimerInv, GameInv, GameInv', NEW t, MoveTimerFires(t)
    PROVE  TimerInv'
<1>1. /\ t = moveTimer /\ t \in DOMAIN timers /\ t \in TimerIds
      /\ UNCHANGED <<loaded, starting, speed, startTimer>>
  BY DEF MoveTimerFires, TimerInv, TimersOwned
<1>2. running' \in BOOLEAN
  BY DEF GameInv, GameType
<1>3. CASE /\ exits # NoMaze /\ EndOfGameTimer(Rearm(timers, t))
  <2>1. running
    BY <1>3 DEF GameInv, RoomsAgree
  <2> DEFINE ts == Rearm(timers, moveTimer)
  <2>2. EndOfGameTimer(ts)
    BY <1>1, <1>3
  <2>3. QED
    BY <1>1, <1>2, <2>1, <2>2, EndOfGameTimerOK
<1>4. CASE /\ exits = NoMaze
           /\ timers' = Rearm(Destroy(timers, moveTimer), t)
           /\ moveTimer' = IF moveTimer = Null THEN Null ELSE Freed
           /\ UNCHANGED gameVars
  <2>1. ~running /\ ~running'
    BY <1>4 DEF GameInv, RoomsAgree, gameVars
  <2>2. moveTimer' = Freed
    BY <1>1, <1>4, TimerAssumption
  <2>3. /\ DOMAIN timers' = DOMAIN timers \ {t}
        /\ timers' = [x \in DOMAIN timers' |-> timers'[x]]
        /\ \A x \in DOMAIN timers' : timers'[x] = timers[x]
    BY <1>1, <1>4 DEF Rearm, Destroy
  <2>4. startTimer \in DOMAIN timers => startTimer # t
    BY <1>1 DEF TimerInv
  <2>5. QED
    BY <1>1, <2>1, <2>2, <2>3, <2>4, TimerAssumption
       DEF TimerInv, TimersOwned, TimersDrive
<1>5. QED
  BY <1>3, <1>4 DEF MoveTimerFires

\* A move of a player, after which the game goes on or is over.
LEMMA MoveTimersOK ==
    ASSUME TimerInv, GameInv, GameInv', NEW u, NEW id, Move(u, id)
    PROVE  TimerInv'
<1>1. running /\ running' \in BOOLEAN
      /\ UNCHANGED <<loaded, starting, speed, startTimer>>
  BY DEF Move, Playing, GameInv, GameType
<1>2. CASE EndOfGameTimer(timers)
  BY <1>1, <1>2, EndOfGameTimerOK
<1>3. CASE UNCHANGED <<running, moveTimer, timers>>
  BY <1>1, <1>3, SameTimers DEF timerVars
<1>4. QED
  BY <1>2, <1>3 DEF Move, Arrive

\* A shot at the wumpus replaces the move timer; if the game has ended just then
\* the new one is shorter than any lobby.
LEMMA ShootWumpusTimersOK ==
    ASSUME TimerInv, SpeedInv, GameInv, GameInv',
           NEW u, NEW target, NEW hit, ShootWumpus(u, target, hit)
    PROVE  TimerInv'
<1>1. running /\ running' \in BOOLEAN
      /\ UNCHANGED <<loaded, starting, startTimer>>
  BY DEF ShootWumpus, HurryUp, ShootAnArrow, Playing, GameInv, GameType
<1>2. /\ DOMAIN timers = {moveTimer} /\ startTimer = Null /\ ~starting
      /\ moveTimer \in TimerIds /\ loaded
  BY <1>1, OneTimer
<1>3. CASE ClearGame /\ DropMoveTimer(timers)
  <2>1. /\ DOMAIN timers' = {} /\ timers' = [x \in {} |-> timers'[x]]
        /\ moveTimer' = Null /\ ~running'
    BY <1>2, <1>3 DEF DropMoveTimer, Destroy, ClearGame
  <2>2. QED
    BY <1>1, <1>2, <2>1, TimerAssumption DEF TimerInv, TimersOwned, TimersDrive
<1>4. CASE /\ wump_hp > WumpusWound /\ Angrier /\ moveTimer' = NewTimer
           /\ timers' = AddTimer(Destroy(timers, moveTimer), NewTimer, "move",
                                 speed')
  <2> DEFINE new == NewTimer
  <2>1. new \in TimerIds /\ new # Null /\ new # Freed
    BY NewTimerOK
  <2>2. /\ moveTimer' = new
        /\ timers' = AddTimer(Destroy(timers, moveTimer), new, "move", speed')
    BY <1>4
  <2> HIDE DEF new
  <2>3. /\ DOMAIN timers' = {new} /\ timers' = [x \in {new} |-> timers'[x]]
        /\ timers'[new] = [kind |-> "move", left |-> speed', period |-> speed']
    BY <1>2, <2>2 DEF AddTimer, Destroy
  <2>4. speed' \in 1 .. Speed /\ speed' < Speed
    BY <1>1, <1>4, AngrierOK
  <2>5. /\ timers'[new] \in TimerRecord /\ timers'[new].kind = "move"
        /\ timers'[new].period = speed' /\ timers'[new].left < StartDelay
    BY <2>3, <2>4, SpeedAssumption DEF TimerRecord
  <2>6. QED
    BY <1>1, <1>2, <2>1, <2>2, <2>3, <2>5, TimerAssumption
       DEF TimerInv, TimersOwned, TimersDrive
<1>5. CASE EndOfGameTimer(timers) /\ UNCHANGED speed
  BY <1>1, <1>5, EndOfGameTimerOK
<1>6. QED
  BY <1>3, <1>4, <1>5 DEF ShootWumpus, HurryUp

\* The clock shortens all timers alike, and none below zero.
LEMMA TickOK ==
    ASSUME TimerInv, Tick
    PROVE  TimerInv'
<1>1. /\ UNCHANGED <<loaded, running, starting, speed, moveTimer, startTimer>>
      /\ DOMAIN timers' = DOMAIN timers
      /\ timers' = [t \in DOMAIN timers |-> timers'[t]]
  BY DEF Tick, gameVars
<1>2. ASSUME NEW t \in DOMAIN timers
      PROVE  /\ timers'[t] \in TimerRecord
             /\ timers'[t].kind = timers[t].kind
             /\ timers'[t].period = timers[t].period
             /\ timers'[t].left = timers[t].left - 1
  <2>1. timers[t] \in TimerRecord /\ timers[t].left # 0
    BY DEF Tick, Due, TimerInv
  <2>2. timers'[t] = [timers[t] EXCEPT !.left = timers[t].left - 1]
    BY DEF Tick
  <2>3. QED
    BY <2>1, <2>2 DEF TimerRecord
<1>3. ASSUME ~running', moveTimer' \in DOMAIN timers'
      PROVE  timers'[moveTimer'].left <
                IF starting' THEN timers'[startTimer'].left ELSE StartDelay
  <2>1. timers[moveTimer].left <
            IF starting THEN timers[startTimer].left ELSE StartDelay
    BY <1>1, <1>3 DEF TimerInv
  <2>2. timers[moveTimer].left \in Nat
    BY <1>1, <1>3 DEF TimerInv, TimerRecord
  <2>3. CASE starting
    <3>1. startTimer \in DOMAIN timers /\ timers[startTimer].left \in Nat
      BY <2>3 DEF TimerInv, TimerRecord
    <3>2. QED
      BY <1>1, <1>2, <1>3, <2>1, <2>2, <2>3, <3>1
  <2>4. CASE ~starting
    BY <1>1, <1>2, <1>3, <2>1, <2>2, <2>4, SpeedAssumption
  <2>5. QED
    BY <2>3, <2>4
<1>4. QED
  BY <1>1, <1>2, <1>3 DEF TimerInv, TimersOwned, TimersDrive

\* The timers over every step.
LEMMA TimerInvStep ==
    ASSUME TimerInv, SpeedInv, GameInv, GameInv', [Next]_vars
    PROVE  TimerInv'
<1>1. ASSUME NEW u \in Users, NEW size \in WantSizes, Start(u, size)
      PROVE  TimerInv'
  BY <1>1, StartTimerOK
<1>2. ASSUME NEW u \in Users,
             Join(u) \/ CmdResign(u) \/ UserAdded(u) \/ UserDeleted(u)
      PROVE  TimerInv'
  <2>1. UNCHANGED <<timerVars, starting, speed, running, loaded>>
    BY <1>2 DEF Join, CmdResign, UserAdded, UserDeleted, gameVars
  <2>2. QED
    BY <2>1, SameTimers
<1>3. ASSUME NEW u \in Users, NEW id \in Rooms, Move(u, id)
      PROVE  TimerInv'
  BY <1>3, MoveTimersOK
<1>4. ASSUME NEW u \in Users, NEW target \in Rooms, ShootNothing(u, target)
      PROVE  TimerInv'
  BY <1>4, SameTimers DEF ShootNothing, ShootAnArrow, timerVars
<1>5. ASSUME NEW u \in Users, NEW target \in Rooms, NEW tp \in Users,
             NEW hit \in BOOLEAN, ShootPlayer(u, target, tp, hit)
      PROVE  TimerInv'
  <2>1. UNCHANGED <<timerVars, starting, speed, running, loaded>>
    BY <1>5 DEF ShootPlayer, ShootAnArrow, timerVars
  <2>2. QED
    BY <2>1, SameTimers
<1>6. ASSUME NEW u \in Users, NEW target \in Rooms, NEW hit \in BOOLEAN,
             ShootWumpus(u, target, hit)
      PROVE  TimerInv'
  BY <1>6, ShootWumpusTimersOK
<1>7. CASE Reset
  <2>1. /\ DOMAIN timers = {moveTimer} /\ startTimer = Null /\ loaded
        /\ moveTimer \in TimerIds
    BY <1>7, OneTimer DEF Reset
  <2>2. /\ DOMAIN timers' = {} /\ timers' = [x \in {} |-> timers'[x]]
        /\ moveTimer' = Null /\ ~running' /\ starting' = FALSE
        /\ UNCHANGED <<loaded, startTimer>>
    BY <1>7, <2>1 DEF Reset, DropMoveTimer, Destroy, ClearGame
  <2>3. QED
    BY <2>1, <2>2, TimerAssumption DEF TimerInv, TimersOwned, TimersDrive
<1>8. ASSUME NEW t \in TimerIds, StartGame(t)
      PROVE  TimerInv'
  BY <1>8, StartGameTimerOK
<1>9. ASSUME NEW t \in TimerIds, MoveTimerFires(t)
      PROVE  TimerInv'
  BY <1>9, MoveTimerOK
<1>10. CASE Tick
  BY <1>10, TickOK
<1>11. CASE Unload
  <2>1. /\ loaded' = FALSE /\ ~running' /\ starting' = FALSE
        /\ moveTimer' = Null /\ startTimer' = Null
    BY <1>11 DEF Unload, Zeroed
  <2>2. DOMAIN timers' = {} /\ timers' = [x \in {} |-> timers'[x]]
    BY <1>11 DEF Unload, Destroy, TimerInv, TimersOwned
  <2>3. QED
    BY <2>1, <2>2, TimerAssumption DEF TimerInv, TimersOwned, TimersDrive
<1>12. CASE Load \/ UNCHANGED vars
  <2>1. UNCHANGED <<timerVars, starting, speed, running>>
        /\ (loaded' = loaded \/ loaded' = TRUE)
    BY <1>12 DEF Load, vars, gameVars
  <2>2. QED
    BY <2>1, SameTimers
<1>13. QED
  BY <1>1, <1>2, <1>3, <1>4, <1>5, <1>6, <1>7, <1>8, <1>9, <1>10, <1>11,
     <1>12 DEF Next, TimerFires

(***************************************************************************)
(* The inductive invariant and what follows from it.                       *)
(***************************************************************************)
IInv ==
    /\ GameInv /\ PlayersOnline
    /\ SpeedInv /\ TimerInv
    /\ online \subseteq Users /\ wantsize \in 0 .. UIntRange - 1

LEMMA InitIInv == Init => IInv
<1> SUFFICES ASSUME Init PROVE IInv
  OBVIOUS
<1>1. Players = {} /\ Rooms = {} /\ DOMAIN timers = {}
  BY DEF Init, Players, Rooms, NoMaze
<1>2. GameInv /\ PlayersOnline
  BY <1>1 DEF Init, GameInv, GameType, RoomsAgree, PlayersOnline, NoMaze
<1>3. SpeedInv
  BY SpeedAssumption DEF Init, SpeedInv, SpeedMatchesWounds
<1>4. TimerInv
  BY <1>1, TimerAssumption DEF Init, TimerInv, TimersOwned, TimersDrive
<1>5. QED
  BY <1>2, <1>3, <1>4, SizeAssumption DEF Init, IInv

\* The sizes START stores and start_game caps stay unsigned ints.
LEMMA WantsizeStep ==
    ASSUME online \subseteq Users, wantsize \in 0 .. UIntRange - 1, [Next]_vars
    PROVE  online' \subseteq Users /\ wantsize' \in 0 .. UIntRange - 1
<1> USE SizeAssumption
<1>1. CASE UNCHANGED <<online, wantsize>>
  BY <1>1
<1>2. ASSUME NEW u \in Users, NEW size \in WantSizes, Start(u, size)
      PROVE  UNCHANGED online /\ wantsize' \in 0 .. UIntRange - 1
  <2>1. size \in -(UIntRange - MaxSize) .. UIntRange - 1
    OBVIOUS
  <2>2. QED
    BY <1>2, <2>1 DEF Start, AsUnsigned
<1>3. ASSUME NEW t, StartGame(t)
      PROVE  UNCHANGED online /\ wantsize' \in 0 .. UIntRange - 1
  BY <1>3 DEF StartGame, Capped
<1>4. ASSUME NEW u \in Users, UserAdded(u) \/ UserDeleted(u)
      PROVE  UNCHANGED wantsize /\ online' \subseteq Users
  BY <1>4 DEF UserAdded, UserDeleted
<1>5. ASSUME NEW u, NEW target
      PROVE  /\ \A id : Move(u, id) => UNCHANGED <<online, wantsize>>
             /\ ShootNothing(u, target) => UNCHANGED <<online, wantsize>>
             /\ \A hit : ShootWumpus(u, target, hit) => UNCHANGED <<online, wantsize>>
             /\ \A tp, hit : ShootPlayer(u, target, tp, hit)
                                => UNCHANGED <<online, wantsize>>
  BY DEF Move, ShootNothing, ShootWumpus, HurryUp, ShootPlayer, ShootAnArrow
<1>6. ASSUME NEW u, Join(u) \/ CmdResign(u)
      PROVE  UNCHANGED <<online, wantsize>>
  BY <1>6 DEF Join, CmdResign
<1>7. ASSUME NEW t, MoveTimerFires(t)
      PROVE  UNCHANGED <<online, wantsize>>
  BY <1>7 DEF MoveTimerFires
<1>8. Reset \/ Tick \/ Load \/ UNCHANGED vars => UNCHANGED <<online, wantsize>>
  BY DEF Reset, Tick, Load, vars
<1>9. CASE Unload
  BY <1>9 DEF Unload, Zeroed
<1>10. QED
  BY <1>1, <1>2, <1>3, <1>4, <1>5, <1>6, <1>7, <1>8, <1>9 DEF Next, TimerFires

LEMMA NextIInv == IInv /\ [Next]_vars => IInv'
<1> SUFFICES ASSUME IInv, [Next]_vars PROVE IInv'
  OBVIOUS
<1>1. GameInv' /\ PlayersOnline'
  BY GameInvStep DEF IInv
<1>2. SpeedInv'
  BY SpeedInvStep DEF IInv
<1>3. TimerInv'
  BY <1>1, TimerInvStep DEF IInv
<1>4. QED
  BY <1>1, <1>2, <1>3, WantsizeStep DEF IInv

\* The invariant holds in every reachable state.
THEOREM Invariance == Spec => []IInv
BY InitIInv, NextIInv, PTL DEF Spec

\* Every variable keeps its type.
THEOREM TypeCorrect == Spec => []TypeOK
<1>1. IInv => TypeOK
  BY DEF IInv, GameInv, GameType, SpeedInv, TimerInv, TypeOK, Pointers
<1>2. QED
  BY <1>1, Invariance, PTL

\* The players' locations, the rooms' lists and the existence of the maze agree,
\* and every player is on the network.
THEOREM RoomsAlwaysAgree == Spec => []GameAgrees
<1>1. IInv => GameAgrees
  BY DEF IInv, GameInv, GameAgrees
<1>2. QED
  BY <1>1, Invariance, PTL

\* The wumpus's period matches its wounds and never falls to zero.
THEOREM SpeedAlwaysMatches == Spec => []SpeedMatchesWounds
<1>1. IInv => SpeedMatchesWounds
  BY DEF IInv, SpeedInv
<1>2. QED
  BY <1>1, Invariance, PTL

\* No timer is ever out of reach of its pointer.
THEOREM TimersInReach == Spec => []TimersOwned
<1>1. IInv => TimersOwned
  BY DEF IInv, TimerInv
<1>2. QED
  BY <1>1, Invariance, PTL

\* A lobby has the timer that closes it, and a game the one that moves the
\* wumpus at the speed its wounds have brought it to.
THEOREM TimersAlwaysDrive == Spec => []TimersDrive
<1>1. IInv => TimersDrive
  BY DEF IInv, TimerInv
<1>2. QED
  BY <1>1, Invariance, PTL

(***************************************************************************)
(* Meeting the wumpus.                                                     *)
(***************************************************************************)
\* A player who is with the wumpus after a step was with it before.
Spared ==
    running /\ running' =>
        \A u \in DOMAIN player' :
            player'[u].location = wumpus' =>
                player[u].location = wumpus /\ wumpus' = wumpus

\* The wumpus eats whoever is in the room it comes to.
LEMMA MoveWumpusSpares ==
    ASSUME GameInv, running,
           NEW ps \in [Players -> PlayerRecord],
           \A u \in Players : ps[u].location = player[u].location,
           MoveWumpus(ps)
    PROVE  Spared
<1>1. PICK cs \in Regen(contents, contents[wumpus]), tr \in Exits(wumpus) :
        CheckLastPersonAlive(
            Resign(ps, {u \in Players : player[u].location = tr}),
            [[cs EXCEPT ![wumpus] = "nothing"] EXCEPT ![tr] = "wumpus"],
            tr)
  BY DEF MoveWumpus
<1>2. ASSUME running'
      PROVE  /\ wumpus' = tr
             /\ player' = Resign(ps, {u \in Players : player[u].location = tr})
  BY <1>1, <1>2 DEF CheckLastPersonAlive, ClearGame
<1>3. ASSUME running', NEW u \in DOMAIN player'
      PROVE  player'[u].location # wumpus'
  BY <1>2, <1>3 DEF Resign
<1>4. QED
  BY <1>3 DEF Spared

\* A player who comes to the wumpus's room dies.
LEMMA ArriveSpares ==
    ASSUME GameInv, running,
           NEW u \in Players, NEW dest \in Rooms, NEW cs, Arrive(u, dest, cs)
    PROVE  Spared
<1>1. CASE CheckLastPersonAlive(Resign(player, {u}), cs, wumpus)
  <2>1. running' => wumpus' = wumpus /\ player' = Resign(player, {u})
    BY <1>1 DEF CheckLastPersonAlive, ClearGame
  <2>2. QED
    BY <2>1 DEF Spared, Resign
<1>2. CASE /\ dest # wumpus /\ wumpus' = wumpus
           /\ player' = [player EXCEPT
                 ![u] = [location |-> dest, hp |-> @.hp,
                         arrows |-> IF cs[dest] = "arrows" /\ @.arrows = 0
                                    THEN MoreArrows ELSE @.arrows]]
  <2>1. \A v \in DOMAIN player' : player'[v].location =
                                     IF v = u THEN dest ELSE player[v].location
    BY <1>2 DEF Players
  <2>2. QED
    BY <1>2, <2>1 DEF Spared
<1>3. QED
  BY <1>1, <1>2 DEF Arrive

LEMMA SparedStep == IInv /\ [Next]_vars => Spared
<1> SUFFICES ASSUME IInv, [Next]_vars, running, running' PROVE Spared
  BY DEF Spared
<1>1. ASSUME \A u \in DOMAIN player' :
                 u \in Players /\ player'[u].location = player[u].location,
             wumpus' = wumpus
      PROVE  Spared
  BY <1>1 DEF Spared
<1>2. ASSUME NEW u \in Users, NEW id, Move(u, id)
      PROVE  Spared
  <2>1. u \in Players /\ exits \in Mazes
    BY <1>2 DEF Move, Playing, IInv, GameInv, GameType, RoomsAgree
  <2>2. id \in Rooms
    BY <1>2, <2>1, MazeExits DEF Move, IInv, GameInv, RoomsAgree
  <2>3. QED
    BY <1>2, <2>1, <2>2, ArriveSpares DEF Move, IInv
<1>3. ASSUME NEW u, NEW target, NEW hit, ShootWumpus(u, target, hit)
      PROVE  Spared
  <2>1. u \in Players /\ player[u].arrows > 0
    BY <1>3 DEF ShootWumpus, HurryUp, ShootAnArrow, Playing
  <2>2. MoveWumpus(Loosed(u))
    BY <1>3 DEF ShootWumpus, HurryUp, ClearGame
  <2>3. QED
    BY <2>1, <2>2, LoosedOK, MoveWumpusSpares DEF IInv, GameInv
<1>4. ASSUME NEW t, MoveTimerFires(t)
      PROVE  Spared
  <2>1. MoveWumpus(player)
    BY <1>4 DEF MoveTimerFires, IInv, GameInv, RoomsAgree
  <2>2. QED
    BY <2>1, MoveWumpusSpares DEF IInv, GameInv, GameType
<1>5. ASSUME NEW u, NEW target, ShootNothing(u, target)
      PROVE  Spared
  <2>1. u \in Players /\ player[u].arrows > 0
    BY <1>5 DEF ShootNothing, ShootAnArrow, Playing
  <2>2. player' = Loosed(u) /\ wumpus' = wumpus /\ DOMAIN player' = Players
    BY <1>5, <2>1, LoosedOK DEF ShootNothing, IInv, GameInv
  <2>3. QED
    BY <1>1, <2>1, <2>2, LoosedOK DEF IInv, GameInv
<1>6. ASSUME NEW u, NEW target, NEW tp, NEW hit \in BOOLEAN,
             ShootPlayer(u, target, tp, hit)
      PROVE  Spared
  <2>1. u \in Players /\ player[u].arrows > 0
    BY <1>6 DEF ShootPlayer, ShootAnArrow, Playing
  <2>2. /\ Loosed(u) \in [Players -> PlayerRecord] /\ wumpus' = wumpus
        /\ \A v \in Players : Loosed(u)[v].location = player[v].location
    BY <1>6, <2>1, LoosedOK DEF ShootPlayer, IInv, GameInv
  <2>3. CASE player' = Resign(Loosed(u), {tp})
    BY <1>1, <2>2, <2>3 DEF Resign
  <2>4. CASE player' = [Loosed(u) EXCEPT ![tp].hp = @ - PlayerWound]
    <3>1. \A v \in Players : Loosed(u)[v] \in PlayerRecord
      BY <2>2
    <3>2. DOMAIN player' = Players
      BY <2>2, <2>4
    <3>3. \A v \in Players : player'[v].location = player[v].location
      BY <2>2, <2>4, <3>1 DEF PlayerRecord
    <3>4. QED
      BY <1>1, <2>2, <3>2, <3>3
  <2>5. CASE player' = Loosed(u)
    BY <1>1, <2>2, <2>5
  <2>6. QED
    BY <1>6, <2>3, <2>4, <2>5 DEF ShootPlayer
<1>7. ASSUME NEW u, CmdResign(u) \/ UserDeleted(u)
      PROVE  Spared
  <2>1. player' = Resign(player, {u}) /\ wumpus' = wumpus
    BY <1>7 DEF CmdResign, UserDeleted
  <2>2. QED
    BY <1>1, <2>1 DEF Resign, Players
<1>8. ASSUME UNCHANGED gameVars
      PROVE  Spared
  BY <1>1, <1>8 DEF gameVars, Players
<1>9. ASSUME NEW u, (\E size : Start(u, size)) \/ UserAdded(u)
      PROVE  UNCHANGED gameVars
  BY <1>9 DEF Start, UserAdded
<1>10. Tick \/ Load \/ UNCHANGED vars => UNCHANGED gameVars
  BY DEF Tick, Load, vars
<1>11. ~Reset /\ ~Unload /\ (\A u : ~Join(u))
  BY DEF Reset, ClearGame, Unload, Zeroed, Join
<1>12. \A t : ~StartGame(t)
  BY DEF StartGame, IInv, TimerInv, TimersOwned
<1>13. QED
  BY <1>2, <1>3, <1>4, <1>5, <1>6, <1>7, <1>8, <1>9, <1>10, <1>11, <1>12
     DEF Next, TimerFires

\* Nobody survives a step that brings them and the wumpus together.
THEOREM MeetingsAreFatal == Spec => MeetingIsFatal
<1>1. IInv /\ [Next]_vars => [Spared]_vars
  BY SparedStep
<1>2. Spec => [][Spared]_vars
  BY <1>1, Invariance, PTL DEF Spec
<1>3. QED
  BY <1>2 DEF MeetingIsFatal, Spared

(***************************************************************************)
(* The objects.                                                            *)
(***************************************************************************)
Loose == {"pit", "bats", "arrows", "crystalball"}

Holding(cs, obj) == {r \in Rooms : cs[r] = obj}

\* Some object may have left one room for another; none came from nowhere.
AtMostCarried(cs, ds) ==
    \A obj \in Loose :
        \/ Holding(ds, obj) \subseteq Holding(cs, obj)
        \/ \E from \in Holding(cs, obj), to \in Rooms :
              Holding(ds, obj) \subseteq (Holding(cs, obj) \ {from}) \cup {to}

\* Putting one element in another's place does not make a set larger.
LEMMA Exchange ==
    ASSUME NEW S, IsFiniteSet(S), NEW x \in S, NEW y,
           NEW T \in SUBSET ((S \ {x}) \cup {y})
    PROVE  Cardinality(T) <= Cardinality(S)
<1>1. /\ IsFiniteSet(S \ {x}) /\ Cardinality(S) \in Nat
      /\ Cardinality(S \ {x}) = Cardinality(S) - 1
  BY FS_RemoveElement, FS_CardinalityType
<1> DEFINE Rest == S \ {x}
<1>0. IsFiniteSet(Rest) /\ Cardinality(Rest) \in Nat
  BY <1>1, FS_CardinalityType
<1>2. /\ IsFiniteSet((S \ {x}) \cup {y})
      /\ Cardinality((S \ {x}) \cup {y}) <= Cardinality(S)
  <2>1. Cardinality(Rest) = Cardinality(S) - 1
    BY <1>1
  <2> HIDE DEF Rest
  <2>2. IsFiniteSet(Rest \cup {y})
    BY <1>0, FS_AddElement
  <2>3. Cardinality(Rest \cup {y}) = IF y \in Rest THEN Cardinality(Rest)
                                    ELSE Cardinality(Rest) + 1
    BY <1>0, FS_AddElement
  <2>4. Cardinality(Rest \cup {y}) <= Cardinality(S)
    BY <1>0, <1>1, <2>1, <2>3
  <2>5. QED
    BY <2>2, <2>4 DEF Rest
<1>3. Cardinality(T) <= Cardinality((S \ {x}) \cup {y}) /\ IsFiniteSet(T)
  BY <1>2, FS_Subset
<1>4. /\ Cardinality(T) \in Nat
      /\ Cardinality((S \ {x}) \cup {y}) \in Nat
  BY <1>2, <1>3, FS_CardinalityType
<1>5. QED
  BY <1>1, <1>2, <1>3, <1>4

\* So an object that was only carried is held in no more rooms than before.
LEMMA CarriedCounts ==
    ASSUME exits \in Mazes, NEW cs, NEW ds, AtMostCarried(cs, ds),
           NEW obj \in Loose
    PROVE  Cardinality(Holding(ds, obj)) <= Cardinality(Holding(cs, obj))
<1>1. IsFiniteSet(0 .. MaxSize - 1)
  BY SizeAssumption, FS_Interval
<1>2. IsFiniteSet(Holding(cs, obj))
  BY <1>1, MazeExits, FS_Subset DEF Holding
<1>3. CASE Holding(ds, obj) \subseteq Holding(cs, obj)
  BY <1>2, <1>3, FS_Subset
<1>4. CASE \E from \in Holding(cs, obj), to \in Rooms :
              Holding(ds, obj) \subseteq (Holding(cs, obj) \ {from}) \cup {to}
  BY <1>2, <1>4, Exchange
<1>5. QED
  BY <1>3, <1>4 DEF AtMostCarried

\* Taking what is in one room to another carries at most that.
LEMMA CarryingCarries ==
    ASSUME NEW cs \in [Rooms -> Contents], NEW from \in Rooms, NEW to \in Rooms
    PROVE  AtMostCarried(cs,
               [[cs EXCEPT ![from] = "nothing"] EXCEPT ![to] = cs[from]])
<1> DEFINE ds == [[cs EXCEPT ![from] = "nothing"] EXCEPT ![to] = cs[from]]
<1>1. \A r \in Rooms : ds[r] = IF r = to THEN cs[from]
                               ELSE IF r = from THEN "nothing" ELSE cs[r]
  OBVIOUS
<1> HIDE DEF ds
<1>2. ASSUME NEW obj \in Loose, cs[from] # obj
      PROVE  Holding(ds, obj) \subseteq Holding(cs, obj)
  BY <1>1, <1>2 DEF Holding, Loose
<1>3. ASSUME NEW obj \in Loose, cs[from] = obj
      PROVE  /\ from \in Holding(cs, obj)
             /\ Holding(ds, obj) \subseteq (Holding(cs, obj) \ {from}) \cup {to}
  BY <1>1, <1>3 DEF Holding, Loose
<1>4. AtMostCarried(cs, ds)
  BY <1>2, <1>3 DEF AtMostCarried
<1>5. QED
  BY <1>4 DEF ds

\* A game that goes on has the objects it had, but for one carried elsewhere.
CarriedOn == running /\ running' => AtMostCarried(contents, contents')

\* The wumpus's move regenerates what its room holds and then empties the room.
LEMMA MoveWumpusCarries ==
    ASSUME GameInv, running, NEW ps, MoveWumpus(ps)
    PROVE  CarriedOn
<1>1. exits \in Mazes /\ wumpus \in Rooms /\ contents \in [Rooms -> Contents]
  BY DEF GameInv, GameType, RoomsAgree
<1>2. PICK r \in Rooms, tr \in Exits(wumpus) :
        CheckLastPersonAlive(
            Resign(ps, {u \in Players : player[u].location = tr}),
            [[[contents EXCEPT ![r] = contents[wumpus]]
                 EXCEPT ![wumpus] = "nothing"] EXCEPT ![tr] = "wumpus"],
            tr)
  BY DEF MoveWumpus, Regen
<1> DEFINE ds == [[[contents EXCEPT ![r] = contents[wumpus]]
                     EXCEPT ![wumpus] = "nothing"] EXCEPT ![tr] = "wumpus"]
<1>3. tr \in Rooms
  BY <1>1, <1>2, MazeExits
<1>4. \A x \in Rooms : ds[x] = IF x = tr THEN "wumpus"
                               ELSE IF x = wumpus THEN "nothing"
                               ELSE IF x = r THEN contents[wumpus]
                               ELSE contents[x]
  BY <1>1, <1>3
<1>5. running' => contents' = ds
  BY <1>2 DEF CheckLastPersonAlive, ClearGame
<1> HIDE DEF ds
<1>6. ASSUME NEW obj \in Loose, contents[wumpus] # obj
      PROVE  Holding(ds, obj) \subseteq Holding(contents, obj)
  BY <1>4, <1>6 DEF Holding, Loose
<1>7. ASSUME NEW obj \in Loose, contents[wumpus] = obj
      PROVE  /\ wumpus \in Holding(contents, obj)
             /\ Holding(ds, obj)
                    \subseteq (Holding(contents, obj) \ {wumpus}) \cup {r}
  BY <1>1, <1>4, <1>7 DEF Holding, Loose
<1>8. AtMostCarried(contents, ds)
  BY <1>6, <1>7 DEF AtMostCarried
<1>9. QED
  BY <1>5, <1>8 DEF CarriedOn

\* Bats take a player, and themselves, from one room to another.
LEMMA BatsCarry ==
    ASSUME GameInv, running, NEW u, NEW id \in Rooms, NEW target \in Rooms,
           contents[id] = "bats",
           Arrive(u, target, [[contents EXCEPT ![id] = "nothing"]
                                       EXCEPT ![target] = "bats"])
    PROVE  CarriedOn
<1> DEFINE ds == [[contents EXCEPT ![id] = "nothing"]
                     EXCEPT ![target] = "bats"]
<1>1. contents \in [Rooms -> Contents]
  BY DEF GameInv, GameType
<1>2. AtMostCarried(contents, ds)
  BY <1>1, CarryingCarries
<1>3. ds[target] = "bats"
  BY <1>1
<1>4. Arrive(u, target, ds)
  OBVIOUS
<1> HIDE DEF ds
<1>5. running' => contents' = ds
  BY <1>3, <1>4 DEF Arrive, CheckLastPersonAlive, ClearGame, AfterPickup
<1>6. QED
  BY <1>2, <1>5 DEF CarriedOn

\* A player on foot picks up what turns up again in some other room.
LEMMA WalkingCarries ==
    ASSUME GameInv, running, NEW u, NEW dest \in Rooms,
           Arrive(u, dest, contents)
    PROVE  CarriedOn
<1>1. contents \in [Rooms -> Contents]
  BY DEF GameInv, GameType
<1>2. CASE contents' = contents
  BY <1>2 DEF CarriedOn, AtMostCarried
<1>3. CASE \E r \in Rooms :
              contents' = [[contents EXCEPT ![dest] = "nothing"]
                                     EXCEPT ![r] = contents[dest]]
  BY <1>1, <1>3, CarryingCarries DEF CarriedOn
<1>4. CASE ~running'
  BY <1>4 DEF CarriedOn
<1>5. QED
  BY <1>2, <1>3, <1>4
     DEF Arrive, CheckLastPersonAlive, ClearGame, AfterPickup, Regen

\* No handler does more to the objects than that.
LEMMA CarriedStep == IInv /\ [Next]_vars => CarriedOn
<1> SUFFICES ASSUME IInv, [Next]_vars, running, running' PROVE CarriedOn
  BY DEF CarriedOn
<1>1. ASSUME contents' = contents PROVE CarriedOn
  BY <1>1 DEF CarriedOn, AtMostCarried
<1>2. ASSUME NEW u \in Users, NEW id, Move(u, id) PROVE CarriedOn
  <2>1. u \in Players /\ exits \in Mazes
    BY <1>2 DEF Move, Playing, IInv, GameInv, GameType, RoomsAgree
  <2>2. id \in Rooms
    BY <1>2, <2>1, MazeExits DEF Move, IInv, GameInv, RoomsAgree
  <2>3. QED
    BY <1>2, <2>1, <2>2, BatsCarry, WalkingCarries DEF Move, IInv
<1>3. ASSUME NEW u, NEW target, NEW hit, ShootWumpus(u, target, hit)
      PROVE  CarriedOn
  <2>1. MoveWumpus(Loosed(u))
    BY <1>3 DEF ShootWumpus, HurryUp, ClearGame
  <2>2. QED
    BY <2>1, MoveWumpusCarries DEF IInv
<1>4. ASSUME NEW t, MoveTimerFires(t) PROVE CarriedOn
  <2>1. MoveWumpus(player)
    BY <1>4 DEF MoveTimerFires, IInv, GameInv, RoomsAgree
  <2>2. QED
    BY <2>1, MoveWumpusCarries DEF IInv
<1>5. ASSUME NEW u, NEW target,
             \/ ShootNothing(u, target) \/ CmdResign(u) \/ UserDeleted(u)
             \/ \E tp, hit : ShootPlayer(u, target, tp, hit)
      PROVE  contents' = contents
  BY <1>5 DEF ShootNothing, ShootPlayer, CmdResign, UserDeleted
<1>6. ASSUME NEW u, (\E size : Start(u, size)) \/ UserAdded(u)
      PROVE  contents' = contents
  BY <1>6 DEF Start, UserAdded, gameVars
<1>7. Tick \/ Load \/ UNCHANGED vars => contents' = contents
  BY DEF Tick, Load, vars, gameVars
<1>8. ~Reset /\ ~Unload /\ (\A u : ~Join(u))
  BY DEF Reset, ClearGame, Unload, Zeroed, Join
<1>9. \A t : ~StartGame(t)
  BY DEF StartGame, IInv, TimerInv, TimersOwned
<1>10. QED
  BY <1>1, <1>2, <1>3, <1>4, <1>5, <1>6, <1>7, <1>8, <1>9 DEF Next, TimerFires

\* No object is in more rooms after a step than before it.
Conserved ==
    running /\ running' =>
        \A obj \in {"pit", "bats", "arrows", "crystalball"} :
            Cardinality({r \in Rooms : contents'[r] = obj})
                <= Cardinality({r \in Rooms : contents[r] = obj})

LEMMA ConservedStep == IInv /\ [Next]_vars => Conserved
<1> SUFFICES ASSUME IInv, [Next]_vars, running, running',
                    NEW obj \in Loose
             PROVE  Cardinality(Holding(contents', obj))
                        <= Cardinality(Holding(contents, obj))
  BY DEF Conserved, Holding, Loose
<1>1. exits \in Mazes
  BY DEF IInv, GameInv, GameType, RoomsAgree
<1>2. QED
  BY <1>1, CarriedStep, CarriedCounts DEF CarriedOn

\* What a room contains is carried, picked up or trampled, never duplicated:
\* as long as a game goes on no object is in more rooms than before, the
\* crystal ball least of all (regen_obj, move_wumpus and move_player).
THEOREM ObjectsAreConserved == Spec => ObjectsNeverMultiply
<1>1. IInv /\ [Next]_vars => [Conserved]_vars
  BY ConservedStep
<1>2. Spec => [][Conserved]_vars
  BY <1>1, Invariance, PTL DEF Spec
<1>3. QED
  BY <1>2, PTL DEF ObjectsNeverMultiply, Conserved

(***************************************************************************)
(* The life of a game.                                                     *)
(***************************************************************************)
LifeStep == Lifecycle!Next \/ UNCHANGED <<Phase, Players>>

\* The code counts its players, the abstract game asks for two of them.
LEMMA CountPlayers ==
    ASSUME IInv
    PROVE  Cardinality(Players) < 2 <=> ~Lifecycle!Several
<1>1. IsFiniteSet(Players)
  BY FS_Subset, PlayerAssumption DEF IInv, GameInv, GameType
<1>2. Cardinality(Players) \in Nat
  BY <1>1, FS_CardinalityType
<1>3. ASSUME Cardinality(Players) < 2 PROVE ~Lifecycle!Several
  <2>1. Cardinality(Players) = 0 \/ Cardinality(Players) = 1
    BY <1>2, <1>3
  <2>2. Players = {} \/ \E x : Players = {x}
    BY <1>1, <2>1, FS_EmptySet, FS_Singleton
  <2>3. QED
    BY <2>2 DEF Lifecycle!Several
<1>4. ASSUME ~Lifecycle!Several PROVE Cardinality(Players) < 2
  <2>1. Players = {} \/ \E x : Players = {x}
    BY <1>4 DEF Lifecycle!Several
  <2>2. Cardinality(Players) = 0 \/ Cardinality(Players) = 1
    <3>1. \A x : Cardinality({x}) = 1
      BY FS_Singleton
    <3>2. QED
      BY <2>1, <3>1, FS_EmptySet
  <2>3. QED
    BY <2>2
<1>5. QED
  BY <1>3, <1>4

\* A step that only takes players away is a DropOut of the abstract game.
LEMMA DropOutStep ==
    ASSUME Phase' = Phase, Players' \subseteq Players, Phase = "playing"
    PROVE  LifeStep
<1> DEFINE S == Players \ Players'
<1>1. CASE S = {}
  BY <1>1 DEF LifeStep
<1>2. CASE S # {}
  <2>1. S \in SUBSET Players /\ Players' = Players \ S
    OBVIOUS
  <2>2. Lifecycle!DropOut(S)
    BY <1>2, <2>1 DEF Lifecycle!DropOut
  <2>3. QED
    BY <2>1, <2>2 DEF LifeStep, Lifecycle!Next
<1>3. QED
  BY <1>1, <1>2

\* A step in which the only change is that u, if a player, no longer is one.
LEMMA QuitStep ==
    ASSUME NEW u, Phase' = Phase, Players' = Players \ {u}
    PROVE  LifeStep
<1>1. CASE u \notin Players
  BY <1>1 DEF LifeStep
<1>2. CASE u \in Players
  <2>1. Lifecycle!DropOut({u})
    BY <1>2 DEF Lifecycle!DropOut
  <2>2. QED
    BY <1>2, <2>1 DEF LifeStep, Lifecycle!Next
<1>3. QED
  BY <1>1, <1>2

\* A game that goes on with its players or fewer, or ends.
LEMMA PlayStep ==
    ASSUME IInv, IInv', running, UNCHANGED <<loaded, starting>>,
           Players' \subseteq Players, ~running' => Players' = {}
    PROVE  LifeStep
<1>1. loaded /\ ~starting /\ Phase = "playing"
  BY DEF IInv, TimerInv, Phase
<1>2. CASE running'
  BY <1>1, <1>2, DropOutStep DEF Phase
<1>3. CASE ~running'
  <2>1. Lifecycle!Finish
    BY <1>1, <1>3 DEF Lifecycle!Finish, Phase
  <2>2. QED
    BY <2>1 DEF LifeStep, Lifecycle!Next
<1>4. QED
  BY <1>2, <1>3

LEMMA CheckEnds ==
    ASSUME NEW ps, NEW cs, NEW w, CheckLastPersonAlive(ps, cs, w), running
    PROVE  /\ ~running' => Players' = {}
           /\ Players' \subseteq DOMAIN ps
BY ClearGameOK DEF CheckLastPersonAlive, Players

LEMMA MoveEnds ==
    ASSUME NEW ps, MoveWumpus(ps), running
    PROVE  /\ ~running' => Players' = {}
           /\ Players' \subseteq DOMAIN ps
<1>1. PICK cs \in Regen(contents, contents[wumpus]), tr \in Exits(wumpus) :
        CheckLastPersonAlive(
            Resign(ps, {u \in Players : player[u].location = tr}),
            [[cs EXCEPT ![wumpus] = "nothing"] EXCEPT ![tr] = "wumpus"],
            tr)
  BY DEF MoveWumpus
<1>2. \A S : DOMAIN Resign(ps, S) \subseteq DOMAIN ps
  BY DEF Resign
<1>3. QED
  BY <1>1, <1>2, CheckEnds

\* What happens to the lobby when its timer fires.
LEMMA StartGameStep ==
    ASSUME IInv, IInv', NEW t, StartGame(t)
    PROVE  LifeStep
<1>1. loaded /\ starting /\ ~running /\ Phase = "lobby"
  BY DEF StartGame, IInv, TimerInv, TimersOwned, Phase
<1>2. loaded' /\ ~starting'
  BY <1>1 DEF StartGame
<1>3. Cardinality(Players) \in Nat
  BY FS_CardinalityType, FS_Subset, PlayerAssumption DEF IInv, GameInv, GameType
<1>4. CASE Cardinality(Players) < 2 /\ UNCHANGED gameVars
  <2>1. Players' = Players /\ Phase' = "idle"
    BY <1>1, <1>2, <1>4 DEF gameVars, Players, Phase
  <2>2. Lifecycle!CallOff
    BY <1>1, <1>4, <2>1, CountPlayers DEF Lifecycle!CallOff
  <2>3. QED
    BY <2>2 DEF LifeStep, Lifecycle!Next
<1>5. CASE Cardinality(Players) >= 2 /\ ClearGame
  <2>1. Players' = {} /\ Phase' = "idle"
    BY <1>2, <1>5, ClearGameOK DEF Phase, ClearGame
  <2>2. Lifecycle!Several
    BY <1>3, <1>5, CountPlayers
  <2>3. Lifecycle!CallOff
    BY <1>1, <2>1, <2>2 DEF Lifecycle!CallOff
  <2>4. QED
    BY <2>3 DEF LifeStep, Lifecycle!Next
<1>6. CASE Cardinality(Players) >= 2 /\ running' = TRUE /\ DOMAIN player' = Players
  <2>1. Players' = Players /\ Phase' = "playing"
    BY <1>2, <1>6 DEF Players, Phase
  <2>2. Lifecycle!Several
    BY <1>3, <1>6, CountPlayers
  <2>3. Lifecycle!Begin
    BY <1>1, <2>1, <2>2 DEF Lifecycle!Begin
  <2>4. QED
    BY <2>3 DEF LifeStep, Lifecycle!Next
<1>7. QED
  BY <1>4, <1>5, <1>6 DEF StartGame

\* Every step of the service is one of the abstract game, or none.
LEMMA LifecycleStep ==
    ASSUME IInv, IInv', [Next]_vars
    PROVE  LifeStep
<1>1. ASSUME NEW u \in Users, NEW size, Start(u, size)
      PROVE  LifeStep
  <2>1. Lifecycle!Open
    BY <1>1 DEF Start, gameVars, Lifecycle!Open, Phase, Players
  <2>2. QED
    BY <2>1 DEF LifeStep, Lifecycle!Next
<1>2. ASSUME NEW u \in Users, Join(u)
      PROVE  LifeStep
  <2>1. Lifecycle!Enter(u)
    BY <1>2 DEF Join, Lifecycle!Enter, Phase, Players
  <2>2. QED
    BY <2>1 DEF LifeStep, Lifecycle!Next
<1>3. ASSUME NEW u \in Users, NEW id, Move(u, id)
      PROVE  LifeStep
  <2>1. running /\ UNCHANGED <<loaded, starting>>
    BY <1>3 DEF Move, Playing
  <2>2. PICK dest, cs : Arrive(u, dest, cs)
    BY <1>3 DEF Move
  <2>3. CASE CheckLastPersonAlive(Resign(player, {u}), cs, wumpus)
    <3>1. DOMAIN Resign(player, {u}) \subseteq Players
      BY DEF Resign, Players
    <3>2. QED
      BY <2>1, <2>3, <3>1, CheckEnds, PlayStep
  <2>4. CASE DOMAIN player' = DOMAIN player /\ UNCHANGED running
    BY <2>1, <2>4, PlayStep DEF Players
  <2>5. QED
    BY <2>2, <2>3, <2>4 DEF Arrive
<1>4. ASSUME NEW u \in Users, NEW target, ShootNothing(u, target)
      PROVE  LifeStep
  BY <1>4, PlayStep
     DEF ShootNothing, ShootAnArrow, Playing, Loosed, Players
<1>5. ASSUME NEW u \in Users, NEW target, NEW tp, NEW hit,
             ShootPlayer(u, target, tp, hit)
      PROVE  LifeStep
  <2>1. running /\ UNCHANGED <<loaded, starting, running>>
    BY <1>5 DEF ShootPlayer, ShootAnArrow, Playing
  <2>2. Players' \subseteq Players
    BY <1>5 DEF ShootPlayer, Resign, Loosed, Players
  <2>3. QED
    BY <2>1, <2>2, PlayStep
<1>6. ASSUME NEW u \in Users, NEW target, NEW hit, ShootWumpus(u, target, hit)
      PROVE  LifeStep
  <2>1. running /\ UNCHANGED <<loaded, starting>>
    BY <1>6 DEF ShootWumpus, HurryUp, ShootAnArrow, Playing
  <2>2. DOMAIN Loosed(u) = Players
    BY DEF Loosed, Players
  <2>3. CASE ClearGame
    BY <2>1, <2>3, ClearGameOK, PlayStep
  <2>4. CASE MoveWumpus(Loosed(u))
    BY <2>1, <2>2, <2>4, MoveEnds, PlayStep
  <2>5. QED
    BY <1>6, <2>3, <2>4 DEF ShootWumpus, HurryUp
<1>7. ASSUME NEW u, CmdResign(u) \/ UserDeleted(u)
      PROVE  LifeStep
  <2>1. Players' = Players \ {u} /\ Phase' = Phase
    BY <1>7 DEF CmdResign, UserDeleted, Resign, Players, Phase
  <2>2. QED
    BY <2>1, QuitStep
<1>8. ASSUME Reset
      PROVE  LifeStep
  <2>1. /\ loaded /\ running /\ ~starting
        /\ loaded' /\ ~running' /\ ~starting'
    BY <1>8 DEF Reset, ClearGame, IInv, TimerInv
  <2>2. Players' = {}
    BY <1>8, ClearGameOK DEF Reset
  <2>3. Lifecycle!Finish
    BY <2>1, <2>2 DEF Lifecycle!Finish, Phase
  <2>4. QED
    BY <2>3 DEF LifeStep, Lifecycle!Next
<1>9. ASSUME NEW t, MoveTimerFires(t)
      PROVE  LifeStep
  <2>1. CASE exits = NoMaze
    BY <1>9, <2>1
       DEF MoveTimerFires, gameVars, LifeStep, Phase, Players
  <2>2. CASE exits # NoMaze
    <3>1. running /\ UNCHANGED <<loaded, starting>> /\ MoveWumpus(player)
      BY <1>9, <2>2 DEF MoveTimerFires, IInv, GameInv, RoomsAgree
    <3>2. QED
      BY <3>1, MoveEnds, PlayStep DEF Players
  <2>3. QED
    BY <2>1, <2>2
<1>10. ASSUME Unload
       PROVE  LifeStep
  <2>1. Lifecycle!Close
    BY <1>10 DEF Unload, Zeroed, Lifecycle!Close, Phase, Players
  <2>2. QED
    BY <2>1 DEF LifeStep, Lifecycle!Next
<1>11. ASSUME Load
       PROVE  LifeStep
  <2>1. ~loaded /\ ~running /\ ~starting
    BY <1>11, TimerAssumption DEF Load, IInv, TimerInv
  <2>2. Lifecycle!Return
    BY <1>11, <2>1 DEF Load, gameVars, Lifecycle!Return, Phase, Players
  <2>3. QED
    BY <2>2 DEF LifeStep, Lifecycle!Next
<1>12. ASSUME Tick \/ (\E u : UserAdded(u)) \/ UNCHANGED vars
       PROVE  LifeStep
  BY <1>12 DEF Tick, UserAdded, vars, gameVars, LifeStep, Phase, Players
<1>13. QED
  BY <1>1, <1>2, <1>3, <1>4, <1>5, <1>6, <1>7, <1>8, <1>9, <1>10, <1>11,
     <1>12, StartGameStep DEF Next, TimerFires

\* Whatever the users, mazes and periods, the service implements the abstract
\* life of a game.
THEOREM ImplementsLifecycle == Spec => LifecycleHolds
<1>1. Init => Lifecycle!Init
  BY DEF Init, Lifecycle!Init, Phase, Players
<1>2. IInv /\ IInv' /\ [Next]_vars => [Lifecycle!Next]_(Lifecycle!vars)
  BY LifecycleStep DEF LifeStep, Lifecycle!vars
<1>3. QED
  BY <1>1, <1>2, Invariance, PTL DEF Spec, LifecycleHolds, Lifecycle!Spec
=============================================================================
