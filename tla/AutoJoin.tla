------------------------------ MODULE AutoJoin ------------------------------
(***************************************************************************)
(* src/src/ns_ajoin.c: the channels a user is made to join when they       *)
(* identify, kept in one string with commas in between.  Strings are       *)
(* sequences of characters, because DEL works on characters.               *)
(* Operators named Bad... are wrong variants of the one below them.        *)
(***************************************************************************)
EXTENDS Integers, Sequences, FiniteSetsExt

CONSTANTS
    ChannelNames,   \* what users give to ADD and DEL; it is not validated
    MaxLength       \* 400 characters

VARIABLE autojoin   \* the metadata entry private:autojoin, or NoEntry

NoEntry == <<"no entry">>
Comma == ","
Space == " "

\* A parameter of a command is not empty; NoEntry is no text.
ASSUME ChannelAssumption ==
    ChannelNames \subseteq Seq(STRING \ {NoEntry[1]}) \ {<<>>}

AutoJoinInit == autojoin = NoEntry

\* From i to j there is a part between commas.
Part(list, i, j) ==
    /\ i <= j
    /\ \A k \in i .. j : list[k] # Comma
    /\ i = 1 \/ list[i - 1] = Comma
    /\ j = Len(list) \/ list[j + 1] = Comma

\* strtok: the parts between commas, the empty ones left out
Items(list) ==
    UNION {{SubSeq(list, i, j) : j \in {j \in DOMAIN list : Part(list, i, j)}} :
              i \in DOMAIN list}

\* What LIST shows, and what ADD takes for the channels that are on the list
Listed(list) == IF list = NoEntry THEN {} ELSE Items(list)

\* ajoin_on_identify: the first token begins and ends where there is a space or a
\* comma, those after it where there is a comma, as in LIST.
Joined(list) ==
    LET starts == {i \in DOMAIN list : list[i] \notin {Space, Comma}}
        first == Min(starts)
        ends == {i \in DOMAIN list : i > first /\ list[i] \in {Space, Comma}}
        end == IF ends = {} THEN Len(list) + 1 ELSE Min(ends)
    IN  IF list = NoEntry \/ starts = {} THEN {}
        ELSE {SubSeq(list, first, end - 1)} \cup Items(SubSeq(list, end + 1, Len(list)))

\* ns_cmd_ajoin, ADD: the limit does not apply to the first channel.
AddChannel(name) ==
    /\ name \notin Listed(autojoin)
    /\ IF autojoin = NoEntry
       THEN autojoin' = name
       ELSE /\ Len(autojoin) + Len(name) <= MaxLength
            /\ autojoin' = autojoin \o <<Comma>> \o name

\* ns_cmd_ajoin, CLEAR
Clear == autojoin' = NoEntry

\* The number of characters of the name that the scan has matched when it has
\* read i of the list; where they differ it starts again with the next one.
Matched(list, name) ==
    LET m[i \in 0 .. Len(list)] ==
            IF i = 0 THEN 0
            ELSE LET j == m[i - 1]
                 IN  IF j = Len(name) THEN j
                     ELSE IF list[i] = name[j + 1] THEN j + 1 ELSE 0
    IN  m

\* as if the separator were a comma and a space
BadWithout(before, after) ==
    IF after # <<>> THEN before \o SubSeq(after, 3, Len(after))
    ELSE IF before # <<>> THEN SubSeq(before, 1, Len(before) - 2)
    ELSE NoEntry

\* The comma that goes with the item is the one before it if it is the last.
Without(before, after) ==
    IF after # <<>> THEN before \o Tail(after)
    ELSE IF before # <<>> THEN SubSeq(before, 1, Len(before) - 1)
    ELSE NoEntry

\* ns_cmd_ajoin, DEL
DelChannel(name) ==
    LET m == Matched(autojoin, name)
    IN  /\ autojoin # NoEntry /\ m[Len(autojoin)] = Len(name)
        /\ LET end == CHOOSE i \in DOMAIN autojoin :
                          m[i] = Len(name) /\ m[i - 1] # Len(name)
           IN  autojoin' = Without(SubSeq(autojoin, 1, end - Len(name)),
                                   SubSeq(autojoin, end + 1, Len(autojoin)))

AutoJoinNext ==
    \/ \E name \in ChannelNames : AddChannel(name) \/ DelChannel(name)
    \/ Clear

(***************************************************************************)
(* Properties.                                                             *)
(***************************************************************************)
Within(name, list) ==
    {i \in 1 .. Len(list) - Len(name) + 1 : SubSeq(list, i, i + Len(name) - 1) = name}

AutoJoinTypeOK ==
    autojoin = NoEntry \/ \A i \in DOMAIN autojoin : autojoin[i] # "no entry"

\* What comes first on the list is an entry without a space in or before it.
WholeFirst(list) ==
    list = NoEntry \/ \E i, j \in DOMAIN list :
                         Part(list, i, j) /\ \A k \in 1 .. j : list[k] # Space

\* DEL of one channel takes that one off the list and leaves the others, wherever
\* it is in the list and whatever DELs of other names have left there, as long as
\* its name is not also part of another entry.  The same holds of the channels the
\* user is made to join, unless the entry that was or now is the first has a space:
\* of that one the parts are joined, and of any other the whole.
ExactRemoval ==
    [][\A name \in ChannelNames :
          (/\ DelChannel(name)
           /\ name \in Listed(autojoin)
           /\ \A i, j \in Within(name, autojoin) : i = j) =>
              /\ Listed(autojoin') = Listed(autojoin) \ {name}
              /\ WholeFirst(autojoin) /\ WholeFirst(autojoin') =>
                    Joined(autojoin') = Joined(autojoin) \ {name}]_autojoin
=============================================================================
