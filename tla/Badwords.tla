------------------------------ MODULE Badwords ------------------------------
(***************************************************************************)
(* src/src/cs_badwords.c: channels keep lists of bad words, each with what *)
(* is done to who says it; the first word that matches a line decides.  The*)
(* lists hang on the channels and go to the database as rows of type BW,   *)
(* the type that dnsbl.c gives the rows of its exempts as well.  A row is  *)
(* the sequence of the words of its line, without the time: what was one   *)
(* field when it was written is as many words as it has when it is read.   *)
(* Operators named Bad... that take the place of another are wrong variants*)
(* of the one below them.                                                  *)
(***************************************************************************)
EXTENDS Naturals, Sequences, FiniteSets, SequencesExt, Maps

CONSTANTS
    Channels,
    Words,
    Actions,     \* the actions ADD takes: QUIET needs a network with mode q
    Founders,    \* the channels that are registered, SET and dropped; all others are
                 \* registered from the start, with blockbadwords (a bound)
    Givers,      \* who adds words, and for what action: with a space or not (a bound)
    Reasons,     \* who gives exempts, and for what reason, as words (a bound)
    MaxWords     \* bad words and exempts, in memory and in the database (a bound)

Effects == [KICKBAN |-> {"ban", "kick"}, KICK |-> {"kick"}, WARN |-> {"notice"},
            QUIET |-> {"quiet"}, BAN |-> {"ban"}]

Flags == {"blockbadwords", "blockbadwordsops"}

\* The words of rows: get_source_name gives the nick, and after a space the account
\* in parentheses when that has another name.
Fields == Words \cup Channels \cup DOMAIN Effects \cup {"nick", "(account)", "other"}

\* Names of channels begin with #.
ASSUME BadwordsAssumption ==
    /\ Actions \subseteq DOMAIN Effects /\ Founders \subseteq Channels /\ MaxWords \in Nat
    /\ IsFiniteSet(Channels) /\ "(account)" \notin Channels
    /\ Givers \subseteq BOOLEAN \X Actions
    /\ Reasons \subseteq BOOLEAN \X (Seq(Fields) \ {<<>>})

VARIABLES
    up,        \* services run; when they do not, they could not start
    modules,   \* which of cs_badwords and dnsbl are loaded
    flags,     \* the registered channels and their metadata (services core)
    words,     \* "badword:list" of each registered channel, oldest first
    exempts,   \* dnsbl_elist
    db,        \* the database
    kept,      \* what was in memory at the last save (to compare with)
    exempted   \* the addresses there has been an exempt for (to compare with)

vars == <<up, modules, flags, words, exempts, db, kept, exempted>>

\* badword_t and dnsbl_exempt_t; spaced: the creator has a space
Entry == [badword : Words, spaced : BOOLEAN, action : Fields]
Exemption == [ip : Words, spaced : BOOLEAN, reason : Seq(Fields) \ {<<>>}]

Registered == DOMAIN flags

\* The loop goes on to the next word when a word that matches has an action it does
\* not know.
Hits(list, matching) ==
    {i \in DOMAIN list : list[i].badword \in matching /\ list[i].action \in DOMAIN Effects}

Answer(list, matching) ==
    IF Hits(list, matching) = {} THEN {} ELSE Effects[list[Min(Hits(list, matching))].action]

\* on_channel_message, with the words that match the line and whether who said
\* it is an op, PROTECT or OWNER: the calls it makes, none of which changes
\* anything of this module.
OnChannelMessage(set, list, op, matching) ==
    IF "blockbadwords" \notin set \/ (op /\ "blockbadwordsops" \in set)
    THEN {} ELSE Answer(list, matching)

Init ==
    /\ up = TRUE /\ modules \in SUBSET {"cs_badwords", "dnsbl"}
    /\ flags = [c \in Channels \ Founders |-> {"blockbadwords"}]
    /\ words = [c \in Channels \ Founders |-> <<>>] /\ exempts = <<>>
    /\ db = [flags |-> flags, rows |-> <<>>]
    /\ kept = [loaded |-> FALSE, flags |-> EmptyMap, words |-> EmptyMap, exempts |-> <<>>]
    /\ exempted = {}

Loaded == up /\ "cs_badwords" \in modules

Total == Len(exempts) + SumFunction([c \in Registered |-> Len(words[c])]) + Len(db.rows)

BadNewWord(c, w) == TRUE

\* "has already been entered into the bad word list"
NewWord(c, w) == \A i \in DOMAIN words[c] : words[c][i].badword # w

\* cs_cmd_badwords ADD
Add(c, w, spaced, a) ==
    /\ Loaded /\ c \in Registered /\ Total < MaxWords
    /\ NewWord(c, w)
    /\ words' = [words EXCEPT ![c] = Append(@, [badword |-> w, spaced |-> spaced, action |-> a])]
    /\ UNCHANGED <<up, modules, flags, exempts, db, kept, exempted>>

\* cs_cmd_badwords DEL
Delete(c, w) ==
    /\ Loaded /\ c \in Registered
    /\ \E i \in DOMAIN words[c] :
          words[c][i].badword = w /\ words' = [words EXCEPT ![c] = RemoveAt(@, i)]
    /\ UNCHANGED <<up, modules, flags, exempts, db, kept, exempted>>

\* cs_set_cmd_blockbadwords and cs_set_cmd_blockbadwordsops, ON and OFF
SetFlag(c, f) ==
    /\ Loaded /\ c \in Registered \cap Founders
    /\ \/ f \notin flags[c] /\ flags' = [flags EXCEPT ![c] = @ \cup {f}]
       \/ f \in flags[c] /\ flags' = [flags EXCEPT ![c] = @ \ {f}]
    /\ UNCHANGED <<up, modules, words, exempts, db, kept, exempted>>

\* Channels are registered and dropped, with everything that hangs on them.
Register(c) ==
    /\ up /\ c \in Founders \ Registered
    /\ flags' = Put(flags, c, {}) /\ words' = Put(words, c, <<>>)
    /\ UNCHANGED <<up, modules, exempts, db, kept, exempted>>

Drop(c) ==
    /\ up /\ c \in Registered \cap Founders
    /\ flags' = Del(flags, c) /\ words' = Del(words, c)
    /\ UNCHANGED <<up, modules, exempts, db, kept, exempted>>

\* os_cmd_dnsblexempt ADD, unless the address "has already been entered"
Exempt(w, spaced, reason) ==
    /\ up /\ "dnsbl" \in modules /\ Total < MaxWords
    /\ \A i \in DOMAIN exempts : exempts[i].ip # w
    /\ exempts' = Append(exempts, [ip |-> w, spaced |-> spaced, reason |-> reason])
    /\ exempted' = exempted \cup {w}
    /\ UNCHANGED <<up, modules, flags, words, db, kept>>

\* os_cmd_dnsblexempt DEL
Unexempt(w) ==
    /\ up /\ "dnsbl" \in modules
    /\ \E i \in DOMAIN exempts : exempts[i].ip = w /\ exempts' = RemoveAt(exempts, i)
    /\ UNCHANGED <<up, modules, flags, words, db, kept, exempted>>

\* The beginning of both kinds of rows
By(word, spaced) == IF spaced THEN <<word, "nick", "(account)">> ELSE <<word, "nick">>

BadWordRow(bw, c) == <<bw.badword, c, bw.action>>

WordRow(bw, c) == By(bw.badword, bw.spaced) \o <<c, bw.action>>

RowsOf(list, c) == [i \in DOMAIN list |-> WordRow(list[i], c)]

\* write_badword_db, with the lists of all channels
WordRows(lists) ==
    LET order == SetToSeq(DOMAIN lists)
    IN  FlattenSeq([i \in DOMAIN order |-> RowsOf(lists[order[i]], order[i])])

\* write_dnsbl_exempt_db
ExemptRow(de) == By(de.ip, de.spaced) \o de.reason
ExemptRows(list) == [i \in DOMAIN list |-> ExemptRow(list[i])]

\* The database is written: the loaded modules add their rows, in either order.
Save ==
    /\ up
    /\ kept' = [loaded |-> Loaded, flags |-> flags,
                words |-> IF Loaded THEN words ELSE EmptyMap,
                exempts |-> IF "dnsbl" \in modules THEN exempts ELSE <<>>]
    /\ LET own == WordRows(kept'.words)
           other == ExemptRows(kept'.exempts)
       IN  \E rows \in {own \o other, other \o own} : db' = [flags |-> flags, rows |-> rows]
    /\ UNCHANGED <<up, modules, flags, words, exempts, exempted>>

\* The row's words are taken for the word, its creator, its channel and its action,
\* whatever they were when it was written.
EntryOf(row) == [badword |-> row[1], spaced |-> FALSE, action |-> row[4]]

BadAddRow(list, row) == <<EntryOf(row)>> \o list

AddRow(list, row) == Append(list, EntryOf(row))

\* "if (irccasecmp(mc->name, channel)) continue"
Belongs(row, c) == row[3] = c

\* db_h_bw, for each of the rows in the order of the file
Restored(rows, c) ==
    LET list[n \in 0 .. Len(rows)] ==
            IF n = 0 THEN <<>>
            ELSE IF Belongs(rows[n], c) THEN AddRow(list[n - 1], rows[n])
            ELSE list[n - 1]
    IN  list[Len(rows)]

\* db_sread_word ends services when a row has no more words.
Readable(rows) == \A i \in DOMAIN rows : Len(rows[i]) >= 4

\* Services stop at any time and start again, perhaps with other modules; no row
\* is read back as an exempt.
Restart(mods) ==
    /\ modules' = mods
    /\ up' = ("cs_badwords" \in mods => Readable(db.rows))
    /\ flags' = IF up' THEN db.flags ELSE EmptyMap
    /\ words' = [c \in DOMAIN flags' |->
                    IF "cs_badwords" \in mods THEN Restored(db.rows, c) ELSE <<>>]
    /\ exempts' = <<>>
    /\ UNCHANGED <<db, kept, exempted>>

\* The lists stay on the channels when cs_badwords goes; dnsbl_elist goes with
\* dnsbl.  Nothing is read from the database when a module is loaded.
Unload(m) ==
    /\ up /\ m \in modules
    /\ modules' = modules \ {m}
    /\ exempts' = IF m = "dnsbl" THEN <<>> ELSE exempts
    /\ UNCHANGED <<up, flags, words, db, kept, exempted>>

Load(m) ==
    /\ up /\ m \notin modules
    /\ modules' = modules \cup {m}
    /\ UNCHANGED <<up, flags, words, exempts, db, kept, exempted>>

Next ==
    \/ \E c \in Channels :
          \/ \E w \in Words :
                \/ Delete(c, w)
                \/ \E g \in Givers : Add(c, w, g[1], g[2])
          \/ \E f \in Flags : SetFlag(c, f)
          \/ Register(c)
          \/ Drop(c)
    \/ \E w \in Words :
          \/ \E g \in Reasons : Exempt(w, g[1], g[2])
          \/ Unexempt(w)
    \/ Save
    \/ \E mods \in SUBSET {"cs_badwords", "dnsbl"} : Restart(mods)
    \/ \E m \in {"cs_badwords", "dnsbl"} : Unload(m) \/ Load(m)

Spec == Init /\ [][Next]_vars

(***************************************************************************)
(* Properties.                                                             *)
(***************************************************************************)
\* Every variable has its type.  A word that is twice in a list, so that DEL leaves
\* it there, is an address there has been an exempt for; no other comes back from
\* the database a second time.
TypeOK ==
    /\ modules \subseteq {"cs_badwords", "dnsbl"}
    /\ Registered \subseteq Channels /\ DOMAIN words = Registered
    /\ \A c \in Registered : /\ flags[c] \subseteq Flags
                             /\ words[c] \in Seq(Entry)
                             /\ \A i, j \in DOMAIN words[c] :
                                   words[c][i].badword = words[c][j].badword =>
                                      i = j \/ words[c][i].badword \in exempted
    /\ exempts \in Seq(Exemption) /\ exempted \subseteq Words
    /\ db.rows \in Seq(Seq(Fields))

\* The words that do not come back as they were saved: the rows of those whose
\* creator has a space have their fields shifted; the row of an exempt whose reason
\* begins with the name of the channel and an action passes for a row of the channel.
Lost(c) ==
    {w \in Words : \E i \in DOMAIN kept.words[c] :
                      kept.words[c][i].badword = w /\ kept.words[c][i].spaced}

Gained(c) ==
    {w \in Words : \E i \in DOMAIN kept.exempts :
                      /\ kept.exempts[i].ip = w /\ ~kept.exempts[i].spaced
                      /\ Len(kept.exempts[i].reason) >= 2 /\ kept.exempts[i].reason[1] = c
                      /\ kept.exempts[i].reason[2] \in DOMAIN Effects}

\* After services have started again with cs_badwords, from a database written
\* with it, every line in every channel that none of the words above matches has
\* the effect it had at the time of the save: no other word is lost, moved before
\* another, or given to another channel, whatever modules came and went in between.
VerdictsSurviveRestart ==
    [][\A mods \in SUBSET {"cs_badwords", "dnsbl"} :
          kept.loaded /\ "cs_badwords" \in mods /\ up' /\ Restart(mods) =>
              /\ DOMAIN words' = DOMAIN kept.words
              /\ \A c \in DOMAIN kept.words, op \in BOOLEAN, m \in SUBSET Words :
                    m \cap (Lost(c) \cup Gained(c)) = {} =>
                       OnChannelMessage(flags'[c], words'[c], op, m) =
                       OnChannelMessage(kept.flags[c], kept.words[c], op, m)]_vars

\* The words themselves never keep services from starting; an exempt of dnsbl by
\* somebody without a space in his name, with a reason of one word, does.
OnlyExemptsKeepServicesDown ==
    ~up => \E i \in DOMAIN kept.exempts :
              ~kept.exempts[i].spaced /\ Len(kept.exempts[i].reason) = 1
=============================================================================
