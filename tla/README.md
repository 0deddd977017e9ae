# A formal model of atheme-contrib-modules

The repository is a collection of modules for the Atheme IRC services: each
`src/src/*.c` file is a shared object that services load, with commands, hooks,
timers, callbacks of DNS look-ups and of child processes, and rows of its own in
the services database.  Services are one process with one event loop: a handler
runs to its end before the next begins, so a handler is one action here.  What
can go wrong lies between handlers: the answer that comes after the user has
left, the timer that fires after the game has ended, the module that is unloaded
while something is under way, the database that is older than memory.

The modules of this directory model the parts of the collection that keep state
across handlers, TLC checks them on small instances, and TLAPS proves the most
important properties for every value of the constants.  Paths are relative to the
repository.  "Core" is the services program the modules are loaded into; its code
is not in the repository, and its operations are modelled from how the modules
use them (they are marked external in `PROJECT.json`).

## 1. Inventory

### Modelled

**Wumpus game** (`src/src/wumpus.c`).  State: one global `game_t` (running,
starting, wanted size, the players with room, arrows and hit points, the rooms
with exits, contents and the list of who is in them, the wumpus's room, hit points
and speed, pointers to two timers).  Operations: START, JOIN, MOVE, SHOOT, RESIGN,
RESET, the lobby timer, the wumpus's move timer, the `user_delete` hook, load and
unload.  Hard: who is where is recorded twice; a death can happen in five handlers
and some of them go on with what they have read before; a wound restarts the timer
after a move that may have ended the game; one-shot timers leave their pointers.
Correct means: the two records agree, no player who has left the network is kept,
meeting the wumpus is fatal, objects are conserved, the timer's period follows the
wounds, timers never get out of reach, lobbies close and games end.

**Asynchronous mail check** (`src/src/ns_mxcheck_async.c`).  State: a counter and
ten static slots, and the children that run.  Operations: the registration hook,
which forks, and the callback of an ended child, which may drop the account.
Hard: children end in any order; accounts are refused by another hook, dropped,
registered again or given other addresses before the verdict, and look-ups fail.
Correct means: a verdict falls on the registration it is about.

**DEFCON** (`src/src/os_defcon.c`) and the modes of all channels
(`src/src/os_savechanmodes.c`, `src/src/os_modeall.c`).  State: level, timer
pointer, an entry of the ignore list, modes of all channels, the file of dumped
modes.  Operations: DEFCON, the time-out, load and unload, the ban of users who
connect at level 1, the refusal of registrations; SAVECHANMODES, LOADCHANMODES,
MODEALL.  Hard: the level changes while the timer runs, the pointer outlives the
timer, operators, channels and restored dumps change the same ignore list and modes.
Correct means: a lockdown ends, ends completely, and leaves nothing behind.

**DNS blacklists** (`src/src/dnsbl.c`), **nick lists**
(`src/src/os_akillnicklist.c`) and **KLINECHAN** (`src/src/os_klinechan.c`).
State: the configured blacklists, the action, the exempts, the queries under way
with their pointers to a user and a blacklist; the channels that ban who joins.
They and `os_defcon.c` share one thing, the flag `UF_KLINESENT` of a user.  Hard:
an answer can arrive after its user has left and the memory has gone to another,
after a rehash has freed its blacklist, or after the action has been set to NONE;
several modules find the same user guilty.  Correct means: a k-line is for the one
who is listed, and one connection gets one.

**Announcement requests** (`src/src/ircd_announceserv.c`).  State: one list,
saved with the accounts.  Operations: REQUEST, CANCEL, WAITING, ACTIVATE, REJECT,
the hook on dropped accounts, save, start, load, unload.  Hard: requests are filed
under a name, names change, and two modules of the repository delete accounts without
calling the hook; the operator looks at one moment and activates at
another; the database is older than memory.

**Bad words** (`src/src/cs_badwords.c`).  State: a list of words for each
channel, kept on the channel itself, and two flags.  Operations: BADWORDS ADD and
DEL, SET BLOCKBADWORDS and BLOCKBADWORDSOPS, the hook on channel messages, save,
start, load, unload.  Hard: the first matching word decides, so order matters
through deletions, saves and restarts; `dnsbl.c` writes rows of the same type; and
what was one field when a row was written may be two words when it is read.  Correct
means: a restart changes what is done about a line only where such a row is to blame.

**Network trace** (`src/src/os_trace.c`).  State: while a command runs, the
compiled criteria, the action and the place in the list of users; between commands
none.  Operations: TRACE with PRINT, COUNT, KILL or AKILL.  Hard: KILL removes the
users it walks over, with that empties and frees channels, one of which a criterion
may hold a pointer to, and changes what criteria look at; AKILL bans a host that
later users share.  Correct means: those who match when the command is given are
acted upon, and nobody else, whatever happens on the way.

**Saving** (`src/src/on_db_save.c`).  State: one flag and the child that runs, the
descriptors of the process.  Operations: the hook on saves, the end of a child, load
and unload, rehash.  Hard: saves that come while a command runs, forks and pipes that
fail, the module unloaded under its child.  Correct means: one command at a time, and
a save that had none is made good.

**Resolver command** (`src/src/os_resolve.c`).  State: requests in flight, each with a
reference to the source of its command.  Hard: replies that do not come, unload.
Correct means: a source lives as long as somebody may answer it.

**Automatic joins** (`src/src/ns_ajoin.c`).  State: one string for an account.  Hard:
DEL looks for characters, not for channels; what is joined is read otherwise than what
is listed.  Correct means: DEL takes one channel.

**Join monitor** (`src/src/os_joinmon.c`).  State: a list of patterns and its JM rows.
Hard: an entry may hold a string constant that DEL frees; a restart makes a copy.

**Forbidden nicks** (`src/src/ns_forbid.c`, `ns_freezeexpire.c`, `ns_fregister.c`).
State: accounts, of which nothing says which are forbidden nicks.  Hard: FORBID OFF
goes by what an account looks like after others have frozen, thawed, held, grouped or
used it.  Correct means: FORBID OFF deletes what FORBID ON made, no account in use.

**Virtual hosts** (`src/src/gen_vhostonreg.c`).  State: a counter, and the hosts of the
accounts.  Hard: two hooks, wraps, reloads.  Correct means: a host has one owner.

**Registrations and log-ins** (`src/src/ns_goodmail.c`, `ns_mxcheck.c`,
`ns_guestnoreg.c`, `ns_waitreg.c`, `sasl_blacklist.c`, with `os_defcon.c`).  State:
their lists, and the connections they judge.  Hard: they share the field `approved`, in
the order of loading; a connection is first a session and then a user and is judged
differently; lists change meanwhile.  Correct means: no refusal is undone, and a
restricted client has no way to an account but a permitted mechanism.

**Channel registration and status** (`src/src/cs_fregister.c`, `mlocktweaker.c`,
`cs_regmode.c`, `cs_updown.c`).  State: locks, flags and status of a channel.  Hard:
the configured text adds to two masks; flags and status change between UP and DOWN.
Correct means: locks are consistent, and DOWN takes what UP has given.

### Not modelled

* `ns_sendpassmail.c` keeps one key for an account, which the core's SETPASS uses up;
  the interesting half of that exchange is in the core.
* `ms_fsend.c` sends a memo and is bounded by two counts that the core's memo
  commands keep; alone it has no interleaving.
* Of `sasl_blacklist.c` the hook on renaming an account: names of accounts are not
  in `Registration`.  Of `ns_goodmail.c` the GE rows: they are written and read the
  way the JM rows of `os_joinmon.c` are, which `JoinMon` has.  Of `os_savechanmodes.c`
  bans and modes other than +R.  Of `os_akillnicklist.c` the reading of its files.

### Left out

Commands and hooks that keep no state and only send lines (`cs_ping.c`,
`cs_access_alias.c`, `cs_kickdots.c`, `cs_babbler.c`, `cs_userinfo.c`, `cs_regnotice.c`,
`ns_regnotice.c`, `cs_modesync.c`, `ns_fenforce.c`,
`ns_cleannick.c`, `ns_listlogins.c`, `ns_generatehash.c`, `ns_generatepass.c`,
`os_pingspam.c`, `os_kill.c`, `os_helpme.c`, `os_procwatch.c`,
`os_testproc.c`, `ircd_loveserv.c`, `ircd_catserv.c`, `gs_roulette.c`),
demonstrations of the services API (`gen_echoserver.c`, `gen_listenerdemo.c`,
`os_tabletest.c`, `os_testcmd.c`), `graphtastical.c`, which writes a file, the
crash handler `backtrace.c`, and the build system.

## 2. Modules

| Module | Models | Used by |
| --- | --- | --- |
| `Maps` | the dictionaries of the core (libmowgli) | most modules |
| `WumpusLifecycle` | what a game looks like from outside: lobby, two players or more, only departures, an empty end | `Wumpus` (refinement) |
| `Wumpus` | `wumpus.c` | `MCWumpus`, `WumpusProofs` |
| `MailCheck` | what `src/README.md` promises of the mail check: each registration is checked by itself | `MxCheckAsync` (refinement) |
| `MxCheckAsync` | `ns_mxcheck_async.c` | `MxCheckProofs` |
| `Defcon` | `os_defcon.c` | `ChannelModes` |
| `ChannelModes` | `os_savechanmodes.c` and `os_modeall.c`, composed with `Defcon` | `DefconProofs` |
| `Dnsbl` | `dnsbl.c`: state and actions, no next-state relation of its own | `UserBans` |
| `UserBans` | the four modules that k-line users, composed | `MCUserBans`, `UserBansProofs` |
| `Announceserv` | `ircd_announceserv.c` | `AnnounceservProofs` |
| `Badwords` | `cs_badwords.c`, and the rows of `dnsbl.c` that look like its own | `MCBadwords`, `BadwordsProofs` |
| `TraceNetwork` | users, channels and k-lines of the core, and whom the actions of TRACE pass over | `TraceOnce`, `Trace` |
| `TraceOnce` | what TRACE promises: everybody who matches at once, then the reply | `Trace` (refinement) |
| `Trace` | `os_trace.c` | `MCTrace`, `TraceProofs` |
| `Process` | the services process, which some modules can end | `OnDbSave`, `JoinMon` |
| `OnDbSave` | `on_db_save.c` | `SideBySide` |
| `Resolve` | `os_resolve.c` | `SideBySide` |
| `AutoJoin` | `ns_ajoin.c` | `SideBySide` |
| `JoinMon` | `os_joinmon.c` | `SideBySide` |
| `Forbids` | `ns_forbid.c`, `ns_freezeexpire.c`, `ns_fregister.c` and the account commands of the core | `SideBySide` |
| `Vhosts` | `gen_vhostonreg.c` | `SideBySide` |
| `Registration` | the chain of hooks on registering, logging in and out | `SideBySide` |
| `ChannelReg` | `cs_fregister.c`, `mlocktweaker.c`, `cs_regmode.c`, `cs_updown.c` | `SideBySide` |
| `SideBySide` | the eight modules above in one process | `MCSideBySide`, `SideBySideProofs` |

The `MC` modules hold constants that a `.cfg` cannot express and symmetry sets;
the others are run as they are.  The `map` of `PROJECT.json` names the lines each
definition stands for.  Operators called `Bad...` are wrong variants of the
definition that follows them, one for each property: the property must fail when
the variant takes its place.

### How state and actions correspond to the code

*Wumpus.*  `player[u]` is the `player_t` of a user; `exits`, `contents` and
`occupants` are the three fields of the rooms; `moveTimer` and `startTimer` are
the pointers of `game_t` and `timers` what the event loop has.  A pointer is
`Null`, `Freed` (the one-shot timer it named has fired) or an identity.  `rand()`
is a free choice, also of the maze, which comes from the constant `Mazes` (three
exits for each room, one-way, possibly coinciding, as `build_maze` draws them).
`has_moved` is written and never read and is left out; the order of players in a
room's list has no effect and is left out; destroying a timer that has been freed
is modelled as having no effect on live timers.  `ShootPlayer` and `ShootWumpus`
contain the death, the wound, the wumpus's move and the new timer, in the order of
`shoot_player`.  The code's numbers (10 to 300 rooms, 60 s, 3 s for each wound,
70 and 30 hit points) are constants with the relations that matter as assumptions:
`SpeedAssumption` says that the wumpus's hit points run out before the period
does, which is 5 * 60 >= 3 * 70 in the code.

*MxCheckAsync.*  `proccount` and `procdata` are the static variables; `child` maps
a process to what it was forked for, which the program does not record, and to the
slot its callback is given.  `Register` is the whole of a registration: the hook,
the fork or its failure, hooks that come after it and may refuse, and the core's
creation of the account.  `Reap` is `childproc_cb` for each way a child can end.  An
exit status of 1 says "no MX records or error" and one of 0 may come from an answer that
could not be parsed, so either can come for any address; which domains exist is not in
the model, and `MailCheck` asks only that each answer is applied where it belongs.

*Defcon.*  `timer` is `defcon_timer` and `left` what the loop has; `ignored`
records who put the mask on the ignore list.  `Reject` is a command whose number is
refused, after `level` has been assigned and reset.

*Dnsbl, UserBans.*  A `user_t` is a place in memory: `mem` has the places in use and
the user in each.  Code that reads a free place finds anything, or crashes, and what it
writes there is overwritten when the place is used again.  `query[q]` holds
the two pointers, the address that is asked about and, for the properties, whether what
the pointers point to has been freed since.  `Asked` is the `sscanf` of
`initiate_blacklist_dnsquery`: of an address that is not IPv4 (`IPv4`) it leaves numbers
unset, and the query may be about any address.  `Connects` runs the hooks of all four modules.  The flag is
`mem[s].sent`, the k-lines of a connection are counted in `mem[s].bans`.
`hits`, `status`, `refcount` and `lastwarning` are never read and are left out.

*Announceserv.*  `reqlist` is `as_reqlist`, `saved` the database (accounts and AR
rows, written together), `shown` what WAITING last printed, `sent` what the last step announced.  `DropAccount` is the services core's DROP and expiry, which call
`account_drop_request`; `DeleteAccount` is the bare unref of `ns_mxcheck_async.c` and
`ns_forbid.c`, which does not.  A restart may come at any time.

*Badwords.*  `words[c]` is the private data of a registered channel, `flags[c]`
its metadata, `db` the database with the rows in the order of the file.
`OnChannelMessage` gives the calls the hook makes for a line, of which nothing in
this module depends; patterns are modelled by which words match a line.  `kept` is what was in memory at the last save, and `exempted` the addresses there ever
was an exempt for: both are history.  A row is the sequence of the words of its line (the
time, which is always one, left out).  `get_source_name` gives a nick, or a nick and an
account in parentheses, and `spaced` says which; of the exempts of `dnsbl.c` the words of
the reason matter, which may be the name of a channel and an action.  `Restored` reads the
rows one after the other, as the core calls `db_h_bw` for each line of the file, and takes
their words as they come (`EntryOf`, `Belongs`).

*Trace.*  `Begin` is the command up to the loop, `Turn` one turn of the loop over
`userlist`, in any order, `Finish` the release of criteria and action.  Services do
nothing else meanwhile, so the network of `TraceNetwork` moves between commands
only; the turns are steps because what one turn does is what the next one finds.  A
channel in a criterion is a pointer: once the channel is gone, reading it gives any
answer (`Reads`) or ends services (`Fault`).  What a regular expression, a glob or a
server name matches is a set of users; a number of channels is an unsigned int, an
age is signed.  Commands that cannot be compiled change nothing.

*ChannelModes.*  `extra[c]` is the topic of a channel and who set its +R, which the
program does not record; `file` is `chanmodes.txt`.  The lines of the file are written
by the module and read by it, so they are modelled as records.  `stray` remembers that a
lockdown was left by unloading the module, or by a number that is refused, with no timer
to end it.

*OnDbSave.*  `running` is the flag, `mine` and `old` the children of the loaded image
and of earlier ones, `fds` the descriptors left.  An old child's callback is an address
in an image that is gone: it ends services, or is the same function of a new image and
takes back a flag that is not about it.

*Resolve.*  `source[q]` is the `si` of a request in flight, `refs` the references,
`lost` the requests that nobody will ever release.

*AutoJoin.*  The one module with strings: `DelChannel` scans characters as the code
does.  `Listed` is what `strtok` finds for LIST and ADD, between commas; `Joined` what it
finds for `ajoin_on_identify`, whose first token ends at a space as well.

*Forbids.*  `same` is `registered == lastlogin`, `frozen` the age of the freeze,
`nicks` the list of nicks; `forbidden` and `taken` are history, for the property.

*Vhosts.*  A host is its letters, a number, and the `epoch` of the counter that gave the
number, which is history.

*Registration.*  `Approved` is a fold of the checks that are loaded, in the order
`HookOrder`, over the field `approved`.  A connection is a SASL session and then a user;
`proof` is how its account was come by, and `changed` that the blacklist is not what it
was when the connection began: both are history.

*ChannelReg.*  One channel and one client.  `mychan.on` and `.off` are the two masks,
`chan.status` the prefixes of the client, or `{"out"}`.  `FRegister` runs the hooks in
the order of their registration (`hook_add_first_channel_register` puts `mlocktweaker`
first); that the channel may be registered is an input, as `os_defcon.c` decides it.

*SideBySide.*  These modules share the process and nothing else, so their interleavings
say nothing that each of them alone does not.  The variable `part` says from whose side a
behaviour is told; the variables of the others stay as they began.  What all of them can
do to the process is in `OnlyOldFaultsKill`.

## 3. Runs

Every run that is expected to pass also has its properties broken by a variant of
the code (section 2).

| Run | Configuration | What it shows |
| --- | --- | --- |
| `wumpus_game` | `Wumpus_game.cfg` | two players, pits, bats, arrows and the crystal ball, sizes that wrap or are refused: `GameAgrees` (lists of rooms, locations and users), `TimersOwned`, `TimersDrive`, `SpeedMatchesWounds`, `MeetingIsFatal`, `ObjectsNeverMultiply`; the game implements `WumpusLifecycle`; under fairness `EveryGameEnds`, `WumpusNeverRests` |
| `mx_busy` | `Mx_busy.cfg` | three slots, four process ids: `SlotsAgree` (the count, the slots and the children), `OnlyMisfilingHurts`, `RefusalsEnd` |
| `mx_overlap` | `Mx_overlap.cfg` | *violation*: with two children `VerdictsFallOnTheirOwn` fails |
| `lockdown` | `Lockdown.cfg` | lockdowns with dumps and restores of modes: `TimerKnown`, `NothingLeftBehind`, `NeverProlonged`, `ArmedLockdownIsLifted` |
| `defcon_expire` | `Defcon_expire.cfg` | *violation*: `SettingExpires`, "any setting except 5 will expire" |
| `bans_all` | `Bans_all.cfg` | the four modules together: `OneBanPerConnection`, `OnlyStaleOrUnsetHurt` |
| `announce_requests` | `Ann_requests.cfg` | `OneRequestPerName`, `OrphansHaveCauses` |
| `announce_approve` | `Ann_approve.cfg` | *violation*: `SentIsApproved` |
| `bad_words` | `Badwords.cfg` | `VerdictsSurviveRestart`, `OnlyExemptsKeepServicesDown` |
| `trace` | `Trace.cfg` | all actions and kinds of criteria: `OnlyKillsDangle`, and `AtOnce`, the refinement of `TraceOnce` but for reads of a freed channel |
| `side_by_side` | `Side_by_side.cfg` | the eight parts: `CatchUp` (a save without a command is made good), `OnlyOldFaultsKill` (what can end services, and one command at a time), `SourceHeldForItsRequests`, `ExactRemoval`, `LiftableIffForbidden`, `HostsDistinct`, `NobodySlipsPast` (restricted clients and undone refusals), `StatusAndLocks` |
| `mlock_negated` | `Mlock_negated.cfg` | *violation*: `NegatedIsNotLocked`, "if you do not want +n or +t, negate them in the configuration" |

### Bounds

* Wumpus: three rooms are the fewest in which two players can be in different
  rooms with the wumpus in a third; two players are enough for every handler to take one of
  them out of a game that goes on, as a kill, a resignation and a disconnection leave the
  other in it; the theorems hold for any number of players, mazes and objects.
  Three timer identities are enough, since there are never more than two live
  timers (`TimersOwned`).  The wumpus takes two wounds, so that a
  wound can be followed by a move that ends the game and by another wound.  Periods
  of two ticks keep the order of lobby timer and left-over
  move timer that 60 s and 60 s or less have in the code.
* Mail check: two accounts registered again and again, three children in three
  slots: one slot to be taken over, one free below it, one above.
* DEFCON: two channels that come and go, all numbers from 0 to 6, three ticks, one
  topic: a channel in the file and one that is not, a topic that is there and one that
  is not.
* Bans: two places for users, so that one can be reused while the other is in use;
  two queries; two blacklists; one address that is in both, one in none, and one that is
  not IPv4; the number of queries under way is the bound `Queries`.
* Announcements: two accounts, two names, two texts.
* Bad words: two channels, one of them there from the beginning and the other registered,
  set and dropped (`Founders`); two words, two actions with different effects, givers with
  and without a space in their name (`Givers`); exempts with a reason of one word, and with
  the name of a channel and a word that is or is not an action (`Reasons`); three words and
  exempts at a time, counting memory and database (`MaxWords`), so that one can be added to
  what two rows bring back.
* Trace: two users of one host, a services client, a channel that dies with its last
  member, queries of up to two criteria, so that one can hold the pointer and another
  change its answer; ages on either side of zero; unsigned numbers wrap at 10.

* Saving: eight descriptors (`FdLimit`), of which a command holds two and a failed fork
  loses four, and at most two commands at once (`MaxCommands`), one of them of an older image.
* Resolver: two commands, four requests, so that all can be in flight.
* Automatic joins: two channels, one whose name is the beginning of another's, and
  "channels" with a comma and with a space in them, which ADD does not refuse; `MaxLength`
  9 stops the fourth.
* Join monitor: two patterns.  Forbidden nicks: two, both ways of `owned`, a freeze
  expires after two steps of time (`FreezeExpire`).
* Virtual hosts: two names that are hosts, one of which looks numbered, and two that
  become the same without their special characters; the counter wraps at 3 (`Modulus`),
  with two changes of its epoch (`MaxEpochs`).
* Registrations: one client and a source that is none, two addresses, two mechanisms,
  all six checks; one may be unloaded at a time (`MaxUnloaded`).  The checks that add to
  the field stand before and after those that set it (`HookOrder`).
* Channels: three texts of mlocktweak, among them one with one mode on both sides; four
  statuses; four sets of flags.

`CHECK_DEADLOCK` is off for `Wumpus`, in which nothing has to happen once all users
have gone and the timers have run out, and for `SideBySide`, in which services can end
for good.

### Fairness

Only the event loop is fair.  In `Wumpus`, timers that are due fire, and the clock
goes on; `Tick` is disabled while a timer is due, as the loop runs its timers
before it sleeps.  In `ChannelModes` and `Defcon`, the timer fires and the clock goes on.  In
`MxCheckAsync`, children end, as the resolver they wait for has a time limit.
In `SideBySide`, commands of `on_db_save.c` end (weak fairness of `Finished` and
`OldFinished`), and a command that can start again and again does start (strong fairness
of `SaveStarts`): the core saves the database periodically, and neither pipe nor fork
fails for ever.  Other commands, hooks, connections and operators are never fair.

## 4. Disagreements between the code and what is said of it

* `ns_mxcheck_async.c`: the count of children serves as the index of a free slot.
  When the first of two children ends, the next registration overwrites the slot
  of the second, whose verdict then falls on the wrong account (`mx_overlap`).
  `OnlyMisfilingHurts` and `SlotsAgree` say that this is the only way an answer reaches
  another registration, and what it takes.
* `os_defcon.c`: the time-out leaves the pointer as it is, so the next lockdown has
  no timer unless DEFCON 5 was given in between (`defcon_expire`).
* `ircd_announceserv.c`: ACTIVATE names the requester and not the request, so what
  is sent may not be what the operator has seen (`announce_approve`).
* `mlocktweaker.c`: lines 12-13 say "if you do not want +n or +t, negate them in the
  configuration", but line 47 takes from the modes locked off those locked on, so both stay
  locked on, +t under the default text "-t+c" too (`mlock_negated`).

The models also contain the following, which no run singles out.  `ns_mxcheck_async.c`: a
look-up that fails or times out counts as "no such domain" (lines 53-54, 130-131), as in
`ns_mxcheck.c`; but there the registration is refused, and here an account that exists by
then is deleted.  `wumpus.c`: the
wumpus's mark in a room is regenerated like an object, so there are marks where the
wumpus is not; bats overwrite a pit they carry a player to; two exits of a room can
lead to the same room; the lobby timer's pointer is stale after a lobby that led to
no game, and is destroyed again at unload; a wound may leave a move timer behind a
finished game (`TimersOwned` shows it stays in reach, and the lifecycle that it
harms no later game).  `dnsbl.c`: answers for users who have left hit whoever has their memory, and a user whose address is
not IPv4 is looked up under numbers that were never set, such as an earlier user's
(`OnlyStaleOrUnsetHurt` says that nothing else hits the wrong one), a rehash frees
blacklists in use, a hit with the action NONE ends services, exempts are written with the row type of `cs_badwords.c` and are not read back, one with
a reason of one word keeps services with `cs_badwords` from starting, and one with a reason
that begins with the name of a channel and another word comes back as a bad word of that
channel, a second time if it is one already.  `cs_badwords.c`: the creator of a bad word is
written as one word (lines 60 and 254); where it is "nick (account)" the channel is read in
the wrong place, and the word is lost at the next start (`VerdictsSurviveRestart` says that
nothing else is lost or gained).  `os_defcon.c`: a number
that is refused sets the level to 5 and undoes nothing.  `ircd_announceserv.c`: a
request filed before a rename stays when the account is dropped, and so does any
request of an account that `ns_mxcheck_async.c` or `ns_forbid.c` deletes without the hook
(`OrphansHaveCauses` says that nothing else leaves one).  `os_trace.c`: a
channel criterion of a KILL can outlive its channel (`OnlyKillsDangle`), and the reply
names a user whose record the kill has freed; NUMCHAN below a negative number, which
wraps to a large one, matches everybody.  `cs_fregister.c`:
FREGISTER makes protected whoever already is the owner (line 123), which UP does not.
`os_joinmon.c`: the DEL of an entry without a reason frees a string constant.
`on_db_save.c`: each failed fork costs four descriptors, and after enough of them no save
is followed by a command; unloading under a command leaves its callback behind.
`os_resolve.c`: a request without a reply, or cut off by an unload, holds its source for
ever.  `ns_forbid.c`: FORBID OFF knows no forbidden nick when nicks are not owned.
`ns_ajoin.c`: DEL of a name that is part of another entry takes characters out of that
one; of an entry with a space the parts are joined while it is the first of the list, and
all of it when it is not, so that DEL of the first entry changes what another does
(`ExactRemoval` says that DEL changes nothing else).  `gen_vhostonreg.c`: after a wrap of the
counter or a reload two accounts can get one host.  `os_savechanmodes.c`: a dump made in a lockdown brings back its +R.

## 5. Proofs

| Module | Theorem | Property |
| --- | --- | --- |
| `WumpusProofs` | `TypeCorrect`, `RoomsAlwaysAgree`, `SpeedAlwaysMatches`, `TimersInReach`, `TimersAlwaysDrive`, `MeetingsAreFatal`, `ObjectsAreConserved`, `ImplementsLifecycle` (and `Invariance`, on which they rest) | `TypeOK`, `GameAgrees`, `SpeedMatchesWounds`, `TimersOwned`, `TimersDrive`, `MeetingIsFatal`, `ObjectsNeverMultiply`, `LifecycleHolds` |
| `MxCheckProofs` | `TypeCorrect`, `SlotsAlwaysAgree`, `MisfilingIsTheOnlyHarm`, `OneSlotIsEnough` (and `Invariance`) | `TypeOK`, `SlotsAgree`, `OnlyMisfilingHurts`, and `SameAsSynchronous` with one slot |
| `DefconProofs` | `TypeCorrect`, `TimerAlwaysKnown`, `LockdownsNeverProlonged`, `LockdownsLeaveNothingBehind` | `TypeOK`, `TimerKnown`, `NeverProlonged`, `NothingLeftBehind` |
| `UserBansProofs` | `TypeCorrect`, `BansInvariance`, `OnlyStaleOrUnsetCanHurt` | `TypeOK`, `OneBanPerConnection` (and `QueriesAreForTheirUser`), `OnlyStaleOrUnsetHurt` |
| `AnnounceservProofs` | `TypeCorrect`, `NamesAreUnique`, `OrphansAreExplained` | `TypeOK`, `OneRequestPerName`, `OrphansHaveCauses` |
| `BadwordsProofs` | `TypeCorrect`, `OnlyExemptsStopTheStart`, `RestartKeepsVerdicts` | `TypeOK`, `OnlyExemptsKeepServicesDown`, `VerdictsSurviveRestart` |
| `TraceProofs` | `TypeCorrect`, `Invariance`, `ActsAtOnce` | `TypeOK`, `OnlyKillsDangle`, `AtOnce` |
| `SideBySideProofs` | `TypeCorrect`, `HostsAlwaysDistinct`, `LiftsExactlyTheForbidden`, `OnlyOldFaultsCanKill`, `SourcesAlwaysHeld`, `RemovalAlwaysExact`, `NobodyEverSlipsPast`, `StatusAndLocksHold` | `TypeOK`, `HostsDistinct`, `LiftableIffForbidden`, `OnlyOldFaultsKill`, `SourceHeldForItsRequests`, `ExactRemoval`, `NobodySlipsPast`, `StatusAndLocks` |

They hold for all values of the constants that satisfy the assumptions stated in
the modules; TLC evaluates those assumptions on every run.  Every safety property that
a passing run checks, invariant, action property or refinement, is stated by one of
these theorems.

Most assumptions relate numbers of the code to each other.  Of those that speak of
data, `NamesAssumption` (finitely many account names) holds as the length of a name is
limited; `ChannelAssumption` says that the parameter of a command is not empty, and that
the value standing for no metadata entry is no text; `HookAssumption` that the order of
loading is one of the six modules of the chain (`Checking`), and that a source that is
no client (`Web`) is none of the clients; `BadwordsAssumption` that the actions are those `on_channel_message` knows, that a reason
is not empty, and that an account in parentheses is not the name of a channel.

Induction over data has to be brought into a form the provers can use: the library's
`NatInduction` takes a predicate as a parameter, which they cannot instantiate.  The lemma
`Induction` takes a set instead: a set of natural numbers that has 0 and the successor of
each of its elements is `Nat`, by the least-number principle, which the library has for sets
(`WFMin`).  The set is then that of the numbers for which the statement holds.  `Recursion`
follows from it: a first value and a step give a function on `0 .. N`.  A recursive
definition is a `CHOOSE`, so existence is all that is needed for its equations, and the
types and values of folds, scans and readings follow by another induction.

*Wumpus.*  The properties are not inductive: a move timer left by a finished game
must not meet the timer of the next one.  The invariant adds which timers exist in
which phase and when they are due; its last conjunct says that while a lobby is
open a left-over move timer has less time left than the lobby, so it fires, finds
no game and destroys itself before the next game begins.  The refinement follows
from the invariant: every action maps to a step of `WumpusLifecycle` or to none.
For `ObjectsNeverMultiply` each handler is shown to carry at most one object from one
room to another (`AtMostCarried`), and exchanging an element of a finite set makes it no
larger (`Exchange`).  The order in the code matters: `move_wumpus` first generates what
its room holds somewhere else, possibly in the same room, and only then empties the room.

*MxCheckAsync.*  Counting is the argument: `proccount` is the number of children,
so a slot at or above the count that is still in use leaves, by the pigeonhole
principle, a free slot below the count.  With one slot there is none below, nothing
is ever misfiled, and each step maps to a step of `MailCheck`.

*Defcon.*  The pointer and the timer agree, by cases on the commands; that levels
below 5 have had a timer armed carries `NeverProlonged`.  `NothingLeftBehind` is
inductive with the types and with what `closedBy` says of a channel's +R.

*UserBans.*  The invariant relates the flag to the number of k-lines and each query
that is not stale to the user it was sent for, and to their address if it is IPv4.  Lemmas say what a look-up, a guarded
ban and the removal of a query do to it, and the actions of the other three modules
are instances of the guarded ban.

*Announceserv.*  The invariant is uniqueness in memory and in the database, and
that there is no list without the module.  A lemma about `RemoveAt` says what
taking off a request leaves.  The bound on the length of the list in `TypeOK` is a
consequence of uniqueness, not inductive by itself: a list without a name twice is an
injection into the names (`GoodListsAreShort`).

*Badwords.*  A restart has to bring back, for each channel, the list it had, and the
database holds the rows of all channels one list after another, in the order the core
goes through its channels.  The
lemmas say that reading one more row is one more step (`RestoredAppend`), that rows one
after the other give what each of them gives (`RestoredConcat`), that the rows of other
channels give nothing to this one (`RestoredNone`), what joining the lists of all channels
gives (`FlattenFacts`, by induction over the channels), and together that reading gives
what the rows of the channel's own list give (`RoundTrip`): that list without the words of
givers with a space (`OwnRows`).  `ExemptsBack` says which exempts pass for words, and
`AnswerAfter` and `AnswerBefore` that a list which no word of a line hits changes nothing
about it, before or behind another; `ReadBack` combines them.  The invariant says that the
rows are those of `kept`, in either order; that a list has no word twice but for exempted
addresses, which `NewWord` ensures and DEL and restarts keep; and which rows can be too
short for `db_h_bw`.

*Trace.*  Types and `OnlyKillsDangle` are inductive together.  The refinement maps
the first step of a command to the whole of it: to what the loop has done it adds
what the loop will still do to those who are *doomed*, that is, who are still to be
reached, eligible and satisfying every criterion.  The proof is that acting on one of
them takes exactly this one out (`KillSpares`: no other user's criteria change when a
user is killed), under AKILL also those of the same host, so that the sum stays as it
is (`ActOnDoomed`); the exception, a freed channel that is read, is a step named in
the property.

*SideBySide.*  Each part has an invariant of its own, and a lemma (`Frames`) says that no
step of another part touches its variables.  Requests are counted: a request is in flight,
answered, or lost.  A host's number is below the counter or of an earlier epoch, so the
next one given is new.  For forbidden nicks the invariant says what each fact that FORBID
OFF looks at has to do with the history of the account: an address once given is never
taken back to what FORBID ON wrote, and a log-in after the second of the registration parts
the two times for good.  For `OnlyOldFaultsKill` it counts the commands of either image, and says
which entries hold a string constant.  The masks of a lock are disjoint by the last
statement of `mlocktweaker.c`; the flags a founder gets and `Granted` give the rest.
`ExactRemoval` is about the scan of `ns_ajoin.c`, which counts characters that match and
starts again where one does not.  The lemmas on it (`ScanFacts`, `ScanMatches`, `ScanEnd`) say that it
finds the name where it stands as a part between commas, and finds it nowhere else if
nothing else in the text has it; those on parts (`PartsApart`, `CutShape`, `PartsBefore`,
`PartsAfter`, `OthersStay`) that cutting it out with one of the commas around it leaves
every other part whole and makes none; `JoinedIsListed` that what is joined is what is
listed when the first entry has no space (`WholeFirst`).  `NobodySlipsPast` needs that a
check which has counted is never taken back by one that is called after it
(`ChecksOnlyAdd`), so that by induction over the hooks approval means that each agrees by
itself (`AllHaveToAgree`); of connections the invariant says which proof goes with which path.
The types need two facts that are no types: the descriptors left and twice the commands
under way never exceed the limit, and a source has two references at most, its command's
and its request's.

### Only model-checked

Liveness (`EveryGameEnds`, `WumpusNeverRests`, `ArmedLockdownIsLifted`, `RefusalsEnd`,
`CatchUp`): the prover has no support for fairness, which is stated with `ENABLED`.  What
these properties rest on is proved: that a lobby and a game have their timers
(`TimersDrive`), that a lockdown's pointer and timer agree (`TimerKnown`), and that the count,
the slots and the children of the mail check agree (`SlotsAgree`).  The four runs that find a violation have no theorem, of course; `OneSlotIsEnough` proves that the one of the
mail check needs two slots.

## 6. Limits of the models

Texts, times of day, log lines and replies are left out.  Allocation failures are
left out.  Memory is modelled only where a property is about it (`user_t` in
`Dnsbl`, timers in `Wumpus`).  Case folding of names is left out: names that
differ in case are the same value.  A module image that is loaded again starts with
fresh statics.

## 7. Plan

1. The GE rows of `ns_goodmail.c` and account names in `Registration`, with the hook on
   renaming.
2. Password keys (`ns_sendpassmail.c`) with the accounts of `Forbids`.
3. The remaining modes and the bans in `ChannelModes`.
4. Theorems about the disagreements of section 4: that what ACTIVATE sends was seen in
   WAITING unless its request was cancelled in between, and that a lockdown whose timer
   was armed ends when that timer fires.
