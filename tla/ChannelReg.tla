----------------------------- MODULE ChannelReg -----------------------------
(***************************************************************************)
(* One channel and one client, as src/src/cs_fregister.c registers it,     *)
(* mlocktweaker.c locks its modes, cs_regmode.c marks it and cs_updown.c   *)
(* gives and takes the client's status.                                    *)
(* Operators named Bad... are wrong variants of the one below them.        *)
(***************************************************************************)
EXTENDS Integers, Sequences

CONSTANTS
    Tweaks,       \* values of chanserv::mlocktweak, as sequences of characters
    Statuses,     \* those the network has, of q, a, o, h and v
    FlagSets      \* access flags a client may have on the channel

VARIABLES
    chan,         \* the channel: modes, key and limit, the client's status
    mychan,       \* its registration
    tweak,        \* mlocktweak; NotLoaded without mlocktweaker
    regmode       \* cs_regmode is loaded

crVars == <<chan, mychan, tweak, regmode>>

NoChannel == [exists |-> FALSE, modes |-> {}, status |-> {"out"}]
NotRegistered == [registered |-> FALSE, on |-> {}, off |-> {}, closed |-> FALSE, flags |-> {}]
NotLoaded == <<"not loaded">>

ChannelRegInit ==
    /\ chan = NoChannel /\ mychan = NotRegistered
    /\ tweak = <<"-", "t", "+", "c">> /\ regmode \in BOOLEAN

(***************************************************************************)
(* handle_channel_register                                                 *)
(***************************************************************************)
Sign(text, i) ==
    LET signs == {j \in 1 .. i : text[j] \in {"+", "-"}}
    IN  IF signs = {} THEN "+"
        ELSE text[CHOOSE j \in signs : \A k \in signs : k <= j]

Given(text, sign) ==
    {text[i] : i \in {i \in DOMAIN text : text[i] \notin {"+", "-"} /\ Sign(text, i) = sign}}

BadTweaked(lock) ==
    LET on == lock.on \cup Given(tweak, "+")
        off == lock.off \cup Given(tweak, "-")
    IN  IF tweak = NotLoaded THEN lock
        ELSE [lock EXCEPT !.on = on, !.off = off]

\* What is locked on, by default or by the text, is not locked off.
Tweaked(lock) ==
    LET on == lock.on \cup Given(tweak, "+")
        off == lock.off \cup Given(tweak, "-")
    IN  IF tweak = NotLoaded THEN lock
        ELSE [lock EXCEPT !.on = on, !.off = off \ on]

DefaultLock ==
    [NotRegistered EXCEPT
        !.registered = TRUE,
        !.on = {"n", "t"},
        !.off = {"l", "k"} \ chan.modes,
        !.flags = {"founder", "useowner", "useprotect", "autoop", "op", "autovoice", "voice"}]

\* The owner, if the network has that, is not made protected as well, but one
\* who is the owner already is.
Founded(status) ==
    IF "q" \in Statuses \ status THEN status \cup {"q"}
    ELSE IF "a" \in Statuses \ status THEN status \cup {"a"}
    ELSE status

\* cs_cmd_fregister with the hooks of channel_register; approved is what the
\* hooks of channel_can_register leave, of which os_defcon is one.
FRegister(approved) ==
    /\ chan.exists /\ ~mychan.registered /\ approved
    /\ mychan' = Tweaked(DefaultLock)
    /\ chan' = [chan EXCEPT
                   !.modes = IF regmode THEN @ \cup {"r"} ELSE @,
                   !.status = IF @ = {"out"} THEN @ ELSE Founded(@)]
    /\ UNCHANGED <<tweak, regmode>>

\* drop_hook
DropChannel ==
    /\ mychan.registered /\ mychan' = NotRegistered
    /\ chan' = [chan EXCEPT !.modes = IF regmode THEN @ \ {"r"} ELSE @]
    /\ UNCHANGED <<tweak, regmode>>

\* Guards that UP and DOWN share
UpDown ==
    /\ mychan.registered /\ ~mychan.closed /\ chan.exists
    /\ chan.status # {"out"}

Flag == [q |-> "useowner", a |-> "useprotect", o |-> "autoop", h |-> "autohalfop", v |-> "autovoice"]

\* What UP adds: the owner and the protected status only to those who are opped
\* on joining, and not protected to an owner, one made now included.
Granted(status) ==
    LET has(s) == s \in Statuses /\ Flag[s] \in mychan.flags
        owner == IF has("q") /\ has("o") THEN {"q"} ELSE {}
        protected == IF has("a") /\ has("o") /\ "q" \notin status \cup owner THEN {"a"} ELSE {}
    IN  owner \cup protected \cup {s \in {"o", "h", "v"} : has(s)}

\* cs_cmd_up
Up ==
    /\ UpDown
    /\ chan' = [chan EXCEPT !.status = @ \cup Granted(@)]
    /\ UNCHANGED <<mychan, tweak, regmode>>

\* cs_cmd_down
Down ==
    /\ UpDown
    /\ chan' = [chan EXCEPT !.status = @ \ Statuses]
    /\ UNCHANGED <<mychan, tweak, regmode>>

(***************************************************************************)
(* The rest of the network and of ChanServ.                                *)
(***************************************************************************)
ChannelAppears ==
    /\ ~chan.exists
    /\ \E status \in {{"out"}, {"o"}} :
          chan' = [exists |-> TRUE, modes |-> {}, status |-> status]
    /\ UNCHANGED <<mychan, tweak, regmode>>

ChannelEmpties ==
    /\ chan.exists /\ chan' = NoChannel
    /\ UNCHANGED <<mychan, tweak, regmode>>

SetModes(m) ==
    /\ chan.exists
    /\ chan' = [chan EXCEPT !.modes = IF m \in @ THEN @ \ {m} ELSE @ \cup {m}]
    /\ UNCHANGED <<mychan, tweak, regmode>>

JoinOrPart ==
    /\ chan.exists
    /\ chan' = [chan EXCEPT !.status = IF @ = {"out"} THEN {} ELSE {"out"}]
    /\ UNCHANGED <<mychan, tweak, regmode>>

SetStatus(s) ==
    /\ chan.exists /\ chan.status # {"out"}
    /\ chan' = [chan EXCEPT !.status = IF s \in @ THEN @ \ {s} ELSE @ \cup {s}]
    /\ UNCHANGED <<mychan, tweak, regmode>>

SetFlags(flags) ==
    /\ mychan.registered /\ mychan' = [mychan EXCEPT !.flags = flags]
    /\ UNCHANGED <<chan, tweak, regmode>>

CloseChannel ==
    /\ mychan.registered /\ mychan' = [mychan EXCEPT !.closed = ~@]
    /\ UNCHANGED <<chan, tweak, regmode>>

Configure(text) ==
    /\ tweak' = text
    /\ UNCHANGED <<chan, mychan, regmode>>

ChannelRegNext ==
    \/ \E approved \in BOOLEAN : FRegister(approved)
    \/ DropChannel
    \/ Up
    \/ Down
    \/ ChannelAppears
    \/ ChannelEmpties
    \/ \E m \in {"k", "l"} : SetModes(m)
    \/ JoinOrPart
    \/ \E s \in Statuses : SetStatus(s)
    \/ \E flags \in FlagSets : SetFlags(flags)
    \/ CloseChannel
    \/ \E text \in Tweaks \cup {NotLoaded} : Configure(text)

(***************************************************************************)
(* Properties.                                                             *)
(***************************************************************************)
\* No mode is locked both on and off, whatever the text of mlocktweak and the modes
\* the channel had.
LocksAgree == mychan.on \cap mychan.off = {}

\* UP makes nobody both owner and protected, and DOWN takes all that UP gave,
\* whatever has happened to flags and status in between.
UpThenDown ==
    /\ Up => ~({"q", "a"} \subseteq chan'.status \ chan.status)
    /\ Down => chan'.status \cap Granted({}) = {}

\* The two things ChanServ's registration promises of a channel: its lock is
\* consistent, and whoever has access can take status and give it back.
StatusAndLocks == [][LocksAgree' /\ UpThenDown]_crVars

\* "Keep in mind that +nt will be applied as well, so if you do not want +n or +t,
\* negate them in the configuration" (mlocktweaker.c:12-13): a channel registered
\* while the text takes back +n or +t, and does not give it as well, is not locked so.
NegatedIsNotLocked ==
    [][\A approved \in BOOLEAN, m \in {"n", "t"} :
          FRegister(approved) /\ tweak # NotLoaded
             /\ m \in Given(tweak, "-") \ Given(tweak, "+") => m \notin mychan'.on]_crVars
=============================================================================
