------------------------------- MODULE Resolve -------------------------------
(***************************************************************************)
(* src/src/os_resolve.c: OperServ RESOLVE asks for the A and the AAAA      *)
(* records of a name.  Each of the two requests holds a reference to the   *)
(* source of the command until it has been answered.                       *)
(* Operators named Bad... are wrong variants of the one below them.        *)
(***************************************************************************)
EXTENDS Integers, FiniteSets

CONSTANTS
    Sources,      \* source objects, one for each command
    Requests      \* bound: requests in flight at once

NoSource == "none"

ASSUME ResolveAssumption == IsFiniteSet(Requests) /\ NoSource \notin Sources

VARIABLES
    rs_loaded,
    source,       \* request -> the source it is for, or NoSource if not in flight
    refs,         \* source -> references to it
    asked,        \* sources whose command has been given
    lost          \* source -> requests of it that nobody will ever release

rsVars == <<rs_loaded, source, refs, asked, lost>>

ResolveInit ==
    /\ rs_loaded = TRUE
    /\ source = [q \in Requests |-> NoSource]
    /\ refs = [s \in Sources |-> 0]
    /\ asked = {}
    /\ lost = [s \in Sources |-> 0]

\* os_cmd_resolve_func: without memory for both requests it makes none.
Resolve(s) ==
    /\ rs_loaded /\ s \notin asked
    /\ asked' = asked \cup {s}
    /\ \E q4, q6 \in {q \in Requests : source[q] = NoSource} :
          /\ q4 # q6
          /\ source' = [source EXCEPT ![q4] = s, ![q6] = s]
    /\ refs' = [refs EXCEPT ![s] = 2]
    /\ UNCHANGED <<rs_loaded, lost>>

\* os_cmd_resolve_cb: a reply, whatever the family of its address
Answer(q) ==
    LET s == source[q]
    IN  /\ rs_loaded /\ s # NoSource
        /\ refs' = [refs EXCEPT ![s] = @ - 1]
        /\ source' = [source EXCEPT ![q] = NoSource]
        /\ UNCHANGED <<rs_loaded, asked, lost>>

\* The resolver gives up and passes no reply: the callback returns at once, and
\* the request is neither freed nor known to anybody.
NoReply(q) ==
    LET s == source[q]
    IN  /\ rs_loaded /\ s # NoSource
        /\ lost' = [lost EXCEPT ![s] = @ + 1]
        /\ source' = [source EXCEPT ![q] = NoSource]
        /\ UNCHANGED <<rs_loaded, refs, asked>>

InFlight(s) == Cardinality({q \in Requests : source[q] = s})

BadUnloadResolve ==
    /\ rs_loaded /\ rs_loaded' = FALSE
    /\ UNCHANGED <<source, refs, asked, lost>>

\* mod_deinit destroys the heap with the requests in it, then the resolver; no
\* answer comes in between, and no reference is given back.
UnloadResolve ==
    /\ rs_loaded /\ rs_loaded' = FALSE
    /\ lost' = [s \in Sources |-> lost[s] + InFlight(s)]
    /\ source' = [q \in Requests |-> NoSource]
    /\ UNCHANGED <<refs, asked>>

LoadResolve ==
    /\ ~rs_loaded /\ rs_loaded' = TRUE
    /\ UNCHANGED <<source, refs, asked, lost>>

ResolveNext ==
    \/ \E s \in Sources : Resolve(s)
    \/ \E q \in Requests : Answer(q) \/ NoReply(q)
    \/ UnloadResolve
    \/ LoadResolve

(***************************************************************************)
(* Properties.                                                             *)
(***************************************************************************)
ResolveTypeOK ==
    /\ rs_loaded \in BOOLEAN
    /\ source \in [Requests -> Sources \cup {NoSource}]
    /\ refs \in [Sources -> 0 .. 2] /\ lost \in [Sources -> 0 .. 2]
    /\ asked \subseteq Sources

\* A source lives exactly as long as a request may still want to answer it, but
\* for the requests that were given no reply or that an unload cut off: those
\* hold it for ever.  None is in flight when their heap is gone.
SourceHeldForItsRequests ==
    /\ \A s \in Sources : refs[s] = InFlight(s) + lost[s]
    /\ ~rs_loaded => \A q \in Requests : source[q] = NoSource
=============================================================================
