------------------------------- MODULE Vhosts -------------------------------
(***************************************************************************)
(* src/src/gen_vhostonreg.c: every account gets a host made of its name,   *)
(* with a number where the name has characters a host cannot have.         *)
(* Operators named Bad... are wrong variants of the one below them.        *)
(***************************************************************************)
EXTENDS Integers, Maps

CONSTANTS
    Names,
    Clean,       \* the names that are hosts as they stand
    Base,        \* name -> what is left of it without the other characters
    Number,      \* clean name -> the number it ends in, taken from its base, or -1
    Modulus,     \* 100000
    MaxEpochs    \* bound: loads of the module and wraps of the counter

ASSUME VhostAssumption ==
    /\ Clean \subseteq Names /\ Modulus \in Nat \ {0} /\ MaxEpochs \in Nat
    /\ \A m, n \in Clean : Base[m] = Base[n] /\ Number[m] = Number[n] => m = n

VARIABLES
    vh_loaded,
    usercloak,   \* account -> the host it has, or NoHost
    verified,    \* accounts whose address has been verified
    counter,
    epoch        \* loads of the module and wraps of the counter so far

vhVars == <<vh_loaded, usercloak, verified, counter, epoch>>

\* A clean name may look like one with a number added; its epoch is 0.
NoHost == [base |-> "none", number |-> -1, epoch |-> 0]

VhostsInit ==
    /\ vh_loaded = TRUE
    /\ usercloak = EmptyMap /\ verified = {}
    /\ counter \in 0 .. Modulus - 1 /\ epoch = 1

\* user_add_host
HostOf(name) ==
    IF name \in Clean
    THEN [base |-> Base[name], number |-> Number[name], epoch |-> 0]
    ELSE [base |-> Base[name], number |-> counter, epoch |-> epoch]

BadCount(name) == UNCHANGED <<counter, epoch>>

Count(name) ==
    IF name \in Clean THEN UNCHANGED <<counter, epoch>>
    ELSE IF counter + 1 >= Modulus
         THEN counter' = 0 /\ epoch < MaxEpochs /\ epoch' = epoch + 1
         ELSE counter' = counter + 1 /\ UNCHANGED epoch

\* metadata_add replaces a host that was there.
AddHost(name) ==
    IF vh_loaded
    THEN usercloak' = Put(usercloak, name, HostOf(name)) /\ Count(name)
    ELSE usercloak' = Put(usercloak, name, NoHost) /\ UNCHANGED <<counter, epoch>>

\* REGISTER, when the address has to be verified first
RegisterUnverified(name) ==
    /\ name \notin DOMAIN usercloak
    /\ usercloak' = Put(usercloak, name, NoHost)
    /\ UNCHANGED <<vh_loaded, verified, counter, epoch>>

\* REGISTER otherwise, and FREGISTER: handle_verify_register
RegisterVerified(name) ==
    /\ name \notin DOMAIN usercloak
    /\ AddHost(name)
    /\ verified' = verified \cup {name}
    /\ UNCHANGED vh_loaded

\* VERIFY: handle_verify_register.  Whoever has identified before gets another
\* host.
Verify(name) ==
    /\ name \in DOMAIN usercloak \ verified
    /\ IF vh_loaded THEN AddHost(name) ELSE UNCHANGED <<usercloak, counter, epoch>>
    /\ verified' = verified \cup {name}
    /\ UNCHANGED vh_loaded

\* hook_user_identify
IdentifyHost(name) ==
    /\ vh_loaded
    /\ name \in DOMAIN usercloak /\ usercloak[name] = NoHost
    /\ AddHost(name)
    /\ UNCHANGED <<vh_loaded, verified>>

DropHost(name) ==
    /\ name \in DOMAIN usercloak
    /\ usercloak' = Del(usercloak, name)
    /\ verified' = verified \ {name}
    /\ UNCHANGED <<vh_loaded, counter, epoch>>

UnloadVhosts ==
    /\ vh_loaded /\ vh_loaded' = FALSE
    /\ UNCHANGED <<usercloak, verified, counter, epoch>>

\* mod_init: the time of the load decides where the counter starts.
LoadVhosts ==
    /\ ~vh_loaded /\ vh_loaded' = TRUE
    /\ counter' \in 0 .. Modulus - 1
    /\ epoch < MaxEpochs /\ epoch' = epoch + 1
    /\ UNCHANGED <<usercloak, verified>>

VhostsNext ==
    \/ \E name \in Names :
          \/ RegisterUnverified(name)
          \/ RegisterVerified(name)
          \/ Verify(name)
          \/ IdentifyHost(name)
          \/ DropHost(name)
    \/ UnloadVhosts
    \/ LoadVhosts

(***************************************************************************)
(* Properties.                                                             *)
(***************************************************************************)
HasHost(name) == name \in DOMAIN usercloak /\ usercloak[name] # NoHost

SameHost(m, n) ==
    /\ usercloak[m].base = usercloak[n].base
    /\ usercloak[m].number = usercloak[n].number

VhostsTypeOK ==
    /\ vh_loaded \in BOOLEAN
    /\ DOMAIN usercloak \subseteq Names /\ verified \subseteq DOMAIN usercloak
    /\ counter \in 0 .. Modulus - 1 /\ epoch \in 1 .. MaxEpochs + 1

\* Two accounts never have one host unless the counter has wrapped or started
\* anew between the two, or the name of one looks like the numbered host of the
\* other: not through verification, late identification, names that differ only
\* in what a host cannot hold, or accounts dropped and made again.
HostsDistinct ==
    \A m, n \in DOMAIN usercloak :
        m # n /\ HasHost(m) /\ HasHost(n) /\ SameHost(m, n) =>
            usercloak[m].epoch # usercloak[n].epoch
=============================================================================
