----------------------------- MODULE SideBySide -----------------------------
(***************************************************************************)
(* Modules of one services process that share no state but the process     *)
(* itself.  What one of them does is no step of another, so a behaviour is *)
(* told from the side of one of them: "part" says which, and the others    *)
(* stay as they began.  All of them are specified in full.                 *)
(***************************************************************************)
EXTENDS OnDbSave, Resolve, AutoJoin, JoinMon, Forbids, Vhosts, Registration,
        ChannelReg

VARIABLE part

parts == <<part, alive, dbVars, rsVars, autojoin, jmVars, forbidVars, vhVars,
           rgVars, crVars>>

Parts == {"on_db_save", "os_resolve", "ns_ajoin", "os_joinmon", "ns_forbid",
          "gen_vhostonreg", "registration", "cs_fregister"}

Init ==
    /\ part \in Parts /\ alive = TRUE
    /\ OnDbSaveInit /\ ResolveInit /\ AutoJoinInit /\ JoinMonInit
    /\ ForbidsInit /\ VhostsInit /\ RegistrationInit /\ ChannelRegInit
    \* what differs from run to run differs only in the part that is told
    /\ part # "ns_forbid" => owned
    /\ part # "gen_vhostonreg" => counter = 0
    /\ part # "cs_fregister" => regmode

OnDbSaveStep ==
    /\ part = "on_db_save" /\ OnDbSaveNext
    /\ UNCHANGED <<part, rsVars, autojoin, jmVars, forbidVars, vhVars, rgVars, crVars>>

ResolveStep ==
    /\ part = "os_resolve" /\ ResolveNext
    /\ UNCHANGED <<part, alive, dbVars, autojoin, jmVars, forbidVars, vhVars, rgVars, crVars>>

AutoJoinStep ==
    /\ part = "ns_ajoin" /\ AutoJoinNext
    /\ UNCHANGED <<part, alive, dbVars, rsVars, jmVars, forbidVars, vhVars, rgVars, crVars>>

JoinMonStep ==
    /\ part = "os_joinmon" /\ JoinMonNext
    /\ UNCHANGED <<part, dbVars, rsVars, autojoin, forbidVars, vhVars, rgVars, crVars>>

ForbidsStep ==
    /\ part = "ns_forbid" /\ ForbidsNext
    /\ UNCHANGED <<part, alive, dbVars, rsVars, autojoin, jmVars, vhVars, rgVars, crVars>>

VhostsStep ==
    /\ part = "gen_vhostonreg" /\ VhostsNext
    /\ UNCHANGED <<part, alive, dbVars, rsVars, autojoin, jmVars, forbidVars, rgVars, crVars>>

RegistrationStep ==
    /\ part = "registration" /\ RegistrationNext
    /\ UNCHANGED <<part, alive, dbVars, rsVars, autojoin, jmVars, forbidVars, vhVars, crVars>>

ChannelRegStep ==
    /\ part = "cs_fregister" /\ ChannelRegNext
    /\ UNCHANGED <<part, alive, dbVars, rsVars, autojoin, jmVars, forbidVars, vhVars, rgVars>>

Next ==
    \/ OnDbSaveStep
    \/ ResolveStep
    \/ AutoJoinStep
    \/ JoinMonStep
    \/ ForbidsStep
    \/ VhostsStep
    \/ RegistrationStep
    \/ ChannelRegStep

Spec == Init /\ [][Next]_parts

OnDbSaveFrame == UNCHANGED <<part, rsVars, autojoin, jmVars, forbidVars, vhVars, rgVars, crVars>>

\* The database is saved again and again, a fork does not fail for ever, and a
\* command ends in the end.
FairSpec ==
    /\ Spec
    /\ SF_parts(part = "on_db_save" /\ SaveStarts /\ UNCHANGED alive /\ OnDbSaveFrame)
    /\ WF_parts(part = "on_db_save" /\ Finished /\ UNCHANGED alive /\ OnDbSaveFrame)
    /\ WF_parts(part = "on_db_save" /\ OldFinished /\ OnDbSaveFrame)

(***************************************************************************)
(* Properties.                                                             *)
(***************************************************************************)
\* The variables of all parts have their types; no pattern is monitored twice, so
\* one DEL ends it and a join is logged at most once.
TypeOK ==
    /\ part \in Parts /\ alive \in BOOLEAN
    /\ OnDbSaveTypeOK /\ ResolveTypeOK /\ AutoJoinTypeOK /\ JoinMonTypeOK
    /\ ForbidsTypeOK /\ VhostsTypeOK /\ RegistrationTypeOK

\* Services end only in two ways, both of long standing when they strike: a
\* command of on_db_save that outlives its module, and the DEL of an entry that
\* os_joinmon made without a reason since services started.  Without the first,
\* commands never overlap.
OnlyOldFaultsKill ==
    [][/\ OneCommand'
       /\ alive /\ ~alive' => mixed \/ \E p \in unreasoned : DelMonitor(p)]_parts

\* Nobody from a restricted address has an account but by a permitted mechanism,
\* and no registration slips past a check for what another check said of it.
NobodySlipsPast == RestrictedShowWhoTheyAre /\ EveryCheckCounts
=============================================================================
