---------------------------- MODULE FileDelivery ----------------------------
(***************************************************************************)
(* The files that Trino adopts only by restarting: the certificate mapping *)
(* rules, rendered from the Operator's pattern and the Admin's preserved   *)
(* ones; the event listener's properties; and the Admin's raw files.  Each *)
(* lives in a Secret.  The rules are in a directory that the deployment    *)
(* mounts; the other two are mounted in the pod template while they have   *)
(* content.  A running pod keeps what it read when it started.             *)
(*                                                                         *)
(* One Apply at a time, of either kind: an Operator's delivers the         *)
(* Candidate, an Admin's the latest Snapshot with today's Admin values.    *)
(* An Admin may save values at any time, also during an Apply.             *)
(***************************************************************************)
EXTENDS Naturals

CONSTANTS
    Patterns,      \* the Operator's certificate mapping pattern
    Listeners,     \* what the Event Listeners Section may configure
    Preserved,     \* the Admin's preserved certificate mappings
    RawFiles,      \* what the Admin's raw files may be
    None,          \* nothing: no pattern, no listener, no values, no file
    Broken,        \* what a pod finds where a mount names no content
    MaxSaves,      \* how often Admin values are saved
    MaxApplies,    \* how many Applies are started
    MaxCrashes     \* how often the process stops

Contents == (Patterns \X Preserved) \cup Listeners \cup RawFiles

ASSUME FilesAssumption ==
    /\ None \in Patterns \cap Listeners \cap Preserved \cap RawFiles
    /\ Broken \notin Contents
    /\ None \notin Patterns \X Preserved
ASSUME LimitsAssumption ==
    MaxSaves \in Nat /\ MaxApplies \in Nat /\ MaxCrashes \in Nat

VARIABLES
    secret,     \* the content of each file, in its Secret
    mounted,    \* the pod template: whether each file is mounted
    running,    \* what the coordinator's pod started with
    rolling,    \* whether the Deployment still has to replace the pod
    admin,      \* the Admin document
    previous,   \* its pre-image
    saving,     \* the pre-image a save has still to keep
    latest,     \* the Sections of the latest Snapshot
    base,       \* those of the Snapshot the Candidate derives from
    engine,     \* the Apply in progress, or the last one
    count,      \* saves, Applies and crashes so far
    doubt       \* history: files that a failure may have left unloaded

vars == <<secret, mounted, running, rolling, admin, previous, saving, latest, base,
          engine, count, doubt>>
clusterVars == <<secret, mounted, running, rolling>>
adminVars == <<admin, previous, saving>>
staged == <<latest, base>>

-----------------------------------------------------------------------------

Sections == {"mapping", "listener"}
Files == Sections \cup {"raw"}
Configs == [mapping: Patterns, listener: Listeners]
NoConfig == [mapping |-> None, listener |-> None]
AdminValues == [preserved: Preserved, raw: RawFiles]
NoValues == [preserved |-> None, raw |-> None]

\* render_files of the two Sections, and raw_files.planned.  The rules are always a
\* file; a listener that is not configured is none.
Rendered(config, values) == [mapping |-> <<config.mapping, values.preserved>>,
                             listener |-> config.listener,
                             raw |-> values.raw]

\* What a pod that starts now reads: a mount of an absent key becomes a directory
\* that Trino dies reading.
Served(f) == CASE ~mounted[f] -> None
               [] mounted[f] /\ secret[f] # None -> secret[f]
               [] mounted[f] /\ secret[f] = None -> Broken

\* would_change: the Secret against what would be written.
WouldChange(f, config, values) == secret[f] # Rendered(config, values)[f]

\* raw_files.changed: the mounts and the Secret against the Admin values.
RawChanged(values) == \/ mounted["raw"] # (values.raw # None)
                      \/ secret["raw"] # values.raw

\* Mutated: raw files have no plan and ask for no restart.
RolloutDecisionPlanned(desired, baseline, values, unread) ==
    \E f \in Sections : \/ desired[f] # baseline[f]
                        \/ f \notin unread /\ WouldChange(f, desired, values)

\* sections_needing_rollout and raw_files.changed.  For the Sections in unread the
\* Secret could not be read, and the plan alone decides.
RolloutDecision(desired, baseline, values, unread) ==
    \/ \E f \in Sections : \/ desired[f] # baseline[f]
                           \/ f \notin unread /\ WouldChange(f, desired, values)
    \/ RawChanged(values)

\* Where an Apply stands.  The stages that are rolled back from, Auto Rollback (or
\* recovery), and the stages that leave the Cluster alone.
Forward == {"applying", "mapping_written", "listener_written", "listener_mounted",
            "raw_written", "delivered", "restarted", "verifying"}
Backward == {"roll_back", "restore", "restore_mapping", "restore_listener",
             "restore_mounted", "restore_restarted", "restore_verify", "restore_raw",
             "restore_raw_written", "restored"}
Pcs == {"idle", "committing"} \cup Forward \cup Backward

EngineState == [pc: Pcs, kind: {"operator", "admin"}, values: AdminValues,
                desired: Configs, rollout: BOOLEAN,
                outcome: {"none", "succeeded", "failed", "rolled_back", "incident"}]

TypeOK ==
    /\ secret \in [Files -> Contents]
    /\ mounted \in [Files -> BOOLEAN]
    /\ running \in [Files -> Contents \cup {Broken}]
    /\ rolling \in BOOLEAN
    /\ admin \in AdminValues /\ previous \in AdminValues
    /\ saving \in AdminValues \cup {None}
    /\ latest \in Configs /\ base \in Configs
    /\ engine \in EngineState
    /\ count \in [saves: 0..MaxSaves, applies: 0..MaxApplies, crashes: 0..MaxCrashes]
    /\ doubt \in [Files -> BOOLEAN]

Init ==
    /\ secret = Rendered(NoConfig, NoValues)
    /\ mounted = [f \in Files |-> f = "mapping"]
    /\ running = Rendered(NoConfig, NoValues)
    /\ rolling = FALSE
    /\ admin = NoValues /\ previous = NoValues /\ saving = None
    /\ latest = NoConfig /\ base = NoConfig
    /\ engine = [pc |-> "idle", kind |-> "operator", values |-> NoValues,
                 desired |-> NoConfig, rollout |-> FALSE, outcome |-> "none"]
    /\ count = [saves |-> 0, applies |-> 0, crashes |-> 0]
    /\ doubt = [f \in Files |-> FALSE]

-----------------------------------------------------------------------------
(* The Admin's values, and the Deployment. *)

\* AdminStore.save: the document is replaced, and then what it replaced is kept.
SaveAdmin(values) ==
    /\ saving = None
    /\ count.saves < MaxSaves
    /\ admin' = values
    /\ saving' = admin
    /\ count' = [count EXCEPT !.saves = @ + 1]
    /\ UNCHANGED <<clusterVars, previous, staged, engine, doubt>>

\* Mutated: also when there was nothing to keep.
KeepPreviousAlways ==
    /\ previous' = saving
    /\ saving' = None
    /\ UNCHANGED <<clusterVars, admin, staged, engine, count, doubt>>

KeepPrevious ==
    /\ saving # None
    /\ previous' = saving
    /\ saving' = None
    /\ UNCHANGED <<clusterVars, admin, staged, engine, count, doubt>>

\* A pod of the current template starts: the Deployment replaces the old one, or
\* the pod was lost.  One that cannot start is never ready.
PodStarts ==
    /\ running' = [f \in Files |-> Served(f)]
    /\ rolling' = (\E f \in Files : Served(f) = Broken)
    /\ doubt' = [f \in Files |-> doubt[f] /\ (engine.pc # "idle" \/ Served(f) = Broken)]
    /\ UNCHANGED <<secret, mounted, adminVars, staged, engine, count>>

-----------------------------------------------------------------------------
(* Engine.validate, apply, roll_out, verify and commit. *)

\* _freeze_admin_values, _desired_and_baseline, the plan and the restart decision.
Validate(kind, desired, unread) ==
    LET baseline == IF kind = "admin" THEN latest ELSE base
        missed == {f \in unread : desired[f] = baseline[f] /\ WouldChange(f, desired, admin)}
    IN  /\ engine.pc = "idle"
        /\ count.applies < MaxApplies
        /\ kind = "admin" => desired = latest
        /\ engine' = [pc |-> "applying", kind |-> kind, values |-> admin, desired |-> desired,
                      rollout |-> RolloutDecision(desired, baseline, admin, unread),
                      outcome |-> "none"]
        /\ count' = [count EXCEPT !.applies = @ + 1]
        /\ doubt' = [f \in Files |-> doubt[f] \/ f \in missed]
        /\ UNCHANGED <<clusterVars, adminVars, staged>>

Step(from, to) ==
    /\ engine.pc = from
    /\ engine' = [engine EXCEPT !.pc = to]
    /\ UNCHANGED <<adminVars, staged, count>>

\* Mutated: the Admin values of the moment, not the ones that were validated.
ContentNow == Rendered(engine.desired, admin)

\* What an Apply and a restore write, from the values the engine holds.
Content == Rendered(engine.desired, engine.values)

\* write_secret, the first half of files.deliver and raw_files.deliver.
WriteSecret(f, from, to) ==
    /\ Step(from, to)
    /\ secret' = [secret EXCEPT ![f] = Content[f]]
    /\ UNCHANGED <<mounted, running, rolling, doubt>>

\* Mutated: a file without content stays mounted.
MountKept(f, from, to) ==
    /\ Step(from, to)
    /\ mounted' = [mounted EXCEPT ![f] = @ \/ secret[f] # None]
    /\ rolling' = (rolling \/ mounted' # mounted)
    /\ UNCHANGED <<secret, running, doubt>>

\* A file with content is mounted and one without is not.  Any change to the
\* template makes the Deployment replace the pod.
Mount(f, from, to) ==
    /\ Step(from, to)
    /\ mounted' = [mounted EXCEPT ![f] = secret[f] # None]
    /\ rolling' = (rolling \/ mounted' # mounted)
    /\ UNCHANGED <<secret, running, doubt>>

DeliverSections == \/ WriteSecret("mapping", "applying", "mapping_written")
                   \/ WriteSecret("listener", "mapping_written", "listener_written")
                   \/ Mount("listener", "listener_written", "listener_mounted")

DeliverRaw == \/ WriteSecret("raw", "listener_mounted", "raw_written")
              \/ Mount("raw", "raw_written", "delivered")

\* restart_deployment, and the wait for RolloutState.complete.
RestartDeployment(from, to) ==
    /\ Step(from, to)
    /\ rolling' = TRUE
    /\ UNCHANGED <<secret, mounted, running, doubt>>

RollOut ==
    /\ engine.rollout
    /\ RestartDeployment("delivered", "restarted")

SkipRollout ==
    /\ ~engine.rollout
    /\ Step("delivered", "verifying")
    /\ UNCHANGED <<clusterVars, doubt>>

\* The new pod holds every file that was delivered.
RolledOut ==
    /\ ~rolling
    /\ Step("restarted", "verifying")
    /\ doubt' = [f \in Files |-> FALSE]
    /\ UNCHANGED clusterVars

\* verify: the coordinator answers.
Answers == \A f \in Files : running[f] # Broken

Verify ==
    /\ Answers
    /\ Step("verifying", "committing")
    /\ UNCHANGED <<clusterVars, doubt>>

\* Engine.commit, whose second write can fail, or AdminEngine.commit, which
\* commits nothing.
Commit(reset) ==
    /\ engine.pc = "committing"
    /\ engine.kind = "admin" => reset
    /\ engine' = [engine EXCEPT !.pc = "idle",
                                !.outcome = IF reset THEN "succeeded" ELSE "failed"]
    /\ latest' = IF engine.kind = "operator" THEN engine.desired ELSE latest
    /\ base' = IF engine.kind = "operator" /\ reset THEN engine.desired ELSE base
    /\ UNCHANGED <<clusterVars, adminVars, count, doubt>>

\* A commit that failed is not rolled back.
CommitFails ==
    /\ engine.pc = "committing"
    /\ engine' = [engine EXCEPT !.pc = "idle", !.outcome = "failed"]
    /\ UNCHANGED <<clusterVars, adminVars, staged, count, doubt>>

-----------------------------------------------------------------------------
(* Failures, Auto Rollback, the process stopping. *)

\* History: what the pod has not loaded, or cannot load, at the moment of a failure.
LeftUnloaded == [f \in Files |-> doubt[f] \/ running[f] # Served(f) \/ Served(f) = Broken]

\* Any step may raise: the API server refuses a write, the rollout times out,
\* Verification fails.  What was written may never be loaded: a rollback that finds
\* the Secret as it would write it asks for no restart.
StageFails ==
    /\ engine.pc \in Forward
    /\ engine' = [engine EXCEPT !.pc = "roll_back"]
    /\ doubt' = LeftUnloaded
    /\ UNCHANGED <<clusterVars, adminVars, staged, count>>

\* Engine.roll_back: today's Admin values and the latest Snapshot.
\* AdminEngine.roll_back: the document is put back first.
RollBack ==
    LET values == IF engine.kind = "admin" THEN previous ELSE admin
    IN  /\ engine.pc = "roll_back"
        /\ admin' = values
        /\ engine' = [engine EXCEPT !.pc = "restore", !.values = values, !.desired = latest,
                                    !.rollout = FALSE]
        /\ UNCHANGED <<clusterVars, previous, saving, staged, count, doubt>>

\* Whether restoring the file needs a restart is asked before it is written.
RestoreSecret(f, from, to) ==
    /\ engine.pc = from
    /\ engine' = [engine EXCEPT !.pc = to, !.rollout = @ \/ secret[f] # Content[f]]
    /\ secret' = [secret EXCEPT ![f] = Content[f]]
    /\ UNCHANGED <<mounted, running, rolling, adminVars, staged, count, doubt>>

RestoreSections == \/ RestoreSecret("mapping", "restore", "restore_mapping")
                   \/ RestoreSecret("listener", "restore_mapping", "restore_listener")
                   \/ Mount("listener", "restore_listener", "restore_mounted")

RestoreRollOut ==
    \/ engine.rollout /\ RestartDeployment("restore_mounted", "restore_restarted")
    \/ /\ ~engine.rollout
       /\ Step("restore_mounted", "restore_verify")
       /\ UNCHANGED <<clusterVars, doubt>>
    \/ /\ ~rolling
       /\ Step("restore_restarted", "restore_verify")
       /\ doubt' = [f \in Files |-> FALSE]
       /\ UNCHANGED clusterVars

\* The Operator's rollback is over; the Admin's delivers the raw files.
RestoreVerify ==
    /\ engine.pc = "restore_verify"
    /\ Answers
    /\ engine' = IF engine.kind = "admin"
                 THEN [engine EXCEPT !.pc = "restore_raw"]
                 ELSE [engine EXCEPT !.pc = "idle", !.outcome = "rolled_back"]
    /\ UNCHANGED <<clusterVars, adminVars, staged, count, doubt>>

RestoreRaw == \/ WriteSecret("raw", "restore_raw", "restore_raw_written")
              \/ Mount("raw", "restore_raw_written", "restored")

\* The raw files came after the restart.
Restored ==
    /\ engine.pc = "restored"
    /\ engine' = [engine EXCEPT !.pc = "idle", !.outcome = "rolled_back"]
    /\ doubt' = LeftUnloaded
    /\ UNCHANGED <<clusterVars, adminVars, staged, count>>

\* The single attempt raises: an incident.
RestoreFails ==
    /\ engine.pc \in Backward
    /\ engine' = [engine EXCEPT !.pc = "idle", !.outcome = "incident"]
    /\ doubt' = LeftUnloaded
    /\ UNCHANGED <<clusterVars, adminVars, staged, count>>

\* The process stops.  The Apply is recovered by the Operator's engine, whoever
\* started it; one that was being rolled back is failed as it stands.  A save that
\* had not kept its pre-image never does.
Crash ==
    /\ count.crashes < MaxCrashes
    /\ count' = [count EXCEPT !.crashes = @ + 1]
    /\ saving' = None
    /\ engine' = CASE engine.pc \in Forward ->
                        [engine EXCEPT !.pc = "roll_back", !.kind = "operator"]
                   [] engine.pc \in Backward \cup {"committing"} ->
                        [engine EXCEPT !.pc = "idle", !.outcome = "failed"]
                   [] engine.pc = "idle" -> engine
    /\ doubt' = IF engine.pc \in Forward \cup Backward THEN LeftUnloaded ELSE doubt
    /\ UNCHANGED <<clusterVars, admin, previous, staged>>

Next ==
    \/ \E values \in AdminValues : SaveAdmin(values)
    \/ KeepPrevious \/ PodStarts
    \/ \E kind \in {"operator", "admin"}, desired \in Configs, unread \in SUBSET Sections :
           Validate(kind, desired, unread)
    \/ DeliverSections \/ DeliverRaw \/ RollOut \/ SkipRollout \/ RolledOut \/ Verify
    \/ \E reset \in BOOLEAN : Commit(reset)
    \/ CommitFails \/ StageFails \/ RollBack
    \/ RestoreSections \/ RestoreRollOut \/ RestoreVerify \/ RestoreRaw \/ Restored
    \/ RestoreFails \/ Crash

Spec == Init /\ [][Next]_vars

-----------------------------------------------------------------------------
(* Properties. *)

\* The coordinator runs what its Secrets hold: with nothing in progress and no pod
\* being replaced, every file is the one the pod started with -- but for a file that
\* was not loaded when an Apply failed or a rollback stopped or ended, or that a
\* restart decision could not read (rollout_needed, restore).
LoadedUnlessDoubted ==
    engine.pc = "idle" /\ ~rolling =>
        \A f \in Files : doubt[f] \/ running[f] = Served(f)

\* A pod that is lost comes back, during an Apply too: but for the moment between
\* the two steps of a delivery, no mount names content that is not there, whatever
\* sequence of Applies emptied or filled the file, unless a failure has put that
\* file in doubt (files.deliver, raw_files.deliver).
PodsCanStart ==
    engine.pc \notin {"listener_written", "raw_written", "restore_listener",
                   "restore_raw_written"}
        => \A f \in Files : doubt[f] \/ Served(f) # Broken

\* An Apply that succeeded left in the Secrets the latest Snapshot merged with the
\* Admin values it validated, and no others, though an Admin saved new ones while
\* it ran (_freeze_admin_values).
ValidatedIsDelivered ==
    engine.pc = "idle" /\ engine.outcome = "succeeded" =>
        secret = Rendered(latest, engine.values)
=============================================================================
