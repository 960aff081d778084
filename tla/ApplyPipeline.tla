--------------------------- MODULE ApplyPipeline ---------------------------
(***************************************************************************)
(* The promotion pipeline: an Operator stages a configuration in the       *)
(* Candidate, an Apply validates it, delivers it to the Cluster, rolls it  *)
(* out, verifies it and commits it as a Snapshot; a failed Apply is rolled *)
(* back to the latest Snapshot, and an Apply a restart interrupted is      *)
(* resolved when Apchi next starts.                                        *)
(*                                                                         *)
(* Durable state (MongoDB): snapshots, candidate, applies, maintenance.    *)
(* The Cluster:             cluster.                                       *)
(* The process, lost when it stops: runner (one asyncio task per Apply),   *)
(* client (one request handler per caller), boot (startup recovery).       *)
(*                                                                         *)
(* asyncio runs one handler at a time and switches only at an await, so an *)
(* action is what happens between two awaits that matter: reads of shared  *)
(* documents and writes to them are separate steps.                        *)
(*                                                                         *)
(* A configuration is opaque; ClusterStates says which places the Cluster  *)
(* can be in between two of them.                                          *)
(***************************************************************************)
EXTENDS Naturals, Sequences, ClusterStates

CONSTANTS
    Clients,       \* callers with a request in progress
    Applies,       \* identifiers an Apply can be created with; bounds their number
    EmptyConfig,   \* the baseline before the first Snapshot
    Requests,      \* the kinds of request callers send
    MaxCrashes,    \* how often the process may stop
    StoreFaults    \* whether a MongoDB operation may raise

RequestKinds == {"edit", "reset", "rollback", "import",
                 "admin_import", "apply", "admin_apply"}

ASSUME ConfigsAssumption == EmptyConfig \in Configs
ASSUME RequestsAssumption == Requests \subseteq RequestKinds
ASSUME BoundsAssumption == MaxCrashes \in Nat /\ StoreFaults \in BOOLEAN

VARIABLES
    snapshots,    \* the committed Snapshots, numbered from 1
    candidate,    \* the one Candidate document
    applies,      \* the Apply records
    maintenance,  \* Maintenance Mode
    cluster,      \* the configuration the Cluster holds
    runner,       \* the task driving each Apply
    client,       \* the handler serving each caller
    boot,         \* whether the process is down, recovering or serving
    crashes       \* how often the process has stopped

vars == <<snapshots, candidate, applies, maintenance, cluster,
          runner, client, boot, crashes>>

-----------------------------------------------------------------------------
(* The stages of an Apply record. *)

\* Mutated: an incident does not count as over.
TerminalWithoutIncident == {"succeeded", "failed"}
Terminal == {"succeeded", "failed", "incident"}
\* Mutated: a failure to commit is rolled back too.
RolledBackFromCommit == {"applying", "rolling_out", "verifying", "committing"}
RolledBackFrom == {"applying", "rolling_out", "verifying"}
Stages == {"validating", "applying", "rolling_out", "verifying",
           "committing", "rolling_back"} \cup Terminal

\* ApplyRecord.  History is the set of stages entered; "none" stands for a
\* record not created, and a snapshot or base of 0 for None.
ApplyRecord == [stage: Stages \cup {"none"}, history: SUBSET Stages,
                interrupted: BOOLEAN, rollback: {"none", "succeeded", "failed"},
                base: Nat, snapshot: Nat]

NoRecord == [stage |-> "none", history |-> {}, interrupted |-> FALSE,
             rollback |-> "none", base |-> 0, snapshot |-> 0]

InFlight(a) == applies[a].stage \notin Terminal \cup {"none"}

\* Mutated: the freeze starts only when the Cluster is touched.
FrozenOnceApplying == \E a \in Applies : applies[a].stage \in RolledBackFrom

\* What ApplyStore.in_flight finds: the Apply freezing the Candidate.
Frozen == \E a \in Applies : InFlight(a)

Created == {a \in Applies : applies[a].stage # "none"}

\* ApplyStore.advance: the stage, and its event in the history.
Advanced(record, stage) ==
    [record EXCEPT !.stage = stage, !.history = @ \cup {stage}]

(* Snapshots and the Candidate. *)

\* A Snapshot's number is its place in the sequence.
Snapshot == [sections: Configs, apply: Applies]

\* Mutated: off by one.
LatestOffByOne == Len(snapshots) - 1
Latest == Len(snapshots)

SectionsOf(n) == IF n \in 1..Len(snapshots) THEN snapshots[n].sections
                                            ELSE EmptyConfig

Document(base, sections) == [stored |-> TRUE, base |-> base, sections |-> sections]

\* CandidateStore.load: the stored document, or one derived from the latest.
Loaded == IF candidate.stored THEN candidate
                              ELSE Document(Latest, SectionsOf(Latest))

(* The task of an Apply and the handler of a request. *)

RunnerPcs == {"off", "validating", "probing", "applying", "delivering",
              "delivered", "rolling_out", "verifying", "committing",
              "inserting", "inserted", "committed", "recorded", "failing", "roll_back",
              "restore", "restoring", "restored", "engage", "declare"}

\* desired and baseline are what Engine captured when it validated (desired is
\* the target once a restore has started), number the Snapshot being committed.
RunnerState == [pc: RunnerPcs, kind: {"operator", "admin", "recovery"},
                desired: Configs, baseline: Configs, number: Nat]

NoRunner == [pc |-> "off", kind |-> "operator", desired |-> EmptyConfig,
             baseline |-> EmptyConfig, number |-> 0]

\* over is history, which no action reads: the Applies there had been, all of them
\* over, when the handler looked for one in flight.
ClientState == [pc: {"idle", "enabled", "allowed", "loaded"}, op: RequestKinds,
                base: Nat, sections: Configs, over: SUBSET Applies]

NoClient == [pc |-> "idle", op |-> "edit", base |-> 0, sections |-> EmptyConfig,
             over |-> {}]

TypeOK ==
    /\ snapshots \in Seq(Snapshot)
    /\ candidate \in [stored: BOOLEAN, base: Nat, sections: Configs]
    /\ applies \in [Applies -> ApplyRecord]
    /\ maintenance \in [engaged: BOOLEAN, by: {"admin", "rollback_failure"}]
    /\ cluster \in ClusterPlaces
    /\ runner \in [Applies -> RunnerState]
    /\ client \in [Clients -> ClientState]
    /\ boot \in {"down", "recovering", "serving"}
    /\ crashes \in 0..MaxCrashes

Init ==
    /\ snapshots = <<>>
    /\ candidate = [stored |-> FALSE, base |-> 0, sections |-> EmptyConfig]
    /\ applies = [a \in Applies |-> NoRecord]
    /\ maintenance = [engaged |-> FALSE, by |-> "admin"]
    /\ cluster = EmptyConfig
    /\ runner = [a \in Applies |-> NoRunner]
    /\ client = [c \in Clients |-> NoClient]
    /\ boot = "serving"
    /\ crashes = 0

-----------------------------------------------------------------------------
(* Requests.  A handler passes its gates, reads, and then writes; each is a *)
(* round trip, so everything else may happen in between.                    *)

processVars == <<boot, crashes>>

\* mutations_enabled.  It guards every kind of request modelled here.
MutationsEnabled(c, op) ==
    /\ boot = "serving"
    /\ client[c].pc = "idle"
    /\ ~maintenance.engaged
    /\ client' = [client EXCEPT ![c] = [NoClient EXCEPT !.pc = "enabled", !.op = op]]
    /\ UNCHANGED <<snapshots, candidate, applies, maintenance, cluster, runner, processVars>>

\* The second half of operator_mutation_allowed, and the check start_apply and
\* start_admin_apply make themselves.  The Admin's import makes none.
NothingInFlight(c) ==
    /\ client[c].pc = "enabled"
    /\ client[c].op # "admin_import"
    /\ ~Frozen
    /\ client' = [client EXCEPT ![c].pc = "allowed", ![c].over = Created]
    /\ UNCHANGED <<snapshots, candidate, applies, maintenance, cluster, runner, processVars>>

\* A handler that stops without writing: frozen, refused by validation, not
\* found, or a store that raised.
Refused(c) ==
    /\ client[c].pc # "idle"
    /\ client' = [client EXCEPT ![c] = NoClient]
    /\ UNCHANGED <<snapshots, candidate, applies, maintenance, cluster, runner, processVars>>

\* What the handler reads before it writes: the Candidate, or the latest
\* Snapshot for an import and for an Admin Apply.
Load(c) ==
    LET fromLatest == client[c].op \in {"import", "admin_import", "admin_apply"}
        read == IF fromLatest THEN Document(Latest, EmptyConfig) ELSE Loaded
    IN  /\ \/ client[c].pc = "allowed"
           \/ client[c].pc = "enabled" /\ client[c].op = "admin_import"
        /\ client' = [client EXCEPT ![c].pc = "loaded", ![c].base = read.base,
                                    ![c].sections = read.sections]
        /\ UNCHANGED <<snapshots, candidate, applies, maintenance, cluster, runner, processVars>>

\* CandidateStore.save: the whole document is replaced.
Save(c, ops, base, sections) ==
    /\ client[c].pc = "loaded"
    /\ client[c].op \in ops
    /\ candidate' = Document(base, sections)
    /\ client' = [client EXCEPT ![c] = NoClient]
    /\ UNCHANGED <<snapshots, applies, maintenance, cluster, runner, processVars>>

\* A create, update, delete or Section Revert: the document that was read, with
\* its Sections changed.
Edit(c) == \E s \in Configs : Save(c, {"edit"}, client[c].base, s)

\* reset: re-derived from the base of the Candidate that was read.
Reset(c) ==
    LET n == IF client[c].base = 0 THEN Latest ELSE client[c].base
    IN  Save(c, {"reset"}, n, SectionsOf(n))

\* full_rollback: every Section of one Snapshot, on the base that was read.
FullRollback(c) ==
    \E n \in 1..Latest : Save(c, {"rollback"}, client[c].base, SectionsOf(n))

\* CandidateStore.replace, for an Operator's import and for the Admin's.
Import(c) ==
    \E s \in Configs : Save(c, {"import", "admin_import"}, client[c].base, s)

\* start_apply and start_admin_apply: the record is inserted and its task started.
\* An insert whose reply is lost has the record in flight and no task.
Create(c, a) ==
    /\ client[c].pc = "loaded"
    /\ client[c].op \in {"apply", "admin_apply"}
    /\ applies[a].stage = "none"
    /\ applies' = [applies EXCEPT
           ![a] = [Advanced(NoRecord, "validating") EXCEPT !.base = client[c].base]]
    /\ \/ runner' = [runner EXCEPT ![a] = [NoRunner EXCEPT
              !.pc = "validating",
              !.kind = IF client[c].op = "apply" THEN "operator" ELSE "admin"]]
       \/ StoreFaults /\ runner' = runner
    /\ client' = [client EXCEPT ![c] = NoClient]
    /\ UNCHANGED <<snapshots, candidate, maintenance, cluster, processVars>>

\* set_maintenance_mode.
SetMaintenanceMode(engaged) ==
    /\ boot = "serving"
    /\ maintenance' = [engaged |-> engaged, by |-> "admin"]
    /\ UNCHANGED <<snapshots, candidate, applies, cluster, runner, client, processVars>>

-----------------------------------------------------------------------------
(* ApplyRunner._run: the stages of an Apply that goes through. *)

requestVars == <<maintenance, client, processVars>>

\* Task a is at pc and moves on to its next step.
Goto(a, from, to) ==
    /\ runner[a].pc = from
    /\ runner' = [runner EXCEPT ![a].pc = to]

\* Task a is at pc and ends, and its engine with it.
End(a, from) ==
    /\ runner[a].pc = from
    /\ runner' = [runner EXCEPT ![a] = NoRunner]

\* Task a moves on, writing the stage it enters to the record.
Enter(a, from, stage) ==
    /\ Goto(a, from, stage)
    /\ applies' = [applies EXCEPT ![a] = Advanced(@, stage)]
    /\ UNCHANGED <<snapshots, candidate, cluster, requestVars>>

\* Engine.validate reads what it will deliver and what that is a change from:
\* the Candidate and its base, or for an Admin Apply the latest Snapshot twice.
Capture(a) ==
    LET admin == runner[a].kind = "admin"
        desired == IF admin THEN SectionsOf(Latest) ELSE Loaded.sections
        baseline == IF admin THEN SectionsOf(Latest) ELSE SectionsOf(Loaded.base)
    IN  /\ runner[a].pc = "validating"
        /\ runner' = [runner EXCEPT ![a].pc = "probing", ![a].desired = desired,
                                    ![a].baseline = baseline]
        /\ UNCHANGED <<snapshots, candidate, applies, cluster, requestVars>>

\* The probe accepted it: warnings recorded, Apply begins.
Validated(a) == Enter(a, "probing", "applying")

\* Engine.apply, from its first write to its last.
Deliver(a) ==
    /\ Goto(a, "applying", "delivering")
    /\ cluster' = DeliveryStarted(cluster, SectionsOf(Latest),
                                  runner[a].baseline, runner[a].desired)
    /\ UNCHANGED <<snapshots, candidate, applies, requestVars>>

Delivered(a) ==
    /\ Goto(a, "delivering", "delivered")
    /\ cluster' \in DeliveryEnded(cluster, SectionsOf(Latest),
                                   runner[a].baseline, runner[a].desired)
    /\ UNCHANGED <<snapshots, candidate, applies, requestVars>>

\* rollout_needed, as planned: a restart, or straight to Verification.
StartRollout(a) == Enter(a, "delivered", "rolling_out")
SkipRollout(a) == Enter(a, "delivered", "verifying")
RolledOut(a) == Enter(a, "rolling_out", "verifying")

\* Verification looks for what is missing, so it passes on a Cluster that
\* holds more than it was given.
Verified(a) == Enter(a, "verifying", "committing")

\* SnapshotStore.commit reads the latest number, then inserts the next one.
ReadLatest(a) ==
    /\ runner[a].pc = "committing"
    /\ runner[a].kind = "operator"
    /\ runner' = [runner EXCEPT ![a].pc = "inserting", ![a].number = Latest + 1]
    /\ UNCHANGED <<snapshots, candidate, applies, cluster, requestVars>>

\* Mutated: the number is not the key, so the second of two inserts lands too.
InsertSnapshotUnkeyed(a) ==
    /\ Goto(a, "inserting", "inserted")
    /\ snapshots' = Append(snapshots, [sections |-> runner[a].desired, apply |-> a])
    /\ UNCHANGED <<candidate, applies, cluster, requestVars>>

InsertSnapshot(a) ==
    /\ runner[a].number = Latest + 1
    /\ Goto(a, "inserting", "inserted")
    /\ snapshots' = Append(snapshots, [sections |-> runner[a].desired, apply |-> a])
    /\ UNCHANGED <<candidate, applies, cluster, requestVars>>

\* The number is the document's key: another Apply that committed it first
\* makes the insert raise.
DuplicateNumber(a) ==
    /\ runner[a].number # Latest + 1
    /\ Goto(a, "inserting", "failing")
    /\ UNCHANGED <<snapshots, candidate, applies, cluster, requestVars>>

\* Mutated: the Candidate keeps its old base.
ResetCandidateKeepingBase(a) ==
    /\ Goto(a, "inserted", "committed")
    /\ candidate' = Document(Loaded.base, SectionsOf(runner[a].number))
    /\ UNCHANGED <<snapshots, applies, cluster, requestVars>>

\* The second write of Engine.commit: the Candidate re-derived from the Snapshot.
ResetCandidate(a) ==
    /\ Goto(a, "inserted", "committed")
    /\ candidate' = Document(runner[a].number, SectionsOf(runner[a].number))
    /\ UNCHANGED <<snapshots, applies, cluster, requestVars>>

\* AdminEngine.commit writes nothing.
CommitNothing(a) ==
    /\ runner[a].kind = "admin"
    /\ Goto(a, "committing", "committed")
    /\ UNCHANGED <<snapshots, candidate, applies, cluster, requestVars>>

\* ApplyStore.record_snapshot; an Admin Apply has no number to record.
RecordSnapshot(a) ==
    /\ Goto(a, "committed", "recorded")
    /\ applies' = [applies EXCEPT ![a].snapshot = runner[a].number]
    /\ UNCHANGED <<snapshots, candidate, cluster, requestVars>>

Succeed(a) ==
    /\ End(a, "recorded")
    /\ applies' = [applies EXCEPT ![a] = Advanced(@, "succeeded")]
    /\ UNCHANGED <<snapshots, candidate, cluster, requestVars>>

-----------------------------------------------------------------------------
(* ApplyRunner._run's except clause and _roll_back. *)

\* Where the except clause goes.  reached is set before the stage is advanced
\* to, so it can be one stage ahead of the record.
Handler(reached) == IF reached \in RolledBackFrom THEN "roll_back" ELSE "failing"

\* A stage's own work raises: validation refused, DDL failed, the rollout timed
\* out, Verification found something missing.
StageFails(a) ==
    /\ \E reached \in {"validating", "applying", "rolling_out", "verifying"} :
        /\ \/ runner[a].pc = reached
           \/ reached = "validating" /\ runner[a].pc = "probing"
           \/ reached = "applying" /\ runner[a].pc = "delivering"
        /\ Goto(a, runner[a].pc, Handler(reached))
    /\ UNCHANGED <<snapshots, candidate, applies, cluster, requestVars>>

\* The store raises, on the way into the next stage or while committing, and what
\* it was asked to write is not written.  Where it is (only the reply was lost) is
\* the write's own action and a failure from where that leads, but for the last
\* write, which leads nowhere: SucceedUnheard.
StoreFails(a) ==
    /\ StoreFaults
    /\ \E p \in {<<"probing", "applying">>, <<"delivered", "verifying">>,
                 <<"rolling_out", "verifying">>, <<"verifying", "committing">>,
                 <<"committing", "committing">>, <<"inserting", "committing">>,
                 <<"inserted", "committing">>, <<"committed", "committing">>,
                 <<"recorded", "committing">>} :
           Goto(a, p[1], Handler(p[2]))
    /\ UNCHANGED <<snapshots, candidate, applies, cluster, requestVars>>

\* The record says succeeded and its task does not know: the except clause is
\* about to fail it.
SucceedUnheard(a) ==
    /\ StoreFaults
    /\ Goto(a, "recorded", "failing")
    /\ applies' = [applies EXCEPT ![a] = Advanced(@, "succeeded")]
    /\ UNCHANGED <<snapshots, candidate, cluster, requestVars>>

\* The store raises inside the handler of a failure: nothing catches it, and the
\* task ends with its record as it stands.
TaskDies(a) ==
    /\ StoreFaults
    /\ runner[a].kind # "recovery"
    /\ \E pc \in {"failing", "roll_back", "restore", "restoring", "restored",
                   "engage", "declare"} : End(a, pc)
    /\ UNCHANGED <<snapshots, candidate, applies, cluster, requestVars>>

\* Mutated: the reason is recorded and the stage is not.
FailReasonOnly(a) ==
    /\ End(a, "failing")
    /\ UNCHANGED <<snapshots, candidate, applies, cluster, requestVars>>

\* ApplyStore.fail.
Fail(a) ==
    /\ End(a, "failing")
    /\ applies' = [applies EXCEPT ![a] = Advanced(@, "failed")]
    /\ UNCHANGED <<snapshots, candidate, cluster, requestVars>>

RollBack(a) ==
    /\ Goto(a, "roll_back", "restore")
    /\ applies' = [applies EXCEPT ![a] = Advanced(@, "rolling_back")]
    /\ UNCHANGED <<snapshots, candidate, cluster, requestVars>>

\* Engine.roll_back reads the latest Snapshot, then restores it.
Restore(a) ==
    /\ runner[a].pc = "restore"
    /\ runner' = [runner EXCEPT ![a].pc = "restoring", ![a].desired = SectionsOf(Latest)]
    /\ cluster' = RestoreStarted(cluster, SectionsOf(Latest))
    /\ UNCHANGED <<snapshots, candidate, applies, requestVars>>

Restored(a) ==
    /\ Goto(a, "restoring", "restored")
    /\ cluster' \in RestoreEnded(cluster, runner[a].desired)
    /\ UNCHANGED <<snapshots, candidate, applies, requestVars>>

\* The single attempt raises, before, during or (in Verification) after its
\* writes; record_rollback keeps the outcome.
RestoreFails(a) ==
    /\ \/ Goto(a, "restore", "engage") /\ cluster' = cluster
       \/ Goto(a, "restoring", "engage") /\ cluster' \in {cluster, runner[a].desired}
    /\ applies' = [applies EXCEPT ![a].rollback = "failed"]
    /\ UNCHANGED <<snapshots, candidate, requestVars>>

\* record_rollback.  What is left is to fail, which a recovered record has done.
RecordRollback(a) ==
    /\ \/ runner[a].kind # "recovery" /\ Goto(a, "restored", "failing")
       \/ runner[a].kind = "recovery" /\ End(a, "restored")
    /\ applies' = [applies EXCEPT ![a].rollback = "succeeded"]
    /\ UNCHANGED <<snapshots, candidate, cluster, requestVars>>

\* auto_rollback.declare_incident: Maintenance Mode, before anything is said.
EngageMaintenance(a) ==
    /\ Goto(a, "engage", "declare")
    /\ maintenance' = [engaged |-> TRUE, by |-> "rollback_failure"]
    /\ UNCHANGED <<snapshots, candidate, applies, cluster, client, processVars>>

DeclareIncident(a) ==
    /\ End(a, "declare")
    /\ applies' = [applies EXCEPT ![a] = Advanced(@, "incident")]
    /\ UNCHANGED <<snapshots, candidate, cluster, requestVars>>

-----------------------------------------------------------------------------
(* The process stopping, and recover_interrupted when it starts again. *)

durableVars == <<snapshots, candidate, applies, maintenance, cluster>>

\* A crash, or a shutdown that cancels the tasks: CancelledError is not an
\* Exception, so no handler runs and the records stay as they are.
Crash ==
    /\ boot # "down"
    /\ crashes < MaxCrashes
    /\ boot' = "down"
    /\ crashes' = crashes + 1
    /\ runner' = [a \in Applies |-> NoRunner]
    /\ client' = [c \in Clients |-> NoClient]
    /\ UNCHANGED durableVars

Restart ==
    /\ boot = "down"
    /\ boot' = "recovering"
    /\ UNCHANGED <<durableVars, runner, client, crashes>>

Idle == \A a \in Applies : runner[a].pc = "off"

\* One turn of the loop: the record is resolved before the Cluster is touched,
\* and only a stage that is rolled back from is restored.  A stop between its two
\* writes leaves the record in flight, for the next recovery to do the same.
RecoverInterrupted(a) ==
    /\ boot = "recovering"
    /\ Idle
    /\ InFlight(a)
    /\ applies' = [applies EXCEPT ![a] = [Advanced(@, "failed") EXCEPT !.interrupted = TRUE]]
    /\ runner' = IF applies[a].stage \in RolledBackFrom
                 THEN [runner EXCEPT ![a] = [NoRunner EXCEPT !.pc = "restore",
                                                             !.kind = "recovery"]]
                 ELSE runner
    /\ UNCHANGED <<snapshots, candidate, cluster, requestVars>>

RecoveryDone ==
    /\ boot = "recovering"
    /\ Idle
    /\ ~Frozen
    /\ boot' = "serving"
    /\ UNCHANGED <<durableVars, runner, client, crashes>>

\* Startup recovery raised: Apchi starts serving without it.
RecoveryAbandoned ==
    /\ boot = "recovering"
    /\ StoreFaults
    /\ boot' = "serving"
    /\ runner' = [a \in Applies |-> NoRunner]
    /\ UNCHANGED <<durableVars, client, crashes>>

-----------------------------------------------------------------------------

Request(c) ==
    \/ \E op \in Requests : MutationsEnabled(c, op)
    \/ NothingInFlight(c) \/ Refused(c) \/ Load(c)
    \/ Edit(c) \/ Reset(c) \/ FullRollback(c) \/ Import(c)
    \/ \E a \in Applies : Create(c, a)

Task(a) ==
    \/ Capture(a) \/ Validated(a) \/ Deliver(a) \/ Delivered(a)
    \/ StartRollout(a) \/ SkipRollout(a) \/ RolledOut(a) \/ Verified(a)
    \/ ReadLatest(a) \/ InsertSnapshot(a) \/ DuplicateNumber(a)
    \/ ResetCandidate(a) \/ CommitNothing(a) \/ RecordSnapshot(a) \/ Succeed(a)
    \/ StageFails(a) \/ StoreFails(a) \/ SucceedUnheard(a) \/ TaskDies(a) \/ Fail(a)
    \/ RollBack(a) \/ Restore(a) \/ Restored(a) \/ RestoreFails(a)
    \/ RecordRollback(a) \/ EngageMaintenance(a) \/ DeclareIncident(a)

Startup == Restart \/ RecoveryDone \/ \E a \in Applies : RecoverInterrupted(a)

Next ==
    \/ \E c \in Clients : Request(c)
    \/ \E engaged \in BOOLEAN : SetMaintenanceMode(engaged)
    \/ \E a \in Applies : Task(a)
    \/ Startup \/ RecoveryAbandoned \/ Crash

Spec == Init /\ [][Next]_vars

\* Every task's awaits return (the calls it makes have timeouts), and a process
\* that stopped is started again by its Deployment.  Nobody has to send requests.
Fairness == WF_vars(Startup) /\ \A a \in Applies : WF_vars(Task(a))

FairSpec == Spec /\ Fairness

-----------------------------------------------------------------------------
(* Properties. *)

\* At most one Apply is in flight: "One at a time" (docs/concepts.md:39).  It
\* rests on start_apply's check of in_flight and the insert that follows not
\* being separated by another start.
OneInFlight ==
    \A a, b \in Applies : InFlight(a) /\ InFlight(b) => a = b

\* The Candidate changes during Apply a: as an Apply commits, or by the write of a
\* handler that makes no check, or that made it before there was an Apply a.
Excused(a) ==
    \/ \E b \in Applies : InFlight(b) /\ runner[b].pc = "inserted"
    \/ \E c \in Clients : /\ client[c].pc = "loaded" /\ client'[c].pc = "idle"
                          /\ client[c].op = "admin_import" \/ a \notin client[c].over

UnfrozenChange == candidate' # candidate => \A a \in Applies : InFlight(a) => Excused(a)

\* The Candidate is frozen during an Apply (deps.py:286, invariant 4 of the
\* implementation document) for everybody who asks after it began, whatever the
\* others have under way: what changes it meanwhile is a commit, the Admin's import,
\* which does not ask, or a request let through before.
CandidateFrozen == [][UnfrozenChange]_vars

\* A Snapshot was verified and was never rolled back, whatever failed or stopped
\* after it was inserted: its Apply entered Commit, and no Auto Rollback ran for
\* it (ROLLED_BACK_FROM leaves Commit out; recovery reads the same set).
CommittedNeverRolledBack ==
    \A n \in 1..Latest :
        LET record == applies[snapshots[n].apply]
        IN  /\ "committing" \in record.history
            /\ "rolling_back" \notin record.history
            /\ record.rollback = "none"

\* Snapshots and the records that name them agree, also when two commits race
\* for a number: an Apply commits at most one Snapshot, and a record that names a
\* Snapshot names its own.
CommitsAreOwn ==
    /\ \A m, n \in 1..Latest : snapshots[m].apply = snapshots[n].apply => m = n
    /\ \A a \in Applies : applies[a].snapshot # 0 =>
           /\ applies[a].snapshot \in 1..Latest
           /\ snapshots[applies[a].snapshot].apply = a

\* A record that says the Cluster may not be where its Snapshots say it is: an
\* incident, or a failure that got as far as the Cluster without a rollback that
\* succeeded.
Suspect(a) ==
    \/ applies[a].stage = "incident"
    \/ /\ applies[a].stage = "failed"
       /\ {"applying", "rolling_back"} \cap applies[a].history # {}
       /\ applies[a].rollback # "succeeded"

\* The records account for every divergence: when nothing is in flight and no
\* record is suspect, the Cluster runs the latest Snapshot -- after any mixture of
\* failures, rollbacks, crashes and recoveries.
DivergenceIsRecorded ==
    boot = "serving" /\ ~Frozen /\ (\A a \in Applies : ~Suspect(a))
        => cluster = SectionsOf(Latest)

\* A step leaves an Apply that is over as it was, and the Snapshot it names.  The
\* failure of an Apply a restart interrupted may become the incident that recovery
\* declares, and a success whose task never heard of it becomes a failure.
StaysOver(a) ==
    applies[a].stage \in {"succeeded", "failed", "incident"} =>
        /\ applies'[a].snapshot = applies[a].snapshot
        /\ \/ applies'[a].stage = applies[a].stage
           \/ /\ applies[a].stage = "failed" /\ applies[a].interrupted
              /\ applies'[a].stage = "incident"
           \/ /\ applies[a].stage = "succeeded" /\ runner[a].pc = "failing"
              /\ applies'[a].stage = "failed"

\* An Apply that is over stays over (TERMINAL: "nothing further will happen to
\* it"), whatever its own task, another Apply's or a recovery still does, but for
\* the two ways StaysOver names.
TerminalStays == [][\A a \in Applies : StaysOver(a)]_vars

\* Every Apply ends, so the Candidate is always unfrozen again: by the Apply
\* itself, or by recovery after a restart (recover_interrupted).
EveryApplyEnds ==
    \A a \in Applies : InFlight(a) ~> ~InFlight(a)

\* Short of an incident, an Apply that is over leaves the Cluster on its latest
\* Snapshot: "The Apply did not go through and the Cluster is back on its latest
\* Snapshot" (Stage.FAILED, applies.py:53).
FailedMeansBack ==
    boot = "serving" /\ ~Frozen /\ (\A a \in Applies : applies[a].stage # "incident")
        => cluster = SectionsOf(Latest)
=============================================================================
