# Apchi: a verification development

Apchi manages the configuration of a Trino cluster.  An Operator stages changes in a *Candidate*;
an *Apply* validates the Candidate, delivers it, rolls it out, verifies it and commits it as a
numbered *Snapshot*.  An Apply that fails is rolled back once to the latest Snapshot; if that
fails too, Apchi declares an incident and engages Maintenance Mode.  It is one asyncio process
(`src/app`), with MongoDB for what must survive a restart and Trino and Kubernetes as the Cluster.

This directory holds TLA+ modules translated from that code, the TLC configurations that check
them, and proofs checked by TLAPS.  `PROJECT.json` lists every run, theorem, mutant, hazard and
finding, and maps each definition to the lines it stands for.

## 1. Inventory

| Component | State | Operations | What makes it correct |
|---|---|---|---|
| Candidate (`pipeline/candidate.py`, `recovery.py`) | one document: base Snapshot, Sections | edit, Section Revert, reset, Full Rollback, import, reset at commit | frozen while an Apply is in flight, but for the Admin's import |
| Snapshots (`snapshots.py`) | numbered documents | commit (read latest, insert next) | consecutive, each owned by one Apply, never rolled back |
| Apply pipeline (`applies.py`, `engine.py`, `auto_rollback.py`, `rollout.py`, `verification.py`) | Apply records; one task and one engine per Apply | create, the five stages, fail, roll back, declare incident, recover | one at a time; the records account for where the Cluster is; every Apply ends |
| Maintenance Mode and gates (`maintenance.py`, `api/deps.py`) | one document | engage, release, the two request gates | nothing starts during an incident |
| Catalogs (`sections/catalogs`) | the Secret, the live catalogs | plan, settle, CREATE/DROP, rollback diff, verify | stopped anywhere, a rollback ends on the latest Snapshot; unmanaged catalogs are never touched |
| Files and rollout (`files.py`, `impact.py`, `raw_files.py`, `adapters/kubernetes.py`) | Secrets, mounts, what the coordinator loaded | deliver, would_change, roll out | after an Apply the coordinator runs what the Secrets hold |
| Admin values (`admin_values.py`, `AdminEngine`) | the document and one pre-image | save, restore_previous | a failed Admin Apply goes back to what last ran |
| Validation (`validation.py`, `validations.py`, `preconditions.py`) | validation records; a probe pod and Secret | start, finish, sweep | a pass was proved; no probe and no key outlives its validation but until the next sweep |
| Discovery and Adoption (`discovery.py`, `discoveries.py`, `seed.py`, `high_water.py`) | one discovery document, amendments, the high-water mark | read, amend, withdraw, seed, adopt | adopting loses nothing that was served and changes nothing that was seeded |
| Authentication (`auth/`, `api/deps.py`) | users, sessions, tokens, login attempts | resolve a credential, sign in by password or at the provider, mint, revoke, sign out | no authority outlives its grant; an attempt makes one session; what was decided by hand stands |
| Permissions (`sections/permissions`) | grants, two Admin values | grant, change, delete, enforce, read back | the first rule that matches says what the grants say; Apchi keeps its own access |
| Resource Groups (`sections/resource_groups`) | groups, selectors, a quota period | edits, render, check, predict | what passes the check starts Trino; the prediction is right |
| Certificate Mapping (`sections/certificate_mapping`) | one pattern, preserved ones | set, clear, preserve, read back | nobody is refused and nobody renamed unasked |
| Client Certificates, Event Listeners (`sections/`, `references.py`) | their part of the Candidate | edits with reference checks | what a live Catalog names is mounted; the file a deployment names is there |
| Audit history (`audit/`, `api/audit.py`, `api/pages.py`) | events | record, list | what was recorded adds up to what is stored; a reader misses nothing |
| Errors, health, trust, logging, settings | | | not modelled |

**Interactions.**  Request handlers, Apply tasks and startup recovery share the MongoDB documents
and nothing else; there is no lock and no transaction.  `asyncio` switches at every `await`, so a
check and the write it guards are separate steps.  A restart loses every task and handler and
keeps every document; recovery then resolves the records left in flight before requests are served.

**What is hard.**  Check-then-act across an `await`; commits of two writes; a crash in any stage
including the rollback; a rollback that itself stops short; a store that raises inside a failure
handler; catalogs delivered by statements that are not idempotent; credentials resolved by two
reads; files in which the first rule that matches wins, so that every line depends on the ones
above it; a collection read page by page while it grows.  `PROJECT.json` lists these as
hazards, each at its line.

## 2. Modules

| Module | Models | Extends |
|---|---|---|
| `ClusterStates` | what a delivery and a restore do to the Cluster, abstractly | |
| `ApplyPipeline` | Candidate, Snapshots, Apply records, Maintenance Mode, handlers, tasks, crash and recovery | `ClusterStates` |
| `ClusterContract` | the abstract specification of delivering and restoring, over the same operators | `ClusterStates` |
| `CatalogApply` | the catalog engine, statement by statement; implements `ClusterContract` | |
| `FileDelivery` | the Admin document, file Secrets, mounts, the pod, the restart decision, both engines' rollbacks | |
| `Adoption` | the discovery document, seeding, cutover, adopting, the high-water mark, a lost database | `CatalogApply` |
| `Auth` | users, sessions, tokens, login attempts, and requests split at every await | |
| `Validation` | validation records, their tasks, the probe pod and its Secret, stop and sweep | |
| `Permissions` | grants, the rules file rendered from them, the file read back, Trino's reading of it | `Lists` |
| `ResourceGroups` | groups and selectors, the tree, the checks, the prediction of Verification | |
| `CertificateMapping` | the mapping rules, and a list written by hand read back | |
| `References` | what Catalogs, certificates and listeners imply about each other, through Applies and rollbacks | |
| `History` | the save of a Candidate and its audit events, and a reader paging through them | `Lists` |
| `Lists` | what `sorted()` and a filtered list make, for the two modules that sort | |
| `MCApplyPipeline`, `MCCatalogApply`, `MCFileDelivery`, `MCAdoption`, `MCAuth`, `MCValidation` | the symmetry sets of the TLC instances | the modules they are named after |
| `MCSections` | `Permissions`, `ResourceGroups`, `CertificateMapping`, `References` and `History`, each moving on its own | all five |
| `ApplyPipeline_proofs` | theorems about `ApplyPipeline`; in its second half, that the records account for every divergence of the Cluster | `ApplyPipeline` |
| `CatalogApply_proofs` | theorems about `CatalogApply`, the refinement of `ClusterContract` among them, and about `Adoption` | `Adoption` |
| `FileDelivery_proofs`, `Auth_proofs`, `Validation_proofs` | theorems about the modules they are named after | those modules |
| `Lists_proofs` | lemmas about `Lists` and about least and greatest numbers | `Lists` |
| `Permissions_proofs` | theorems about `Permissions` | `Permissions`, `Lists_proofs` |
| `Sections_proofs` | theorems about `References`, `ResourceGroups`, `CertificateMapping` and `History` | all four, `Lists_proofs` |

### ApplyPipeline

`snapshots`, `candidate`, `applies` and `maintenance` are the MongoDB documents; `cluster` is the
Cluster; `runner`, `client` and `boot` are the process.  `runner[a].pc` is where `ApplyRunner._run`
(or recovery) stands between two awaits, and its other fields are what `Engine` captured in
`validate`.  `client[c].pc` is how far a request got: past `mutations_enabled` (`enabled`), past
the in-flight check (`allowed`), past its read (`loaded`); its write ends it.

* Requests: `MutationsEnabled`, `NothingInFlight`, `Load`, then one of `Edit`, `Reset`,
  `FullRollback`, `Import`, `Create`; `Refused` is every way a handler stops without writing.  The
  Admin's import skips the in-flight check.  An insert of a record whose reply is lost leaves it in
  flight with no task (`Create`).  `over` in `client[c]` is a history variable: the Applies there were
  when the request passed the in-flight check.
* A task: `Capture`, `Validated`, `Deliver`, `Delivered`, `StartRollout` or `SkipRollout`,
  `RolledOut`, `Verified`, `ReadLatest`, `InsertSnapshot`, `ResetCandidate`, `RecordSnapshot`,
  `Succeed`.  `StageFails` and `StoreFails` lead to `Handler(reached)`, where `reached` is the
  variable of `_run` that is set before the record is advanced.  `SucceedUnheard` is the write of SUCCEEDED that
  MongoDB took and whose reply was lost: the handler then records a failure over it
  (`applies.py:413` and `434`).  Of the writes that end an Apply it is the only one where a lost reply
  is not the same as a write that was made and then followed by a failure or a crash.
* Auto Rollback: `RollBack`, `Restore`, `Restored`, `RecordRollback`, `Fail`; or `RestoreFails`,
  `EngageMaintenance`, `DeclareIncident`.  A store that raises in there ends the task (`TaskDies`).
* `Crash`, `Restart`, `RecoverInterrupted`, `RecoveryDone`, `RecoveryAbandoned`.

A configuration is opaque.  Between two configurations the Cluster is in one of three places
(`ClusterStates`): `Partial`, `Unwinding` or `Diverged`.  That these three are enough, and move as
`ApplyPipeline` says, is not assumed: `CatalogApply` implements `ClusterContract`, which is built
from the same operators.  Where the code cannot know (Verification looks for what is missing, not
for what should be gone), the outcome is a choice.

An Admin Apply is modelled as a delivery of the latest Snapshot measured from itself, which
commits nothing; the Admin values and raw files it carries are in `FileDelivery`.

### CatalogApply

`live` is what the coordinator serves, `secret` the catalog Secret, `latest` and `base` the
catalogs of the latest Snapshot and of the Candidate's base, `plan` the statements left.  An Apply
settles its plan, writes the Secret and issues creates, replaces (a drop and a create) and drops;
`Fails` stops it between any two.  `Restore` diffs the latest Snapshot against `live` and `secret`,
rewrites the Secret and issues the difference.  `place` is a history variable, the refinement
witness.  Catalogs in `Unmanaged` are live and were never Apchi's.

### FileDelivery

Three files that Trino reads once, at start: `mapping` (the certificate mapping rules, rendered
from the Operator's pattern and the Admin's preserved ones, in a directory the deployment mounts),
`listener` (the event listener's properties) and `raw` (the Admin's raw files, as a whole).
`secret` is the content of each Secret, `mounted` the pod template, `running` what the
coordinator's pod read when it started, `rolling` whether the Deployment still has to replace it.
`admin`, `previous` and `saving` are the Admin document, its pre-image, and a save between its two
writes.  `latest` and `base` are the two Sections in the latest Snapshot and in the Candidate's base.

* The Admin: `SaveAdmin`, `KeepPrevious`.  The Deployment: `PodStarts`, at any time.
* An Apply: `Validate` freezes the Admin values and decides on the restart; `DeliverSections` and
  `DeliverRaw` write each Secret and then the mount; `RollOut` and `RolledOut`, or `SkipRollout`;
  `Verify`; `Commit` or `CommitFails`.
* `StageFails` at any step; `RollBack`, `RestoreSections`, `RestoreRollOut`, `RestoreVerify`, and
  for an Admin Apply `RestoreRaw` and `Restored`; or `RestoreFails`.  `Crash` hands an Apply that
  was in flight to the Operator's engine, which is what recovery does with either kind.

`doubt` is a history variable: a file that the pod had not loaded, or could not load, when an Apply
failed, a rollback stopped or an Admin's rollback ended, or whose Secret a restart decision could
not read.  A completed rollout, or a pod that starts with nothing in progress, clears it.  Everything
not in doubt is loaded (`LoadedUnlessDoubted`), which is the part the restart decisions answer for:
in particular a rollback that finds a Secret different restarts, whichever Admin values it restores.

### Adoption

`CatalogApply` with the steps around it that bring a Cluster under management, for the catalogs:
the only Section with a source that is not a file.  `discovery` is the stored document: what was
`read` of the files and the Secret, what Trino `served` (and whether it could be `asked`), and what
an Operator `amended`.  `files` are the Admin's own, `cutover` says that the deployment fills the
store from Apchi's Secret, `number` is the latest Snapshot's number and `mark` the high-water mark.

* Requests: `CreateDiscovery` (which keeps the amendments), `AmendCatalog`, `WithdrawAmendment`,
  `DiscardDiscovery`, `SeedCluster`, `Adopt` with its refusals.
* Applies: `StartApply` (the adopting one or anyone's), `AdoptionRefused` (its Validation failed, for
  a catalog in the way or any other reason), `ApplyStep` (every step of
  the engine), `CommitSnapshot`, whose mark is best effort, `ApplyEnds`.
* The surroundings: `PodStarts`, `CutOver` before or after the seed, `OtherStatement` while the
  Cluster is unmanaged, `DatabaseLost`.

`adopting` is a history variable: what an adopting Apply was started on.  Its `confirms` says that
the Cluster ran exactly what was seeded, until somebody changes either; `highest` is the highest
number the mark was told.

### Auth

`users`, `sessions`, `tokens`, `logins` and `audit` are the collections; `request[r].at` is where a
handler stands between two awaits.  `Arrive`, `FindToken`, `FindOwner`, `ReadSession` and `ReadUser`
are the resolution of a caller in `deps.py`; `MintToken`, `RevokeToken`, `AuditToken` and `Logout`
what a caller does with credentials; `Authenticate`, `RestoreHash` and `CreateSession` a password
sign-in; `SsoLogin`, `SsoCallback`, `Exchange`, `Claims`, `Mirror` one at the provider.  `CountUsers`
and `CreateInitialAdmin` are the bootstrap.  There is no route that administers users, so `ByHand`
is the operator of the database, who adds, changes, disables and deletes rows.  `seen` is a history variable: for every request, whether its
credential was live and which roles its holder had at some moment since it arrived.

A password verified against a row that has been changed since is written back by the rehash, over
the new one.  The code allows it; `HandStands` says that nothing else replaces a password.  A row
deleted by hand comes back by a login at the provider, which is what mirroring is, and, when it was
the last one and the Initial Admin's, at the next start.

`RevokeToken` is the `get` and the conditional update of one request in one step: between them only
the token's status can move, and the update looks at that again.

### Validation

A record, a task, a pod and a Secret per validation.  `Fails` is a call that raises before the block
that cleans up is entered, where a create that raised may have created; inside the block,
`DeletePod` and `DeleteSecret` follow however it is left.  `Shutdown` cancels the tasks, `Stop` kills
them, and `SweepPods`, `SweepSecrets` and `SweepFails` are the next start.  `lost` and `cut` are
history variables: the validations whose verdict could not be told, and those whose cleanup was cut
short.  A Candidate is what Validation can find wrong with it (`Defects`): a Section's check, a file
that is put in front of the probe, a file that is not (`unprobed`: the rules Permissions renders
without a grant, in which the preserved ones are; a raw `config.properties`), a raw file, a statement,
a data source.  Which Candidate is reported on is decided by `Capture`, when the task reads it.

### Permissions, ResourceGroups, CertificateMapping

Each has the staged resources as its state, the edits as actions, the generator and the parser as
operators over rules, and, marked external, Trino's reading of the file.  A name in `Permissions` is
its rank, since sorting looks at nothing else; a pattern in `CertificateMapping` is the identities
it derives; a selector in `ResourceGroups` is whether it fits Apchi's own query and whether it turns
on something Apchi cannot know, or cannot evaluate, before it meets a mismatch (`hidden`).  A name in a
group path may be a template such as `${USER}`, which Apchi stores like any name and Trino replaces
(`Expand`, with `Expansion` the values of Apchi's own query).  The initial states include Clusters adopted from files written by
hand, read by the module's own parser.

`Sorted` in `Lists` says where an element of a sorted list stands: after as many others as come before
it.  `Picked` is a list comprehension with a condition, by the places it keeps.  Both are written so,
and not with `SortSeq` and `SelectSeq`, because the prover can then look inside.

### References

The three Sections whose resources refer to one another.  Edits look at one resource, Reverts and
imports replace a Section or all of them, `Validate` judges the whole Candidate, and
`DeliverSection` delivers in the order of the registry, forward and back.  The Candidate is frozen while an
Apply is in flight; what gets past the freeze is the business of `ApplyPipeline`, and changes nothing
here, because an Apply delivers what it captured.

A commit may fail before or after it made the Snapshot (`CommitFails`), and the one restore may raise,
which is an incident (`RestoreFails`), or be cut short by a restart, which is not (`RestoreStops`).
Either leaves the Cluster or the Candidate's base somewhere else than the next difference of catalogs
is taken from.  `unsettled` is the history variable that says so; from then on a delivery may leave any
catalogs (what exactly, `CatalogApply` says), and the half of `ClusterHoldsWhatItNames` that is about
catalogs is claimed no more.  The listener's half is claimed always.

### History

A request is split after its load, after the replacement of the document, and between the stamp of
its events and their arrival.  `unsaid` is a history variable: additions less removals that no event
tells, because a Reset or an import is one act whatever it changed, or because the store refused
the events.  `reader` holds the pages seen so far and the events that were there at the first.

## 3. Runs

| Run | Instance | Shows |
|---|---|---|
| `serial` | one caller, two Applies, two configurations, one crash, a store that may raise | `TypeOK`, `OneInFlight`, `DivergenceIsRecorded`, `TerminalStays` |
| `concurrent` | two callers who edit, import as Admin and apply, two Applies, one configuration, one crash | `CommittedNeverRolledBack`, `CommitsAreOwn`, `CandidateFrozen` when two Applies are in flight at once |
| `live` | one caller, two Applies, two crashes, fair | `EveryApplyEnds` |
| `files` | two Applies of either kind, two saves, one crash, three raw contents | `TypeOK`, `LoadedUnlessDoubted`, `PodsCanStart`, `ValidatedIsDelivered` |
| `adoption` | one name, two versions, two Snapshots to a database | `AdoptionTakesNothing`, `AdoptionConfirms`, `HistoryConfirmed` |
| `catalogs` | three names, one unmanaged, two versions | `TypeOK`, `KnownMeansBoth`, `ForeignStays`, `RollbackCanFinish`, `Refines` |
| `auth` | two users, two requests at once, one session, one token, two login attempts, one change by hand, every mode | `AuthTypeOK`, `AuthorityIsHeld`, `OneSessionPerLogin`, `TokenTrail`, `HandStands` |
| `validation` | two validations, one stop, fair | `ValidationTypeOK`, `PassedMeansProved`, `ProbesAccounted`, `EveryValidationEnds` |
| `sections` | see below | `OnlyGranted`, `ApchiKeepsAccess`, `ReadBackMeansTheSame`, `EditTouchesOnlyItsPlace`; `CheckedStarts`, `PredictionIsRight`, `RulesSayWhatIsStaged`; `MappingHolds`; `ClusterHoldsWhatItNames`; `TrailAddsUp`, `PagesMissNothing` |

Bounds: `Applies` bounds how many Applies are ever created, `MaxCrashes` how often the process
stops.  Two Applies are what it takes for one to see what another left behind (a stale base, a
suspect Cluster, a duplicate Snapshot number); one crash can fall at every step of either; two
crashes reach a recovery interrupted by a restart.  Two configurations tell the empty baseline
from a change.  Two managed names and two versions give every mixture of create, replace and drop.
In `files`, two saves and two Applies fill a file and then change or empty it, with an Apply of the
other kind, a failure or the crash in between; the third raw content tells a changed file from a
mount that came or went.

In `adoption`, one name: the document, the Secret and the plan treat names alike, and what names do
to each other within an Apply is what `catalogs` checks; two versions tell an amendment from what
was read; two Snapshots and a lost database number a second history below the first.

In `auth`, two requests are what a race takes: two revocations of one token, two callbacks of one
attempt, a sign-in and a request with its session.  Two attempts let a callback of one come back
in the tab of the other.  One session suffices: a second one of the same attempt is on its way, as
a request that carries the attempt, before it is a row, and `OneSessionPerLogin` counts both.  One
change by hand can fall between any two reads.  In `validation` two tasks and one stop reach every cleanup that the stop or the sweep of the
other cuts short.

In `sections` one module moves at a time, chosen at the start (`focus`).  *Permissions*: two grants
of two identities on two catalogs, two tables and two privileges, over files of up to two rules
written by hand: a rule above, a rule beneath, and one in their place.  *Resource groups*: three
paths, two beneath the third and one of those a template, and two selectors.  *Certificate mapping*: Apchi's name and another,
lists of three rules by hand, which is Apchi's two and one more, in any order.  *References*: one
Catalog, one certificate, two listeners, two Snapshots, so that a Revert goes behind the latest.
*History*: two resources, two callers, three events, two instants, pages of one; one content,
because what is counted is what was added and removed.  Two requests that overlap undo each other's
change of the other resource; three events with a shared instant put a tie on a page's boundary.
The reader's half has refusals only: to a reader all events are alike.
Callers are interchangeable, which is the only symmetry of this run.

The documented operating assumption is that "one Operator interacts with the API at a time"
(`apchi_implementation.md`, section on concurrency); `serial` and `live` have one caller, and
`concurrent` says what is left when that fails, and has the Admin's import, which no in-flight check
stops even with one caller.  `adoption` has requests that do not overlap, and
any number of them while an Apply runs.

**Fairness** (`live`).  `WF(Task(a))`: every await of a task returns, because the calls it
makes have timeouts (queries, the rollout deadline, the probe deadline).  `WF(Startup)`: the
Deployment restarts a stopped process, and recovery is a straight loop.  No fairness is assumed of
callers.  The store answers in this run: a store that raises in a failure handler does leave an
Apply in flight until the next restart (`TaskDies`), which is the code's documented choice.

In `validation`, `WF(Task(v))`: every call a task makes returns or raises, and the wait for the probe
has its deadline.  No fairness is assumed of the start of the process: a validation whose process
stopped is in `lost`.

### Where the code and its documentation disagree

Three runs check a statement of the documentation and find it violated by what the code does.

| Run | Statement | Counterexample |
|---|---|---|
| `interrupted` | FAILED: "the Cluster is back on its latest Snapshot" (`applies.py:53`) | a restart during Auto Rollback: `rolling_back` is failed and not restored |
| `adoption_rollback` | "it undoes exactly what this Apply did" (`engine.py:208`) | the rollback of a failed adoption drops every adopted catalog and empties the Secret |
| `grant_revokes` | "Staging a grant records intent; it does not revoke anyone's access" (`tests/tier1/test_permissions.py:215`) | a grant of one privilege stands above the rule that allows all of them, and the first match wins |

The models show more of the kind, which no run is kept for:

* two starts that pass the in-flight check before either inserts both start an Apply
  (`docs/concepts.md:39`, "One at a time"); `concurrent` is about what is left then;
* the Admin's import asks about Maintenance Mode and not about an Apply in flight
  (`apchi_implementation.md:98`, "The Candidate is frozen during Apply. Mutations are rejected with `409`
  for the whole of an Apply"); `CandidateFrozen` names it beside the requests let through before;
* an Apply whose success MongoDB took and did not answer for is recorded as a failure after it was over
  (`applies.py:60-63`, "nothing further will happen to it", says it of an incident, and of all three
  "is over"); `TerminalStays` names it;
* an Apply retried after its commit failed repeats a DROP of a catalog that is gone
  (`catalogs/apply.py:118`, "The retry should finish the job, not collide with itself");
* the rollback of an Admin Apply delivers the raw files after its restart decision, and the pod keeps
  the failed ones (`engine.py:292`); `doubt` in `FileDelivery` is where it shows;
* a Candidate that no Section needs a probe for passes with raw files that a coordinator may not start
  with (`docs/concepts.md:211`), and any Candidate without a grant passes with preserved rules that were
  never put in front of one (`sections/permissions/section.py:328`, "the file is then entirely generated
  and constant", where `render_files` puts the preserved rules in); `PassedMeansProved` says of a pass
  what was put there and no more;
* a Validation reports on the Candidate its task reads, which an edit made since the record was created
  is part of (`validations.py:145-147`, "The Candidate it reports on is the one that existed when it
  started"); `StartValidation` and `Capture` are two steps;
* a selector whose group is a template rolls back a good Apply: `sections/resource_groups/section.py:417`
  compares `global.${USER}` with the group Trino made of it (`selectors.py:5-8` says what a wrong
  prediction does); `PredictionIsRight` excepts a predicted group with a template in it;
* the last account deleted by hand, when it is the Initial Admin's, is created again at the next start
  (`docs/concepts.md:250-252`, "the setting can never resurrect a deleted account");
* a restart during a rollback leaves catalogs live whose certificates are not mounted, with no incident
  (`interrupted` shows its cause); `ClusterHoldsWhatItNames` excepts it by `unsettled`;
* before the first Snapshot, the rollback of a failed Apply restores nothing and empties the listener
  file an Admin had put there; `ClusterHoldsWhatItNames` begins with the first Snapshot.

`DivergenceIsRecorded` is what remains true where `FailedMeansBack` does not: whenever the Cluster
may not run the latest Snapshot, some record says so.

## 4. Theorems

Proved by TLAPS for every value of the constants, from the assumptions the modules state about them:

| Module | Theorem | Property |
|---|---|---|
| `ApplyPipeline_proofs` | `TypeCorrect` | `TypeOK` |
| | `CommittedStays` | `CommittedNeverRolledBack` |
| | `CommitsOwned` | `CommitsAreOwn` |
| | `OverStaysOver` | `TerminalStays` |
| | `OneAtATime` | `OneInFlight`, with one caller at a time (`OneCaller`) |
| | `FrozenFromItsStart` | `CandidateFrozen` |
| | `DivergencesRecorded` | `DivergenceIsRecorded`, with one caller who does not send the Admin's import |
| `CatalogApply_proofs` | `CatalogTypes`, `CatalogForeign`, `CatalogKnown`, `CatalogRollback` | `TypeOK`, `ForeignStays`, `KnownMeansBoth`, `RollbackCanFinish` |
| | `CatalogRefines` | `Refines` |
| | `NothingIsTaken`, `AdoptionIsConfirmation`, `HistoriesConfirmed` | `AdoptionTakesNothing`, `AdoptionConfirms`, `HistoryConfirmed` |
| `FileDelivery_proofs` | `FileTypes`, `FrozenValues`, `LostPodsReturn`, `SkippedRestartsAreSafe` | `TypeOK`, `ValidatedIsDelivered`, `PodsCanStart`, `LoadedUnlessDoubted` |
| `Auth_proofs` | `AuthTypes`, `Authority`, `Trail`, `OneSession`, `HandsWork` | `AuthTypeOK`, `AuthorityIsHeld`, `TokenTrail`, `OneSessionPerLogin`, `HandStands` |
| `Validation_proofs` | `ValidationTypes`, `PassesAreProved`, `NoProbeIsForgotten` | `ValidationTypeOK`, `PassedMeansProved`, `ProbesAccounted` |
| `Sections_proofs` | `NamesAreHeld` | `ClusterHoldsWhatItNames` |
| | `StagedIsRendered`, `ChecksAreEnough`, `PredictionHolds` | `RulesSayWhatIsStaged`, `CheckedStarts`, `PredictionIsRight` |
| | `MappingStands` | `MappingHolds` |
| | `TrailTells`, `PagesTell` | `TrailAddsUp`, `PagesMissNothing` |
| `Permissions_proofs` | `OnlyGrantedAlways`, `ApchiKeepsAccessAlways`, `ReadBackAlways` | `OnlyGranted`, `ApchiKeepsAccess`, `ReadBackMeansTheSame` |
| | `EditTouchesOnlyItsPlaceAlways` | `EditTouchesOnlyItsPlace` |

`Sections_proofs` and `Permissions_proofs` are about each module's own specification
(`ReferencesSpec`, `GroupsSpec`, `MappingSpec`, `HistorySpec`, `PermissionsSpec`); the run `sections` puts the same steps beside those of the others.

**Hypotheses.**  Two theorems have some, because without them they are false: two overlapping
starts refute `OneInFlight`, and an Admin's import during an Apply refutes, with one caller, no crash
and no failure of the store, `DivergenceIsRecorded` (TLC finds both).  One caller at a time is the
documented way to use the API; that nobody imports as Admin meanwhile is not, and a deployment that does
has no such guarantee.

**Assumptions.**  What the proofs assume of constants is that a value that stands for nothing is
none of the things it stands in for (`NoneAssumption`, `NothingAssumption`, `PlacesAssumption`,
`ClusterAssumption`, `FilesAssumption`), that bounds are natural numbers, that a path is a sequence
of names that is not empty, that sessions are not tokens, that there is a password, and that Apchi's
own name is among the principals; that names in `Permissions` are numbers other than the star's and
the files written by hand are lists of rules; and that the resources and the callers in `History` can
be counted.  TLC evaluates each on the runs.

**Arguments.**  An invariant that a run checks is seldom inductive.  What was added, and checked by
TLC first where the strengthening says something about interleavings, is this.

* *Commit.*  `CommitInv`: a Snapshot's Apply is identified by where its task stands.  A task about
  to insert has entered Commit and has no rollback in its history (`Clean`), a Snapshot whose record
  does not name it yet belongs to a task between its insert and `RecordSnapshot` or to a record that
  failed there (`Owned`), and the number a task carries is the place of its own Snapshot
  (`Numbered`, `Named`, `OneEach`).  Without these a step could record another Apply's number.
* *Terminal stages.*  `DrivenInv`: a task past `off` drives a record that is in flight, is a recovery
  of one that is failed, or is on its way to fail a success it never heard of (`Late`).
* *The freeze.*  A request knows the Applies there were when it passed the in-flight check, none of them
  in flight; one that is in flight at its write was created since.
* *One at a time.*  `SerialInv` adds `Gated`: a caller past the in-flight check, while it is the only
  caller, implies that nothing is in flight; `Frozen` can then not change between check and write.
* *Divergence.*  `DivergenceInv`: for each Apply a `Story`.  Its record tells what of its stages was
  reached, its task tells the same, and, as long as no other record is suspect (`Clear`), each
  of the two says where the Cluster is: by the record alone, which is what a recovery relies on
  (`RecordPlaces`), and step by step (`TaskPlaces`).  That the places are told only under `Clear` is
  what makes it inductive: after a divergence that is recorded, an Apply may start from anywhere.
  `Quiet` is the case in which nothing is unfinished.
* *Catalogs.*  `CatalogInv`: what a plan names, what has been done of it, and what a stopped delivery
  can have left (`PartialIsNamed`: the old version, the new one, or nothing).  From the last, a
  diff of the latest Snapshot against what is live and the Secret finds every difference, and
  `RestIsDone` then gives the end of a rollback.  `CatalogRefines` maps every action of the engine to
  a step of `ClusterContract` or a stutter.
* *Files.*  `FileInv`: what has been written so far is what was validated; if no restart was decided
  on, nothing was there to write, but for what is in doubt (`NothingToLoad`); and the pod holds what it
  would read except while an Apply that will restart it writes (`LoadedSoFar`).
* *Adoption.*  `AdoptionInv`: an adoption wants all that was served and its Apply delivers what it
  wants (`AdoptionStands`); one that confirms has no statement to issue at any step (`NothingToDo`).
* *Authentication.*  `CoreInv`: what a handler knows of the rows between two awaits stays true,
  because rows change their status but not their owner.  On top of it, `SeenSoFar` (a request being
  resolved has been seen with all its credential stands for now), `EventsTrue` (an event is on its way
  or in the audit, once) and `LoginsSpent` (whoever carries an attempt has taken it from everyone else).
* *Validation.*  `ValidationInv`: what a task knows at each await (`TaskOK`), and that the sweep is in
  order.
* *References.*  `ReferencesInv`: every Snapshot passed the checks, so does what is on its way, and the
  Cluster holds it as far as it got; of catalogs, while nothing was left unfinished.
* *Resource Groups.*  `GroupsInv`: edits keep the staged groups a tree, because a group is added under
  its parent and deleted only without subgroups.  The rest is about the first selector that matches.
* *Certificate Mapping.*  `MappingInv`: while there is an adopted list, it is the staged pattern with
  or without Apchi's own rules around it.

* *History.*  `HistoryInv`: an identifier is given once, to an event or to an entry on its way
  (`IdentifiersAreOwn`), so that recording moves as many entries as it adds events and no event is
  lost among others; only a request that has written has something to say (`EntriesAreDue`).  With
  these a save adds to the entries on their way exactly what it adds to the Candidate.  For the pages:
  what a reader was shown and is owed is in the collection (`ReaderReads`), and a page is the newest of
  what comes after the last row, by what sorting a finite set with a total order yields.
* *Permissions.*  `PermissionsInv`: what is preserved is never a rule that would be read as a grant or
  taken for Apchi's own (`KeptIsOther`), because the parser has sorted every file written by hand.
  Then the file is a concatenation, and of a concatenation the second list is asked only if the first has no
  answer (`Asks`, `Concatenated`): so the access somebody has is Apchi's own rule, the first grant
  that is for them at that place (`FirstGrant`), or what the preserved rules decide (`TableAccessIs`,
  `QueryAccessIs`).  An edit elsewhere leaves the first grant the same (`SameFirst`), though it moves
  every line beneath it.  Reading the file back gives the same grants but for one that repeats
  Apchi's own rule; a preserved rule it drops is one that a rule above had made moot
  (`TablesReadBack`, `QueriesReadBack`).

What the library's induction theorems would give about the first element of a list comes instead
from the least-number principle, which follows from the order of the numbers being well-founded
(`Least` in `Lists_proofs`).  That a finite set has a sorted list comes from counting: different elements
have different numbers of others before them, and there are as many places as elements
(`RankedAll`); no induction on the set is needed.

## 5. Only model-checked

* `EveryApplyEnds` and `EveryValidationEnds`: liveness under fairness is out of the prover's reach.
* The three violations, which are counterexamples.
* What the constants of a run bound (numbers of events, grants or selectors) is bounded in the
  theorems by the same constants, with any value.

Every other property that a passing run checks is a theorem of section 4.

## 6. Not modelled, and what could follow

Models that could follow: the preconditions one by one (`preconditions.py`, 557 lines that ask
Kubernetes and Trino and change nothing), the Review and its cost (`impact.py`), `Adoption` with two
callers, the retention of the audit, and the events an Apply and an Admin's save record.

Known and in no property: an event is stamped after the write it tells of, so two overlapping saves
may be listed in the other order; the Admin document is read, changed and written back whole, as the
discovery document is.

Left out for good: rendering and parsing of files whose wording no property is about, logging,
metrics, HTTP errors, packaging (`charts/`, `deploy/`, `scripts/`).
