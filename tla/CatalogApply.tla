---------------------------- MODULE CatalogApply ----------------------------
(***************************************************************************)
(* The catalog engine: the one Section delivered by SQL statements and not *)
(* by writing a file.  An Apply writes the catalog Secret and then issues  *)
(* CREATE and DROP CATALOG one at a time; it can stop between any two of   *)
(* them.  A rollback diffs the latest Snapshot against what is live and    *)
(* against the Secret, and issues the difference.                          *)
(*                                                                         *)
(* One Apply at a time.  The Cluster also has catalogs nobody brought      *)
(* under management.  place is a history variable: where the pipeline may  *)
(* assume the Cluster to be; the module implements ClusterContract.        *)
(***************************************************************************)
EXTENDS Naturals, FiniteSets

CONSTANTS
    Names,          \* catalog names
    Versions,       \* what a catalog's connector and properties may be
    Absent,         \* no such catalog
    Foreign,        \* the content of a catalog Apchi never put there
    Unmanaged,      \* the names of those
    Partial, Unwinding, Diverged

ASSUME CatalogAssumption ==
    /\ Unmanaged \subseteq Names
    /\ Absent \notin Versions /\ Foreign \notin Versions /\ Absent # Foreign

VARIABLES
    live,       \* what the coordinator serves, by name
    secret,     \* the catalog Secret, by name
    latest,     \* the catalogs of the latest Snapshot
    base,       \* the catalogs of the Snapshot the Candidate derives from
    phase,      \* how far the Apply in progress has got
    target,     \* what is being delivered or restored
    baseline,   \* what the delivery was planned against
    plan,       \* the statements left to issue
    place       \* history: where the pipeline may assume the Cluster to be

vars == <<live, secret, latest, base, phase, target, baseline, plan, place>>

-----------------------------------------------------------------------------
(* Plans. *)

Catalogs == [Names -> Versions \cup {Absent}]
NoCatalogs == [n \in Names |-> Absent]

ASSUME PlacesAssumption ==
    /\ Partial \notin Catalogs /\ Unwinding \notin Catalogs /\ Diverged \notin Catalogs
    /\ Partial # Unwinding /\ Partial # Diverged /\ Unwinding # Diverged

In(catalogs) == {n \in Names : catalogs[n] # Absent}

\* CatalogPlan: no name in two lists.  half holds the catalog a replace has
\* dropped and not yet created.
Plans ==
    {p \in [created: SUBSET Names, replaced: SUBSET Names, dropped: SUBSET Names,
            half: SUBSET Names] :
        /\ p.created \cap p.replaced = {}
        /\ (p.created \cup p.replaced) \cap p.dropped = {}
        /\ p.half \subseteq p.replaced}
EmptyPlan == [created |-> {}, replaced |-> {}, dropped |-> {}, half |-> {}]

\* Mutated: a catalog to create counts as a changed one too.
PlanOverlapping(desired, current) ==
    [EmptyPlan EXCEPT
        !.created = In(desired) \ In(current),
        !.replaced = {n \in In(desired) : desired[n] # current[n]},
        !.dropped = In(current) \ In(desired)]

\* Mutated: an unchanged catalog is replaced too.
PlanReplacesAll(desired, current) ==
    [EmptyPlan EXCEPT
        !.created = In(desired) \ In(current),
        !.replaced = In(desired) \cap In(current),
        !.dropped = In(current) \ In(desired)]

\* plan: measured against the Snapshot the Candidate derives from.
Plan(desired, current) ==
    [EmptyPlan EXCEPT
        !.created = In(desired) \ In(current),
        !.replaced = {n \in In(desired) \cap In(current) : desired[n] # current[n]},
        !.dropped = In(current) \ In(desired)]

\* Mutated: every catalog of the Snapshot is created again.
RollbackPlanAll(snapshot) ==
    [EmptyPlan EXCEPT
        !.created = In(snapshot),
        !.dropped = {n \in In(live) \ In(snapshot) : secret[n] # Absent}]

\* Mutated: the Secret is not asked whether Apchi manages the catalog.
RollbackPlanAnyone(snapshot) ==
    [EmptyPlan EXCEPT
        !.created = In(snapshot) \ In(live),
        !.replaced = {n \in In(snapshot) \cap In(live) : secret[n] # snapshot[n]},
        !.dropped = In(live) \ In(snapshot)]

\* rollback_plan: a changed catalog shows only as two different renderings, and
\* one Apchi does not hold in its Secret is not Apchi's to drop.
RollbackPlan(snapshot) ==
    [EmptyPlan EXCEPT
        !.created = In(snapshot) \ In(live),
        !.replaced = {n \in In(snapshot) \cap In(live) : secret[n] # snapshot[n]},
        !.dropped = {n \in In(live) \ In(snapshot) : secret[n] # Absent}]

\* settled: less what is live and recorded exactly as asked.
Settled(p, desired) ==
    [p EXCEPT !.created = {n \in @ : ~(n \in In(live) /\ secret[n] = desired[n])}]

\* collision_failures.
Collisions(p) == p.created \cap In(live)

TypeOK ==
    /\ live \in [Names -> Versions \cup {Absent, Foreign}]
    /\ {secret, latest, base, target, baseline} \subseteq Catalogs
    /\ phase \in {"idle", "validated", "delivering", "delivered", "verified",
                  "restore", "restoring"}
    /\ plan \in Plans
    /\ place \in Catalogs \cup {Partial, Unwinding, Diverged}

Contract == INSTANCE ClusterContract WITH
    Configs <- Catalogs,
    phase <- IF phase = "verified" THEN "delivered" ELSE phase

\* The coordinator serves, and the Secret records, exactly these catalogs.
Runs(catalogs) ==
    /\ secret = catalogs
    /\ \A n \in Names : live[n] = catalogs[n] \/ (live[n] = Foreign /\ catalogs[n] = Absent)

Where(catalogs) == IF Runs(catalogs) THEN catalogs ELSE Diverged

-----------------------------------------------------------------------------

\* Before the first Snapshot; an Adoption may have seeded the Secret, and the
\* cutover loaded it.
Init ==
    /\ \E seed \in Catalogs :
        /\ In(seed) \cap Unmanaged = {}
        /\ secret = seed
        /\ place = seed
        /\ live = [n \in Names |-> IF n \in Unmanaged THEN Foreign ELSE seed[n]]
    /\ latest = NoCatalogs
    /\ base = NoCatalogs
    /\ phase = "idle"
    /\ target = NoCatalogs
    /\ baseline = NoCatalogs
    /\ plan = EmptyPlan

\* Engine.validate: the plan, and the Section's check against the Cluster.
Validate(desired, current) ==
    /\ phase = "idle"
    /\ Collisions(Settled(Plan(desired, current), desired)) = {}
    /\ phase' = "validated"
    /\ target' = desired
    /\ baseline' = current
    /\ plan' = Plan(desired, current)
    /\ UNCHANGED <<live, secret, latest, base, place>>

\* Mutated: the Secret is left for later.
ApplyDDLFirst ==
    /\ phase = "validated"
    /\ phase' = "delivering"
    /\ plan' = Settled(plan, target)
    /\ place' = Contract!DeliveryStarted(place, latest, baseline, target)
    /\ UNCHANGED <<live, secret, latest, base, target, baseline>>

\* CatalogsSection.apply: read, settle the plan, write the Secret.
Apply ==
    /\ phase = "validated"
    /\ phase' = "delivering"
    /\ plan' = Settled(plan, target)
    /\ secret' = target
    /\ place' = Contract!DeliveryStarted(place, latest, baseline, target)
    /\ UNCHANGED <<live, latest, base, target, baseline>>

\* execute, one statement at a time: creates, then replaces, then drops.  CREATE
\* fails on a catalog that exists, DROP on one that does not.
Statement(n, before, after) ==
    /\ phase \in {"delivering", "restoring"}
    /\ (live[n] = Absent) = before
    /\ live' = [live EXCEPT ![n] = after]
    /\ UNCHANGED <<secret, latest, base, phase, target, baseline, place>>

CreateCatalog(n) ==
    /\ n \in plan.created
    /\ Statement(n, TRUE, target[n])
    /\ plan' = [plan EXCEPT !.created = @ \ {n}]

ReplaceDrop(n) ==
    /\ plan.created = {} /\ plan.half = {}
    /\ n \in plan.replaced
    /\ Statement(n, FALSE, Absent)
    /\ plan' = [plan EXCEPT !.half = {n}]

ReplaceCreate(n) ==
    /\ n \in plan.half
    /\ Statement(n, TRUE, target[n])
    /\ plan' = [plan EXCEPT !.replaced = @ \ {n}, !.half = {}]

DropCatalog(n) ==
    /\ plan.created = {} /\ plan.replaced = {}
    /\ n \in plan.dropped
    /\ Statement(n, FALSE, Absent)
    /\ plan' = [plan EXCEPT !.dropped = @ \ {n}]

Delivered ==
    /\ phase = "delivering"
    /\ plan = EmptyPlan
    /\ phase' = "delivered"
    /\ place' = Where(target)
    /\ UNCHANGED <<live, secret, latest, base, target, baseline, plan>>

\* CatalogsSection.verify: nothing is missing.
Verified == In(target) \subseteq In(live)

Verify ==
    /\ phase = "delivered"
    /\ Verified
    /\ phase' = "verified"
    /\ UNCHANGED <<live, secret, latest, base, target, baseline, plan, place>>

\* Engine.commit: the Snapshot, then the Candidate; the second write can fail.
Commit(reset) ==
    /\ phase = "verified"
    /\ phase' = "idle"
    /\ latest' = target
    /\ base' = IF reset THEN target ELSE base
    /\ UNCHANGED <<live, secret, target, baseline, plan, place>>

\* A commit that failed or was interrupted is not rolled back.
CommitFails ==
    /\ phase = "verified"
    /\ phase' = "idle"
    /\ UNCHANGED <<live, secret, latest, base, target, baseline, plan, place>>

\* A statement raised, with or without having had its effect, a later stage
\* failed, or the process stopped: the Apply is rolled back, by its own task or
\* by recovery.
Fails ==
    /\ phase \in {"validated", "delivering", "delivered"}
    /\ phase' = "restore"
    /\ plan' = EmptyPlan
    /\ UNCHANGED <<live, secret, latest, base, target, baseline, place>>

\* CatalogsSection.restore: the diff is read, then the Secret is rewritten.
Restore ==
    /\ phase = "restore"
    /\ phase' = "restoring"
    /\ target' = latest
    /\ plan' = RollbackPlan(latest)
    /\ secret' = latest
    /\ place' = Contract!RestoreStarted(place, latest)
    /\ UNCHANGED <<live, latest, base, baseline>>

Restored ==
    /\ phase = "restoring"
    /\ plan = EmptyPlan
    /\ Verified
    /\ phase' = "idle"
    /\ place' = Where(latest)
    /\ UNCHANGED <<live, secret, latest, base, target, baseline, plan>>

\* The single attempt failed (an incident), or the process stopped and the
\* record, failed or rolling_back, is not restored again.
RestoreStops ==
    /\ phase \in {"restore", "restoring"}
    /\ phase' = "idle"
    /\ plan' = EmptyPlan
    /\ UNCHANGED <<live, secret, latest, base, target, baseline, place>>

Next ==
    \/ \E desired \in Catalogs : Validate(desired, base)
    \/ Validate(latest, latest)
    \/ Apply \/ Delivered \/ Verify
    \/ \E n \in Names : CreateCatalog(n) \/ ReplaceDrop(n) \/ ReplaceCreate(n) \/ DropCatalog(n)
    \/ \E reset \in BOOLEAN : Commit(reset)
    \/ CommitFails \/ Fails \/ Restore \/ Restored \/ RestoreStops

Spec == Init /\ [][Next]_vars

-----------------------------------------------------------------------------
(* Properties. *)

\* The catalog engine does what the pipeline assumes of it: a delivery begun on
\* the latest Snapshot ends exactly on what it delivered, and a rollback of one
\* that stopped anywhere ends exactly on the latest Snapshot, so only a rollback
\* that itself stopped short can leave a difference no plan names.
Refines == Contract!ContractSpec

\* Where the pipeline assumes a configuration, the coordinator serves it and the
\* Secret records it, so a restart of the coordinator's pod changes nothing.
KnownMeansBoth ==
    place \in Catalogs => Runs(place)

\* A catalog Apchi never put there is never dropped, replaced or recorded,
\* whatever an Apply or a rollback does around it (rollback_plan: "Neither appears
\* in the Secret, so neither is ever dropped").
ForeignStays ==
    \A n \in Unmanaged : live[n] = Foreign /\ secret[n] = Absent

\* Every statement a rollback still has to issue can succeed: it creates what is
\* not there and drops what is, however far the Apply got.
RollbackCanFinish ==
    phase = "restoring" =>
        /\ \A n \in plan.created \cup plan.half : live[n] = Absent
        /\ \A n \in (plan.replaced \ plan.half) \cup plan.dropped : live[n] # Absent
=============================================================================
