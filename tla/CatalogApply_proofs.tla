------------------------ MODULE CatalogApply_proofs ------------------------
(***************************************************************************)
(* Proofs about CatalogApply and Adoption, for any set of names and        *)
(* versions and any number of Snapshots.  The catalog engine, stopped at   *)
(* any statement, does to the Cluster what ClusterContract says, and       *)
(* touches nothing that is not Apchi's; an adoption loses nothing that was *)
(* served, changes nothing on a Cluster that runs what it was seeded with, *)
(* and numbers no history over another.                                    *)
(***************************************************************************)
EXTENDS Adoption, TLAPS

-----------------------------------------------------------------------------
(* The inductive invariant. *)

\* Apchi has no place for the unmanaged names, and a content that is not
\* Apchi's is found under no other name.
Untouched ==
    /\ \A n \in Unmanaged : latest[n] = Absent /\ base[n] = Absent
                         /\ target[n] = Absent /\ baseline[n] = Absent
    /\ \A n \in Names : live[n] = Foreign => n \in Unmanaged

\* What a plan may name: creates and replaces what is asked for, drops what is
\* not, and nothing of an unmanaged name; one replace at a time is half done.
PlanShape ==
    /\ phase = "validated" => plan = Plan(target, baseline)
    /\ phase \in {"delivering", "restoring"} =>
          /\ plan.created \cup plan.replaced \subseteq In(target)
          /\ plan.dropped \cap In(target) = {}
          /\ (plan.created \cup plan.replaced \cup plan.dropped) \cap Unmanaged = {}
          /\ secret = target
          /\ \A m, n \in plan.half : m = n
    /\ phase = "restoring" => target = latest

\* A delivery or a restore on a Cluster that runs a known configuration is one
\* to the latest Snapshot, already there, and has no statement left.
NothingLeft ==
    phase \in {"delivering", "restoring"} /\ place \in Catalogs =>
        plan = EmptyPlan /\ place = target /\ place = latest

\* A delivery that began on the latest Snapshot left each catalog as it was,
\* as it was asked for, or dropped, and the Secret says what was asked for.
PartialIsNamed ==
    place = Partial =>
        \A n \in Names : live[n] \in {latest[n], secret[n], Absent, Foreign}

\* Whatever the plan does not name any more is as it should be: in a delivery
\* from the latest Snapshot, and in a rollback from a complete diff.
RestIsDone ==
    (phase = "delivering" /\ place = Partial /\ baseline = latest)
    \/ (phase = "restoring" /\ place = Unwinding)
        => \A n \in Names \ (plan.created \cup plan.replaced \cup plan.dropped) :
               live[n] = target[n] \/ (live[n] = Foreign /\ target[n] = Absent)

\* Once delivered, the Cluster is at what was delivered, or nowhere known.
AfterDelivery ==
    phase \in {"delivered", "verified"} => place \in Catalogs \cup {Diverged}

CatalogInv ==
    /\ TypeOK /\ ForeignStays /\ Untouched /\ PlanShape
    /\ KnownMeansBoth /\ NothingLeft
    /\ PartialIsNamed /\ RestIsDone /\ AfterDelivery /\ RollbackCanFinish

-----------------------------------------------------------------------------
(* Plans. *)

\* The three ways to make a plan make a plan, and it names each catalog once.
LEMMA PlansArePlans ==
    /\ EmptyPlan \in Plans
    /\ \A d, c \in Catalogs : Plan(d, c) \in Plans
    /\ \A d : RollbackPlan(d) \in Plans
    /\ \A p \in Plans : \A d : Settled(p, d) \in Plans
<1>1. EmptyPlan \in Plans
  BY DEF EmptyPlan, Plans
<1>2. ASSUME NEW d \in Catalogs, NEW c \in Catalogs
      PROVE  Plan(d, c) \in Plans
  BY DEF Plan, EmptyPlan, Plans, In
<1>3. ASSUME NEW d
      PROVE  RollbackPlan(d) \in Plans
  BY DEF RollbackPlan, EmptyPlan, Plans, In
<1>4. ASSUME NEW p \in Plans, NEW d
      PROVE  Settled(p, d) \in Plans
  BY DEF Settled, Plans
<1>5. QED BY <1>1, <1>2, <1>3, <1>4

\* What a Section plan names.
LEMMA PlanFields ==
    ASSUME NEW d \in Catalogs, NEW c \in Catalogs
    PROVE  /\ Plan(d, c).created = In(d) \ In(c)
           /\ Plan(d, c).replaced = {n \in In(d) \cap In(c) : d[n] # c[n]}
           /\ Plan(d, c).dropped = In(c) \ In(d)
           /\ Plan(d, c).half = {}
BY DEF Plan, EmptyPlan

\* What a rollback plan names.
LEMMA RollbackFields ==
    ASSUME NEW d
    PROVE  /\ RollbackPlan(d).created = In(d) \ In(live)
           /\ RollbackPlan(d).replaced = {n \in In(d) \cap In(live) : secret[n] # d[n]}
           /\ RollbackPlan(d).dropped = {n \in In(live) \ In(d) : secret[n] # Absent}
           /\ RollbackPlan(d).half = {}
BY DEF RollbackPlan, EmptyPlan

\* What settling a plan leaves of it: creates that are already true go.
LEMMA SettledFields ==
    ASSUME NEW p \in Plans, NEW d
    PROVE  /\ Settled(p, d).created = {n \in p.created : ~(n \in In(live) /\ secret[n] = d[n])}
           /\ Settled(p, d).replaced = p.replaced
           /\ Settled(p, d).dropped = p.dropped
           /\ Settled(p, d).half = p.half
BY DEF Settled, Plans

\* A plan that names nothing is the empty plan.
LEMMA NamesNothing ==
    ASSUME NEW p \in Plans,
           p.created = {}, p.replaced = {}, p.dropped = {}
    PROVE  p = EmptyPlan
BY DEF Plans, EmptyPlan

-----------------------------------------------------------------------------
(* Each action preserves the invariant. *)

\* A Cluster seeded with its Catalogs satisfies the invariant.
LEMMA InitInv == Init => CatalogInv
<1> SUFFICES ASSUME Init PROVE CatalogInv
  OBVIOUS
<1>1. PICK seed \in Catalogs :
        /\ In(seed) \cap Unmanaged = {}
        /\ secret = seed
        /\ place = seed
        /\ live = [n \in Names |-> IF n \in Unmanaged THEN Foreign ELSE seed[n]]
  BY DEF Init
<1>2. NoCatalogs \in Catalogs
  BY DEF NoCatalogs, Catalogs
<1>3. TypeOK
  BY <1>1, <1>2, PlansArePlans DEF Init, TypeOK, Catalogs
<1>4. ForeignStays /\ Untouched
  BY <1>1, CatalogAssumption DEF Init, ForeignStays, Untouched, In, NoCatalogs, Catalogs
<1>5. KnownMeansBoth
  BY <1>1, CatalogAssumption DEF KnownMeansBoth, Runs, In
<1>6. PlanShape /\ NothingLeft /\ PartialIsNamed /\ RestIsDone /\ AfterDelivery
      /\ RollbackCanFinish
  BY <1>1, PlacesAssumption DEF Init, PlanShape, NothingLeft, PartialIsNamed, RestIsDone,
     AfterDelivery, RollbackCanFinish
<1>7. QED BY <1>3, <1>4, <1>5, <1>6 DEF CatalogInv

\* What was validated leaves the unmanaged names alone: to create one of them
\* would collide with what is live.
LEMMA ValidateInv ==
    ASSUME CatalogInv, NEW d \in Catalogs, NEW c \in Catalogs,
           \A n \in Unmanaged : c[n] = Absent,
           Validate(d, c)
    PROVE  CatalogInv'
<1> USE DEF CatalogInv
<1>1. /\ TypeOK /\ ForeignStays /\ Plan(d, c) \in Plans
      /\ Collisions(Settled(Plan(d, c), d)) = {}
  BY PlansArePlans DEF Validate
<1>2. ASSUME NEW n \in Unmanaged PROVE d[n] = Absent
  <2>1. n \in Names /\ c[n] = Absent /\ live[n] # Absent /\ secret[n] = Absent
    BY <1>1, CatalogAssumption DEF ForeignStays
  <2>2. SUFFICES ASSUME d[n] # Absent PROVE FALSE
    OBVIOUS
  <2>3. n \in Plan(d, c).created
    BY <2>1, <2>2, PlanFields DEF In
  <2>4. n \in Settled(Plan(d, c), d).created
    BY <1>1, <2>1, <2>2, <2>3, SettledFields
  <2>5. QED BY <1>1, <2>1, <2>4 DEF Collisions, In
<1>3. TypeOK'
  BY <1>1 DEF Validate, TypeOK
<1>4. ForeignStays' /\ Untouched' /\ KnownMeansBoth' /\ PartialIsNamed'
  BY <1>2 DEF Validate, ForeignStays, Untouched, KnownMeansBoth, Runs, PartialIsNamed
<1>5. PlanShape' /\ NothingLeft' /\ RestIsDone' /\ AfterDelivery' /\ RollbackCanFinish'
  BY DEF Validate, PlanShape, NothingLeft, RestIsDone, AfterDelivery, RollbackCanFinish
<1>6. QED BY <1>3, <1>4, <1>5

\* The start of a delivery: the Secret is written, and the settled plan covers
\* every difference there is if the Cluster ran the Snapshot planned against.
LEMMA ApplyInv ==
    ASSUME CatalogInv, Apply
    PROVE  CatalogInv'
<1> USE DEF CatalogInv
<1>1. /\ target \in Catalogs /\ baseline \in Catalogs /\ latest \in Catalogs
      /\ secret \in Catalogs /\ plan \in Plans
      /\ live \in [Names -> Versions \cup {Absent, Foreign}]
      /\ plan = Plan(target, baseline)
      /\ plan' = Settled(plan, target) /\ plan' \in Plans
      /\ secret' = target
  BY PlansArePlans DEF Apply, TypeOK, PlanShape
<1>2. /\ plan'.created = {n \in In(target) \ In(baseline) : ~(n \in In(live) /\ secret[n] = target[n])}
      /\ plan'.replaced = {n \in In(target) \cap In(baseline) : target[n] # baseline[n]}
      /\ plan'.dropped = In(baseline) \ In(target)
      /\ plan'.half = {}
  <2>1. /\ plan.created = In(target) \ In(baseline)
        /\ plan.replaced = {n \in In(target) \cap In(baseline) : target[n] # baseline[n]}
        /\ plan.dropped = In(baseline) \ In(target)
        /\ plan.half = {}
    BY <1>1, PlanFields
  <2>2. /\ plan'.created = {n \in plan.created : ~(n \in In(live) /\ secret[n] = target[n])}
        /\ plan'.replaced = plan.replaced
        /\ plan'.dropped = plan.dropped
        /\ plan'.half = plan.half
    BY <1>1, SettledFields
  <2>3. QED BY <2>1, <2>2
<1>3. \/ /\ place' = place /\ place = latest /\ target = latest /\ baseline = latest
      \/ place' = Partial /\ place = latest
      \/ place' = Diverged
  BY DEF Apply, Contract!DeliveryStarted
<1>4. place = latest => Runs(latest)
  BY <1>1 DEF KnownMeansBoth
<1>5. TypeOK'
  BY <1>1, <1>3 DEF Apply, TypeOK
<1>6. ForeignStays' /\ Untouched'
  BY DEF Apply, ForeignStays, Untouched
<1>7. PlanShape'
  BY <1>1, <1>2, CatalogAssumption DEF Apply, PlanShape, Untouched, In
<1>8. KnownMeansBoth'
  BY <1>1, <1>3, <1>4, PlacesAssumption DEF Apply, KnownMeansBoth, Runs
<1>9. NothingLeft'
  <2>1. SUFFICES ASSUME place' = latest, target = latest, baseline = latest
                 PROVE  plan' = EmptyPlan
    BY <1>1, <1>3, PlacesAssumption DEF Apply, NothingLeft
  <2>2. QED BY <1>1, <1>2, <2>1, NamesNothing
<1>10. PartialIsNamed'
  BY <1>1, <1>3, <1>4, PlacesAssumption DEF Apply, PartialIsNamed, Runs
<1>11. RestIsDone'
  <2>1. SUFFICES ASSUME place' = Partial, baseline = latest,
                        NEW n \in Names \ (plan'.created \cup plan'.replaced \cup plan'.dropped)
                 PROVE  live[n] = target[n] \/ (live[n] = Foreign /\ target[n] = Absent)
    BY DEF Apply, RestIsDone
  <2>2. Runs(latest)
    BY <1>1, <1>3, <1>4, <2>1, PlacesAssumption
  <2>3. secret[n] = latest[n] /\ (live[n] = latest[n] \/ (live[n] = Foreign /\ latest[n] = Absent))
    BY <2>1, <2>2 DEF Runs
  <2>4. QED BY <1>2, <2>1, <2>3 DEF In
<1>12. AfterDelivery' /\ RollbackCanFinish'
  BY DEF Apply, AfterDelivery, RollbackCanFinish
<1>13. QED BY <1>5, <1>6, <1>7, <1>8, <1>9, <1>10, <1>11, <1>12

\* One statement: what it does to the catalog it names, given that the plan names
\* it, and what becomes of the plan.
LEMMA StatementInv ==
    ASSUME CatalogInv, NEW n \in Names,
           CreateCatalog(n) \/ ReplaceDrop(n) \/ ReplaceCreate(n) \/ DropCatalog(n)
    PROVE  CatalogInv'
<1> USE DEF CatalogInv
<1>1. /\ phase \in {"delivering", "restoring"}
      /\ n \in plan.created \cup plan.replaced \cup plan.dropped
      /\ \E after \in {target[n], Absent} : live' = [live EXCEPT ![n] = after]
      /\ UNCHANGED <<secret, latest, base, phase, target, baseline, place>>
  BY DEF CreateCatalog, ReplaceDrop, ReplaceCreate, DropCatalog, Statement, TypeOK, Plans
<1>2. PICK after \in {target[n], Absent} : live' = [live EXCEPT ![n] = after]
  BY <1>1
<1>3. /\ target \in Catalogs /\ latest \in Catalogs /\ secret = target
      /\ live \in [Names -> Versions \cup {Absent, Foreign}]
      /\ target[n] \in Versions \cup {Absent} /\ target[n] # Foreign
      /\ plan \in Plans /\ n \notin Unmanaged
  BY <1>1, CatalogAssumption DEF TypeOK, PlanShape, Catalogs
<1>4. /\ \A m \in Names : m # n => live'[m] = live[m]
      /\ live'[n] = after
  BY <1>2, <1>3
<1>5. plan' \in Plans
  <2>1. CASE CreateCatalog(n)
    BY <1>3, <2>1 DEF CreateCatalog, Plans
  <2>2. CASE ReplaceDrop(n)
    BY <1>3, <2>2 DEF ReplaceDrop, Plans
  <2>3. CASE ReplaceCreate(n)
    BY <1>3, <2>3 DEF ReplaceCreate, Plans
  <2>4. CASE DropCatalog(n)
    BY <1>3, <2>4 DEF DropCatalog, Plans
  <2>5. QED BY <2>1, <2>2, <2>3, <2>4
<1>6. place \notin Catalogs
  BY <1>1 DEF NothingLeft, EmptyPlan
<1>7. TypeOK'
  BY <1>1, <1>2, <1>3, <1>5 DEF TypeOK
<1>8. ForeignStays' /\ Untouched'
  BY <1>1, <1>3, <1>4, CatalogAssumption DEF ForeignStays, Untouched
<1>9. KnownMeansBoth' /\ NothingLeft' /\ AfterDelivery'
  BY <1>1, <1>6 DEF KnownMeansBoth, NothingLeft, AfterDelivery
<1>10. PartialIsNamed'
  BY <1>1, <1>3, <1>4 DEF PartialIsNamed
<1>11. PlanShape' /\ RestIsDone' /\ RollbackCanFinish'
  <2>1. CASE CreateCatalog(n)
    <3>1. /\ plan'.created = plan.created \ {n} /\ plan'.replaced = plan.replaced
          /\ plan'.dropped = plan.dropped /\ plan'.half = plan.half
          /\ n \in plan.created /\ after = target[n] /\ target[n] # Absent
      BY <1>1, <1>2, <1>3, <1>4, <2>1 DEF CreateCatalog, Statement, Plans, PlanShape, In
    <3>2. PlanShape'
      BY <1>1, <3>1 DEF PlanShape
    <3>3. RestIsDone'
      BY <1>1, <1>4, <3>1 DEF RestIsDone
    <3>4. RollbackCanFinish'
      BY <1>1, <1>3, <1>4, <3>1 DEF RollbackCanFinish, Plans
    <3>5. QED BY <3>2, <3>3, <3>4
  <2>2. CASE ReplaceDrop(n)
    <3>1. /\ plan'.created = plan.created /\ plan'.replaced = plan.replaced
          /\ plan'.dropped = plan.dropped /\ plan'.half = {n}
          /\ n \in plan.replaced /\ live'[n] = Absent /\ plan.half = {}
      BY <1>1, <1>2, <1>3, <1>4, <2>2 DEF ReplaceDrop, Statement, Plans, PlanShape, In
    <3>2. PlanShape'
      BY <1>1, <3>1 DEF PlanShape
    <3>3. RestIsDone'
      BY <1>1, <1>4, <3>1 DEF RestIsDone
    <3>4. RollbackCanFinish'
      BY <1>1, <1>3, <1>4, <3>1 DEF RollbackCanFinish, Plans
    <3>5. QED BY <3>2, <3>3, <3>4
  <2>3. CASE ReplaceCreate(n)
    <3>1. /\ plan'.created = plan.created /\ plan'.replaced = plan.replaced \ {n}
          /\ plan'.dropped = plan.dropped /\ plan'.half = {}
          /\ n \in plan.replaced /\ n \in plan.half
          /\ live'[n] = target[n] /\ target[n] # Absent
          /\ \A m \in plan.half : m = n
      BY <1>1, <1>2, <1>3, <1>4, <2>3 DEF ReplaceCreate, Statement, Plans, PlanShape, In
    <3>2. PlanShape'
      BY <1>1, <3>1 DEF PlanShape
    <3>3. RestIsDone'
      BY <1>1, <1>4, <3>1 DEF RestIsDone
    <3>4. RollbackCanFinish'
      BY <1>1, <1>3, <1>4, <3>1 DEF RollbackCanFinish, Plans
    <3>5. QED BY <3>2, <3>3, <3>4
  <2>4. CASE DropCatalog(n)
    <3>1. /\ plan'.created = plan.created /\ plan'.replaced = plan.replaced
          /\ plan'.dropped = plan.dropped \ {n} /\ plan'.half = plan.half
          /\ n \in plan.dropped /\ live'[n] = Absent /\ target[n] = Absent
      BY <1>1, <1>2, <1>3, <1>4, <2>4 DEF DropCatalog, Statement, Plans, PlanShape, In
    <3>2. PlanShape'
      BY <1>1, <3>1 DEF PlanShape
    <3>3. RestIsDone'
      BY <1>1, <1>4, <3>1 DEF RestIsDone
    <3>4. RollbackCanFinish'
      BY <1>1, <1>3, <1>4, <3>1 DEF RollbackCanFinish, Plans
    <3>5. QED BY <3>2, <3>3, <3>4
  <2>5. QED BY <2>1, <2>2, <2>3, <2>4
<1>12. QED BY <1>7, <1>8, <1>9, <1>10, <1>11

\* A finished delivery is where it was meant to be, or nowhere known; a finished
\* restore likewise.
LEMMA EndInv ==
    ASSUME CatalogInv, Delivered \/ Restored
    PROVE  CatalogInv'
<1> USE DEF CatalogInv
<1>1. /\ target \in Catalogs /\ latest \in Catalogs
      /\ UNCHANGED <<live, secret, latest, base, target, baseline, plan>>
      /\ phase' \in {"delivered", "idle"}
  BY DEF Delivered, Restored, TypeOK
<1>2. \E c \in Catalogs : place' = Where(c)
  BY <1>1 DEF Delivered, Restored
<1>3. place' = Diverged \/ (place' \in Catalogs /\ Runs(place'))
  BY <1>2 DEF Where
<1>4. TypeOK' /\ ForeignStays' /\ Untouched'
  BY <1>1, <1>3 DEF TypeOK, ForeignStays, Untouched
<1>5. KnownMeansBoth' /\ PartialIsNamed'
  BY <1>1, <1>3, PlacesAssumption DEF KnownMeansBoth, Runs, PartialIsNamed
<1>6. PlanShape' /\ NothingLeft' /\ RestIsDone' /\ AfterDelivery' /\ RollbackCanFinish'
  BY <1>1, <1>3 DEF PlanShape, NothingLeft, RestIsDone, AfterDelivery, RollbackCanFinish
<1>7. QED BY <1>4, <1>5, <1>6

\* Verification changes nothing, and a commit only what the Snapshots say.
LEMMA CommitInv ==
    ASSUME CatalogInv, Verify \/ (\E reset \in BOOLEAN : Commit(reset)) \/ CommitFails
    PROVE  CatalogInv'
<1> USE DEF CatalogInv
<1>1. /\ UNCHANGED <<live, secret, target, baseline, plan, place>>
      /\ phase \in {"delivered", "verified"} /\ phase' \in {"verified", "idle"}
      /\ latest' \in {latest, target} /\ base' \in {base, target}
      /\ place \in Catalogs \cup {Diverged}
  BY DEF Verify, Commit, CommitFails, AfterDelivery
<1>2. TypeOK' /\ ForeignStays' /\ Untouched'
  BY <1>1 DEF TypeOK, ForeignStays, Untouched
<1>3. KnownMeansBoth' /\ PartialIsNamed'
  BY <1>1, PlacesAssumption DEF KnownMeansBoth, Runs, PartialIsNamed
<1>4. PlanShape' /\ NothingLeft' /\ RestIsDone' /\ AfterDelivery' /\ RollbackCanFinish'
  BY <1>1 DEF PlanShape, NothingLeft, RestIsDone, AfterDelivery, RollbackCanFinish
<1>5. QED BY <1>2, <1>3, <1>4

\* A failure, of the Apply or of its rollback, leaves the Cluster as it stands.
LEMMA StopInv ==
    ASSUME CatalogInv, Fails \/ RestoreStops
    PROVE  CatalogInv'
<1> USE DEF CatalogInv
<1>1. /\ UNCHANGED <<live, secret, latest, base, target, baseline, place>>
      /\ phase' \in {"restore", "idle"} /\ plan' = EmptyPlan
  BY DEF Fails, RestoreStops
<1>2. TypeOK' /\ ForeignStays' /\ Untouched' /\ KnownMeansBoth' /\ PartialIsNamed'
  BY <1>1, PlansArePlans DEF TypeOK, ForeignStays, Untouched, KnownMeansBoth, Runs, PartialIsNamed
<1>3. PlanShape' /\ NothingLeft' /\ RestIsDone' /\ AfterDelivery' /\ RollbackCanFinish'
  BY <1>1 DEF PlanShape, NothingLeft, RestIsDone, AfterDelivery, RollbackCanFinish
<1>4. QED BY <1>2, <1>3

\* The start of a rollback: unless the Cluster had diverged, the diff names every
\* catalog that is not as the latest Snapshot says, because what is live is the
\* Snapshot's, or is in the Secret, or is not Apchi's.
LEMMA RestoreInv ==
    ASSUME CatalogInv, Restore
    PROVE  CatalogInv'
<1> USE DEF CatalogInv
<1>1. /\ latest \in Catalogs /\ secret \in Catalogs
      /\ live \in [Names -> Versions \cup {Absent, Foreign}]
      /\ target' = latest /\ secret' = latest /\ phase' = "restoring"
      /\ plan' = RollbackPlan(latest) /\ plan' \in Plans
      /\ UNCHANGED <<live, latest, base, baseline>>
  BY PlansArePlans DEF Restore, TypeOK
<1>2. /\ plan'.created = In(latest) \ In(live)
      /\ plan'.replaced = {n \in In(latest) \cap In(live) : secret[n] # latest[n]}
      /\ plan'.dropped = {n \in In(live) \ In(latest) : secret[n] # Absent}
      /\ plan'.half = {}
  BY <1>1, RollbackFields
<1>3. \/ place' = place /\ place = latest
      \/ place' = Unwinding /\ place \in Catalogs \cup {Partial}
      \/ place' = Diverged
  BY <1>1, PlacesAssumption DEF Restore, TypeOK, Contract!RestoreStarted
<1>4. TypeOK'
  BY <1>1, <1>3 DEF TypeOK
<1>5. ForeignStays' /\ Untouched'
  BY <1>1 DEF ForeignStays, Untouched
<1>6. PlanShape'
  BY <1>1, <1>2 DEF PlanShape, ForeignStays, Untouched, In
<1>7. KnownMeansBoth'
  BY <1>1, <1>3, PlacesAssumption DEF KnownMeansBoth, Runs
<1>8. NothingLeft'
  <2>1. SUFFICES ASSUME place = latest
                 PROVE  plan' = EmptyPlan
    BY <1>1, <1>3, PlacesAssumption DEF NothingLeft
  <2>2. Runs(latest)
    BY <1>1, <2>1 DEF KnownMeansBoth
  <2>3. plan'.created = {}
    BY <1>2, <2>2, CatalogAssumption DEF Runs, In
  <2>4. plan'.replaced = {} /\ plan'.dropped = {}
    BY <1>2, <2>2 DEF Runs, In
  <2>5. QED BY <1>1, <2>3, <2>4, NamesNothing
<1>9. PartialIsNamed' /\ AfterDelivery'
  BY <1>1, <1>3, PlacesAssumption DEF PartialIsNamed, AfterDelivery
<1>10. RestIsDone'
  <2>1. SUFFICES ASSUME place' = Unwinding,
                        NEW n \in Names \ (plan'.created \cup plan'.replaced \cup plan'.dropped)
                 PROVE  live[n] = latest[n] \/ (live[n] = Foreign /\ latest[n] = Absent)
    BY <1>1 DEF RestIsDone
  <2>2. live[n] \in {latest[n], secret[n], Absent, Foreign}
    BY <1>1, <1>3, <2>1, PlacesAssumption DEF KnownMeansBoth, Runs, PartialIsNamed
  <2>3. live[n] = Foreign => latest[n] = Absent
    BY DEF Untouched
  <2>4. QED BY <1>2, <2>1, <2>2, <2>3 DEF In
<1>11. RollbackCanFinish'
  BY <1>1, <1>2 DEF RollbackCanFinish, In
<1>12. QED BY <1>4, <1>5, <1>6, <1>7, <1>8, <1>9, <1>10, <1>11

\* Every step of an Apply or of a rollback, and every failure between two, keeps the invariant.
LEMMA NextInv == CatalogInv /\ [Next]_vars => CatalogInv'
<1> SUFFICES ASSUME CatalogInv, [Next]_vars PROVE CatalogInv'
  OBVIOUS
<1>1. /\ base \in Catalogs /\ latest \in Catalogs
      /\ \A n \in Unmanaged : base[n] = Absent /\ latest[n] = Absent
  BY DEF CatalogInv, TypeOK, Untouched
<1>2. CASE \E desired \in Catalogs : Validate(desired, base)
  BY <1>1, <1>2, ValidateInv
<1>3. CASE Validate(latest, latest)
  BY <1>1, <1>3, ValidateInv
<1>4. CASE Apply
  BY <1>4, ApplyInv
<1>5. CASE \E n \in Names : CreateCatalog(n) \/ ReplaceDrop(n) \/ ReplaceCreate(n) \/ DropCatalog(n)
  BY <1>5, StatementInv
<1>6. CASE Delivered \/ Restored
  BY <1>6, EndInv
<1>7. CASE Verify \/ (\E reset \in BOOLEAN : Commit(reset)) \/ CommitFails
  BY <1>7, CommitInv
<1>8. CASE Fails \/ RestoreStops
  BY <1>8, StopInv
<1>9. CASE Restore
  BY <1>9, RestoreInv
<1>10. CASE UNCHANGED vars
  BY <1>10 DEF vars, CatalogInv, TypeOK, ForeignStays, Untouched, PlanShape, Plan, In,
     EmptyPlan, KnownMeansBoth, Runs, NothingLeft, PartialIsNamed, RestIsDone,
     AfterDelivery, RollbackCanFinish
<1>11. QED
  BY <1>2, <1>3, <1>4, <1>5, <1>6, <1>7, <1>8, <1>9, <1>10 DEF Next

\* The invariant holds however the Applies, their failures and the rollbacks go.
THEOREM CatalogsInvariant == Spec => []CatalogInv
BY InitInv, NextInv, PTL DEF Spec

-----------------------------------------------------------------------------
(* What it establishes. *)

\* Every variable keeps its type, and no plan names a catalog twice: rollback_plan
\* and plan give disjoint lists, and executing a statement keeps them so.
THEOREM CatalogTypes == Spec => []TypeOK
<1>1. CatalogInv => TypeOK
  BY DEF CatalogInv
<1>2. QED BY <1>1, CatalogsInvariant, PTL

\* However many catalogs there are and wherever an Apply or a rollback stops, a
\* catalog nobody brought under management stays live as it was and stays out of
\* the Secret.
THEOREM CatalogForeign == Spec => []ForeignStays
<1>1. CatalogInv => ForeignStays
  BY DEF CatalogInv
<1>2. QED BY <1>1, CatalogsInvariant, PTL

\* Where the pipeline counts on a known configuration, the coordinator serves it
\* and the Secret records it.
THEOREM CatalogKnown == Spec => []KnownMeansBoth
<1>1. CatalogInv => KnownMeansBoth
  BY DEF CatalogInv
<1>2. QED BY <1>1, CatalogsInvariant, PTL

\* No statement a rollback still has to issue can meet the wrong state: it
\* creates what is absent and drops what is there.
THEOREM CatalogRollback == Spec => []RollbackCanFinish
<1>1. CatalogInv => RollbackCanFinish
  BY DEF CatalogInv
<1>2. QED BY <1>1, CatalogsInvariant, PTL

-----------------------------------------------------------------------------
(* The catalog engine implements the contract. *)

\* A delivery that ends ends where the contract allows: if it began on the
\* Snapshot it was planned against, with every statement issued, nowhere else
\* than on what it delivers.
LEMMA DeliveredIsFinish ==
    ASSUME CatalogInv, Delivered
    PROVE  Contract!FinishDelivery
<1> USE DEF CatalogInv
<1>1. /\ phase = "delivering" /\ phase' = "delivered" /\ plan = EmptyPlan
      /\ place' = Where(target)
      /\ UNCHANGED <<latest, baseline, target>>
      /\ target \in Catalogs /\ latest \in Catalogs /\ secret = target
  BY DEF Delivered, TypeOK, PlanShape
<1>2. place' \in {target, Diverged}
  BY <1>1 DEF Where
<1>3. ASSUME baseline = latest, place = Partial PROVE Runs(target)
  BY <1>1, <1>3 DEF RestIsDone, Runs, EmptyPlan
<1>4. ASSUME place = latest, target = latest PROVE Runs(target)
  BY <1>1, <1>4 DEF KnownMeansBoth
<1>5. place' \in Contract!DeliveryEnded(place, latest, baseline, target)
  BY <1>1, <1>2, <1>3, <1>4 DEF Contract!DeliveryEnded, Where
<1>6. QED BY <1>1, <1>5 DEF Contract!FinishDelivery

\* A restore that ends ends on the latest Snapshot, if it began from a complete
\* diff.
LEMMA RestoredIsFinish ==
    ASSUME CatalogInv, Restored
    PROVE  Contract!FinishRestore
<1> USE DEF CatalogInv
<1>1. /\ phase = "restoring" /\ phase' = "idle" /\ plan = EmptyPlan
      /\ place' = Where(latest)
      /\ UNCHANGED <<latest, baseline, target>>
      /\ latest \in Catalogs /\ secret = target /\ target = latest
  BY DEF Restored, TypeOK, PlanShape
<1>2. place' \in {latest, Diverged}
  BY <1>1 DEF Where
<1>3. ASSUME place = Unwinding PROVE Runs(latest)
  BY <1>1, <1>3 DEF RestIsDone, Runs, EmptyPlan
<1>4. ASSUME place = latest PROVE Runs(latest)
  BY <1>1, <1>4 DEF KnownMeansBoth
<1>5. place' \in Contract!RestoreEnded(place, latest)
  BY <1>1, <1>2, <1>3, <1>4 DEF Contract!RestoreEnded, Where
<1>6. QED BY <1>1, <1>5 DEF Contract!FinishRestore

\* Every step of the engine is a step of the contract, or one the pipeline does
\* not see.
LEMMA StepRefines ==
    CatalogInv /\ [Next]_vars => [Contract!ContractNext]_(Contract!contractVars)
<1> SUFFICES ASSUME CatalogInv, [Next]_vars
             PROVE  Contract!ContractNext \/ UNCHANGED Contract!contractVars
  OBVIOUS
<1>1. base \in Catalogs /\ latest \in Catalogs
  BY DEF CatalogInv, TypeOK
<1>2. CASE \/ \E desired \in Catalogs : Validate(desired, base)
           \/ Validate(latest, latest)
  <2>1. PICK d \in Catalogs, c \in Catalogs : Validate(d, c)
    BY <1>1, <1>2
  <2>2. Contract!Prepare(d, c)
    BY <2>1 DEF Validate, Contract!Prepare
  <2>3. QED BY <2>2 DEF Contract!ContractNext
<1>3. CASE Apply
  <2>1. Contract!StartDelivery
    BY <1>3 DEF Apply, Contract!StartDelivery
  <2>2. QED BY <2>1 DEF Contract!ContractNext
<1>4. CASE \E n \in Names : CreateCatalog(n) \/ ReplaceDrop(n) \/ ReplaceCreate(n) \/ DropCatalog(n)
  BY <1>4 DEF CreateCatalog, ReplaceDrop, ReplaceCreate, DropCatalog, Statement,
     Contract!contractVars
<1>5. CASE Delivered
  BY <1>5, DeliveredIsFinish DEF Contract!ContractNext
<1>6. CASE Verify
  BY <1>6 DEF Verify, Contract!contractVars
<1>7. CASE (\E reset \in BOOLEAN : Commit(reset)) \/ CommitFails
  <2>1. Contract!Settle
    BY <1>7 DEF Commit, CommitFails, Contract!Settle
  <2>2. QED BY <2>1 DEF Contract!ContractNext
<1>8. CASE Fails \/ RestoreStops
  <2>1. Contract!Abort
    BY <1>8 DEF Fails, RestoreStops, Contract!Abort
  <2>2. QED BY <2>1 DEF Contract!ContractNext
<1>9. CASE Restore
  <2>1. Contract!StartRestore
    BY <1>9 DEF Restore, Contract!StartRestore
  <2>2. QED BY <2>1 DEF Contract!ContractNext
<1>10. CASE Restored
  BY <1>10, RestoredIsFinish DEF Contract!ContractNext
<1>11. CASE UNCHANGED vars
  BY <1>11 DEF vars, Contract!contractVars
<1>12. QED
  BY <1>2, <1>3, <1>4, <1>5, <1>6, <1>7, <1>8, <1>9, <1>10, <1>11 DEF Next

\* The catalog engine implements ClusterContract for any set of catalogs, under
\* the refinement mapping of CatalogApply: what ApplyPipeline assumes of a
\* delivery and of a restore is what CatalogsSection.apply and .restore do,
\* statement by statement, wherever they are stopped.
THEOREM CatalogRefines == Spec => Refines
<1>1. Init => Contract!ContractInit
  <2>1. NoCatalogs \in Catalogs
    BY DEF NoCatalogs, Catalogs
  <2>2. QED BY <2>1 DEF Init, Contract!ContractInit
<1>2. CatalogInv /\ [Next]_vars => [Contract!ContractNext]_(Contract!contractVars)
  BY StepRefines
<1>3. QED
  BY <1>1, <1>2, CatalogsInvariant, PTL DEF Spec, Refines, Contract!ContractSpec

-----------------------------------------------------------------------------
(* Adoption: the inductive invariant. *)

AdoptionTypeOK ==
    /\ live \in [Names -> Versions \cup {Absent, Foreign}]
    /\ files \in Catalogs /\ secret \in Catalogs /\ latest \in Catalogs
    /\ base \in Catalogs /\ target \in Catalogs
    /\ discovery \in Documents \cup {NoDocument}
    /\ adopting \in Adoptions \cup {NoAdoption}
    /\ number \in Nat /\ mark \in Nat

\* The mark says the highest number it was told, and there is no configuration
\* before the first Snapshot.
MarkKnows == mark = highest

Unnumbered == number = 0 => base = NoCatalogs

\* Verification found every catalog, and nothing drops one before the commit.
VerifiedStays == phase = "verified" => In(target) \subseteq In(live)

\* An adoption is of an unmanaged Cluster that was cut over; it wants all that
\* was served, and its Apply delivers what it wants.
AdoptionStands ==
    adopting # NoAdoption =>
        /\ number = 0 /\ cutover
        /\ adopting.served \subseteq In(adopting.desired)
        /\ phase \in {"validated", "delivering", "delivered", "verified"} =>
               target = adopting.desired

\* An adoption that confirms finds what it wants live and recorded, and has no
\* statement to issue.
NothingToDo ==
    adopting # NoAdoption /\ adopting.confirms /\ phase # "restoring" =>
        /\ live = adopting.desired
        /\ phase \in {"idle", "validated"} => secret = adopting.desired
        /\ phase = "validated" => plan = Plan(adopting.desired, NoCatalogs)
        /\ phase = "delivering" =>
               plan.created = {} /\ plan.replaced = {} /\ plan.dropped = {} /\ plan.half = {}

AdoptionInv ==
    /\ AdoptionTypeOK /\ MarkKnows /\ Unnumbered /\ VerifiedStays
    /\ AdoptionStands /\ NothingToDo

-----------------------------------------------------------------------------
(* The document. *)

\* Nothing is a configuration.
LEMMA NothingType == NoCatalogs \in Catalogs
BY DEF NoCatalogs, Catalogs

\* What a document resolves to is a configuration; a complete one has every
\* catalog that was served.
LEMMA ResolvedFacts ==
    ASSUME NEW d \in Documents
    PROVE  /\ Resolved(d) \in Catalogs
           /\ Complete(d) => d.served \subseteq In(Resolved(d))
<1>1. Resolved(d) \in Catalogs
  BY DEF Resolved, Documents, Catalogs
<1>2. ASSUME Complete(d), NEW n \in d.served
      PROVE  n \in In(Resolved(d))
  <2>1. n \in Names
    BY <1>2 DEF Documents
  <2>2. n \in In(d.read) \/ n \in In(d.amended)
    BY <1>2 DEF Complete, Problems
  <2>3. d.read[n] # Absent \/ d.amended[n] # Absent
    BY <2>2 DEF In
  <2>4. Resolved(d)[n] # Absent
    BY <2>1, <2>3 DEF Resolved
  <2>5. QED BY <2>1, <2>4 DEF In
<1>3. QED BY <1>1, <1>2

\* Only the document changes: a reading, an amendment, a withdrawal, a discard.
LEMMA DocumentSteps ==
    ASSUME AdoptionInv,
           \/ \E asked \in BOOLEAN : CreateDiscovery(asked)
           \/ \E n \in Names, v \in Versions : AmendCatalog(n, v)
           \/ \E n \in Names : WithdrawAmendment(n)
           \/ DiscardDiscovery
    PROVE  AdoptionInv'
<1> USE DEF AdoptionInv
<1>1. /\ UNCHANGED <<vars, files, cutover, adopting, number, mark, highest>>
      /\ discovery' \in Documents \cup {NoDocument}
  <2>1. ASSUME NEW asked \in BOOLEAN, CreateDiscovery(asked)
        PROVE  /\ UNCHANGED <<vars, files, cutover, adopting, number, mark, highest>>
               /\ discovery' \in Documents
    <3>1. Readable \in Catalogs
      BY DEF Readable, AdoptionTypeOK, Catalogs
    <3>2. (IF asked THEN In(live) ELSE {}) \in SUBSET Names
      BY DEF In
    <3>3. (IF discovery = NoDocument THEN NoCatalogs ELSE discovery.amended) \in Catalogs
      BY NothingType DEF AdoptionTypeOK, Documents
    <3>4. QED BY <2>1, <3>1, <3>2, <3>3 DEF CreateDiscovery, Stored, Documents
  <2>2. ASSUME NEW n \in Names, NEW v \in Versions \cup {Absent}, discovery # NoDocument,
               Stored([discovery EXCEPT !.amended[n] = v])
        PROVE  /\ UNCHANGED <<vars, files, cutover, adopting, number, mark, highest>>
               /\ discovery' \in Documents
    <3>1. discovery \in Documents
      BY <2>2 DEF AdoptionTypeOK
    <3>2. [discovery.amended EXCEPT ![n] = v] \in Catalogs
      BY <3>1 DEF Documents, Catalogs
    <3>3. QED BY <2>2, <3>1, <3>2 DEF Stored, Documents
  <2>3. CASE DiscardDiscovery
    BY <2>3 DEF DiscardDiscovery, Stored
  <2>4. QED BY <2>1, <2>2, <2>3 DEF AmendCatalog, WithdrawAmendment
<1>2. QED
  BY <1>1 DEF vars, AdoptionTypeOK, MarkKnows, Unnumbered, VerifiedStays, AdoptionStands,
              NothingToDo

\* A seed that changes the Secret takes the confirmation away.
LEMMA SeedSteps ==
    ASSUME AdoptionInv, SeedCluster
    PROVE  AdoptionInv'
<1> USE DEF AdoptionInv
<1>1. /\ UNCHANGED <<latest, base, phase, target, baseline, plan, live>>
      /\ UNCHANGED <<files, cutover, discovery, number, mark, highest>>
  BY DEF SeedCluster
<1>2. secret' \in Catalogs
  BY ResolvedFacts DEF SeedCluster, AdoptionTypeOK
<1>3. CASE adopting' = adopting
  <2>1. adopting = NoAdoption \/ secret' = secret \/ ~adopting.confirms
    BY <1>3 DEF SeedCluster, AdoptionTypeOK, Adoptions
  <2>2. AdoptionTypeOK' /\ MarkKnows' /\ Unnumbered' /\ VerifiedStays' /\ AdoptionStands'
    BY <1>1, <1>2, <1>3
       DEF AdoptionTypeOK, MarkKnows, Unnumbered, VerifiedStays, AdoptionStands
  <2>3. NothingToDo'
    BY <1>1, <1>3, <2>1 DEF NothingToDo
  <2>4. QED BY <2>2, <2>3
<1>4. CASE adopting # NoAdoption /\ adopting' = [adopting EXCEPT !.confirms = FALSE]
  <2>1. /\ adopting' \in Adoptions /\ adopting'.confirms = FALSE
        /\ adopting'.desired = adopting.desired /\ adopting'.served = adopting.served
    BY <1>4 DEF AdoptionTypeOK, Adoptions
  <2>2. AdoptionTypeOK' /\ MarkKnows' /\ Unnumbered' /\ VerifiedStays'
    BY <1>1, <1>2, <2>1 DEF AdoptionTypeOK, MarkKnows, Unnumbered, VerifiedStays
  <2>3. AdoptionStands' /\ NothingToDo'
    BY <1>1, <1>4, <2>1 DEF AdoptionStands, NothingToDo
  <2>4. QED BY <2>2, <2>3
<1>5. QED BY <1>3, <1>4 DEF SeedCluster

\* An adoption starts on a Cluster that is seeded with what it wants.
LEMMA AdoptSteps ==
    ASSUME AdoptionInv, NEW through \in Nat, Adopt(through)
    PROVE  AdoptionInv'
<1> USE DEF AdoptionInv
<1>1. /\ UNCHANGED <<vars, files, cutover, discovery, number, mark, highest>>
      /\ number = 0 /\ cutover /\ phase = "idle"
      /\ discovery \in Documents /\ Complete(discovery)
  BY DEF Adopt, InFlight, AdoptionTypeOK
<1>2. adopting' = [desired |-> Resolved(discovery), served |-> discovery.served,
                   before |-> live, confirms |-> live = Resolved(discovery),
                   through |-> through]
  BY DEF Adopt
<1>3. /\ Resolved(discovery) \in Catalogs
      /\ discovery.served \subseteq In(Resolved(discovery))
  BY <1>1, ResolvedFacts
<1>4. secret = Resolved(discovery)
  <2>1. \A n \in Names : secret[n] = Resolved(discovery)[n]
    BY DEF Adopt, Unseeded
  <2>2. QED BY <1>3, <2>1 DEF AdoptionTypeOK, Catalogs
<1>5. adopting' \in Adoptions
  BY <1>1, <1>2, <1>3 DEF Adoptions, Documents, AdoptionTypeOK
<1>6. AdoptionTypeOK' /\ MarkKnows' /\ Unnumbered' /\ VerifiedStays'
  BY <1>1, <1>5 DEF vars, AdoptionTypeOK, MarkKnows, Unnumbered, VerifiedStays
<1>7. AdoptionStands'
  BY <1>1, <1>2, <1>3 DEF vars, AdoptionStands
<1>8. NothingToDo'
  BY <1>1, <1>2, <1>4 DEF vars, NothingToDo
<1>9. QED BY <1>6, <1>7, <1>8

-----------------------------------------------------------------------------
(* Its Apply. *)

\* Validation plans the adoption as a change from nothing.
LEMMA StartSteps ==
    ASSUME AdoptionInv, StartApply
    PROVE  AdoptionInv'
<1> USE DEF AdoptionInv
<1>1. PICK desired \in Catalogs, current \in Catalogs :
          /\ Validate(desired, current)
          /\ adopting # NoAdoption => desired = adopting.desired /\ current = base
  BY DEF StartApply, AdoptionTypeOK, Adoptions
<1>2. /\ UNCHANGED <<live, secret, latest, base, adoptionVars>>
      /\ phase = "idle" /\ phase' = "validated" /\ target' = desired
      /\ plan' = Plan(desired, current)
  BY <1>1 DEF Validate, StartApply
<1>3. AdoptionTypeOK' /\ MarkKnows' /\ Unnumbered' /\ VerifiedStays'
  BY <1>1, <1>2 DEF adoptionVars, AdoptionTypeOK, MarkKnows, Unnumbered, VerifiedStays
<1>4. AdoptionStands'
  BY <1>1, <1>2 DEF adoptionVars, AdoptionStands
<1>5. NothingToDo'
  BY <1>1, <1>2 DEF adoptionVars, NothingToDo, AdoptionStands, Unnumbered
<1>6. QED BY <1>3, <1>4, <1>5

\* A plan to create what is live and recorded settles to nothing.
LEMMA SettledToNothing ==
    ASSUME NEW d \in Catalogs, live = d, secret = d
    PROVE  LET p == Settled(Plan(d, NoCatalogs), d)
           IN  /\ p.created = {} /\ p.replaced = {} /\ p.dropped = {} /\ p.half = {}
               /\ Collisions(p) = {}
<1>1. In(NoCatalogs) = {}
  BY DEF In, NoCatalogs
<1>2. /\ Plan(d, NoCatalogs) \in Plans /\ Plan(d, NoCatalogs).created = In(d)
      /\ Plan(d, NoCatalogs).replaced = {} /\ Plan(d, NoCatalogs).dropped = {}
      /\ Plan(d, NoCatalogs).half = {}
  <2>1. /\ Plan(d, NoCatalogs) \in Plans
        /\ Plan(d, NoCatalogs).created = In(d) \ In(NoCatalogs)
        /\ Plan(d, NoCatalogs).replaced = {n \in In(d) \cap In(NoCatalogs) : d[n] # NoCatalogs[n]}
        /\ Plan(d, NoCatalogs).dropped = In(NoCatalogs) \ In(d)
        /\ Plan(d, NoCatalogs).half = {}
    BY NothingType, PlansArePlans, PlanFields
  <2>2. QED BY <1>1, <2>1
<1>3. Settled(Plan(d, NoCatalogs), d).created = {}
  BY <1>2, SettledFields
<1>4. QED BY <1>2, <1>3, SettledFields DEF Collisions

\* The statements and checks of an Apply.
LEMMA ApplySteps ==
    ASSUME AdoptionInv, ApplyStep
    PROVE  AdoptionInv'
<1> USE DEF AdoptionInv
<1>1. UNCHANGED adoptionVars
  BY DEF ApplyStep
<1>2. CASE Apply
  <2>1. /\ UNCHANGED <<live, latest, base, target>>
        /\ phase = "validated" /\ phase' = "delivering"
        /\ plan' = Settled(plan, target) /\ secret' = target
    BY <1>2 DEF Apply
  <2>2. AdoptionTypeOK' /\ MarkKnows' /\ Unnumbered' /\ VerifiedStays' /\ AdoptionStands'
    BY <1>1, <2>1
       DEF adoptionVars, AdoptionTypeOK, MarkKnows, Unnumbered, VerifiedStays, AdoptionStands
  <2>3. ASSUME adopting # NoAdoption, adopting.confirms
        PROVE  /\ live = adopting.desired
               /\ plan'.created = {} /\ plan'.replaced = {} /\ plan'.dropped = {}
               /\ plan'.half = {}
    <3>1. /\ live = adopting.desired /\ secret = adopting.desired
          /\ plan = Plan(adopting.desired, NoCatalogs) /\ target = adopting.desired
      BY <2>1, <2>3 DEF NothingToDo, AdoptionStands
    <3>2. adopting.desired \in Catalogs
      BY <2>3 DEF AdoptionTypeOK, Adoptions
    <3>3. QED BY <2>1, <3>1, <3>2, SettledToNothing
  <2>4. NothingToDo'
    BY <1>1, <2>1, <2>3 DEF adoptionVars, NothingToDo
  <2>5. QED BY <2>2, <2>4
<1>3. CASE Delivered \/ Verify \/ Fails
  <2>1. /\ UNCHANGED <<live, secret, latest, base, target>>
        /\ \/ phase = "delivering" /\ phase' = "delivered"
           \/ phase = "delivered" /\ phase' = "verified" /\ In(target) \subseteq In(live)
           \/ phase \in {"validated", "delivering", "delivered"} /\ phase' = "restore"
    BY <1>3 DEF Delivered, Verify, Verified, Fails
  <2>2. AdoptionTypeOK' /\ MarkKnows' /\ Unnumbered' /\ VerifiedStays' /\ AdoptionStands'
    BY <1>1, <2>1
       DEF adoptionVars, AdoptionTypeOK, MarkKnows, Unnumbered, VerifiedStays, AdoptionStands, In
  <2>3. NothingToDo'
    BY <1>1, <2>1 DEF adoptionVars, NothingToDo
  <2>4. QED BY <2>2, <2>3
<1>4. CASE Restore
  <2>1. /\ UNCHANGED <<live, latest, base>> /\ phase' = "restoring"
        /\ target' = latest /\ secret' = latest
    BY <1>4 DEF Restore
  <2>2. QED
    BY <1>1, <2>1 DEF adoptionVars, AdoptionTypeOK, MarkKnows, Unnumbered, VerifiedStays,
                      AdoptionStands, NothingToDo
<1>5. ASSUME NEW n \in Names,
             CreateCatalog(n) \/ ReplaceDrop(n) \/ ReplaceCreate(n) \/ DropCatalog(n)
      PROVE  AdoptionInv'
  <2>1. /\ UNCHANGED <<secret, latest, base, phase, target>>
        /\ phase \in {"delivering", "restoring"}
        /\ \E c \in Versions \cup {Absent} : live' = [live EXCEPT ![n] = c]
        /\ n \in plan.created \cup plan.replaced \cup plan.dropped \cup plan.half
    BY <1>5 DEF CreateCatalog, ReplaceDrop, ReplaceCreate, DropCatalog, Statement,
                AdoptionTypeOK, Catalogs
  <2>2. AdoptionTypeOK' /\ MarkKnows' /\ Unnumbered' /\ VerifiedStays' /\ AdoptionStands'
    BY <1>1, <2>1
       DEF adoptionVars, AdoptionTypeOK, MarkKnows, Unnumbered, VerifiedStays, AdoptionStands
  <2>3. NothingToDo'
    BY <1>1, <2>1 DEF adoptionVars, NothingToDo
  <2>4. QED BY <2>2, <2>3
<1>6. QED BY <1>2, <1>3, <1>4, <1>5 DEF ApplyStep

\* The ends of an Apply: refused, committed, rolled back or given up.
LEMMA EndSteps ==
    ASSUME AdoptionInv,
           \/ AdoptionRefused \/ ApplyEnds
           \/ \E marked, reset \in BOOLEAN : CommitSnapshot(marked, reset)
    PROVE  AdoptionInv'
<1> USE DEF AdoptionInv
<1>1. adopting' = NoAdoption
  BY DEF AdoptionRefused, ApplyEnds, CommitSnapshot
<1>2. AdoptionStands' /\ NothingToDo'
  BY <1>1 DEF AdoptionStands, NothingToDo
<1>3. CASE AdoptionRefused
  BY <1>1, <1>2, <1>3 DEF AdoptionRefused, vars, AdoptionTypeOK, MarkKnows, Unnumbered,
                          VerifiedStays
<1>4. CASE ApplyEnds
  <2>1. /\ UNCHANGED <<live, secret, latest, base, target>> /\ phase' = "idle"
        /\ UNCHANGED <<files, cutover, discovery, number, mark, highest>>
    BY <1>4 DEF ApplyEnds, Restored, RestoreStops, CommitFails
  <2>2. QED
    BY <1>1, <1>2, <2>1 DEF AdoptionTypeOK, MarkKnows, Unnumbered, VerifiedStays
<1>5. ASSUME NEW marked \in BOOLEAN, NEW reset \in BOOLEAN, CommitSnapshot(marked, reset)
      PROVE  AdoptionInv'
  <2>1. /\ UNCHANGED <<live, secret, target, files, cutover, discovery>>
        /\ phase' = "idle" /\ latest' = target /\ base' \in {target, base}
        /\ number' = number + 1
    BY <1>5 DEF CommitSnapshot, Commit
  <2>2. mark' \in Nat /\ mark' = highest'
    BY <1>5, <2>1 DEF CommitSnapshot, Raised, MarkKnows, AdoptionTypeOK
  <2>3. number' # 0
    BY <2>1 DEF AdoptionTypeOK
  <2>4. QED
    BY <1>1, <1>2, <2>1, <2>2, <2>3 DEF AdoptionTypeOK, MarkKnows, Unnumbered, VerifiedStays
<1>6. QED BY <1>3, <1>4, <1>5

-----------------------------------------------------------------------------
(* The Cluster, the Admin and the database. *)

\* A pod that starts under a confirming adoption loads what is live already; the
\* rest happens while no Apply is in flight.
LEMMA WorldSteps ==
    ASSUME AdoptionInv,
           \/ PodStarts \/ CutOver \/ DatabaseLost
           \/ \E n \in Names, c \in Versions \cup {Absent} : OtherStatement(n, c)
    PROVE  AdoptionInv'
<1> USE DEF AdoptionInv
<1>1. CASE PodStarts
  <2>1. /\ UNCHANGED <<secret, latest, base, phase, target, plan>>
        /\ UNCHANGED <<files, cutover, discovery, number, mark, highest>>
        /\ phase = "idle" /\ live' = IF cutover THEN secret ELSE files
    BY <1>1 DEF PodStarts, Unmarked
  <2>2. live' \in [Names -> Versions \cup {Absent, Foreign}]
    BY <2>1 DEF AdoptionTypeOK, Catalogs
  <2>3. CASE adopting = NoAdoption
    <3>1. adopting' = adopting
      BY <1>1, <2>3 DEF PodStarts
    <3>2. QED
      BY <2>1, <2>2, <2>3, <3>1 DEF AdoptionTypeOK, MarkKnows, Unnumbered, VerifiedStays,
                                    AdoptionStands, NothingToDo
  <2>4. CASE adopting # NoAdoption
    <3>1. adopting \in Adoptions /\ cutover
      BY <2>4 DEF AdoptionTypeOK, AdoptionStands
    <3>2. /\ adopting' \in Adoptions
          /\ adopting'.desired = adopting.desired /\ adopting'.served = adopting.served
          /\ adopting'.confirms => adopting.confirms
      BY <1>1, <3>1 DEF PodStarts, Adoptions
    <3>3. adopting.confirms => live' = live
      BY <2>1, <2>4, <3>1 DEF NothingToDo
    <3>4. AdoptionTypeOK' /\ MarkKnows' /\ Unnumbered' /\ VerifiedStays'
      BY <2>1, <2>2, <3>2 DEF AdoptionTypeOK, MarkKnows, Unnumbered, VerifiedStays
    <3>5. AdoptionStands' /\ NothingToDo'
      BY <2>1, <2>4, <3>2, <3>3 DEF AdoptionStands, NothingToDo
    <3>6. QED BY <3>4, <3>5
  <2>5. QED BY <2>3, <2>4
<1>2. CASE CutOver
  <2>1. /\ UNCHANGED <<vars, files, adopting, discovery, number, mark, highest>>
        /\ adopting = NoAdoption
    BY <1>2 DEF CutOver, InFlight, Unmarked
  <2>2. QED
    BY <2>1 DEF vars, AdoptionTypeOK, MarkKnows, Unnumbered, VerifiedStays, AdoptionStands,
                NothingToDo
<1>3. CASE DatabaseLost
  <2>1. /\ UNCHANGED <<live, secret, phase, target, files, adopting, mark, highest>>
        /\ adopting = NoAdoption /\ phase = "idle" /\ number' = 0
        /\ latest' = NoCatalogs /\ base' = NoCatalogs /\ discovery' = NoDocument
    BY <1>3 DEF DatabaseLost, InFlight
  <2>2. QED
    BY <2>1, NothingType DEF AdoptionTypeOK, MarkKnows, Unnumbered, VerifiedStays,
                             AdoptionStands, NothingToDo
<1>4. ASSUME NEW n \in Names, NEW c \in Versions \cup {Absent}, OtherStatement(n, c)
      PROVE  AdoptionInv'
  <2>1. /\ UNCHANGED <<secret, latest, base, phase, target, files, adopting>>
        /\ UNCHANGED <<discovery, number, mark, highest>>
        /\ adopting = NoAdoption /\ phase = "idle" /\ live' = [live EXCEPT ![n] = c]
    BY <1>4 DEF OtherStatement, InFlight, Unmarked
  <2>2. QED
    BY <2>1 DEF AdoptionTypeOK, MarkKnows, Unnumbered, VerifiedStays, AdoptionStands,
                NothingToDo
<1>5. QED BY <1>1, <1>2, <1>3, <1>4

-----------------------------------------------------------------------------
(* The theorems. *)

\* Every step keeps the invariant.
LEMMA AdoptionStep ==
    ASSUME AdoptionInv, [AdoptionNext]_allVars
    PROVE  AdoptionInv'
<1>1. CASE UNCHANGED allVars
  BY <1>1 DEF allVars, vars, adoptionVars, AdoptionInv, AdoptionTypeOK, MarkKnows, Unnumbered,
              VerifiedStays, AdoptionStands, NothingToDo
<1>2. ASSUME NEW through \in 0..MaxSnapshots, Adopt(through)
      PROVE  AdoptionInv'
  BY <1>2, AdoptSteps, AdoptionAssumption
<1>3. CASE AdoptionNext
  BY <1>2, <1>3, DocumentSteps, SeedSteps, StartSteps, ApplySteps, EndSteps, WorldSteps
     DEF AdoptionNext
<1>4. QED BY <1>1, <1>3

\* It holds of a Cluster that Apchi has not touched.
LEMMA AdoptionStart == AdoptionInit => AdoptionInv
<1>1. SUFFICES ASSUME AdoptionInit PROVE AdoptionInv
  OBVIOUS
<1>2. live \in [Names -> Versions \cup {Absent, Foreign}]
  BY <1>1 DEF AdoptionInit, Catalogs
<1>3. QED
  BY <1>1, <1>2, NothingType DEF AdoptionInit, AdoptionInv, AdoptionTypeOK, MarkKnows,
     Unnumbered, VerifiedStays, AdoptionStands, NothingToDo

\* The inductive invariant holds throughout.
THEOREM AdoptionInvariant == AdoptionSpec => []AdoptionInv
<1>1. QED BY AdoptionStart, AdoptionStep, PTL DEF AdoptionSpec

\* Whatever was read wrongly, amended, seeded twice or restarted in between, an
\* adoption that commits has every catalog that Trino served at the reading, in
\* Snapshot 1 and live: the document is complete before it is adopted, and
\* Verification looks for all of it.
THEOREM NothingIsTaken == AdoptionSpec => AdoptionTakesNothing
<1> DEFINE Taken == adopting # NoAdoption /\ number' > number =>
                        adopting.served \subseteq In(latest') \cap In(live')
<1>1. ASSUME AdoptionInv, AdoptionNext
      PROVE  Taken
  <2>1. SUFFICES ASSUME adopting # NoAdoption, number' > number
                 PROVE  adopting.served \subseteq In(latest') \cap In(live')
    OBVIOUS
  <2>2. number \in Nat
    BY <1>1 DEF AdoptionInv, AdoptionTypeOK
  <2>3. PICK marked \in BOOLEAN, reset \in BOOLEAN : CommitSnapshot(marked, reset)
    <3>1. number' # number /\ number' # 0
      BY <2>1, <2>2
    <3>2. QED
      BY <1>1, <3>1 DEF AdoptionNext, CreateDiscovery, AmendCatalog, WithdrawAmendment,
         DiscardDiscovery, Stored, SeedCluster, Adopt, StartApply, AdoptionRefused, ApplyStep,
         ApplyEnds, PodStarts, CutOver, DatabaseLost, OtherStatement, Unmarked, adoptionVars
  <2>4. phase = "verified" /\ latest' = target /\ live' = live
    BY <2>3 DEF CommitSnapshot, Commit
  <2>5. /\ In(target) \subseteq In(live) /\ target = adopting.desired
        /\ adopting.served \subseteq In(adopting.desired)
    BY <1>1, <2>1, <2>4 DEF AdoptionInv, VerifiedStays, AdoptionStands
  <2>6. QED BY <2>4, <2>5
<1>2. AdoptionInv /\ [AdoptionNext]_allVars => [Taken]_allVars
  BY <1>1
<1>3. QED BY <1>2, AdoptionInvariant, PTL DEF AdoptionSpec, AdoptionTakesNothing

\* On a Cluster that runs what it was seeded with, the adopting Apply finds no
\* catalog in its way and issues no statement, however its pods start: its plan creates what
\* is live and recorded already, and settles to nothing.
THEOREM AdoptionIsConfirmation == AdoptionSpec => AdoptionConfirms
<1> DEFINE InTheWay == Collisions(Settled(Plan(adopting.desired, base), adopting.desired))
<1> DEFINE Confirmed == adopting # NoAdoption /\ adopting.confirms =>
                            /\ live' = live \/ phase = "restoring"
                            /\ phase = "idle" => InTheWay = {}
<1>1. ASSUME AdoptionInv, AdoptionNext
      PROVE  Confirmed
  <2>1. SUFFICES ASSUME adopting # NoAdoption, adopting.confirms
                 PROVE  (live' = live \/ phase = "restoring") /\ (phase = "idle" => InTheWay = {})
    OBVIOUS
  <2>2. /\ adopting \in Adoptions /\ adopting.desired \in Catalogs /\ cutover
        /\ base = NoCatalogs
    BY <1>1, <2>1 DEF AdoptionInv, AdoptionTypeOK, Adoptions, AdoptionStands, Unnumbered
  <2>3. NothingToDo
    BY <1>1 DEF AdoptionInv
  <2>4. ASSUME phase = "idle"
         PROVE  InTheWay = {}
    <3>1. live = adopting.desired /\ secret = adopting.desired
      BY <2>1, <2>3, <2>4 DEF NothingToDo
    <3>2. QED BY <2>2, <3>1, SettledToNothing
  <2>5. SUFFICES live' = live \/ phase = "restoring"
    BY <2>4
  <2>6. CASE \/ \E asked \in BOOLEAN : CreateDiscovery(asked)
             \/ \E n \in Names, v \in Versions : AmendCatalog(n, v)
             \/ \E n \in Names : WithdrawAmendment(n)
             \/ DiscardDiscovery \/ StartApply
    BY <2>1, <2>6 DEF CreateDiscovery, AmendCatalog, WithdrawAmendment, DiscardDiscovery, Stored,
       StartApply, Validate, vars, adoptionVars
  <2>7. CASE SeedCluster \/ AdoptionRefused
    BY <2>7 DEF SeedCluster, AdoptionRefused, vars
  <2>8. CASE ApplyStep
    <3>1. adopting' = adopting
      BY <2>8 DEF ApplyStep, adoptionVars
    <3>2. CASE Apply \/ Delivered \/ Verify \/ Fails \/ Restore
      BY <2>1, <3>1, <3>2 DEF Apply, Delivered, Verify, Fails, Restore
    <3>3. ASSUME NEW n \in Names,
                 CreateCatalog(n) \/ ReplaceDrop(n) \/ ReplaceCreate(n) \/ DropCatalog(n)
          PROVE  phase = "restoring"
      <4>1. /\ phase \in {"delivering", "restoring"}
            /\ n \in plan.created \cup plan.replaced \cup plan.dropped \cup plan.half
        BY <3>3 DEF CreateCatalog, ReplaceDrop, ReplaceCreate, DropCatalog, Statement
      <4>2. QED BY <2>1, <2>3, <4>1 DEF NothingToDo
    <3>4. QED BY <2>1, <2>8, <3>1, <3>2, <3>3 DEF ApplyStep
  <2>9. CASE ApplyEnds \/ \E marked, reset \in BOOLEAN : CommitSnapshot(marked, reset)
    BY <2>9 DEF ApplyEnds, Restored, RestoreStops, CommitFails, CommitSnapshot, Commit
  <2>10. CASE PodStarts
    <3>1. phase = "idle" /\ live' = secret
      BY <2>2, <2>10 DEF PodStarts
    <3>2. live' = live
      BY <2>1, <2>3, <3>1 DEF NothingToDo
    <3>3. adopting' = adopting
      BY <2>10, <3>2 DEF PodStarts
    <3>4. QED BY <2>1, <3>2, <3>3
  <2>11. CASE \/ CutOver \/ DatabaseLost \/ \E through \in 0..MaxSnapshots : Adopt(through)
              \/ \E n \in Names, c \in Versions \cup {Absent} : OtherStatement(n, c)
    BY <2>1, <2>11 DEF CutOver, DatabaseLost, Adopt, OtherStatement, InFlight
  <2>12. QED
    BY <1>1, <2>6, <2>7, <2>6, <2>8, <2>9, <2>10, <2>11 DEF AdoptionNext
<1>2. AdoptionInv /\ [AdoptionNext]_allVars => [Confirmed]_allVars
  BY <1>1
<1>3. QED BY <1>2, AdoptionInvariant, PTL DEF AdoptionSpec, AdoptionConfirms

\* However often the database is lost, an adoption that numbers from 1 again was
\* told how far the history the mark knows of went: the mark never falls.
THEOREM HistoriesConfirmed == AdoptionSpec => HistoryConfirmed
<1> DEFINE Told == adopting = NoAdoption /\ adopting' # NoAdoption =>
                       highest = 0 \/ adopting'.through = highest
<1>1. ASSUME AdoptionInv, AdoptionNext
      PROVE  Told
  <2>1. SUFFICES ASSUME adopting = NoAdoption, adopting' # NoAdoption
                 PROVE  highest = 0 \/ adopting'.through = highest
    OBVIOUS
  <2>2. PICK through \in 0..MaxSnapshots : Adopt(through)
    BY <1>1, <2>1 DEF AdoptionNext, CreateDiscovery, AmendCatalog, WithdrawAmendment,
       DiscardDiscovery, Stored, SeedCluster, StartApply, AdoptionRefused, ApplyStep, ApplyEnds,
       CommitSnapshot, PodStarts, CutOver, DatabaseLost, OtherStatement, adoptionVars
  <2>3. /\ mark = 0 \/ through = mark
        /\ adopting'.through = through
    BY <2>2 DEF Adopt
  <2>4. QED BY <1>1, <2>3 DEF AdoptionInv, MarkKnows
<1>2. AdoptionInv /\ [AdoptionNext]_allVars => [Told]_allVars
  BY <1>1
<1>3. QED BY <1>2, AdoptionInvariant, PTL DEF AdoptionSpec, HistoryConfirmed

=============================================================================
