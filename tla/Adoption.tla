------------------------------ MODULE Adoption ------------------------------
(***************************************************************************)
(* Bringing a Cluster that predates Apchi under management.  The Cluster   *)
(* is read into a document, an Operator supplies what could not be read,   *)
(* the catalog Secret is seeded from it, the Admin cuts the deployment     *)
(* over to that Secret, and an Apply like any other (CatalogApply) makes   *)
(* Snapshot 1 of it.  MongoDB may be lost: a ConfigMap remembers the       *)
(* highest Snapshot number, and adopting again has to confirm it.          *)
(*                                                                         *)
(* Catalogs only, the Section with sources that are not files.  Requests   *)
(* do not overlap; Applies, pods and other people's statements fall        *)
(* between them.                                                           *)
(***************************************************************************)
EXTENDS CatalogApply

CONSTANTS
    NoDocument,     \* no discovery is stored
    NoAdoption,     \* no Apply was started by an adoption
    MaxSnapshots    \* bound: how many Snapshots one database may number

ASSUME AdoptionAssumption == MaxSnapshots \in Nat \ {0} /\ Unmanaged = {}

VARIABLES
    files,      \* the Admin's own catalog files, by name
    cutover,    \* the deployment fills the catalog store from Apchi's Secret
    discovery,  \* the discovery document: read, served, asked and amended
    adopting,   \* history: what the adopting Apply in flight was started on
    number,     \* the latest Snapshot's number, 0 for none
    mark,       \* the high-water mark, 0 for none
    highest     \* history: the highest number the mark was told

\* A discovery document, and what an adoption started its Apply on.
Documents == [read: Catalogs, served: SUBSET Names, asked: BOOLEAN, amended: Catalogs]
Adoptions == [desired: Catalogs, served: SUBSET Names,
              before: [Names -> Versions \cup {Absent, Foreign}],
              confirms: BOOLEAN, through: Nat]

ASSUME NothingAssumption == NoDocument \notin Documents /\ NoAdoption \notin Adoptions

adoptionVars == <<files, cutover, discovery, adopting, number, mark, highest>>
allVars == <<vars, adoptionVars>>

-----------------------------------------------------------------------------
(* The document. *)

\* Mutated: a catalog that only Trino knows is not reported.
ProblemsOfFiles(d) == In(d.read) \ d.served

\* _reconcile_catalogs: served and not readable (incomplete), or readable and
\* not served (not_loaded).
Problems(d) == (d.served \ In(d.read)) \cup (In(d.read) \ d.served)

\* StoredDiscovery.complete: an amendment answers a catalog's problem; that
\* Trino could not be asked is a problem no amendment answers.
Complete(d) == d.asked /\ Problems(d) \subseteq In(d.amended)

\* StoredDiscovery.resolved: amendments win.
Resolved(d) == [n \in Names |-> IF d.amended[n] # Absent THEN d.amended[n] ELSE d.read[n]]

\* What can be read of the catalogs: the files Trino is pointed at, and the
\* Secret by name.  Once cut over the store is filled when the pod starts, and
\* nothing of it can be read.
Readable ==
    [n \in Names |-> IF ~cutover /\ files[n] # Absent THEN files[n] ELSE secret[n]]

InFlight == phase # "idle" \/ adopting # NoAdoption

\* A Cluster that Apchi has not touched, serving the Admin's files.
AdoptionInit ==
    /\ files \in Catalogs
    /\ live = files
    /\ secret = NoCatalogs /\ latest = NoCatalogs /\ base = NoCatalogs
    /\ target = NoCatalogs /\ baseline = NoCatalogs
    /\ plan = EmptyPlan
    /\ phase = "idle"
    /\ place = Where(secret)
    /\ cutover = FALSE
    /\ discovery = NoDocument
    /\ adopting = NoAdoption
    /\ number = 0 /\ mark = 0 /\ highest = 0

-----------------------------------------------------------------------------
(* The discovery document. *)

Stored(d) ==
    /\ discovery' = d
    /\ UNCHANGED <<vars, files, cutover, adopting, number, mark, highest>>

\* POST /discoveries: discover, then record, which keeps the amendments.
CreateDiscovery(asked) ==
    Stored([read |-> Readable,
            served |-> IF asked THEN In(live) ELSE {},
            asked |-> asked,
            amended |-> IF discovery = NoDocument THEN NoCatalogs ELSE discovery.amended])

\* PUT /discovery/catalogs/{name}: the Operator's answer, right or not.
AmendCatalog(n, version) ==
    /\ discovery # NoDocument
    /\ Stored([discovery EXCEPT !.amended[n] = version])

\* DELETE /discovery/catalogs/{name}
WithdrawAmendment(n) ==
    /\ discovery # NoDocument
    /\ discovery.amended[n] # Absent
    /\ Stored([discovery EXCEPT !.amended[n] = Absent])

\* DELETE /discovery
DiscardDiscovery == Stored(NoDocument)

\* A change to the Cluster that is not an Apply's: where it leaves the Cluster.
Disturbed == place' = IF place \in Catalogs THEN (Where(secret))' ELSE place

\* POST /seed: refused while anything is outstanding, and only then.  An
\* adopting Apply it pulls the Secret from under confirms nothing any more.
SeedCluster ==
    /\ discovery # NoDocument
    /\ Complete(discovery)
    /\ secret' = Resolved(discovery)
    /\ adopting' = IF adopting # NoAdoption /\ secret' # secret
                   THEN [adopting EXCEPT !.confirms = FALSE] ELSE adopting
    /\ live' = live
    /\ Disturbed
    /\ UNCHANGED <<latest, base, phase, target, baseline, plan>>
    /\ UNCHANGED <<files, cutover, discovery, number, mark, highest>>

\* Mutated: a Secret that names the catalog will do.
UnseededNames(d) == {n \in In(Resolved(d)) : secret[n] = Absent}

\* unseeded: where the Secret is not what the discovery would have written.
Unseeded(d) == {n \in Names : secret[n] # Resolved(d)[n]}

\* POST /adopt: its refusals, then the Candidate and an Apply record.  through
\* is discard_history_through, 0 when it is not given.
Adopt(through) ==
    /\ number = 0
    /\ mark = 0 \/ through = mark
    /\ ~InFlight
    /\ discovery # NoDocument
    /\ Complete(discovery)
    /\ cutover
    /\ Unseeded(discovery) = {}
    /\ adopting' = [desired |-> Resolved(discovery), served |-> discovery.served,
                    before |-> live, confirms |-> live = Resolved(discovery),
                    through |-> through]
    /\ UNCHANGED <<vars, files, cutover, discovery, number, mark, highest>>

-----------------------------------------------------------------------------
(* Applies: the engine of CatalogApply. *)

\* The Apply an adoption started, or anyone's.
StartApply ==
    /\ IF adopting # NoAdoption
       THEN Validate(adopting.desired, base)
       ELSE \/ \E desired \in Catalogs : Validate(desired, base)
            \/ Validate(latest, latest)
    /\ UNCHANGED adoptionVars

\* Validation finds a catalog in the way, or fails for any other reason: the
\* deployment, the probe or a service.  Nothing was delivered.
AdoptionRefused ==
    /\ phase = "idle"
    /\ adopting # NoAdoption
    /\ adopting' = NoAdoption
    /\ UNCHANGED <<vars, files, cutover, discovery, number, mark, highest>>

ApplyStep ==
    /\ \/ Apply \/ Delivered \/ Verify \/ Fails \/ Restore
       \/ \E n \in Names :
            CreateCatalog(n) \/ ReplaceDrop(n) \/ ReplaceCreate(n) \/ DropCatalog(n)
    /\ UNCHANGED adoptionVars

\* Mutated: the mark is what was committed last.
RaisedToLast(n) == n

\* HighWaterMark.record never lowers the mark.
Raised(n) == IF mark >= n THEN mark ELSE n

\* Engine.commit; the mark is best effort.
CommitSnapshot(marked, reset) ==
    /\ number < MaxSnapshots
    /\ Commit(reset)
    /\ number' = number + 1
    /\ mark' = IF marked THEN Raised(number') ELSE mark
    /\ highest' = IF marked /\ number' > highest THEN number' ELSE highest
    /\ adopting' = NoAdoption
    /\ UNCHANGED <<files, cutover, discovery>>

ApplyEnds ==
    /\ Restored \/ RestoreStops \/ CommitFails
    /\ adopting' = NoAdoption
    /\ UNCHANGED <<files, cutover, discovery, number, mark, highest>>

-----------------------------------------------------------------------------
(* The Cluster, the Admin and the database. *)

Unmarked == UNCHANGED <<discovery, number, mark, highest>>

\* The coordinator's pod starts, between Applies, and loads its store.
PodStarts ==
    /\ phase = "idle"
    /\ live' = IF cutover THEN secret ELSE files
    /\ UNCHANGED <<secret, latest, base, phase, target, baseline, plan>>
    /\ place' = (Where(secret))'
    /\ adopting' = IF adopting # NoAdoption /\ live' # live
                   THEN [adopting EXCEPT !.confirms = FALSE] ELSE adopting
    /\ UNCHANGED <<files, cutover>> /\ Unmarked

\* The Admin re-points the deployment: before the seed or after it.
CutOver ==
    /\ ~cutover /\ ~InFlight
    /\ cutover' = TRUE
    /\ UNCHANGED <<vars, files, adopting>> /\ Unmarked

\* Somebody else's CREATE or DROP CATALOG, while the Cluster is unmanaged.
OtherStatement(n, content) ==
    /\ number = 0 /\ ~InFlight
    /\ (live[n] = Absent) # (content = Absent)
    /\ live' = [live EXCEPT ![n] = content]
    /\ secret' = secret
    /\ Disturbed
    /\ UNCHANGED <<latest, base, phase, target, baseline, plan>>
    /\ UNCHANGED <<files, cutover, adopting>> /\ Unmarked

\* Apchi finds its database empty.
DatabaseLost ==
    /\ ~InFlight
    /\ number > 0
    /\ number' = 0
    /\ latest' = NoCatalogs
    /\ base' = NoCatalogs
    /\ discovery' = NoDocument
    /\ UNCHANGED <<live, secret, phase, target, baseline, plan, place>>
    /\ UNCHANGED <<files, cutover, adopting, mark, highest>>

AdoptionNext ==
    \/ \E asked \in BOOLEAN : CreateDiscovery(asked)
    \/ \E n \in Names, v \in Versions : AmendCatalog(n, v)
    \/ \E n \in Names : WithdrawAmendment(n)
    \/ DiscardDiscovery \/ SeedCluster
    \/ \E through \in 0..MaxSnapshots : Adopt(through)
    \/ StartApply \/ AdoptionRefused \/ ApplyStep \/ ApplyEnds
    \/ \E marked, reset \in BOOLEAN : CommitSnapshot(marked, reset)
    \/ PodStarts \/ CutOver \/ DatabaseLost
    \/ \E n \in Names, c \in Versions \cup {Absent} : OtherStatement(n, c)

AdoptionSpec == AdoptionInit /\ [][AdoptionNext]_allVars

-----------------------------------------------------------------------------
(* Properties. *)

\* Adoption loses nothing that was running: when the adopting Apply commits,
\* every catalog Trino served at the reading it was adopted from, the ones Apchi
\* could not read included, is in Snapshot 1 and served.
AdoptionTakesNothing ==
    [][adopting # NoAdoption /\ number' > number =>
        adopting.served \subseteq In(latest') \cap In(live')]_allVars

\* On a Cluster that runs what it was seeded with, the adopting Apply confirms:
\* no catalog is in its way, and short of a rollback it changes none ("A seed that
\* wrote something else would make the Apply after the cutover a change rather
\* than a confirmation", seed.py).
AdoptionConfirms ==
    [][adopting # NoAdoption /\ adopting.confirms =>
        /\ live' = live \/ phase = "restoring"
        /\ phase = "idle" =>
              Collisions(Settled(Plan(adopting.desired, base), adopting.desired)) = {}]_allVars

\* No adoption numbers Snapshots from 1 again over a history the mark was told
\* of, however the database was lost since, unless the Admin repeats how far that
\* history went.
HistoryConfirmed ==
    [][adopting = NoAdoption /\ adopting' # NoAdoption =>
        highest = 0 \/ adopting'.through = highest]_allVars

\* The rollback of an Apply before the first Snapshot "undoes exactly what this
\* Apply did" (Engine.roll_back, engine.py:208).
RollbackUndoesApply ==
    [][Restored /\ adopting # NoAdoption => live = adopting.before]_allVars
=============================================================================
