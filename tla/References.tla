----------------------------- MODULE References -----------------------------
(***************************************************************************)
(* What one Section's resources imply about another's files: a Catalog     *)
(* names Client Certificates, which must be mounted wherever the Catalog   *)
(* is live, and a deployment that points Trino at the Event Listener file  *)
(* needs that file to be there.  A request looks at the one resource in    *)
(* front of it; Reverts, Rollbacks and imports replace whole Sections; the *)
(* whole Candidate is judged once, at Validate; and an Apply delivers the  *)
(* Sections one after the other, and puts them back the same way.          *)
(*                                                                         *)
(* A Catalog is the set of certificates it names, by its certificate field *)
(* or by tokens in its properties.  Catalogs are delivered as differences, *)
(* which reach what is asked for when the Cluster runs what they are taken *)
(* from: not after a commit or a restore that did not run to its end, by a *)
(* failure or a restart.  What they leave then is the business of          *)
(* CatalogApply, and any catalogs here; when Trino reads a file is that of *)
(* FileDelivery.                                                           *)
(* What gets past the freeze of the Candidate during an Apply is that of   *)
(* ApplyPipeline: an Apply delivers what it captured, and a change made    *)
(* while it ran is, here, one made when it was over.                       *)
(***************************************************************************)
EXTENDS Naturals, Sequences, SequencesExt, FiniteSets

CONSTANTS
    CatalogNames, Certificates,
    ListenerNames,          \* ranks of names
    MaxCertificates,        \* what client_certificate_max_bytes leaves room for
    MaxSnapshots,           \* bound: Snapshots committed
    FromDeployment,         \* event_listener_config_files_from_deployment
    Seeded                  \* the listener file the Admin put there before Apchi

ASSUME ReferencesAssumption ==
    /\ ListenerNames \subseteq Nat /\ MaxCertificates \in Nat /\ MaxSnapshots \in Nat
    /\ FromDeployment \in BOOLEAN /\ Seeded \notin ListenerNames

VARIABLES
    staged,         \* the Candidate
    committed,      \* the Snapshots, in order
    applying,       \* the Apply in flight: its stage, what it delivers, for whom, and how far
    live,           \* the catalogs the Cluster serves
    mounted,        \* the certificates and the listener file the Cluster holds
    unsettled       \* history: a commit or a restore did not run to its end

referencesVars == <<staged, committed, applying, live, mounted, unsettled>>

MAX_LISTENERS == 1
REGISTERED == <<"catalogs", "certificates", "listeners">>
NoCatalogs == [n \in {} |-> {}]
Empty == [catalogs |-> NoCatalogs, certificates |-> {}, listeners |-> {}]

CatalogMaps == UNION {[N -> SUBSET Certificates] : N \in SUBSET CatalogNames}

Documents ==
    [catalogs : CatalogMaps,
     certificates : SUBSET Certificates, listeners : SUBSET ListenerNames]

Latest == IF committed = <<>> THEN Empty ELSE Last(committed)

-----------------------------------------------------------------------------
(* The checks. *)

Referenced(catalogs) == UNION {catalogs[n] : n \in DOMAIN catalogs}
MissingCertificates(d) == Referenced(d.catalogs) \ d.certificates
CertificateInUse(d, c) == c \in Referenced(d.catalogs)

\* Mutant of CannotEmpty: judged by the change rather than by the state.
CannotEmptyTransition(d) == FromDeployment /\ d.listeners = {} /\ Latest.listeners # {}

CannotEmpty(d) == FromDeployment /\ d.listeners = {}

\* The listener file: the first name's, when several are staged.
ListenerFile(names) == {n \in names : \A m \in names : n <= m}

-----------------------------------------------------------------------------
(* Edits, each of them the load, the change and the save of one request.    *)

\* Nothing is edited while an Apply is in flight; an incident ends when an Admin says so.
Unfrozen == applying.stage \in {"idle", "incident"}

Edit(section, to) ==
    /\ Unfrozen
    /\ staged' = [staged EXCEPT ![section] = to]
    /\ UNCHANGED <<committed, applying, live, mounted, unsettled>>

StoreCertificate(c) ==
    /\ Cardinality(staged.certificates \cup {c}) <= MaxCertificates
    /\ Edit("certificates", staged.certificates \cup {c})

DeleteCertificate(c) ==
    /\ c \in staged.certificates /\ ~CertificateInUse(staged, c)
    /\ Edit("certificates", staged.certificates \ {c})

CreateCatalog(n, named) ==
    /\ n \notin DOMAIN staged.catalogs
    /\ Edit("catalogs", [m \in DOMAIN staged.catalogs \cup {n} |->
                            IF m = n THEN named ELSE staged.catalogs[m]])

UpdateCatalog(n, named) ==
    /\ n \in DOMAIN staged.catalogs
    /\ Edit("catalogs", [staged.catalogs EXCEPT ![n] = named])

DeleteCatalog(n) ==
    /\ n \in DOMAIN staged.catalogs
    /\ Edit("catalogs", [m \in DOMAIN staged.catalogs \ {n} |-> staged.catalogs[m]])

CreateEventListener(n) ==
    /\ n \notin staged.listeners /\ Cardinality(staged.listeners) < MAX_LISTENERS
    /\ Edit("listeners", staged.listeners \cup {n})

DeleteEventListener(n) ==
    /\ n \in staged.listeners
    /\ ~CannotEmpty([staged EXCEPT !.listeners = @ \ {n}])
    /\ Edit("listeners", staged.listeners \ {n})

SectionRevert(section, number) == Edit(section, committed[number][section])

Stage(document) ==
    /\ Unfrozen
    /\ staged' = document
    /\ UNCHANGED <<committed, applying, live, mounted, unsettled>>

FullRollback(number) == Stage(committed[number])

\* To the Snapshot the Candidate derives from: the latest, unless a commit failed after it had
\* made that one.
Reset ==
    \/ Stage(Latest)
    \/ unsettled /\ \E base \in {Empty} \cup Range(committed) : Stage(base)

\* An import is read back one resource at a time.
ImportDocument(document) == Stage(document)

-----------------------------------------------------------------------------
(* Applying.  An Operator's Apply delivers the Candidate and commits it; an *)
(* Admin's delivers the latest Snapshot and commits nothing.                *)

Idle == [stage |-> "idle", desired |-> Empty, admin |-> FALSE, done |-> 0]

Validate(desired, admin) ==
    /\ Unfrozen
    /\ Len(committed) < MaxSnapshots
    /\ ~CannotEmpty(desired) /\ MissingCertificates(desired) = {}
    /\ applying' = [stage |-> "apply", desired |-> desired, admin |-> admin, done |-> 0]
    /\ UNCHANGED <<staged, committed, live, mounted, unsettled>>

\* The next Section's turn, whether it is being applied or put back.
DeliverSection ==
    /\ applying.stage \in {"apply", "restore"} /\ applying.done < Len(REGISTERED)
    /\ LET section == REGISTERED[applying.done + 1]
           d == applying.desired
       IN  /\ \/ section = "catalogs" /\ live' \in IF unsettled THEN CatalogMaps ELSE {d.catalogs}
              \/ section # "catalogs" /\ live' = live
           /\ mounted' = CASE section = "certificates" ->
                                 [mounted EXCEPT !.certificates = d.certificates]
                           [] section = "listeners" ->
                                 [mounted EXCEPT !.listener = ListenerFile(d.listeners)]
                           [] OTHER -> mounted
    /\ applying' = [applying EXCEPT !.done = @ + 1]
    /\ UNCHANGED <<staged, committed, unsettled>>

\* Verification passed.  The Candidate is derived anew from the Snapshot it became.
Commit ==
    /\ applying.stage = "apply" /\ applying.done = Len(REGISTERED)
    /\ IF applying.admin
       THEN UNCHANGED <<staged, committed>>
       ELSE committed' = Append(committed, applying.desired) /\ staged' = applying.desired
    /\ applying' = Idle
    /\ UNCHANGED <<live, mounted, unsettled>>

\* The Apply fails, and nothing is put back: the Snapshot may not have been made, or may have
\* been and the Candidate not derived from it.  A restart at this stage has the same outcome.
CommitFails ==
    /\ applying.stage = "apply" /\ applying.done = Len(REGISTERED) /\ ~applying.admin
    /\ committed' \in {committed, Append(committed, applying.desired)}
    /\ applying' = Idle /\ unsettled' = TRUE
    /\ UNCHANGED <<staged, live, mounted>>

\* A delivery, the Rollout or Verification fails, or Apchi restarts in one of them: everything
\* goes back to the latest Snapshot.
ApplyFails ==
    /\ applying.stage = "apply"
    /\ applying' = [applying EXCEPT !.stage = "restore", !.desired = Latest, !.done = 0]
    /\ UNCHANGED <<staged, committed, live, mounted, unsettled>>

Restored ==
    /\ applying.stage = "restore" /\ applying.done = Len(REGISTERED)
    /\ applying' = Idle
    /\ UNCHANGED <<staged, committed, live, mounted, unsettled>>

\* The one attempt does not run to its end.
Unrestored(stage) ==
    /\ applying.stage = "restore"
    /\ applying' = [Idle EXCEPT !.stage = stage]
    /\ unsettled' = (unsettled \/ applying.done < Len(REGISTERED))
    /\ UNCHANGED <<staged, committed, live, mounted>>

\* It raises.
RestoreFails == Unrestored("incident")

\* Apchi restarts: the Apply is a failed one by then, or becomes one, nothing is put back, and
\* there is no incident.
RestoreStops == Unrestored("idle")

-----------------------------------------------------------------------------

ReferencesInit ==
    /\ staged = Empty /\ committed = <<>> /\ applying = Idle /\ live = NoCatalogs
    /\ unsettled = FALSE
    /\ mounted = [certificates |-> {}, listener |-> IF FromDeployment THEN {Seeded} ELSE {}]

ReferencesNext ==
    \/ \E c \in Certificates : StoreCertificate(c) \/ DeleteCertificate(c)
    \/ \E n \in CatalogNames, named \in SUBSET Certificates :
          CreateCatalog(n, named) \/ UpdateCatalog(n, named)
    \/ \E n \in CatalogNames : DeleteCatalog(n)
    \/ \E n \in ListenerNames : CreateEventListener(n) \/ DeleteEventListener(n)
    \/ \E number \in DOMAIN committed, section \in Range(REGISTERED) :
          SectionRevert(section, number)
    \/ \E number \in DOMAIN committed : FullRollback(number)
    \/ Reset
    \/ \E document \in Documents : ImportDocument(document)
    \/ Validate(staged, FALSE) \/ Validate(Latest, TRUE)
    \/ DeliverSection \/ Commit \/ CommitFails
    \/ ApplyFails \/ Restored \/ RestoreFails \/ RestoreStops

ReferencesSpec == ReferencesInit /\ [][ReferencesNext]_referencesVars

-----------------------------------------------------------------------------

\* "A Catalog naming a Client Certificate is the first rule of that kind to span two Sections"
\* (validate_candidate): with no Apply in flight, every certificate a live Catalog names is
\* mounted, whichever edits, Reverts, imports, failed Applies, restarts and Admin Applies came
\* between, as long as no commit and no restore was left unfinished.  And "the next restart
\* leaves a coordinator that cannot come back" (EventListenersSection.check): a Cluster whose
\* deployment names the listener file has one from the first Snapshot on, at every moment and
\* whatever was left unfinished.  Before that Snapshot a failed Apply restores nothing, and
\* empties the Admin's own file.
ClusterHoldsWhatItNames ==
    /\ applying.stage = "idle" /\ ~unsettled => Referenced(live) \subseteq mounted.certificates
    /\ FromDeployment /\ committed # <<>> => mounted.listener # {}

=============================================================================
