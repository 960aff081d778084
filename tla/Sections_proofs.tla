--------------------------- MODULE Sections_proofs ---------------------------
(***************************************************************************)
(* Proofs about what the Sections say: References, for any catalogs,       *)
(* certificates and listeners and any number of Snapshots; ResourceGroups, *)
(* for any paths and selectors; CertificateMapping, for any principals and *)
(* patterns; and History, for any resources, callers and page size and any *)
(* number of events and instants.  Permissions has a module of its own.    *)
(***************************************************************************)
EXTENDS References, ResourceGroups, CertificateMapping, History, Lists_proofs,
        SequenceTheorems

-----------------------------------------------------------------------------
(* The inductive invariant. *)

Applyings == [stage: {"idle", "apply", "restore", "incident"}, desired: Documents,
              admin: BOOLEAN, done: 0..3]

\* The Candidate, the Snapshots, the Apply and the Cluster hold what the code puts there.
ReferencesTypeOK ==
    /\ staged \in Documents /\ committed \in Seq(Documents)
    /\ applying \in Applyings
    /\ live \in CatalogMaps
    /\ mounted \in [certificates: SUBSET Certificates, listener: SUBSET (ListenerNames \cup {Seeded})]
    /\ unsettled \in BOOLEAN

\* What an Apply may deliver.
Sound(d) == MissingCertificates(d) = {} /\ ~CannotEmpty(d)

\* Every Snapshot passed the checks that the whole Candidate passes at Validate.
SnapshotsSound == \A i \in DOMAIN committed : Sound(committed[i])

\* What is on its way passed them too, or is a Snapshot, or is nothing at all.
DesiredSound ==
    applying.stage \in {"apply", "restore"} =>
        /\ MissingCertificates(applying.desired) = {}
        /\ CannotEmpty(applying.desired) => applying.stage = "restore" /\ committed = <<>>

\* As far as it got, the Cluster holds what is on its way; the Catalogs, where the differences
\* are taken from what it runs.
DeliveredSoFar ==
    applying.stage \in {"apply", "restore"} =>
        /\ applying.done >= 1 => live = applying.desired.catalogs \/ unsettled
        /\ applying.done >= 2 => mounted.certificates = applying.desired.certificates
        /\ applying.done >= 3 => mounted.listener = ListenerFile(applying.desired.listeners)

ReferencesInv ==
    /\ ReferencesTypeOK /\ SnapshotsSound /\ DesiredSound /\ DeliveredSoFar
    /\ ClusterHoldsWhatItNames

-----------------------------------------------------------------------------
(* Facts about the operators. *)

\* A Section with listeners has a file.
LEMMA ListenerFileIs ==
    ASSUME NEW names \in SUBSET ListenerNames
    PROVE  /\ ListenerFile(names) \in SUBSET (ListenerNames \cup {Seeded})
           /\ names # {} => ListenerFile(names) # {}
<1>1. names \in SUBSET Nat
  BY ReferencesAssumption
<1>2. QED BY <1>1, Least DEF ListenerFile

\* What a Section of a document may be.
Fits(section, to) ==
    \/ section = "catalogs" /\ to \in CatalogMaps
    \/ section = "certificates" /\ to \in SUBSET Certificates
    \/ section = "listeners" /\ to \in SUBSET ListenerNames

\* A document is its three Sections.
LEMMA DocumentIs ==
    ASSUME NEW d \in Documents
    PROVE  /\ Fits("catalogs", d.catalogs) /\ Fits("certificates", d.certificates)
           /\ Fits("listeners", d.listeners)
           /\ \A section \in {"catalogs", "certificates", "listeners"} : Fits(section, d[section])
           /\ \A section, to : Fits(section, to) => [d EXCEPT ![section] = to] \in Documents
<1> USE DEF CatalogMaps
<1>1. /\ d.catalogs \in CatalogMaps /\ d.certificates \in SUBSET Certificates
      /\ d.listeners \in SUBSET ListenerNames
  BY DEF Documents
<1>2. \A section \in {"catalogs", "certificates", "listeners"} : Fits(section, d[section])
  BY <1>1 DEF Fits
<1>3. ASSUME NEW section, NEW to, Fits(section, to)
      PROVE  [d EXCEPT ![section] = to] \in Documents
  <2>1. CASE section = "catalogs"
    BY <1>3, <2>1 DEF Fits, Documents
  <2>2. CASE section = "certificates"
    BY <1>3, <2>2 DEF Fits, Documents
  <2>3. CASE section = "listeners"
    BY <1>3, <2>3 DEF Fits, Documents
  <2>4. QED BY <1>3, <2>1, <2>2, <2>3 DEF Fits
<1>4. QED BY <1>1, <1>2, <1>3 DEF Fits

\* The Cluster before Apchi, and a Candidate that derives from nothing.
LEMMA EmptyIs == Empty \in Documents /\ NoCatalogs \in CatalogMaps /\ MissingCertificates(Empty) = {}
<1>1. NoCatalogs \in [{} -> SUBSET Certificates] /\ DOMAIN NoCatalogs = {}
  BY DEF NoCatalogs
<1>2. NoCatalogs \in CatalogMaps
  BY <1>1 DEF CatalogMaps
<1>3. Empty \in Documents
  BY <1>2 DEF Empty, Documents, CatalogMaps
<1>4. MissingCertificates(Empty) = {}
  BY <1>1 DEF MissingCertificates, Referenced, Empty
<1>5. QED BY <1>2, <1>3, <1>4

\* The latest Snapshot, or nothing.
LEMMA LatestIs ==
    ASSUME ReferencesInv
    PROVE  /\ Latest \in Documents /\ MissingCertificates(Latest) = {}
           /\ CannotEmpty(Latest) => committed = <<>>
<1>1. CASE committed = <<>>
  BY <1>1, EmptyIs DEF Latest
<1>2. CASE committed # <<>>
  <2>1. committed \in Seq(Documents)
    BY DEF ReferencesInv, ReferencesTypeOK
  <2>2. Len(committed) \in DOMAIN committed /\ Latest = committed[Len(committed)]
    BY <1>2, <2>1 DEF Latest, Last
  <2>3. committed[Len(committed)] \in Documents
    BY <2>1, <2>2
  <2>4. Sound(committed[Len(committed)])
    BY <2>2 DEF ReferencesInv, SnapshotsSound
  <2>5. QED BY <2>2, <2>3, <2>4 DEF Sound
<1>3. QED BY <1>1, <1>2

-----------------------------------------------------------------------------
(* The steps. *)

\* Nothing is served, and the Admin's own listener file is the one mounted.
LEMMA InitInv == ReferencesInit => ReferencesInv
<1> SUFFICES ASSUME ReferencesInit PROVE ReferencesInv
  OBVIOUS
<1>1. /\ committed = <<>> /\ applying.stage = "idle" /\ live = NoCatalogs /\ DOMAIN NoCatalogs = {}
      /\ unsettled = FALSE
  BY DEF ReferencesInit, Idle, NoCatalogs
<1>2. ReferencesTypeOK
  <2>1. applying \in Applyings
    BY EmptyIs DEF Applyings, ReferencesInit, Idle
  <2>2. mounted \in [certificates: SUBSET Certificates,
                     listener: SUBSET (ListenerNames \cup {Seeded})]
    BY DEF ReferencesInit
  <2>3. staged \in Documents /\ committed \in Seq(Documents) /\ live \in CatalogMaps
    BY <1>1, EmptyIs DEF ReferencesInit
  <2>4. unsettled \in BOOLEAN
    BY <1>1
  <2>5. QED BY <2>1, <2>2, <2>3, <2>4 DEF ReferencesTypeOK
<1>3. SnapshotsSound /\ DesiredSound /\ DeliveredSoFar
  BY <1>1 DEF SnapshotsSound, DesiredSound, DeliveredSoFar
<1>4. ClusterHoldsWhatItNames
  BY <1>1 DEF ClusterHoldsWhatItNames, Referenced
<1>5. QED BY <1>2, <1>3, <1>4 DEF ReferencesInv

\* Edits, Reverts, Rollbacks, Resets and imports change the Candidate alone.
LEMMA StagedInv ==
    ASSUME ReferencesInv, staged' \in Documents, UNCHANGED <<committed, applying, live, mounted, unsettled>>
    PROVE  ReferencesInv'
BY DEF ReferencesInv, ReferencesTypeOK, SnapshotsSound, DesiredSound, DeliveredSoFar,
   ClusterHoldsWhatItNames, Sound, CannotEmpty

\* One Section of it is replaced.
LEMMA EditInv ==
    ASSUME ReferencesInv, NEW section, NEW to, Fits(section, to), Edit(section, to)
    PROVE  ReferencesInv'
<1>1. staged \in Documents
  BY DEF ReferencesInv, ReferencesTypeOK
<1>2. staged' \in Documents /\ UNCHANGED <<committed, applying, live, mounted, unsettled>>
  BY <1>1, DocumentIs DEF Edit
<1>3. QED BY <1>2, StagedInv

\* Each request leaves a Section that is one.
LEMMA RequestInv ==
    ASSUME ReferencesInv,
           \/ \E c \in Certificates : StoreCertificate(c) \/ DeleteCertificate(c)
           \/ \E n \in CatalogNames, named \in SUBSET Certificates :
                 CreateCatalog(n, named) \/ UpdateCatalog(n, named)
           \/ \E n \in CatalogNames : DeleteCatalog(n)
           \/ \E n \in ListenerNames : CreateEventListener(n) \/ DeleteEventListener(n)
    PROVE  ReferencesInv'
<1>1. /\ staged \in Documents /\ staged.certificates \in SUBSET Certificates
      /\ staged.listeners \in SUBSET ListenerNames
      /\ staged.catalogs \in CatalogMaps
  BY DocumentIs DEF ReferencesInv, ReferencesTypeOK, Fits
<1>2. PICK N \in SUBSET CatalogNames : staged.catalogs \in [N -> SUBSET Certificates]
  BY <1>1 DEF CatalogMaps
<1>3. ASSUME NEW c \in Certificates, StoreCertificate(c) \/ DeleteCertificate(c)
      PROVE  ReferencesInv'
  <2>1. PICK to \in SUBSET Certificates : Edit("certificates", to)
    BY <1>1, <1>3 DEF StoreCertificate, DeleteCertificate
  <2>2. QED BY <2>1, EditInv DEF Fits
<1>4. ASSUME NEW n \in CatalogNames, NEW named \in SUBSET Certificates, CreateCatalog(n, named)
      PROVE  ReferencesInv'
  <2> DEFINE to == [m \in DOMAIN staged.catalogs \cup {n} |->
                      IF m = n THEN named ELSE staged.catalogs[m]]
  <2>1. to \in [N \cup {n} -> SUBSET Certificates] /\ N \cup {n} \in SUBSET CatalogNames
    BY <1>2
  <2>2. Edit("catalogs", to)
    BY <1>4 DEF CreateCatalog
  <2> HIDE DEF to
  <2>3. to \in CatalogMaps
    BY <2>1 DEF CatalogMaps
  <2>4. QED BY <2>2, <2>3, EditInv DEF Fits
<1>5. ASSUME NEW n \in CatalogNames, NEW named \in SUBSET Certificates, UpdateCatalog(n, named)
      PROVE  ReferencesInv'
  <2> DEFINE to == [staged.catalogs EXCEPT ![n] = named]
  <2>1. to \in [N -> SUBSET Certificates] /\ Edit("catalogs", to)
    BY <1>2, <1>5 DEF UpdateCatalog
  <2> HIDE DEF to
  <2>2. to \in CatalogMaps
    BY <2>1 DEF CatalogMaps
  <2>3. QED BY <2>1, <2>2, EditInv DEF Fits
<1>6. ASSUME NEW n \in CatalogNames, DeleteCatalog(n)
      PROVE  ReferencesInv'
  <2> DEFINE to == [m \in DOMAIN staged.catalogs \ {n} |-> staged.catalogs[m]]
  <2>1. to \in [N \ {n} -> SUBSET Certificates] /\ N \ {n} \in SUBSET CatalogNames
    BY <1>2
  <2>2. Edit("catalogs", to)
    BY <1>6 DEF DeleteCatalog
  <2> HIDE DEF to
  <2>3. to \in CatalogMaps
    BY <2>1 DEF CatalogMaps
  <2>4. QED BY <2>2, <2>3, EditInv DEF Fits
<1>7. ASSUME NEW n \in ListenerNames, CreateEventListener(n) \/ DeleteEventListener(n)
      PROVE  ReferencesInv'
  <2>1. PICK to \in SUBSET ListenerNames : Edit("listeners", to)
    BY <1>1, <1>7 DEF CreateEventListener, DeleteEventListener
  <2>2. QED BY <2>1, EditInv DEF Fits
<1>8. QED BY <1>3, <1>4, <1>5, <1>6, <1>7

\* A Revert, a Rollback, a Reset or an import stages documents, whatever they miss.
LEMMA StageInv ==
    ASSUME ReferencesInv,
           \/ \E number \in DOMAIN committed, section \in Range(REGISTERED) :
                 SectionRevert(section, number)
           \/ \E number \in DOMAIN committed : FullRollback(number)
           \/ Reset
           \/ \E document \in Documents : ImportDocument(document)
    PROVE  ReferencesInv'
<1>1. committed \in Seq(Documents) /\ \A number \in DOMAIN committed : committed[number] \in Documents
  BY DEF ReferencesInv, ReferencesTypeOK
<1>2. ASSUME NEW number \in DOMAIN committed, NEW section \in Range(REGISTERED),
             SectionRevert(section, number)
      PROVE  ReferencesInv'
  <2>1. section \in {"catalogs", "certificates", "listeners"}
    BY DEF Range, REGISTERED
  <2>2. Fits(section, committed[number][section])
    BY <1>1, <2>1, DocumentIs
  <2>3. QED BY <1>2, <2>2, EditInv DEF SectionRevert
<1>3. ASSUME NEW document \in Documents, Stage(document)
      PROVE  ReferencesInv'
  BY <1>3, StagedInv DEF Stage
<1>4. ASSUME NEW number \in DOMAIN committed, FullRollback(number) PROVE ReferencesInv'
  BY <1>1, <1>3, <1>4 DEF FullRollback
<1>5. CASE Reset
  <2>1. \A base \in {Empty} \cup Range(committed) : base \in Documents
    BY <1>1, EmptyIs DEF Range
  <2>2. QED BY <1>3, <1>5, <2>1, LatestIs DEF Reset
<1>6. QED BY <1>2, <1>3, <1>4, <1>5 DEF ImportDocument

\* An Apply starts with what passed the checks over the whole Candidate.
LEMMA ValidateInv ==
    ASSUME ReferencesInv, Validate(staged, FALSE) \/ Validate(Latest, TRUE)
    PROVE  ReferencesInv'
<1>1. PICK desired \in Documents, admin \in BOOLEAN : Validate(desired, admin)
  BY LatestIs DEF ReferencesInv, ReferencesTypeOK
<1>2. /\ applying' = [stage |-> "apply", desired |-> desired, admin |-> admin, done |-> 0]
      /\ UNCHANGED <<staged, committed, live, mounted, unsettled>>
      /\ MissingCertificates(desired) = {} /\ ~CannotEmpty(desired)
  BY <1>1 DEF Validate
<1>3. applying'.stage = "apply" /\ applying'.desired = desired /\ applying'.done = 0
  BY <1>2
<1>4. ReferencesTypeOK'
  BY <1>2 DEF Applyings, ReferencesInv, ReferencesTypeOK
<1>5. SnapshotsSound'
  BY <1>2 DEF ReferencesInv, SnapshotsSound, Sound, CannotEmpty
<1>6. DesiredSound' /\ DeliveredSoFar' /\ ClusterHoldsWhatItNames'
  BY <1>2, <1>3
     DEF ReferencesInv, DesiredSound, DeliveredSoFar, ClusterHoldsWhatItNames, CannotEmpty
<1>7. QED BY <1>4, <1>5, <1>6 DEF ReferencesInv

\* One Section after another, in the order they are registered.
LEMMA DeliverInv == ASSUME ReferencesInv, DeliverSection PROVE ReferencesInv'
<1> DEFINE d == applying.desired
           section == REGISTERED[applying.done + 1]
<1>1. /\ ReferencesTypeOK /\ applying.stage \in {"apply", "restore"} /\ applying.done \in 0..2
      /\ applying' = [applying EXCEPT !.done = applying.done + 1]
      /\ UNCHANGED <<staged, committed, unsettled>>
      /\ d \in Documents
  BY DEF Applyings, ReferencesInv, ReferencesTypeOK, DeliverSection, REGISTERED
<1>2. /\ applying'.stage = applying.stage /\ applying'.desired = d
      /\ applying'.done = applying.done + 1 /\ applying'.done \in 0..3
      /\ applying' \in Applyings
  BY <1>1 DEF Applyings, ReferencesTypeOK
<1>3. /\ section = "catalogs" <=> applying.done = 0
      /\ section = "certificates" <=> applying.done = 1
      /\ section = "listeners" <=> applying.done = 2
  BY <1>1 DEF REGISTERED
<1>4. /\ d.catalogs \in CatalogMaps /\ d.certificates \in SUBSET Certificates
      /\ d.listeners \in SUBSET ListenerNames
  BY <1>1, DocumentIs DEF Fits
<1>5. ListenerFile(d.listeners) \in SUBSET (ListenerNames \cup {Seeded})
  BY <1>4, ListenerFileIs
<1>6. /\ applying.done = 0 => live' = d.catalogs \/ (unsettled /\ live' \in CatalogMaps)
      /\ applying.done # 0 => live' = live
      /\ applying.done = 0 => mounted' = mounted
      /\ applying.done = 1 => mounted' = [mounted EXCEPT !.certificates = d.certificates]
      /\ applying.done = 2 => mounted' = [mounted EXCEPT !.listener = ListenerFile(d.listeners)]
  <2>1. \/ section = "catalogs" /\ live' \in IF unsettled THEN CatalogMaps ELSE {d.catalogs}
        \/ section # "catalogs" /\ live' = live
    BY DEF DeliverSection
  <2>2. mounted' = CASE section = "certificates" ->
                             [mounted EXCEPT !.certificates = d.certificates]
                     [] section = "listeners" ->
                             [mounted EXCEPT !.listener = ListenerFile(d.listeners)]
                     [] OTHER -> mounted
    BY DEF DeliverSection
  <2>3. CASE applying.done = 0
    <3>1. section = "catalogs"
      BY <1>3, <2>3
    <3> HIDE DEF section
    <3>2. QED BY <2>1, <2>2, <2>3, <3>1
  <2>4. CASE applying.done = 1
    <3>1. section = "certificates"
      BY <1>3, <2>4
    <3> HIDE DEF section
    <3>2. live' = live
      BY <2>1, <3>1
    <3>3. mounted' = [mounted EXCEPT !.certificates = d.certificates]
      BY <2>2, <3>1
    <3>4. QED BY <2>4, <3>2, <3>3
  <2>5. CASE applying.done = 2
    <3>1. section = "listeners"
      BY <1>3, <2>5
    <3> HIDE DEF section
    <3>2. live' = live
      BY <2>1, <3>1
    <3>3. mounted' = [mounted EXCEPT !.listener = ListenerFile(d.listeners)]
      BY <2>2, <3>1
    <3>4. QED BY <2>5, <3>2, <3>3
  <2>6. QED BY <1>1, <2>3, <2>4, <2>5
<1>7. ReferencesTypeOK'
  <2>1. live' \in CatalogMaps
    BY <1>1, <1>4, <1>6 DEF ReferencesTypeOK
  <2>2. mounted' \in [certificates: SUBSET Certificates,
                      listener: SUBSET (ListenerNames \cup {Seeded})]
    BY <1>1, <1>4, <1>5, <1>6 DEF ReferencesTypeOK
  <2>3. QED BY <1>1, <1>2, <2>1, <2>2 DEF ReferencesTypeOK
<1>8. SnapshotsSound' /\ ClusterHoldsWhatItNames'
  <2>1. SnapshotsSound' /\ applying'.stage # "idle"
    BY <1>1, <1>2 DEF ReferencesInv, SnapshotsSound, Sound, CannotEmpty
  <2>2. ASSUME FromDeployment, committed # <<>> PROVE mounted'.listener # {}
    <3>1. mounted.listener # {} /\ d.listeners # {}
      BY <1>1, <2>2 DEF ReferencesInv, ClusterHoldsWhatItNames, DesiredSound, CannotEmpty
    <3>2. ListenerFile(d.listeners) # {}
      BY <1>4, <3>1, ListenerFileIs
    <3>3. QED BY <1>1, <1>6, <3>1, <3>2 DEF ReferencesTypeOK
  <2>3. QED BY <1>1, <2>1, <2>2 DEF ClusterHoldsWhatItNames
<1>9. DesiredSound'
  BY <1>1, <1>2 DEF ReferencesInv, DesiredSound, CannotEmpty
<1>10. DeliveredSoFar'
  <2>1. CASE applying.done = 0
    BY <1>1, <1>2, <1>6, <2>1 DEF DeliveredSoFar
  <2>2. CASE applying.done = 1
    BY <1>1, <1>2, <1>6, <2>2 DEF ReferencesInv, ReferencesTypeOK, DeliveredSoFar
  <2>3. CASE applying.done = 2
    BY <1>1, <1>2, <1>6, <2>3 DEF ReferencesInv, ReferencesTypeOK, DeliveredSoFar
  <2>4. QED BY <1>1, <2>1, <2>2, <2>3
<1>11. QED BY <1>7, <1>8, <1>9, <1>10 DEF ReferencesInv

\* When all three were delivered, the Cluster has what the document names.
LEMMA AllDelivered ==
    ASSUME ReferencesInv, applying.stage \in {"apply", "restore"}, applying.done = 3
    PROVE  /\ unsettled \/ Referenced(live) \subseteq mounted.certificates
           /\ ~CannotEmpty(applying.desired) /\ FromDeployment => mounted.listener # {}
<1> DEFINE d == applying.desired
<1>1. /\ live = d.catalogs \/ unsettled
      /\ mounted.certificates = d.certificates
      /\ mounted.listener = ListenerFile(d.listeners)
      /\ MissingCertificates(d) = {} /\ d \in Documents
  BY DEF Applyings, ReferencesInv, DeliveredSoFar, DesiredSound, ReferencesTypeOK
<1>2. d.listeners \in SUBSET ListenerNames
  BY <1>1, DocumentIs DEF Fits
<1>3. QED BY <1>1, <1>2, ListenerFileIs DEF MissingCertificates, CannotEmpty

\* A commit, of an Operator's Apply or of an Admin's, or one that fails half way.
LEMMA CommitInv == ASSUME ReferencesInv, Commit \/ CommitFails PROVE ReferencesInv'
<1> DEFINE d == applying.desired
<1>1. /\ applying.stage = "apply" /\ applying.done = 3 /\ applying' = Idle
      /\ UNCHANGED <<live, mounted>> /\ d \in Documents
      /\ ReferencesTypeOK /\ committed \in Seq(Documents)
      /\ staged' \in {staged, d} /\ committed' \in {committed, Append(committed, d)}
      /\ unsettled' \in BOOLEAN /\ (unsettled => unsettled')
  BY DEF Applyings, Commit, CommitFails, REGISTERED, ReferencesInv, ReferencesTypeOK
<1>2. MissingCertificates(d) = {} /\ ~CannotEmpty(d)
  BY <1>1 DEF ReferencesInv, DesiredSound
<1>3. applying'.stage = "idle"
  BY <1>1 DEF Idle
<1>4. ReferencesTypeOK'
  <2>1. committed' \in Seq(Documents) /\ staged' \in Documents
    BY <1>1 DEF ReferencesTypeOK
  <2>2. applying' \in Applyings
    BY <1>1, EmptyIs DEF Applyings, Idle
  <2>3. QED BY <1>1, <2>1, <2>2 DEF ReferencesTypeOK
<1>5. SnapshotsSound'
  <2>1. CASE committed' = committed
    BY <2>1 DEF ReferencesInv, SnapshotsSound, Sound, CannotEmpty
  <2>2. CASE committed' = Append(committed, d)
    <3>1. \A i \in DOMAIN committed' :
             \/ i \in DOMAIN committed /\ committed'[i] = committed[i]
             \/ committed'[i] = d
      BY <1>1, <2>2
    <3>2. QED BY <1>2, <3>1 DEF ReferencesInv, SnapshotsSound, Sound, CannotEmpty
  <2>3. QED BY <1>1, <2>1, <2>2
<1>6. DesiredSound' /\ DeliveredSoFar'
  BY <1>3 DEF DesiredSound, DeliveredSoFar
<1>7. ClusterHoldsWhatItNames'
  BY <1>1, <1>2, AllDelivered DEF ClusterHoldsWhatItNames
<1>8. QED BY <1>4, <1>5, <1>6, <1>7 DEF ReferencesInv

\* A failed Apply turns to the latest Snapshot; its restore ends, fails too or is stopped.
LEMMA FailInv ==
    ASSUME ReferencesInv, ApplyFails \/ Restored \/ RestoreFails \/ RestoreStops
    PROVE  ReferencesInv'
<1>1. /\ ReferencesTypeOK /\ UNCHANGED <<staged, committed, live, mounted>>
      /\ unsettled' \in BOOLEAN /\ (unsettled => unsettled')
  BY DEF ReferencesInv, ReferencesTypeOK, ApplyFails, Restored, RestoreFails, RestoreStops,
         Unrestored
<1>2. SnapshotsSound'
  BY <1>1 DEF ReferencesInv, SnapshotsSound, Sound, CannotEmpty
<1>3. CASE ApplyFails
  <2>1. /\ applying' = [applying EXCEPT !.stage = "restore", !.desired = Latest, !.done = 0]
        /\ Latest \in Documents /\ MissingCertificates(Latest) = {}
        /\ CannotEmpty(Latest) => committed = <<>>
    BY <1>3, LatestIs DEF ApplyFails
  <2>2. /\ applying'.stage = "restore" /\ applying'.desired = Latest /\ applying'.done = 0
        /\ applying' \in Applyings
    <3>1. applying' = [stage |-> "restore", desired |-> Latest, admin |-> applying.admin, done |-> 0]
      BY <1>1, <2>1 DEF ReferencesTypeOK, Applyings
    <3>2. applying.admin \in BOOLEAN
      BY <1>1 DEF ReferencesTypeOK, Applyings
    <3>3. QED BY <2>1, <3>1, <3>2 DEF Applyings
  <2>3. ReferencesTypeOK'
    BY <1>1, <2>2 DEF ReferencesTypeOK
  <2>4. DesiredSound' /\ DeliveredSoFar' /\ ClusterHoldsWhatItNames'
    BY <1>1, <2>1, <2>2
       DEF ReferencesInv, DesiredSound, DeliveredSoFar, ClusterHoldsWhatItNames, CannotEmpty
  <2>5. QED BY <1>2, <2>3, <2>4 DEF ReferencesInv
<1>4. CASE Restored
  <2>1. applying.stage = "restore" /\ applying.done = 3 /\ applying' = Idle
    BY <1>4 DEF Restored, REGISTERED
  <2>2. /\ applying'.stage = "idle"
        /\ applying' \in Applyings
    BY <2>1, EmptyIs DEF Applyings, Idle
  <2>3. ReferencesTypeOK'
    BY <1>1, <2>2 DEF ReferencesTypeOK
  <2>4. ClusterHoldsWhatItNames'
    BY <1>1, <2>1, AllDelivered DEF ClusterHoldsWhatItNames, ReferencesInv, DesiredSound
  <2>5. DesiredSound' /\ DeliveredSoFar'
    BY <2>2 DEF DesiredSound, DeliveredSoFar
  <2>6. QED BY <1>2, <2>3, <2>4, <2>5 DEF ReferencesInv
<1>5. CASE RestoreFails \/ RestoreStops
  <2>1. PICK stage \in {"idle", "incident"} : Unrestored(stage)
    BY <1>5 DEF RestoreFails, RestoreStops
  <2>2. /\ applying'.stage = stage
        /\ applying' \in Applyings
    <3>1. applying' = [stage |-> stage, desired |-> Empty, admin |-> FALSE, done |-> 0]
      BY <2>1 DEF Unrestored, Idle
    <3>2. QED BY <3>1, EmptyIs DEF Applyings
  <2>3. ReferencesTypeOK'
    BY <1>1, <2>2 DEF ReferencesTypeOK
  <2>4. unsettled' \/ (applying.stage = "restore" /\ applying.done = 3)
    <3>1. applying.done \in 0..3
      BY <1>1 DEF ReferencesTypeOK, Applyings
    <3>2. Len(REGISTERED) = 3
      BY DEF REGISTERED
    <3>3. applying.stage = "restore" /\ unsettled' = (unsettled \/ applying.done < 3)
      BY <2>1, <3>2 DEF Unrestored
    <3>4. applying.done < 3 \/ applying.done = 3
      BY <3>1
    <3>5. QED BY <3>3, <3>4, Zenon
  <2>5. ClusterHoldsWhatItNames'
    BY <1>1, <2>4, AllDelivered DEF ClusterHoldsWhatItNames, ReferencesInv
  <2>6. DesiredSound' /\ DeliveredSoFar'
    BY <2>2 DEF DesiredSound, DeliveredSoFar
  <2>7. QED BY <1>2, <2>3, <2>5, <2>6 DEF ReferencesInv
<1>6. QED BY <1>3, <1>4, <1>5

\* Every step keeps the invariant.
LEMMA NextInv == ReferencesInv /\ [ReferencesNext]_referencesVars => ReferencesInv'
<1> SUFFICES ASSUME ReferencesInv, [ReferencesNext]_referencesVars PROVE ReferencesInv'
  OBVIOUS
<1>1. CASE UNCHANGED referencesVars
  <2>1. staged' \in Documents /\ UNCHANGED <<committed, applying, live, mounted, unsettled>>
    BY <1>1 DEF referencesVars, ReferencesInv, ReferencesTypeOK
  <2>2. QED BY <2>1, StagedInv
<1>2. CASE ReferencesNext
  BY <1>2, RequestInv, StageInv, ValidateInv, DeliverInv, CommitInv, FailInv DEF ReferencesNext
<1>3. QED BY <1>1, <1>2

-----------------------------------------------------------------------------
(* The theorems. *)

\* The inductive invariant holds in every reachable state.
THEOREM ReferencesInvariant == ReferencesSpec => []ReferencesInv
BY InitInv, NextInv, PTL DEF ReferencesSpec

\* Whatever was edited, reverted, imported or failed in between, and whenever Apchi was
\* restarted, a Cluster with no Apply in flight mounts every certificate its Catalogs name, as
\* long as no commit and no restore was left unfinished; and it has the listener file its
\* deployment names from the first Snapshot on, at every moment.
THEOREM NamesAreHeld == ReferencesSpec => []ClusterHoldsWhatItNames
<1>1. ReferencesInv => ClusterHoldsWhatItNames
  BY DEF ReferencesInv
<1>2. QED BY <1>1, ReferencesInvariant, PTL

-----------------------------------------------------------------------------
(* Resource Groups: the inductive invariant. *)

GroupsTypeOK ==
    /\ DOMAIN groups \subseteq Paths
    /\ groups \in [DOMAIN groups -> BOOLEAN]
    /\ selectors \in Seq(Selectors)
    /\ quota \in BOOLEAN /\ imported \in BOOLEAN

\* Edits keep the staged groups a tree: each has all its ancestors.
EditsKeepTree == ~imported => DOMAIN groups \subseteq InTree(DOMAIN groups)

GroupsInv == GroupsTypeOK /\ EditsKeepTree

\* The selectors a bound allows are sequences.
LEMMA ListsAreSequences == SelectorLists \subseteq Seq(Selectors)
BY ResourceGroupsAssumption DEF SelectorLists, SeqOf

\* A path and what is above it.
LEMMA PathFacts ==
    ASSUME NEW p \in Paths \cup {Legacy}
    PROVE  /\ p \in Seq(STRING) /\ Len(p) \in Nat \ {0} /\ SubSeq(p, 1, Len(p)) = p
           /\ \A n \in 1..Len(p) : Len(SubSeq(p, 1, n)) = n
           /\ \A n \in 1..(Len(p) - 1) : \A m \in 1..n :
                 SubSeq(SubSeq(p, 1, n), 1, m) = SubSeq(p, 1, m)
<1>1. p \in Seq(STRING) /\ p # <<>>
  BY ResourceGroupsAssumption
<1>2. Len(p) \in Nat \ {0}
  BY <1>1, EmptySeq
<1>3. SubSeq(p, 1, Len(p)) = p
  BY <1>1, SubSeqFull
<1>4. ASSUME NEW n \in 1..Len(p) PROVE Len(SubSeq(p, 1, n)) = n
  BY <1>1, <1>2, SubSeqProperties
<1>5. ASSUME NEW n \in 1..(Len(p) - 1), NEW m \in 1..n
      PROVE  SubSeq(SubSeq(p, 1, n), 1, m) = SubSeq(p, 1, m)
  BY <1>1, <1>2, SubSeqOfSubSeq
<1>6. QED BY <1>1, <1>2, <1>3, <1>4, <1>5

\* A group added under its parent has all its ancestors.
LEMMA AddKeepsTree ==
    ASSUME NEW P \in SUBSET Paths, P \subseteq InTree(P), NEW p \in Paths,
           IsRoot(p) \/ ParentOf(p) \in P
    PROVE  P \cup {p} \subseteq InTree(P \cup {p})
<1>1. SUFFICES ASSUME NEW q \in P \cup {p}, NEW n \in 1..Len(q)
               PROVE  SubSeq(q, 1, n) \in P \cup {p}
  BY DEF InTree
<1>2. CASE q \in P
  BY <1>2 DEF InTree
<1>3. CASE q = p /\ n = Len(p)
  BY <1>3, PathFacts
<1>4. CASE q = p /\ n # Len(p)
  <2>1. n \in 1..(Len(p) - 1) /\ Len(p) \in Nat /\ Len(p) - 1 \in 1..(Len(p) - 1)
    BY <1>1, <1>4, PathFacts
  <2>2. ParentOf(p) \in P /\ ParentOf(p) = SubSeq(p, 1, Len(p) - 1)
    <3>1. \A k \in Nat : n \in 1..(k - 1) => k # 1
      OBVIOUS
    <3>2. Len(p) # 1
      BY <2>1, <3>1
    <3>3. QED BY <3>2 DEF IsRoot, ParentOf, Front
  <2>3. Len(ParentOf(p)) = Len(p) - 1
    BY <2>1, <2>2, PathFacts
  <2>4. SubSeq(ParentOf(p), 1, n) \in P
    BY <2>1, <2>2, <2>3 DEF InTree
  <2>5. SubSeq(ParentOf(p), 1, n) = SubSeq(p, 1, n)
    BY <2>1, <2>2, PathFacts
  <2>6. QED BY <1>4, <2>4, <2>5
<1>5. QED BY <1>2, <1>3, <1>4

\* A group without subgroups is nobody's ancestor.
LEMMA DeleteKeepsTree ==
    ASSUME NEW P \in SUBSET Paths, P \subseteq InTree(P), NEW p \in P,
           ChildrenOf(P, p) = {}
    PROVE  P \ {p} \subseteq InTree(P \ {p})
<1>1. SUFFICES ASSUME NEW q \in P \ {p}, NEW n \in 1..Len(q)
               PROVE  SubSeq(q, 1, n) \in P \ {p}
  BY DEF InTree
<1>2. /\ q \in Paths /\ Len(q) \in Nat /\ SubSeq(q, 1, Len(q)) = q
      /\ SubSeq(q, 1, n) \in P
  BY <1>1, PathFacts DEF InTree
<1>3. SUFFICES ASSUME SubSeq(q, 1, n) = p PROVE FALSE
  BY <1>2
<1>4. n # Len(q)
  BY <1>1, <1>2, <1>3
<1>5. n + 1 \in 1..Len(q) /\ n \in 1..(Len(q) - 1) /\ n \in Nat \ {0}
  <2>1. Len(q) \in Nat /\ n \in 1..Len(q) /\ n # Len(q)
    BY <1>1, <1>2, <1>4
  <2>2. QED BY ONLY <2>1
<1>6. DEFINE child == SubSeq(q, 1, n + 1)
<1>7. child \in P /\ Len(child) = n + 1
  BY <1>1, <1>2, <1>5, PathFacts DEF InTree
<1>8. ParentOf(child) = p
  <2>1. ParentOf(child) = SubSeq(child, 1, n)
    BY <1>5, <1>7 DEF ParentOf, Front
  <2>2. CASE n + 1 = Len(q)
    BY <1>2, <1>3, <2>1, <2>2
  <2>3. CASE n + 1 # Len(q)
    <3>1. n + 1 \in 1..(Len(q) - 1) /\ n \in 1..(n + 1)
      <4>1. Len(q) \in Nat /\ n + 1 \in 1..Len(q) /\ n + 1 # Len(q) /\ n \in Nat \ {0}
        BY <1>2, <1>5, <2>3
      <4>2. QED BY ONLY <4>1
    <3>2. SubSeq(child, 1, n) = SubSeq(q, 1, n)
      BY <1>2, <3>1, PathFacts
    <3>3. QED BY <1>3, <2>1, <3>2
  <2>4. QED BY <2>2, <2>3
<1>9. ~IsRoot(child)
  BY <1>5, <1>7 DEF IsRoot
<1>10. QED BY <1>7, <1>8, <1>9 DEF ChildrenOf

\* Every edit keeps the types and the tree; an import is known as one.
LEMMA GroupsStep == GroupsInv /\ [GroupsNext]_groupsVars => GroupsInv'
<1>1. SUFFICES ASSUME GroupsInv, [GroupsNext]_groupsVars PROVE GroupsInv'
  OBVIOUS
<1> USE DEF GroupsInv, GroupsTypeOK, EditsKeepTree
<1>2. CASE UNCHANGED groupsVars
  BY <1>1, <1>2 DEF groupsVars
<1>3. ASSUME NEW p \in Paths, NEW cpu \in BOOLEAN, AddGroup(p, cpu) \/ EditGroup(p, cpu)
      PROVE  GroupsInv'
  <2>1. CASE AddGroup(p, cpu)
    <3>1. DOMAIN groups' = DOMAIN groups \cup {p}
      BY <2>1 DEF AddGroup
    <3>2. groups' \in [DOMAIN groups' -> BOOLEAN]
      BY <1>1, <2>1, <3>1 DEF AddGroup
    <3>3. QED BY <1>1, <2>1, <3>1, <3>2, AddKeepsTree DEF AddGroup
  <2>2. CASE EditGroup(p, cpu)
    <3>1. DOMAIN groups' = DOMAIN groups /\ groups' \in [DOMAIN groups' -> BOOLEAN]
      BY <1>1, <2>2 DEF EditGroup
    <3>2. QED BY <1>1, <2>2, <3>1 DEF EditGroup
  <2>3. QED BY <1>3, <2>1, <2>2
<1>4. ASSUME NEW p \in Paths, DeleteGroup(p)
      PROVE  GroupsInv'
  <2>1. /\ DOMAIN groups' = DOMAIN groups \ {p}
        /\ groups' \in [DOMAIN groups' -> BOOLEAN]
    BY <1>1, <1>4 DEF DeleteGroup
  <2>2. QED BY <1>1, <1>4, <2>1, DeleteKeepsTree DEF DeleteGroup
<1>5. ASSUME NEW s \in SelectorLists, SetSelectors(s)
      PROVE  GroupsInv'
  BY <1>1, <1>5, ListsAreSequences DEF SetSelectors
<1>6. ASSUME NEW q \in BOOLEAN, SetSettings(q)
      PROVE  GroupsInv'
  BY <1>1, <1>6 DEF SetSettings
<1>7. QED BY <1>1, <1>2, <1>3, <1>4, <1>5, <1>6 DEF GroupsNext

\* Nothing staged is a tree, and what an import let in need not be.
LEMMA GroupsStart == GroupsInit => GroupsInv
<1>1. SUFFICES ASSUME GroupsInit PROVE GroupsInv
  OBVIOUS
<1>2. CASE groups = [p \in {} |-> FALSE] /\ selectors = <<>> /\ quota = FALSE /\ imported = FALSE
  <2>1. DOMAIN groups = {} /\ groups \in [{} -> BOOLEAN] /\ selectors \in Seq(Selectors)
    BY <1>2
  <2>2. QED BY <1>2, <2>1 DEF GroupsInv, GroupsTypeOK, EditsKeepTree
<1>3. CASE /\ groups \in UNION {[P -> BOOLEAN] : P \in SUBSET Paths}
           /\ selectors \in SelectorLists
           /\ quota \in BOOLEAN /\ imported = TRUE
  <2>1. PICK P \in SUBSET Paths : groups \in [P -> BOOLEAN]
    BY <1>3
  <2>2. QED BY <1>3, <2>1, ListsAreSequences DEF GroupsInv, GroupsTypeOK, EditsKeepTree
<1>4. QED BY <1>1, <1>2, <1>3 DEF GroupsInit

\* The invariant of the staged groups.
THEOREM GroupsInvariant == GroupsSpec => []GroupsInv
BY GroupsStart, GroupsStep, PTL DEF GroupsSpec

-----------------------------------------------------------------------------
(* Resource Groups: what the rendered rules do. *)

Matching(s, facts) == {i \in DOMAIN s : s[i].fits /\ (s[i].hidden => i \in facts)}

\* The group a query gets is that of the first selector that matches.
LEMMA ChosenFacts ==
    ASSUME NEW f, f.selectors \in Seq(Selectors), NEW facts
    PROVE  \/ Matching(f.selectors, facts) = {} /\ Chosen(f, facts) = NoGroup
           \/ \E i \in Matching(f.selectors, facts) :
                 /\ \A j \in Matching(f.selectors, facts) : i <= j
                 /\ Chosen(f, facts) = f.selectors[i].group
<1> DEFINE M == Matching(f.selectors, facts)
<1>1. Chosen(f, facts) = IF M = {} THEN NoGroup
                         ELSE f.selectors[CHOOSE i \in M : \A j \in M : i <= j].group
  BY DEF Chosen, Matching
<1>2. M \in SUBSET Nat
  BY DEF Matching
<1>3. CASE M = {}
  BY <1>1, <1>3
<1>4. CASE M # {}
  <2>1. \E i \in M : \A j \in M : i <= j
    BY <1>2, <1>4, Least
  <2> HIDE DEF M
  <2> DEFINE i == CHOOSE i \in M : \A j \in M : i <= j
  <2>2. i \in M /\ \A j \in M : i <= j
    BY <2>1
  <2>3. Chosen(f, facts) = f.selectors[i].group
    BY <1>1, <1>4
  <2>4. QED BY <2>2, <2>3 DEF M
<1>5. QED BY <1>3, <1>4

\* A path without a template is the path of the group its queries run in.
LEMMA LiteralStays == ASSUME NEW p \in Paths \cup {Legacy}, Literal(p) PROVE Expand(p) = p
<1>1. p \in Seq(STRING)
  BY ResourceGroupsAssumption
<1>2. p = [n \in 1..Len(p) |-> p[n]]
  BY <1>1
<1>3. QED BY <1>2 DEF Literal, Expand

\* A single file decides where a query goes.
LEMMA ReachedOf ==
    ASSUME NEW f, NEW facts
    PROVE  Reached({f}, facts)
             = IF /\ Chosen(f, facts) # NoGroup
                  /\ ChildrenOf({Expand(p) : p \in DOMAIN f.groups}, Expand(Chosen(f, facts))) = {}
               THEN Expand(Chosen(f, facts)) ELSE NoGroup
<1>1. (CHOOSE x \in {f} : TRUE) = f
  OBVIOUS
<1>2. QED BY <1>1 DEF Reached

\* The default rules start Trino and send every query to the legacy group.
LEMMA DefaultFacts ==
    /\ TrinoStarts({DefaultRules})
    /\ \A facts : Chosen(DefaultRules, facts) = Legacy /\ Reached({DefaultRules}, facts) = Legacy
<1>1. /\ DOMAIN DefaultRules.groups = {Legacy} /\ DefaultRules.groups[Legacy] = FALSE
      /\ DefaultRules.quota = FALSE
  BY DEF DefaultRules
<1>2. /\ DOMAIN DefaultRules.selectors = {1} /\ DefaultRules.selectors[1].group = Legacy
      /\ DefaultRules.selectors[1].fits = TRUE /\ DefaultRules.selectors[1].hidden = FALSE
  BY DEF DefaultRules
<1>3. TrinoStarts({DefaultRules})
  BY <1>1, <1>2 DEF TrinoStarts
<1>4. ASSUME NEW facts
      PROVE  Chosen(DefaultRules, facts) = Legacy /\ Reached({DefaultRules}, facts) = Legacy
  <2> DEFINE M == {i \in DOMAIN DefaultRules.selectors :
                     DefaultRules.selectors[i].fits
                       /\ (DefaultRules.selectors[i].hidden => i \in facts)}
  <2>1. M = {1}
    BY <1>2
  <2>2. (CHOOSE i \in M : \A j \in M : i <= j) = 1
    BY <2>1
  <2>3. Chosen(DefaultRules, facts) = Legacy
    BY <1>2, <2>1, <2>2 DEF Chosen
  <2>4. ChildrenOf({Legacy}, Legacy) = {}
    <3>1. Len(Legacy) \in Nat \ {0}
      BY PathFacts
    <3>2. ASSUME ~IsRoot(Legacy), ParentOf(Legacy) = Legacy PROVE FALSE
      <4>1. Len(Legacy) - 1 \in 1..Len(Legacy) /\ Len(Legacy) - 1 # Len(Legacy)
        <5>1. \A k \in Nat \ {0} : k # 1 => k - 1 \in 1..k /\ k - 1 # k
          OBVIOUS
        <5>2. QED BY <3>1, <3>2, <5>1 DEF IsRoot
      <4>2. Len(SubSeq(Legacy, 1, Len(Legacy) - 1)) = Len(Legacy) - 1
        BY <4>1, PathFacts
      <4>3. QED BY <3>2, <4>1, <4>2 DEF ParentOf, Front
    <3>3. QED BY <3>2 DEF ChildrenOf
  <2>5. Expand(Legacy) = Legacy
    BY ResourceGroupsAssumption, LiteralStays DEF Literal
  <2>6. {Expand(p) : p \in DOMAIN DefaultRules.groups} = {Legacy}
    BY <1>1, <2>5
  <2>7. QED BY <2>3, <2>4, <2>5, <2>6, ReachedOf
<1>5. QED BY <1>3, <1>4

\* The two ways of mounting differ only where nothing is staged.
LEMMA DeliveriesAre ==
    \/ /\ IsEmpty(groups, selectors)
       /\ Render(groups, selectors, quota) = {}
       /\ RenderRulesOnly(groups, selectors, quota) = {DefaultRules}
    \/ /\ ~IsEmpty(groups, selectors)
       /\ Render(groups, selectors, quota) = {RenderRules(groups, selectors, quota)}
       /\ RenderRulesOnly(groups, selectors, quota) = {RenderRules(groups, selectors, quota)}
BY DEF Render, RenderRulesOnly

\* What the rendered file holds.
LEMMA RulesAre ==
    LET f == RenderRules(groups, selectors, quota)
    IN  /\ DOMAIN f.groups = InTree(DOMAIN groups)
        /\ \A p \in InTree(DOMAIN groups) : f.groups[p] = groups[p]
        /\ f.selectors = selectors /\ f.quota = quota
BY DEF RenderRules

-----------------------------------------------------------------------------
(* Resource Groups: the theorems. *)

\* Both ways of mounting an emptied or a filled Section send every query to the same
\* group, and edits alone never leave a staged group out of the file.
THEOREM StagedIsRendered == GroupsSpec => []RulesSayWhatIsStaged
<1>1. ASSUME GroupsInv PROVE RulesSayWhatIsStaged
  <2>1. \A facts : Reached({}, facts) = Legacy
    BY DEF Reached
  <2>2. \A facts \in SUBSET (DOMAIN selectors) :
          Reached(Render(groups, selectors, quota), facts)
            = Reached(RenderRulesOnly(groups, selectors, quota), facts)
    BY <2>1, DeliveriesAre, DefaultFacts
  <2>3. ~imported => InTree(DOMAIN groups) = DOMAIN groups
    BY <1>1 DEF GroupsInv, EditsKeepTree, InTree
  <2>4. ASSUME ~imported, ~IsEmpty(groups, selectors), NEW files \in Deliveries, NEW f \in files
        PROVE  DOMAIN f.groups = DOMAIN groups
    BY <2>3, <2>4, DeliveriesAre, RulesAre DEF Deliveries
  <2>5. QED BY <2>2, <2>4 DEF RulesSayWhatIsStaged
<1>2. QED BY <1>1, GroupsInvariant, PTL

\* A Candidate that passes the checks starts Trino whichever way it is mounted, and no
\* query that a selector claims is refused.
THEOREM ChecksAreEnough == GroupsSpec => []CheckedStarts
<1>1. ASSUME GroupsInv PROVE CheckedStarts
  <2>1. SUFFICES ASSUME Check(groups, selectors, quota),
                        imported => \A i \in DOMAIN selectors :
                                      selectors[i].group \in InTree(DOMAIN groups),
                        NEW files \in Deliveries
                 PROVE  /\ TrinoStarts(files)
                        /\ (\A p \in DOMAIN groups : Literal(p)) =>
                              \A f \in files, facts \in SUBSET (DOMAIN selectors) :
                                  Chosen(f, facts) # NoGroup => Reached(files, facts) # NoGroup
    BY DEF CheckedStarts
  <2>2. \A i \in DOMAIN selectors : /\ selectors[i].group \in InTree(DOMAIN groups)
                                    /\ ChildrenOf(DOMAIN groups, selectors[i].group) = {}
    BY <1>1, <2>1 DEF Check, GroupsInv, EditsKeepTree
  <2>3. CASE files = {}
    BY <2>3 DEF TrinoStarts
  <2>4. CASE files = {DefaultRules}
    BY <2>4, DefaultFacts
  <2>5. CASE files = {RenderRules(groups, selectors, quota)}
    <3> DEFINE f == RenderRules(groups, selectors, quota)
    <3>1. TrinoStarts({f})
      <4>1. \A p \in DOMAIN f.groups : f.groups[p] => f.quota
        BY <2>1, RulesAre DEF Check, InTree
      <4>2. QED BY <2>2, <4>1, RulesAre DEF TrinoStarts
    <3>2. ASSUME \A p \in DOMAIN groups : Literal(p), NEW facts, Chosen(f, facts) # NoGroup
          PROVE  Reached({f}, facts) # NoGroup
      <4>1. f.selectors = selectors /\ selectors \in Seq(Selectors)
        BY <1>1, RulesAre DEF GroupsInv, GroupsTypeOK
      <4>2. PICK i \in Matching(selectors, facts) : Chosen(f, facts) = selectors[i].group
        BY <3>2, <4>1, ChosenFacts
      <4>3. ChildrenOf(DOMAIN f.groups, Chosen(f, facts)) = {}
        BY <2>2, <4>2, RulesAre DEF Matching, ChildrenOf, InTree
      <4>4. DOMAIN f.groups \subseteq DOMAIN groups /\ Chosen(f, facts) \in DOMAIN groups
        BY <2>2, <4>2, RulesAre DEF Matching, InTree
      <4>5. \A p \in DOMAIN groups : Expand(p) = p
        BY <1>1, <3>2, LiteralStays DEF GroupsInv, GroupsTypeOK
      <4> HIDE DEF f
      <4>6. {Expand(p) : p \in DOMAIN f.groups} = DOMAIN f.groups
        BY <4>4, <4>5
      <4>7. Expand(Chosen(f, facts)) = Chosen(f, facts)
        BY <4>4, <4>5
      <4>8. QED BY <3>2, <4>3, <4>6, <4>7, ReachedOf
    <3>3. QED BY <2>5, <3>1, <3>2
  <2>6. QED BY <2>3, <2>4, <2>5, DeliveriesAre DEF Deliveries
<1>2. QED BY <1>1, GroupsInvariant, PTL

\* The selector the prediction rests on: none fits or is hidden, or it is the first.
LEMMA PredictionRestsOn ==
    ASSUME NEW s \in Seq(Selectors)
    PROVE  \/ GroupFor(s).group = NoGroup
           \/ \E i \in DOMAIN s :
                 /\ s[i].fits \/ s[i].hidden
                 /\ \A j \in DOMAIN s : s[j].fits \/ s[j].hidden => i <= j
                 /\ GroupFor(s).certain = ~s[i].hidden /\ GroupFor(s).group = s[i].group
<1> DEFINE I == {i \in 1..Len(s) : s[i].fits \/ s[i].hidden}
<1>1. DOMAIN s = 1..Len(s) /\ Len(s) \in Nat
  OBVIOUS
<1>2. GroupFor(s) = LET i == IF I # {} THEN Min(I) ELSE 0
                    IN  IF i = 0 THEN [certain |-> TRUE, group |-> NoGroup]
                        ELSE [certain |-> ~s[i].hidden, group |-> s[i].group]
  BY DEF GroupFor, SelectInSeq
<1>3. I \in SUBSET Nat /\ 0 \notin I
  BY <1>1
<1>4. CASE I = {}
  <2>1. GroupFor(s) = [certain |-> TRUE, group |-> NoGroup]
    BY <1>2, <1>4
  <2>2. QED BY <2>1
<1>5. CASE I # {}
  <2>1. \E i \in I : \A j \in I : i <= j
    BY <1>3, <1>5, Least
  <2>2. Min(I) \in I /\ \A j \in I : Min(I) <= j
    <3> HIDE DEF I
    <3>1. QED BY <2>1 DEF Min
  <2>3. GroupFor(s) = [certain |-> ~s[Min(I)].hidden, group |-> s[Min(I)].group]
    BY <1>2, <1>3, <1>5, <2>2
  <2>4. GroupFor(s).certain = ~s[Min(I)].hidden /\ GroupFor(s).group = s[Min(I)].group
    BY <2>3
  <2>5. Min(I) \in DOMAIN s /\ (s[Min(I)].fits \/ s[Min(I)].hidden)
    BY <1>1, <2>2
  <2>6. \A j \in DOMAIN s : s[j].fits \/ s[j].hidden => Min(I) <= j
    BY <1>1, <2>2
  <2>7. QED BY <2>4, <2>5, <2>6
<1>6. QED BY <1>4, <1>5

\* Verification never rejects the group in which a Cluster that runs the delivered rules
\* puts its query, whatever the selectors it cannot evaluate turn out to do.
THEOREM PredictionHolds == GroupsSpec => []PredictionIsRight
<1>1. ASSUME GroupsInv PROVE PredictionIsRight
  <2>1. SUFFICES ASSUME GroupFor(selectors).group # NoGroup => Literal(GroupFor(selectors).group),
                        NEW files \in Deliveries, NEW facts
                 PROVE  Verify(selectors, Reached(files, facts))
    BY DEF PredictionIsRight
  <2>2. CASE IsEmpty(groups, selectors)
    BY <2>2 DEF IsEmpty, Verify
  <2>3. CASE ~IsEmpty(groups, selectors)
    <3> DEFINE f == RenderRules(groups, selectors, quota)
    <3>1. files = {f}
      BY <2>1, <2>3, DeliveriesAre DEF Deliveries
    <3>2. f.selectors = selectors /\ selectors \in Seq(Selectors)
      BY <1>1, RulesAre DEF GroupsInv, GroupsTypeOK
    <3>3. \/ Reached(files, facts) = NoGroup
          \/ Chosen(f, facts) # NoGroup /\ Reached(files, facts) = Expand(Chosen(f, facts))
      <4> HIDE DEF f
      <4>1. QED BY <3>1, ReachedOf
    <3>4. SUFFICES ASSUME GroupFor(selectors).certain, GroupFor(selectors).group # NoGroup,
                          Chosen(f, facts) # NoGroup
                   PROVE  /\ Chosen(f, facts) = GroupFor(selectors).group
                          /\ Chosen(f, facts) \in Paths
      <4> HIDE DEF f
      <4>1. QED BY <2>1, <3>3, LiteralStays DEF Verify
    <3>5. PICK i \in DOMAIN selectors :
            /\ selectors[i].fits /\ ~selectors[i].hidden
            /\ \A j \in DOMAIN selectors : selectors[j].fits \/ selectors[j].hidden => i <= j
            /\ GroupFor(selectors).group = selectors[i].group
      BY <3>2, <3>4, PredictionRestsOn
    <3>6. PICK k \in Matching(selectors, facts) :
            /\ \A j \in Matching(selectors, facts) : k <= j
            /\ Chosen(f, facts) = selectors[k].group
      <4>1. f.selectors \in Seq(Selectors)
        BY <3>2
      <4>2. \E k \in Matching(f.selectors, facts) :
              /\ \A j \in Matching(f.selectors, facts) : k <= j
              /\ Chosen(f, facts) = f.selectors[k].group
        BY <3>4, <4>1, ChosenFacts
      <4>3. QED BY <3>2, <4>2
    <3>7. i \in Matching(selectors, facts) /\ i \in Nat /\ k \in Nat
      BY <3>2, <3>5, <3>6 DEF Matching
    <3>8. k <= i /\ i <= k
      BY <3>5, <3>6, <3>7 DEF Matching
    <3>9. selectors[k].group \in Paths
      <4>1. k \in DOMAIN selectors
        BY <3>6 DEF Matching
      <4>2. selectors[k] \in Selectors
        BY <3>2, <4>1
      <4>3. QED BY <4>2 DEF Selectors
    <3>10. QED BY <3>5, <3>6, <3>7, <3>8, <3>9
  <2>4. QED BY <2>2, <2>3
<1>2. QED BY <1>1, GroupsInvariant, PTL

-----------------------------------------------------------------------------
(* Certificate Mapping: the inductive invariant. *)

\* One plain pattern at most is staged, and while there is an adopted list, it is the
\* staged pattern and Apchi's own rules that account for it.
MappingInv ==
    /\ mapping \in Seq(PlainRules) /\ Len(mapping) <= 1
    /\ keptPatterns \in Seq(PlainRules)
    /\ adopted \in Seq(HandRules)
    /\ adopted # <<>> =>
          keptPatterns = <<>> /\ ParsedMapping(adopted) = [mapping |-> mapping, complete |-> TRUE]

\* Apchi's own rules are plain, and a plain rule is a rule.
LEMMA OwnRules ==
    /\ ReservedRule \in PlainRules /\ UnchangedRule \in PlainRules /\ PlainRules \subseteq HandRules
    /\ DOMAIN ReservedRule.maps = {Self} /\ ReservedRule.maps[Self] = Self
    /\ DOMAIN UnchangedRule.maps = Principals
    /\ \A p \in Principals : UnchangedRule.maps[p] = p
<1>1. [p \in {Self} |-> Self] \in [{Self} -> Derived] /\ {Self} \in SUBSET Principals
  BY CertificateMappingAssumption
<1>2. [p \in Principals |-> p] \in [Principals -> Derived]
  BY CertificateMappingAssumption
<1>3. [p \in {Self} |-> Self] \in Patterns /\ [p \in Principals |-> p] \in Patterns
  BY <1>1, <1>2 DEF Patterns
<1>4. QED BY <1>3 DEF ReservedRule, UnchangedRule, PlainRules, HandRules

\* The rule that decides is the first that matches.
LEMMA NamedIs ==
    ASSUME NEW rules \in Seq(HandRules), NEW p
    PROVE  \/ /\ \A j \in DOMAIN rules : p \notin DOMAIN rules[j].maps
              /\ Named(rules, p) = {}
           \/ \E i \in DOMAIN rules :
                 /\ p \in DOMAIN rules[i].maps
                 /\ \A j \in DOMAIN rules : p \in DOMAIN rules[j].maps => i <= j
                 /\ Named(rules, p) = IF rules[i].plain THEN {rules[i].maps[p]} ELSE {}
<1> DEFINE I == {i \in 1..Len(rules) : p \in DOMAIN rules[i].maps}
<1>1. DOMAIN rules = 1..Len(rules) /\ Len(rules) \in Nat
  OBVIOUS
<1>2. Named(rules, p) = LET i == IF I # {} THEN Min(I) ELSE 0
                        IN  IF i = 0 \/ ~rules[i].plain THEN {} ELSE {rules[i].maps[p]}
  BY DEF Named, SelectInSeq
<1>3. I \in SUBSET Nat /\ 0 \notin I
  BY <1>1
<1>4. CASE I = {}
  BY <1>1, <1>2, <1>4
<1>5. CASE I # {}
  <2>1. \E i \in I : \A j \in I : i <= j
    BY <1>3, <1>5, Least
  <2>2. Min(I) \in I /\ \A j \in I : Min(I) <= j
    <3> HIDE DEF I
    <3>1. QED BY <2>1 DEF Min
  <2>3. Named(rules, p) = IF rules[Min(I)].plain THEN {rules[Min(I)].maps[p]} ELSE {}
    BY <1>2, <1>3, <1>5, <2>2
  <2>4. Min(I) \in DOMAIN rules /\ p \in DOMAIN rules[Min(I)].maps
    BY <1>1, <2>2
  <2>5. \A j \in DOMAIN rules : p \in DOMAIN rules[j].maps => Min(I) <= j
    BY <1>1, <2>2
  <2>6. QED BY <2>3, <2>4, <2>5
<1>6. QED BY <1>4, <1>5

\* A list is its first rule and the rest of it.
LEMMA HeadAndTail ==
    ASSUME NEW S, NEW s \in Seq(S), s # <<>>
    PROVE  Tail(s) \in Seq(S) /\ s = <<Head(s)>> \o Tail(s)
<1>1. /\ Tail(s) \in Seq(S) /\ Len(Tail(s)) = Len(s) - 1 /\ Head(s) \in S
      /\ \A i \in 1..Len(Tail(s)) : Tail(s)[i] = s[i + 1]
  BY HeadTailProperties
<1>2. Len(s) \in Nat \ {0} /\ Head(s) = s[1] /\ <<Head(s)>> \in Seq(S)
  BY <1>1, EmptySeq
<1>3. <<Head(s)>> \o Tail(s) \in Seq(S) /\ Len(<<Head(s)>> \o Tail(s)) = Len(s)
  BY <1>1, <1>2
<1>4. ASSUME NEW i \in 1..Len(s) PROVE s[i] = (<<Head(s)>> \o Tail(s))[i]
  BY <1>1, <1>2
<1>5. QED BY <1>1, <1>3, <1>4, SeqEqual

\* A list is its last rule and what is before it.
LEMMA FrontAndLast ==
    ASSUME NEW S, NEW s \in Seq(S), s # <<>>
    PROVE  Front(s) \in Seq(S) /\ s = Front(s) \o <<Last(s)>>
<1>1. Len(s) \in Nat \ {0} /\ Last(s) = s[Len(s)] /\ <<Last(s)>> \in Seq(S)
  BY EmptySeq DEF Last
<1>2. /\ Front(s) \in Seq(S) /\ Len(Front(s)) = Len(s) - 1
      /\ \A i \in 1..(Len(s) - 1) : Front(s)[i] = s[i]
  <2>1. Len(s) - 1 \in Int /\ \A i \in 1..(Len(s) - 1) : s[i] \in S
    BY <1>1
  <2>2. /\ Front(s) \in Seq(S) /\ Len(Front(s)) = (IF 1 <= Len(s) - 1 THEN Len(s) - 1 - 1 + 1 ELSE 0)
        /\ \A i \in 1..(Len(s) - 1 - 1 + 1) : Front(s)[i] = s[1 + i - 1]
    BY <2>1, SubSeqProperties DEF Front
  <2> DEFINE n == Len(s)
             F == Front(s)
  <2>3. \A k \in Nat \ {0} : (IF 1 <= k - 1 THEN k - 1 - 1 + 1 ELSE 0) = k - 1
    OBVIOUS
  <2>4. \A k \in Nat \ {0} : \A i \in 1..(k - 1) : i \in 1..(k - 1 - 1 + 1) /\ 1 + i - 1 = i
    OBVIOUS
  <2>5. Len(F) = n - 1
    BY <1>1, <2>2, <2>3
  <2>6. ASSUME NEW i \in 1..(n - 1) PROVE F[i] = s[i]
    <3>1. i \in 1..(n - 1 - 1 + 1) /\ 1 + i - 1 = i
      BY <1>1, <2>4
    <3>2. QED BY <2>2, <3>1
  <2>7. QED BY <2>2, <2>5, <2>6
<1>3. Front(s) \o <<Last(s)>> \in Seq(S) /\ Len(Front(s) \o <<Last(s)>>) = Len(s)
  BY <1>1, <1>2
<1>4. ASSUME NEW i \in 1..Len(s) PROVE s[i] = (Front(s) \o <<Last(s)>>)[i]
  BY <1>1, <1>2
<1>5. QED BY <1>2, <1>3, <1>4, SeqEqual

\* A list wholly accounted for is the pattern it is read as, with or without Apchi's own
\* rules around it.
LEMMA CompleteIs ==
    ASSUME NEW rules \in Seq(HandRules), ParsedMapping(rules).complete
    PROVE  LET b == ParsedMapping(rules).mapping
           IN  /\ b \in Seq(PlainRules) /\ Len(b) <= 1
               /\ rules \in {b, <<ReservedRule>> \o b, b \o <<UnchangedRule>>,
                            <<ReservedRule>> \o (b \o <<UnchangedRule>>)}
<1> DEFINE rest == IF rules # <<>> /\ Head(rules) = ReservedRule THEN Tail(rules) ELSE rules
           body == IF rest # <<>> /\ Last(rest) = UnchangedRule THEN Front(rest) ELSE rest
           I == {i \in 1..Len(body) : body[i].plain}
           operator == IF I # {} THEN Min(I) ELSE 0
<1>1. ParsedMapping(rules) = [mapping |-> IF operator = 0 THEN <<>> ELSE <<body[operator]>>,
                              complete |-> \A i \in DOMAIN body : i = operator]
  BY DEF ParsedMapping, SelectInSeq
<1>2. rest \in Seq(HandRules) /\ rules \in {rest, <<ReservedRule>> \o rest}
  <2>1. CASE rules # <<>> /\ Head(rules) = ReservedRule
    BY <2>1, HeadAndTail
  <2>2. CASE ~(rules # <<>> /\ Head(rules) = ReservedRule)
    BY <2>2
  <2>3. QED BY <2>1, <2>2
<1>3. body \in Seq(HandRules) /\ rest \in {body, body \o <<UnchangedRule>>}
  <2> HIDE DEF rest
  <2>1. CASE rest # <<>> /\ Last(rest) = UnchangedRule
    BY <1>2, <2>1, FrontAndLast
  <2>2. CASE ~(rest # <<>> /\ Last(rest) = UnchangedRule)
    BY <1>2, <2>2
  <2>3. QED BY <2>1, <2>2
<1> HIDE DEF body, rest
<1>4. /\ ParsedMapping(rules).mapping = IF operator = 0 THEN <<>> ELSE <<body[operator]>>
      /\ \A i \in DOMAIN body : i = operator
  <2> HIDE DEF operator
  <2>1. ParsedMapping(rules).complete = (\A i \in DOMAIN body : i = operator)
    BY <1>1
  <2>2. QED BY <1>1, <2>1
<1>5. DOMAIN body = 1..Len(body) /\ Len(body) \in Nat
  BY <1>3
<1>6. I \in SUBSET Nat /\ 0 \notin I
  BY <1>5
<1>7. I # {} => operator \in I
  <2>1. ASSUME I # {} PROVE \E i \in I : \A j \in I : i <= j
    BY <1>6, <2>1, Least
  <2> HIDE DEF I
  <2>2. QED BY <2>1 DEF Min
<1>8. ParsedMapping(rules).mapping = body /\ Len(body) <= 1 /\ body \in Seq(PlainRules)
  <2>1. CASE I = {}
    <3>1. operator = 0
      BY <2>1
    <3> HIDE DEF operator, I
    <3>2. \A n \in Nat : (\A i \in 1..n : i = 0) => n = 0
      OBVIOUS
    <3>3. Len(body) = 0
      BY <1>4, <1>5, <3>1, <3>2
    <3>4. body = <<>>
      BY <1>3, <3>3, EmptySeq
    <3>5. QED BY <1>4, <3>1, <3>3, <3>4, EmptySeq
  <2>2. CASE I # {}
    <3>1. operator \in 1..Len(body) /\ body[operator].plain /\ operator # 0
      BY <1>6, <1>7, <2>2
    <3> HIDE DEF operator, I
    <3>2. \A n \in Nat : (\A i \in 1..n : i = operator) /\ operator \in 1..n => n = 1 /\ operator = 1
      OBVIOUS
    <3>3. Len(body) = 1 /\ operator = 1
      BY <1>4, <1>5, <3>1, <3>2
    <3>4. body[1] \in HandRules /\ body[1].plain
      <4>1. 1 \in DOMAIN body
        BY <1>5, <3>3
      <4>2. body[1] \in HandRules
        BY <1>3, <4>1
      <4>3. QED BY <3>1, <3>3, <4>2
    <3>5. body[1] \in PlainRules
      BY <3>4 DEF HandRules, PlainRules
    <3>6. <<body[1]>> \in Seq(PlainRules) /\ <<body[1]>> \in Seq(HandRules)
      BY <3>4, <3>5
    <3>7. body = <<body[1]>>
      BY <1>3, <3>3, <3>6, SeqEqual
    <3>8. ParsedMapping(rules).mapping = <<body[1]>>
      BY <1>4, <3>3
    <3>9. Len(body) <= 1
      BY <3>3
    <3>10. QED BY <3>6, <3>7, <3>8, <3>9, Zenon
  <2>3. QED BY <2>1, <2>2
<1>9. QED BY <1>2, <1>3, <1>8

\* Every edit keeps the invariant: an edit of either kind forgets the adopted list.
LEMMA MappingStep == MappingInv /\ [MappingNext]_mappingVars => MappingInv'
<1>1. SUFFICES ASSUME MappingInv, [MappingNext]_mappingVars PROVE MappingInv'
  OBVIOUS
<1> USE DEF MappingInv
<1>2. CASE UNCHANGED mappingVars
  BY <1>1, <1>2 DEF mappingVars
<1>3. ASSUME NEW r \in PlainRules, SetMapping(r) PROVE MappingInv'
  BY <1>1, <1>3 DEF SetMapping
<1>4. CASE ClearMapping
  BY <1>1, <1>4 DEF ClearMapping
<1>5. ASSUME NEW patterns \in PlainLists, SetPreservedMappings(patterns) PROVE MappingInv'
  <2>1. patterns \in Seq(PlainRules)
    BY <1>5, CertificateMappingAssumption DEF PlainLists, SeqOf
  <2>2. QED BY <1>1, <1>5, <2>1 DEF SetPreservedMappings
<1>6. QED BY <1>1, <1>2, <1>3, <1>4, <1>5 DEF MappingNext

\* Adoption takes a list only when it is wholly accounted for.
LEMMA MappingStart == MappingInit => MappingInv
<1>1. SUFFICES ASSUME MappingInit PROVE MappingInv
  OBVIOUS
<1>2. CASE mapping = <<>> /\ adopted = <<>>
  BY <1>1, <1>2 DEF MappingInit, MappingInv
<1>3. CASE /\ adopted \in SeqOf(HandRules, MaxHandRules)
           /\ ParsedMapping(adopted).complete /\ mapping = ParsedMapping(adopted).mapping
  <2>1. adopted \in Seq(HandRules)
    BY <1>3, CertificateMappingAssumption DEF SeqOf
  <2>2. mapping \in Seq(PlainRules) /\ Len(mapping) <= 1
    BY <1>3, <2>1, CompleteIs
  <2>3. ParsedMapping(adopted) = [mapping |-> mapping, complete |-> TRUE]
    <3>1. ParsedMapping(adopted)
            = [mapping |-> ParsedMapping(adopted).mapping, complete |-> ParsedMapping(adopted).complete]
      BY DEF ParsedMapping
    <3>2. ParsedMapping(adopted).complete \in BOOLEAN
      BY DEF ParsedMapping
    <3>3. QED BY <1>3, <3>1, <3>2
  <2>4. QED BY <1>1, <2>1, <2>2, <2>3 DEF MappingInit, MappingInv
<1>4. QED BY <1>1, <1>2, <1>3 DEF MappingInit

\* The invariant of the staged pattern.
THEOREM MappingInvariant == MappingSpec => []MappingInv
BY MappingStart, MappingStep, PTL DEF MappingSpec

-----------------------------------------------------------------------------
(* Certificate Mapping: what the list does. *)

\* The rendered list: Apchi's rule first, the rule that leaves every name alone last.
LEMMA RenderedIs ==
    ASSUME NEW m \in Seq(PlainRules), NEW kept \in Seq(PlainRules)
    PROVE  LET rules == MappingRules(m, kept)
           IN  /\ rules \in Seq(PlainRules) /\ rules \in Seq(HandRules)
               /\ Len(rules) = Len(m) + Len(kept) + 2
               /\ rules[1] = ReservedRule /\ rules[Len(rules)] = UnchangedRule
<1> DEFINE rules == MappingRules(m, kept)
<1>1. <<ReservedRule>> \in Seq(PlainRules) /\ <<UnchangedRule>> \in Seq(PlainRules)
  BY OwnRules
<1>2. rules \in Seq(PlainRules) /\ Len(rules) = Len(m) + Len(kept) + 2
  BY <1>1 DEF MappingRules
<1>3. rules[1] = ReservedRule /\ rules[Len(rules)] = UnchangedRule
  BY <1>1 DEF MappingRules
<1>4. rules \in Seq(HandRules)
  BY <1>2, OwnRules, SeqMonotonic
<1>5. QED BY <1>2, <1>3, <1>4

\* Without preserved patterns the list is the staged one between Apchi's own rules.
LEMMA PlainlyRendered ==
    ASSUME NEW m \in Seq(PlainRules)
    PROVE  MappingRules(m, <<>>) = <<ReservedRule>> \o (m \o <<UnchangedRule>>)
<1>1. <<ReservedRule>> \in Seq(PlainRules) /\ <<UnchangedRule>> \in Seq(PlainRules)
  BY OwnRules
<1>2. <<ReservedRule>> \o m \in Seq(PlainRules)
  BY <1>1, ConcatProperties
<1>3. (<<ReservedRule>> \o m) \o <<>> = <<ReservedRule>> \o m
  BY <1>2, ConcatEmptySeq
<1>4. (<<ReservedRule>> \o m) \o <<UnchangedRule>> = <<ReservedRule>> \o (m \o <<UnchangedRule>>)
  BY <1>1, ConcatAssociative
<1>5. QED BY <1>3, <1>4 DEF MappingRules

\* What is put in front of a list comes off it again.
LEMMA ConsFacts ==
    ASSUME NEW S, NEW t \in Seq(S), NEW a \in S
    PROVE  LET s == <<a>> \o t
           IN  s \in Seq(S) /\ s # <<>> /\ Head(s) = a /\ Tail(s) = t
<1> DEFINE s == <<a>> \o t
<1>1. <<a>> \in Seq(S) /\ Len(<<a>>) = 1 /\ <<a>>[1] = a /\ Len(t) \in Nat
  OBVIOUS
<1>2. /\ s \in Seq(S) /\ Len(s) = 1 + Len(t)
      /\ \A i \in 1..(1 + Len(t)) : s[i] = IF i <= 1 THEN <<a>>[i] ELSE t[i - 1]
  <2>1. \A i \in 1..(1 + Len(t)) : s[i] = IF i <= Len(<<a>>) THEN <<a>>[i] ELSE t[i - Len(<<a>>)]
    BY <1>1, ConcatProperties
  <2>2. s \in Seq(S) /\ Len(s) = 1 + Len(t)
    BY <1>1, ConcatProperties
  <2>3. QED BY <1>1, <2>1, <2>2
<1> HIDE DEF s
<1>3. s # <<>> /\ s[1] = a
  BY <1>1, <1>2
<1>4. /\ Tail(s) \in Seq(S) /\ Len(Tail(s)) = Len(t)
      /\ \A i \in 1..Len(t) : Tail(s)[i] = s[i + 1]
  BY <1>1, <1>2, <1>3, HeadTailProperties
<1>5. \A i \in 1..Len(t) : Tail(s)[i] = t[i]
  <2>1. TAKE i \in 1..Len(t)
  <2>2. i + 1 \in 1..(1 + Len(t)) /\ ~(i + 1 <= 1) /\ i + 1 - 1 = i
    BY <1>1
  <2>3. QED BY <1>2, <1>4, <2>2
<1>6. Tail(s) = t
  BY <1>4, <1>5, SeqEqual
<1>7. Head(s) = a
  BY <1>2, <1>3
<1>8. QED BY <1>2, <1>3, <1>6, <1>7 DEF s

\* What is put behind a list comes off it again.
LEMMA SnocFacts ==
    ASSUME NEW S, NEW t \in Seq(S), NEW b \in S
    PROVE  LET s == t \o <<b>>
           IN  s \in Seq(S) /\ s # <<>> /\ Last(s) = b /\ Front(s) = t
<1> DEFINE s == t \o <<b>>
<1>1. <<b>> \in Seq(S) /\ Len(<<b>>) = 1 /\ <<b>>[1] = b /\ Len(t) \in Nat
  OBVIOUS
<1>2. /\ s \in Seq(S) /\ Len(s) = Len(t) + 1
      /\ \A i \in 1..(Len(t) + 1) : s[i] = IF i <= Len(t) THEN t[i] ELSE <<b>>[i - Len(t)]
  <2>1. \A i \in 1..(Len(t) + Len(<<b>>)) : s[i] = IF i <= Len(t) THEN t[i] ELSE <<b>>[i - Len(t)]
    BY <1>1, ConcatProperties
  <2>2. s \in Seq(S) /\ Len(s) = Len(t) + Len(<<b>>)
    BY <1>1, ConcatProperties
  <2>3. QED BY <1>1, <2>1, <2>2
<1> HIDE DEF s
<1>3. s[Len(t) + 1] = b
  <2>1. \A k \in Nat : k + 1 \in 1..(k + 1) /\ ~(k + 1 <= k) /\ k + 1 - k = 1
    OBVIOUS
  <2>2. QED BY <1>1, <1>2, <2>1
<1>4. s # <<>> /\ Last(s) = b
  BY <1>1, <1>2, <1>3 DEF Last
<1>5. /\ Front(s) \in Seq(S) /\ Len(Front(s)) = Len(t)
      /\ \A i \in 1..Len(t) : Front(s)[i] = s[i]
  <2>1. Front(s) = SubSeq(s, 1, Len(t))
    BY <1>1, <1>2 DEF Front
  <2>2. \A i \in 1..Len(t) : s[i] \in S
    BY <1>1, <1>2
  <2>3. QED BY <1>1, <2>1, <2>2
<1>6. Front(s) = t
  BY <1>1, <1>2, <1>5, SeqEqual
<1>7. QED BY <1>2, <1>4, <1>6 DEF s

\* The list Apchi writes reads back as the pattern it was written from.
LEMMA ReadsBack ==
    ASSUME NEW m \in Seq(PlainRules), Len(m) <= 1
    PROVE  ParsedMapping(MappingRules(m, <<>>)) = [mapping |-> m, complete |-> TRUE]
<1> DEFINE rules == MappingRules(m, <<>>)
           rest == m \o <<UnchangedRule>>
           PlainOnes(b) == {i \in 1..Len(b) : b[i].plain}
           Operator(b) == IF PlainOnes(b) # {} THEN Min(PlainOnes(b)) ELSE 0
           found == IF rules # <<>> /\ Head(rules) = ReservedRule THEN Tail(rules) ELSE rules
           body == IF found # <<>> /\ Last(found) = UnchangedRule THEN Front(found) ELSE found
           I == PlainOnes(m)
           operator == Operator(m)
<1>1. rest \in Seq(PlainRules) /\ rest # <<>> /\ Last(rest) = UnchangedRule /\ Front(rest) = m
  BY OwnRules, SnocFacts
<1>2. rules # <<>> /\ Head(rules) = ReservedRule /\ Tail(rules) = rest
  <2> HIDE DEF rest
  <2>1. rules = <<ReservedRule>> \o rest
    BY PlainlyRendered DEF rest
  <2>2. QED BY <1>1, <2>1, OwnRules, ConsFacts
<1> HIDE DEF rules, rest
<1>3. ParsedMapping(rules) = [mapping |-> IF operator = 0 THEN <<>> ELSE <<m[operator]>>,
                              complete |-> \A i \in DOMAIN m : i = operator]
  <2>1. ParsedMapping(rules)
          = [mapping |-> IF Operator(body) = 0 THEN <<>> ELSE <<body[Operator(body)]>>,
             complete |-> \A i \in DOMAIN body : i = Operator(body)]
    BY DEF ParsedMapping, SelectInSeq
  <2>2. body = m
    BY <1>1, <1>2
  <2> HIDE DEF body, Operator
  <2>3. QED BY <2>1, <2>2
<1>4. DOMAIN m = 1..Len(m) /\ Len(m) \in Nat
  OBVIOUS
<1>5. CASE Len(m) = 0
  <2>1. m = <<>> /\ operator = 0 /\ DOMAIN m = {}
    BY <1>5
  <2> HIDE DEF operator
  <2>2. QED BY <1>3, <2>1 DEF rules
<1>6. CASE Len(m) = 1
  <2>1. m = <<m[1]>> /\ m[1] \in PlainRules /\ DOMAIN m = {1}
    BY <1>4, <1>6
  <2>2. I = {1}
    <3>1. m[1].plain = TRUE
      BY <2>1 DEF PlainRules
    <3>2. QED BY <1>6, <3>1
  <2>3. operator = 1
    <3>1. Min({1}) = 1
      BY DEF Min
    <3>2. QED BY <2>2, <3>1
  <2> HIDE DEF operator
  <2>4. QED BY <1>3, <2>1, <2>3 DEF rules
<1>7. Len(m) = 0 \/ Len(m) = 1
  <2>1. \A k \in Nat : k <= 1 => k = 0 \/ k = 1
    OBVIOUS
  <2>2. QED BY <1>4, <2>1
<1>8. QED BY <1>5, <1>6, <1>7

\* A rule put in front decides for whom it matches and for nobody else.
LEMMA NamedCons ==
    ASSUME NEW r \in HandRules, NEW t \in Seq(HandRules), NEW p, p \notin DOMAIN r.maps
    PROVE  Named(<<r>> \o t, p) = Named(t, p)
<1> DEFINE s == <<r>> \o t
<1>1. <<r>> \in Seq(HandRules) /\ Len(<<r>>) = 1 /\ <<r>>[1] = r /\ Len(t) \in Nat
  OBVIOUS
<1>2. /\ s \in Seq(HandRules) /\ DOMAIN s = 1..(1 + Len(t)) /\ s[1] = r
      /\ \A i \in 1..Len(t) : i + 1 \in DOMAIN s /\ s[i + 1] = t[i]
      /\ \A i \in DOMAIN s : i # 1 => i - 1 \in 1..Len(t) /\ s[i] = t[i - 1]
  BY <1>1
<1> HIDE DEF s
<1>3. DOMAIN t = 1..Len(t)
  OBVIOUS
<1>4. CASE \A j \in DOMAIN t : p \notin DOMAIN t[j].maps
  <2>1. \A j \in DOMAIN s : p \notin DOMAIN s[j].maps
    BY <1>2, <1>3, <1>4
  <2>2. Named(s, p) = {} /\ Named(t, p) = {}
    BY <1>2, <1>4, <2>1, NamedIs
  <2>3. QED BY <2>2 DEF s
<1>5. CASE \E j \in DOMAIN t : p \in DOMAIN t[j].maps
  <2>1. PICK i \in DOMAIN t :
          /\ p \in DOMAIN t[i].maps
          /\ \A j \in DOMAIN t : p \in DOMAIN t[j].maps => i <= j
          /\ Named(t, p) = IF t[i].plain THEN {t[i].maps[p]} ELSE {}
    BY <1>5, NamedIs
  <2>2. i + 1 \in DOMAIN s /\ s[i + 1] = t[i] /\ i \in Nat
    BY <1>2, <1>3
  <2>3. PICK k \in DOMAIN s :
          /\ p \in DOMAIN s[k].maps
          /\ \A j \in DOMAIN s : p \in DOMAIN s[j].maps => k <= j
          /\ Named(s, p) = IF s[k].plain THEN {s[k].maps[p]} ELSE {}
    <3>1. p \in DOMAIN s[i + 1].maps
      BY <2>1, <2>2
    <3>2. QED BY <1>2, <2>2, <3>1, NamedIs
  <2>4. k # 1 /\ k - 1 \in DOMAIN t /\ s[k] = t[k - 1] /\ k \in Nat
    BY <1>2, <1>3, <2>3
  <2>5. k <= i + 1
    BY <2>1, <2>2, <2>3
  <2>6. i <= k - 1
    BY <2>1, <2>3, <2>4
  <2>7. k = i + 1
    BY <2>2, <2>4, <2>5, <2>6
  <2>8. QED BY <2>1, <2>2, <2>3, <2>7 DEF s
<1>6. QED BY <1>4, <1>5

\* Rules put behind decide only for those nobody matched before.
LEMMA NamedBefore ==
    ASSUME NEW b \in Seq(HandRules), NEW t \in Seq(HandRules), NEW p, Named(b, p) # {}
    PROVE  Named(b \o t, p) = Named(b, p)
<1> DEFINE s == b \o t
<1>1. Len(b) \in Nat /\ Len(t) \in Nat /\ DOMAIN b = 1..Len(b)
  OBVIOUS
<1>2. /\ s \in Seq(HandRules) /\ DOMAIN s = 1..(Len(b) + Len(t))
      /\ \A i \in DOMAIN b : i \in DOMAIN s /\ s[i] = b[i]
  BY <1>1
<1> HIDE DEF s
<1>3. PICK i \in DOMAIN b :
        /\ p \in DOMAIN b[i].maps
        /\ \A j \in DOMAIN b : p \in DOMAIN b[j].maps => i <= j
        /\ Named(b, p) = IF b[i].plain THEN {b[i].maps[p]} ELSE {}
  BY NamedIs
<1>4. i \in DOMAIN s /\ s[i] = b[i] /\ p \in DOMAIN s[i].maps
  BY <1>2, <1>3
<1>5. PICK k \in DOMAIN s :
        /\ p \in DOMAIN s[k].maps
        /\ \A j \in DOMAIN s : p \in DOMAIN s[j].maps => k <= j
        /\ Named(s, p) = IF s[k].plain THEN {s[k].maps[p]} ELSE {}
  BY <1>2, <1>4, NamedIs
<1>6. k <= i /\ k \in Nat \ {0} /\ i \in 1..Len(b)
  BY <1>1, <1>2, <1>4, <1>5
<1>7. k \in DOMAIN b
  BY <1>1, <1>6
<1>8. s[k] = b[k] /\ p \in DOMAIN b[k].maps
  BY <1>2, <1>5, <1>7
<1>9. i <= k
  BY <1>3, <1>7, <1>8
<1>10. i = k
  BY <1>6, <1>9
<1>11. QED BY <1>3, <1>4, <1>5, <1>10 DEF s

-----------------------------------------------------------------------------
(* Certificate Mapping: the theorem. *)

\* Nothing staged or preserved takes Apchi's name or refuses a principal, the list
\* reads back as the pattern it was written from, and an adopted list's names stand
\* until somebody edits.
THEOREM MappingStands == MappingSpec => []MappingHolds
<1>1. ASSUME MappingInv PROVE MappingHolds
  <2> DEFINE rules == MappingRules(mapping, keptPatterns)
  <2>1. /\ rules \in Seq(PlainRules) /\ rules \in Seq(HandRules)
        /\ Len(rules) \in Nat \ {0} /\ DOMAIN rules = 1..Len(rules)
        /\ rules[1] = ReservedRule /\ rules[Len(rules)] = UnchangedRule
    <3>1. mapping \in Seq(PlainRules) /\ keptPatterns \in Seq(PlainRules)
      BY <1>1 DEF MappingInv
    <3>2. /\ rules \in Seq(PlainRules) /\ rules \in Seq(HandRules)
          /\ rules[1] = ReservedRule /\ rules[Len(rules)] = UnchangedRule
          /\ Len(rules) = Len(mapping) + Len(keptPatterns) + 2
      BY <3>1, RenderedIs
    <3> HIDE DEF rules
    <3>3. Len(rules) # 0
      BY <3>1, <3>2
    <3>4. QED BY <3>2, <3>3
  <2>2. Named(rules, Self) = {Self}
    <3> HIDE DEF rules
    <3>1. 1 \in DOMAIN rules /\ Self \in DOMAIN rules[1].maps
      BY <2>1, OwnRules
    <3>2. PICK i \in DOMAIN rules :
            /\ \A j \in DOMAIN rules : Self \in DOMAIN rules[j].maps => i <= j
            /\ Named(rules, Self) = IF rules[i].plain THEN {rules[i].maps[Self]} ELSE {}
      BY <2>1, <3>1, NamedIs
    <3>3. i <= 1 /\ i \in 1..Len(rules)
      BY <2>1, <3>1, <3>2
    <3>4. i = 1
      BY <2>1, <3>3
    <3>5. ReservedRule.plain
      BY DEF ReservedRule
    <3>6. QED BY <2>1, <3>2, <3>4, <3>5, OwnRules
  <2>3. ASSUME NEW p \in Principals PROVE Named(rules, p) # {}
    <3> HIDE DEF rules
    <3>1. Len(rules) \in DOMAIN rules /\ p \in DOMAIN rules[Len(rules)].maps
      BY <2>1, OwnRules
    <3>2. PICK i \in DOMAIN rules :
            Named(rules, p) = IF rules[i].plain THEN {rules[i].maps[p]} ELSE {}
      BY <2>1, <3>1, NamedIs
    <3>3. rules[i] \in PlainRules
      BY <2>1
    <3>4. rules[i].plain
      BY <3>3 DEF PlainRules
    <3>5. QED BY <3>2, <3>4
  <2>4. ASSUME keptPatterns = <<>>
        PROVE  ParsedMapping(rules) = [mapping |-> mapping, complete |-> TRUE]
    BY <1>1, <2>4, ReadsBack DEF MappingInv
  <2>5. ASSUME NEW p \in Principals \ {Self}, Named(adopted, p) # {}
        PROVE  Named(rules, p) = Named(adopted, p)
    <3>1. Named(<<>>, p) = {}
      <4>1. <<>> \in Seq(HandRules) /\ DOMAIN <<>> = {}
        OBVIOUS
      <4>2. QED BY <4>1, NamedIs
    <3>2. /\ adopted \in Seq(HandRules) /\ keptPatterns = <<>> /\ mapping \in Seq(PlainRules)
          /\ ParsedMapping(adopted).complete /\ ParsedMapping(adopted).mapping = mapping
      BY <1>1, <2>5, <3>1 DEF MappingInv
    <3> DEFINE tail == mapping \o <<UnchangedRule>>
    <3>3. /\ mapping \in Seq(HandRules) /\ tail \in Seq(HandRules)
          /\ <<UnchangedRule>> \in Seq(HandRules)
      <4>1. mapping \in Seq(HandRules) /\ UnchangedRule \in HandRules
        BY <3>2, OwnRules, SeqMonotonic
      <4>2. QED BY <4>1, SnocFacts
    <3>4. adopted \in {mapping, <<ReservedRule>> \o mapping, tail, <<ReservedRule>> \o tail}
      BY <3>2, CompleteIs
    <3>5. rules = <<ReservedRule>> \o tail
      BY <3>2, PlainlyRendered
    <3> HIDE DEF tail, rules
    <3>6. \A t \in Seq(HandRules) : Named(<<ReservedRule>> \o t, p) = Named(t, p)
      BY <2>5, OwnRules, NamedCons
    <3>7. Named(mapping, p) # {} => Named(tail, p) = Named(mapping, p)
      BY <3>3, NamedBefore DEF tail
    <3>8. QED BY <2>5, <3>3, <3>4, <3>5, <3>6, <3>7
  <2>6. QED BY <2>2, <2>3, <2>4, <2>5 DEF MappingHolds
<1>2. QED BY <1>1, MappingInvariant, PTL

-----------------------------------------------------------------------------
(* History: the inductive invariant. *)

Entries == [resource: Resources \cup {Absent},
            action: {"created", "removed", "updated", "whole", "attempted"}]
Events == [at: Nat, id: Nat, entry: Entries]
Handlers == [at: {"idle", "loaded", "written", "stamped"}, loaded: Candidates,
             entries: SUBSET Entries, instant: Nat, first: Nat]

\* The collection, the requests and the reader hold what the code puts there.
HistoryTypeOK ==
    /\ stored \in Candidates /\ handler \in [Actors -> Handlers]
    /\ events \in SUBSET Events /\ IsFiniteSet(events)
    /\ clock \in Nat /\ stamped \in Nat
    /\ unsaid \in [Resources -> Int]
    /\ reader \in [at: {"idle", "paging", "done"}, got: Seq(Events), owed: SUBSET Events]

\* Only a request that has written has something to say, and it can be counted.
EntriesAreDue ==
    \A a \in Actors :
        /\ handler[a].at \in {"idle", "loaded"} => handler[a].entries = {}
        /\ IsFiniteSet(handler[a].entries)

\* The identifiers a request has taken.
Taken(a) == handler[a].first..(handler[a].first + Cardinality(handler[a].entries) - 1)

\* An identifier is given once: to an event, or to an entry on its way.
IdentifiersAreOwn ==
    /\ \A e \in events : e.id \in 1..stamped
    /\ \A e, f \in events : e.id = f.id => e = f
    /\ \A a \in Actors : handler[a].at = "stamped" =>
          /\ Taken(a) \subseteq 1..stamped
          /\ \A e \in events : e.id \notin Taken(a)
          /\ \A b \in Actors \ {a} : handler[b].at = "stamped" => Taken(a) \cap Taken(b) = {}

\* What a reader was shown, and is owed, is in the collection.
ReaderReads ==
    /\ Range(reader.got) \subseteq events /\ reader.owed \subseteq events
    /\ reader.at = "idle" => reader = Resting
    /\ reader.at = "paging" => reader.got # <<>>

HistoryInv ==
    /\ HistoryTypeOK /\ EntriesAreDue /\ IdentifiersAreOwn /\ ReaderReads
    /\ TrailAddsUp /\ PagesMissNothing

-----------------------------------------------------------------------------
(* Counting what the events and the entries on their way say. *)

Of(r, action) == [resource |-> r, action |-> action]
Told(x) == {e \in events : e.entry = x}
Waiting(x) == {p \in Pending : p.entry = x}
Count(x) == Cardinality(Told(x)) + Cardinality(Waiting(x))
Bit(b) == IF b THEN 1 ELSE 0
Held(content) == IF content = Absent THEN 0 ELSE 1

\* The property, in these words.
LEMMA TrailIs ==
    TrailAddsUp <=> \A r \in Resources :
        Count(Of(r, "created")) - Count(Of(r, "removed")) + unsaid[r] = Held(stored[r])
BY DEF TrailAddsUp, Count, Told, Waiting, Of, Held

\* Entries that wait are told by who carries them, so there are finitely many of a kind.
LEMMA WaitingIs ==
    ASSUME NEW x
    PROVE  /\ Waiting(x) = {[by |-> a, entry |-> x] : a \in {b \in Actors : x \in handler[b].entries}}
           /\ IsFiniteSet(Waiting(x))
<1> DEFINE A == {b \in Actors : x \in handler[b].entries}
           W == {[by |-> a, entry |-> x] : a \in A}
           f == [a \in A |-> [by |-> a, entry |-> x]]
<1>1. Waiting(x) = W
  BY DEF Waiting, Pending
<1>2. IsFiniteSet(A)
  BY HistoryAssumption, FS_Subset
<1> HIDE DEF A
<1>3. f \in Surjection(A, W)
  BY DEF Surjection
<1>4. IsFiniteSet(W)
  BY <1>2, <1>3, FS_Surjection
<1>5. QED BY <1>1, <1>4 DEF A

\* A request that had nothing to say now has.
LEMMA WaitMore ==
    ASSUME HistoryTypeOK, NEW a \in Actors, NEW h, handler' = [handler EXCEPT ![a] = h],
           handler[a].entries = {}, NEW x
    PROVE  Cardinality(Waiting(x)') = Cardinality(Waiting(x)) + Bit(x \in h.entries)
<1> DEFINE p == [by |-> a, entry |-> x]
<1>1. \A b \in Actors : handler'[b] = IF b = a THEN h ELSE handler[b]
  BY DEF HistoryTypeOK
<1>2. Waiting(x) = {[by |-> b, entry |-> x] : b \in {c \in Actors : x \in handler[c].entries}}
  BY WaitingIs
<1>3. Waiting(x)' = {[by |-> b, entry |-> x] : b \in {c \in Actors : x \in handler'[c].entries}}
  BY DEF Waiting, Pending
<1>4. p \notin Waiting(x)
  BY <1>2
<1>5. IsFiniteSet(Waiting(x)) /\ Cardinality(Waiting(x)) \in Nat
  BY WaitingIs, FS_CardinalityType
<1>6. CASE x \in h.entries
  <2>1. Waiting(x)' = Waiting(x) \cup {p}
    BY <1>1, <1>2, <1>3, <1>6
  <2>2. Cardinality(Waiting(x) \cup {p}) = Cardinality(Waiting(x)) + 1
    BY <1>4, <1>5, FS_AddElement
  <2>3. QED BY <1>6, <2>1, <2>2 DEF Bit
<1>7. CASE x \notin h.entries
  <2>1. Waiting(x)' = Waiting(x)
    BY <1>1, <1>2, <1>3, <1>7
  <2>2. QED BY <1>5, <1>7, <2>1 DEF Bit
<1>8. QED BY <1>6, <1>7

\* A request that had something to say is over.
LEMMA WaitLess ==
    ASSUME HistoryTypeOK, NEW a \in Actors, NEW h, handler' = [handler EXCEPT ![a] = h],
           h.entries = {}, NEW x
    PROVE  Cardinality(Waiting(x)') = Cardinality(Waiting(x)) - Bit(x \in handler[a].entries)
<1> DEFINE p == [by |-> a, entry |-> x]
<1>1. \A b \in Actors : handler'[b] = IF b = a THEN h ELSE handler[b]
  BY DEF HistoryTypeOK
<1>2. Waiting(x) = {[by |-> b, entry |-> x] : b \in {c \in Actors : x \in handler[c].entries}}
  BY WaitingIs
<1>3. Waiting(x)' = {[by |-> b, entry |-> x] : b \in {c \in Actors : x \in handler'[c].entries}}
  BY DEF Waiting, Pending
<1>4. p \in Waiting(x) <=> x \in handler[a].entries
  BY <1>2
<1>5. IsFiniteSet(Waiting(x)) /\ Cardinality(Waiting(x)) \in Nat
  BY WaitingIs, FS_CardinalityType
<1>6. Waiting(x)' = Waiting(x) \ {p}
  BY <1>1, <1>2, <1>3
<1>7. Cardinality(Waiting(x) \ {p}) =
        IF p \in Waiting(x) THEN Cardinality(Waiting(x)) - 1 ELSE Cardinality(Waiting(x))
  BY <1>5, FS_RemoveElement
<1>8. QED BY <1>4, <1>5, <1>6, <1>7 DEF Bit

\* Requests whose entries stay say the same.
LEMMA WaitSame ==
    ASSUME \A a \in Actors : handler'[a].entries = handler[a].entries, NEW x
    PROVE  Waiting(x)' = Waiting(x)
BY DEF Waiting, Pending

\* The counts are numbers.
LEMMA CountsAre ==
    ASSUME HistoryTypeOK, NEW x
    PROVE  /\ IsFiniteSet(Told(x)) /\ Cardinality(Told(x)) \in Nat
           /\ IsFiniteSet(Waiting(x)) /\ Cardinality(Waiting(x)) \in Nat
<1>1. IsFiniteSet(Told(x))
  BY FS_Subset DEF HistoryTypeOK, Told
<1>2. QED BY <1>1, WaitingIs, FS_CardinalityType

\* What a request says of a resource: whether it was created, less whether it was removed.
LEMMA SaysIs ==
    ASSUME NEW entries \in SUBSET Entries, NEW r \in Resources
    PROVE  Says(entries, r) = Bit(Of(r, "created") \in entries) - Bit(Of(r, "removed") \in entries)
<1> DEFINE S(action) == {e \in entries : e.resource = r /\ e.action = action}
<1>1. ASSUME NEW action \in {"created", "removed"}
      PROVE  Cardinality(S(action)) = Bit(Of(r, action) \in entries)
  <2>1. \A e \in entries : e.resource = r /\ e.action = action <=> e = Of(r, action)
    BY DEF Entries, Of
  <2>2. CASE Of(r, action) \in entries
    <3>1. S(action) = {Of(r, action)}
      BY <2>1, <2>2
    <3>2. QED BY <2>2, <3>1, FS_Singleton DEF Bit
  <2>3. CASE Of(r, action) \notin entries
    <3>1. S(action) = {}
      BY <2>1, <2>3
    <3>2. QED BY <2>3, <3>1, FS_EmptySet DEF Bit
  <2>4. QED BY <2>2, <2>3
<1>2. Says(entries, r) = Cardinality(S("created")) - Cardinality(S("removed"))
  BY DEF Says
<1>3. QED BY <1>1, <1>2

\* What the difference of two documents says of a resource is what it is to one and to the other.
LEMMA ChangesSay ==
    ASSUME NEW before \in Candidates, NEW after \in Candidates
    PROVE  /\ ChangesBetween(before, after) \in SUBSET Entries
           /\ IsFiniteSet(ChangesBetween(before, after))
           /\ \A r \in Resources :
                 /\ Bit(Of(r, "created") \in ChangesBetween(before, after))
                    - Bit(Of(r, "removed") \in ChangesBetween(before, after))
                       = Held(after[r]) - Held(before[r])
                 /\ Says(ChangesBetween(before, after), r) = Held(after[r]) - Held(before[r])
<1> DEFINE D == {x \in Resources : before[x] # after[x]}
           act(r) == CASE before[r] = Absent -> "created"
                       [] after[r] = Absent -> "removed"
                       [] OTHER -> "updated"
           C == {[resource |-> r, action |-> act(r)] : r \in D}
           f == [r \in D |-> [resource |-> r, action |-> act(r)]]
<1>1. ChangesBetween(before, after) = C
  BY DEF ChangesBetween
<1>2. IsFiniteSet(D)
  BY HistoryAssumption, FS_Subset
<1>3. f \in Surjection(D, C)
  BY DEF Surjection
<1>4. IsFiniteSet(C)
  BY <1>2, <1>3, FS_Surjection
<1>5. \A r \in D : act(r) \in {"created", "removed", "updated"}
  OBVIOUS
<1>6. C \in SUBSET Entries
  BY <1>5 DEF Entries
<1>7. ASSUME NEW r \in Resources
      PROVE  /\ Of(r, "created") \in C <=> before[r] = Absent /\ after[r] # Absent
             /\ Of(r, "removed") \in C <=> before[r] # Absent /\ after[r] = Absent
  <2>1. ASSUME NEW action PROVE Of(r, action) \in C <=> r \in D /\ act(r) = action
    BY DEF Of
  <2>2. QED BY <2>1
<1> HIDE DEF C
<1>8. ASSUME NEW r \in Resources
      PROVE  Bit(Of(r, "created") \in C) - Bit(Of(r, "removed") \in C) = Held(after[r]) - Held(before[r])
  BY <1>7 DEF Bit, Held
<1>9. QED BY <1>1, <1>4, <1>6, <1>8, SaysIs

-----------------------------------------------------------------------------
(* Pages. *)

\* The newest first is an order of events that do not share an identifier.
LEMMA NewerOrders ==
    ASSUME NEW S \in SUBSET Events, \A e, f \in S : e.id = f.id => e = f
    PROVE  /\ \A e \in S : ~Newer(e, e)
           /\ \A e, f \in S : e = f \/ Newer(e, f) \/ Newer(f, e)
           /\ \A e, f, g \in S : Newer(e, f) /\ Newer(f, g) => Newer(e, g)
<1>1. \A e \in S : e.at \in Nat /\ e.id \in Nat
  BY DEF Events
<1>2. QED BY <1>1 DEF Newer

\* The rows of a query, newest first: all of them, once.
LEMMA RowsAre ==
    ASSUME NEW S \in SUBSET Events, IsFiniteSet(S), \A e, f \in S : e.id = f.id => e = f
    PROVE  /\ Sorted(S, Newer) \in Seq(S) /\ Len(Sorted(S, Newer)) \in Nat
           /\ \A e \in S : \E i \in 1..Len(Sorted(S, Newer)) : Sorted(S, Newer)[i] = e
           /\ \A i, j \in 1..Len(Sorted(S, Newer)) :
                 i < j => Newer(Sorted(S, Newer)[i], Sorted(S, Newer)[j])
<1> DEFINE R == {ef \in S \X S : Newer(ef[1], ef[2])}
           q == Sorted(S, Newer)
           n == Cardinality(S)
<1>1. \A e, f \in S : <<e, f>> \in R <=> Newer(e, f)
  OBVIOUS
<1>2. \A e \in S : Below(S, R, e) = {f \in S : Newer(f, e)}
  BY <1>1 DEF Below
<1> HIDE DEF R
<1>3. Orders(R, S)
  BY <1>1, NewerOrders DEF Orders
<1>4. q = [i \in 1..n |-> CHOOSE e \in S : Cardinality({f \in S : Newer(f, e)}) = i - 1]
  BY DEF Sorted
<1> HIDE DEF q
<1>5. ASSUME NEW i \in 1..n PROVE q[i] \in S /\ Cardinality(Below(S, R, q[i])) = i - 1
  <2>1. \E e \in S : Cardinality(Below(S, R, e)) = i - 1
    BY <1>3, RankedAll
  <2>2. \E e \in S : Cardinality({f \in S : Newer(f, e)}) = i - 1
    BY <1>2, <2>1
  <2>3. q[i] \in S /\ Cardinality({f \in S : Newer(f, q[i])}) = i - 1
    BY <1>4, <2>2
  <2>4. QED BY <1>2, <2>3
<1>6. q \in [1..n -> S]
  BY <1>4, <1>5
<1>7. \A i \in 1..Cardinality(S) : Cardinality(Below(S, R, q[i])) = i - 1
  BY <1>5
<1>8. q \in [1..Cardinality(S) -> S]
  BY <1>6
<1>9. IsSortedList(q, S, R)
  BY <1>3, <1>7, <1>8, SortedIs
<1>10. /\ q \in Seq(S) /\ Len(q) = Cardinality(S) /\ Cardinality(S) \in Nat
       /\ \A e \in S : \E i \in 1..Cardinality(S) : q[i] = e
       /\ \A i, j \in 1..Cardinality(S) : i < j <=> <<q[i], q[j]>> \in R
  BY <1>9 DEF IsSortedList
<1>11. \A i, j \in 1..Cardinality(S) : i < j => Newer(q[i], q[j])
  BY <1>1, <1>8, <1>10
<1>12. QED BY <1>10, <1>11 DEF q

\* A page: rows in order, all there are or as many as asked for; what it does not show is
\* older than its last row.
LEMMA PageIs ==
    ASSUME NEW S \in SUBSET Events, IsFiniteSet(S), \A e, f \in S : e.id = f.id => e = f
    PROVE  /\ Page(S).items \in Seq(S) /\ Page(S).more \in BOOLEAN
           /\ \A i, j \in DOMAIN Page(S).items :
                 i < j => Newer(Page(S).items[i], Page(S).items[j])
           /\ Page(S).more => Page(S).items # <<>>
           /\ \A e \in S : \/ \E i \in DOMAIN Page(S).items : Page(S).items[i] = e
                           \/ Page(S).more /\ Newer(Last(Page(S).items), e)
<1> DEFINE q == Sorted(S, Newer)
           m == IF Len(q) < PageSize THEN Len(q) ELSE PageSize
           t == SubSeq(q, 1, m)
<1>1. /\ q \in Seq(S) /\ Len(q) \in Nat
      /\ \A e \in S : \E i \in 1..Len(q) : q[i] = e
      /\ \A i, j \in 1..Len(q) : i < j => Newer(q[i], q[j])
  BY RowsAre
<1>2. Page(S) = [items |-> t, more |-> Len(q) > PageSize]
  BY DEF Page
<1> HIDE DEF q
<1>3. /\ m \in Nat /\ m <= Len(q) /\ (m = PageSize \/ m = Len(q)) /\ PageSize \in Nat \ {0}
      /\ Len(q) > PageSize => m = PageSize
      /\ ~(Len(q) > PageSize) => m = Len(q)
  BY <1>1, HistoryAssumption
<1> HIDE DEF m
<1>4. t \in Seq(S) /\ Len(t) = m /\ DOMAIN t = 1..m /\ \A i \in 1..m : t[i] = q[i]
  BY <1>1, <1>3
<1> HIDE DEF t
<1>5. \A i, j \in DOMAIN t : i < j => Newer(t[i], t[j])
  <2>1. \A i \in 1..m : i \in 1..Len(q)
    BY <1>1, <1>3
  <2>2. QED BY <1>1, <1>4, <2>1
<1>6. Len(q) > PageSize => t # <<>>
  BY <1>3, <1>4
<1>7. ASSUME NEW e \in S
      PROVE  (\E i \in DOMAIN t : t[i] = e) \/ (Len(q) > PageSize /\ Newer(Last(t), e))
  <2>1. PICK i \in 1..Len(q) : q[i] = e
    BY <1>1
  <2>2. CASE i <= m
    BY <1>4, <2>1, <2>2
  <2>3. CASE i > m
    <3>1. Len(q) > PageSize /\ m = PageSize /\ m \in 1..Len(q) /\ m < i
      BY <1>1, <1>3, <2>1, <2>3
    <3>2. Last(t) = q[m]
      BY <1>4, <3>1 DEF Last
    <3>3. QED BY <1>1, <2>1, <3>1, <3>2
  <2>4. QED BY <1>1, <1>3, <2>1, <2>2, <2>3
<1>8. /\ Page(S).items = t /\ Page(S).more \in BOOLEAN
      /\ Page(S).more <=> Len(q) > PageSize
  <2>1. Page(S).items = t /\ Page(S).more = (Len(q) > PageSize)
    BY <1>2
  <2>2. (Len(q) > PageSize) \in BOOLEAN
    OBVIOUS
  <2>3. QED BY <2>1, <2>2, Zenon
<1>9. /\ Page(S).items \in Seq(S)
      /\ \A i, j \in DOMAIN Page(S).items : i < j => Newer(Page(S).items[i], Page(S).items[j])
      /\ Page(S).more => Page(S).items # <<>>
  BY <1>4, <1>5, <1>6, <1>8
<1>10. ASSUME NEW e \in S
       PROVE  \/ \E i \in DOMAIN Page(S).items : Page(S).items[i] = e
              \/ Page(S).more /\ Newer(Last(Page(S).items), e)
  BY <1>7, <1>8
<1>11. QED BY <1>8, <1>9, <1>10

-----------------------------------------------------------------------------
(* What a step leaves alone. *)

\* Whatever arrives, a reader who does nothing has been shown what he was shown.
LEMMA ReaderRests ==
    ASSUME ReaderReads, PagesMissNothing, reader' = reader, events \subseteq events'
    PROVE  ReaderReads' /\ PagesMissNothing'
<1>1. ReaderReads'
  BY DEF ReaderReads, Resting
<1>2. PagesMissNothing'
  BY DEF PagesMissNothing, Newer
<1>3. QED BY <1>1, <1>2

\* Where nobody takes an identifier, whoever has one keeps it.
LEMMA IdentifiersRest ==
    ASSUME IdentifiersAreOwn, events' = events, stamped' = stamped,
           \A a \in Actors : handler'[a].at = "stamped" =>
              /\ handler[a].at = "stamped" /\ handler'[a].first = handler[a].first
              /\ handler'[a].entries = handler[a].entries
    PROVE  IdentifiersAreOwn'
<1>1. \A a \in Actors : handler'[a].at = "stamped" => Taken(a)' = Taken(a)
  BY DEF Taken
<1>2. QED BY <1>1 DEF IdentifiersAreOwn

\* The trail adds up after a step in which the counts move as the document does.
LEMMA TrailMoves ==
    ASSUME HistoryTypeOK, TrailAddsUp,
           \A r \in Resources :
              /\ Count(Of(r, "created"))' \in Int /\ Count(Of(r, "removed"))' \in Int
              /\ unsaid'[r] \in Int
              /\ (Count(Of(r, "created"))' - Count(Of(r, "created")))
                 - (Count(Of(r, "removed"))' - Count(Of(r, "removed")))
                 + (unsaid'[r] - unsaid[r]) = Held(stored'[r]) - Held(stored[r])
    PROVE  TrailAddsUp'
<1>1. SUFFICES ASSUME NEW r \in Resources
               PROVE  (Count(Of(r, "created")) - Count(Of(r, "removed")) + unsaid[r] = Held(stored[r]))'
  BY DEF TrailAddsUp, Count, Told, Waiting, Of, Held
<1>2. Count(Of(r, "created")) - Count(Of(r, "removed")) + unsaid[r] = Held(stored[r])
  BY TrailIs
<1>3. Count(Of(r, "created")) \in Int /\ Count(Of(r, "removed")) \in Int /\ unsaid[r] \in Int
  BY CountsAre DEF Count, HistoryTypeOK
<1>4. Held(stored[r]) \in Int /\ Held(stored'[r]) \in Int
  BY DEF Held
<1>5. QED BY <1>1, <1>2, <1>3, <1>4 DEF Held

\* A request that says nothing.
LEMMA NoHandlerIs == NoHandler \in Handlers /\ NoHandler.entries = {} /\ NoHandler.at = "idle"
BY DEF NoHandler, Handlers, Candidates

\* How a request stands after it has written.
LEMMA WritesIs ==
    ASSUME HistoryTypeOK, NEW a \in Actors, NEW entries \in SUBSET Entries, IsFiniteSet(entries),
           Writes(a, entries)
    PROVE  \E h \in Handlers :
              /\ handler' = [handler EXCEPT ![a] = h]
              /\ h.entries = entries /\ h.at \in {"idle", "written"}
              /\ h.at = "idle" => entries = {}
<1> DEFINE h == [NoHandler EXCEPT !.at = IF entries = {} THEN "idle" ELSE "written",
                                  !.entries = entries]
<1>1. h \in Handlers /\ h.entries = entries /\ h.at = IF entries = {} THEN "idle" ELSE "written"
  BY DEF NoHandler, Handlers, Candidates
<1>2. handler' = [handler EXCEPT ![a] = h]
  BY DEF Writes
<1> HIDE DEF h
<1>3. h.at \in {"idle", "written"} /\ (h.at = "idle" => entries = {})
  BY <1>1
<1>4. QED BY <1>1, <1>2, <1>3

-----------------------------------------------------------------------------
(* Each action preserves the invariant. *)

\* Before the first request nothing is stored and nothing is said.
LEMMA HistoryInitInv == HistoryInit => HistoryInv
<1> SUFFICES ASSUME HistoryInit PROVE HistoryInv
  OBVIOUS
<1>1. handler \in [Actors -> Handlers] /\ \A a \in Actors : handler[a].entries = {} /\ handler[a].at = "idle"
  BY NoHandlerIs DEF HistoryInit
<1>2. HistoryTypeOK
  BY <1>1, FS_EmptySet DEF HistoryInit, HistoryTypeOK, Candidates, Resting
<1>3. EntriesAreDue
  BY <1>1, FS_EmptySet DEF EntriesAreDue
<1>4. IdentifiersAreOwn
  BY <1>1 DEF IdentifiersAreOwn, HistoryInit
<1>5. ReaderReads /\ PagesMissNothing
  BY DEF HistoryInit, Resting, ReaderReads, PagesMissNothing, Range
<1>6. TrailAddsUp
  <2>1. ASSUME NEW x PROVE Count(x) = 0
    <3>1. Told(x) = {} /\ Waiting(x) = {}
      BY <1>1, WaitingIs DEF Told, HistoryInit
    <3>2. QED BY <3>1, FS_EmptySet DEF Count
  <2>2. QED BY <2>1, TrailIs DEF HistoryInit, Held
<1>7. QED BY <1>2, <1>3, <1>4, <1>5, <1>6 DEF HistoryInv

\* A request that writes: what it says is what the write did to the document, or is counted
\* with what is not said.
LEMMA WriteInv ==
    ASSUME HistoryInv, NEW a \in Actors, handler[a].at \in {"idle", "loaded"},
           NEW entries \in SUBSET Entries, IsFiniteSet(entries), Writes(a, entries),
           stored' \in Candidates, unsaid' \in [Resources -> Int],
           \A r \in Resources :
              Bit(Of(r, "created") \in entries) - Bit(Of(r, "removed") \in entries)
              + (unsaid'[r] - unsaid[r]) = Held(stored'[r]) - Held(stored[r]),
           UNCHANGED <<events, clock, stamped, reader>>
    PROVE  HistoryInv'
<1> USE DEF HistoryInv
<1>1. PICK h \in Handlers :
        /\ handler' = [handler EXCEPT ![a] = h]
        /\ h.entries = entries /\ h.at \in {"idle", "written"}
        /\ h.at = "idle" => entries = {}
  BY WritesIs
<1>2. \A b \in Actors : handler'[b] = IF b = a THEN h ELSE handler[b]
  BY <1>1 DEF HistoryTypeOK
<1>3. HistoryTypeOK'
  BY <1>1 DEF HistoryTypeOK
<1>4. EntriesAreDue'
  BY <1>1, <1>2 DEF EntriesAreDue
<1>5. IdentifiersAreOwn'
  BY <1>1, <1>2, IdentifiersRest
<1>6. ReaderReads' /\ PagesMissNothing'
  BY ReaderRests
<1>7. TrailAddsUp'
  <2>1. handler[a].entries = {}
    BY DEF EntriesAreDue
  <2>2. ASSUME NEW x
        PROVE  /\ Count(x) \in Int /\ Count(x)' \in Int
               /\ Count(x)' = Count(x) + Bit(x \in entries)
    <3>1. Cardinality(Waiting(x)') = Cardinality(Waiting(x)) + Bit(x \in entries)
      BY <1>1, <2>1, WaitMore
    <3>2. Told(x)' = Told(x)
      BY DEF Told
    <3>3. Cardinality(Told(x)) \in Nat /\ Cardinality(Waiting(x)) \in Nat
      BY CountsAre
    <3>4. QED BY <3>1, <3>2, <3>3 DEF Count, Bit
  <2>3. ASSUME NEW r \in Resources
        PROVE  /\ Count(Of(r, "created"))' \in Int /\ Count(Of(r, "removed"))' \in Int
               /\ unsaid'[r] \in Int
               /\ (Count(Of(r, "created"))' - Count(Of(r, "created")))
                  - (Count(Of(r, "removed"))' - Count(Of(r, "removed")))
                  + (unsaid'[r] - unsaid[r]) = Held(stored'[r]) - Held(stored[r])
    <3>1. Count(Of(r, "created"))' - Count(Of(r, "created")) = Bit(Of(r, "created") \in entries)
      BY <2>2 DEF Bit
    <3>2. Count(Of(r, "removed"))' - Count(Of(r, "removed")) = Bit(Of(r, "removed") \in entries)
      BY <2>2 DEF Bit
    <3>3. QED BY <2>2, <3>1, <3>2
  <2>4. QED BY <2>3, TrailMoves
<1>8. QED BY <1>3, <1>4, <1>5, <1>6, <1>7

\* A request loads the Candidate.
LEMMA LoadInv ==
    ASSUME HistoryInv, NEW a \in Actors, LoadCandidate(a)
    PROVE  HistoryInv'
<1> USE DEF HistoryInv
<1>1. \A b \in Actors :
         /\ handler'[b].entries = handler[b].entries /\ handler'[b].first = handler[b].first
         /\ handler'[b].at = IF b = a THEN "loaded" ELSE handler[b].at
  BY DEF LoadCandidate, HistoryTypeOK, Handlers
<1>2. HistoryTypeOK'
  BY DEF LoadCandidate, HistoryTypeOK, Handlers
<1>3. EntriesAreDue'
  BY <1>1 DEF EntriesAreDue, LoadCandidate
<1>4. IdentifiersAreOwn'
  <2>1. events' = events /\ stamped' = stamped
    BY DEF LoadCandidate
  <2>2. QED BY <1>1, <2>1, IdentifiersRest
<1>5. ReaderReads' /\ PagesMissNothing'
  BY ReaderRests DEF LoadCandidate
<1>6. TrailAddsUp'
  <2>1. ASSUME NEW x PROVE Waiting(x)' = Waiting(x) /\ Told(x)' = Told(x)
    BY <1>1, WaitSame DEF LoadCandidate, Told
  <2>2. ASSUME NEW x PROVE Count(x)' = Count(x)
    BY <2>1 DEF Count
  <2>3. stored' = stored /\ unsaid' = unsaid
    BY DEF LoadCandidate
  <2>4. \A r \in Resources :
           (Count(Of(r, "created")) - Count(Of(r, "removed")) + unsaid[r] = Held(stored[r]))'
    BY <2>2, <2>3, TrailIs DEF Held
  <2>5. QED BY <2>4 DEF TrailAddsUp, Count, Told, Waiting, Of, Held
<1>7. QED BY <1>2, <1>3, <1>4, <1>5, <1>6

\* An edit: its entries are the difference between the document it wrote and the one it replaced.
LEMMA SaveEditInv ==
    ASSUME HistoryInv, NEW a \in Actors, NEW r \in Resources, NEW content \in Contents \cup {Absent},
           SaveEdit(a, r, content)
    PROVE  HistoryInv'
<1> DEFINE document == [handler[a].loaded EXCEPT ![r] = content]
           changes == ChangesBetween(stored, document)
<1>1. /\ HistoryTypeOK /\ document \in Candidates
  BY DEF HistoryInv, HistoryTypeOK, Handlers, Candidates
<1>2. /\ stored' = document /\ Writes(a, changes) /\ handler[a].at \in {"idle", "loaded"}
      /\ unsaid' = unsaid /\ UNCHANGED <<events, clock, stamped, reader>>
  BY DEF SaveEdit, Replaced
<1> HIDE DEF document
<1>3. stored \in Candidates /\ unsaid \in [Resources -> Int]
  BY <1>1 DEF HistoryTypeOK
<1>4. /\ changes \in SUBSET Entries /\ IsFiniteSet(changes)
      /\ \A x \in Resources :
           Bit(Of(x, "created") \in changes) - Bit(Of(x, "removed") \in changes)
              = Held(document[x]) - Held(stored[x])
  BY <1>1, <1>3, ChangesSay
<1> HIDE DEF changes
<1>5. \A x \in Resources :
         Bit(Of(x, "created") \in changes) - Bit(Of(x, "removed") \in changes)
         + (unsaid'[x] - unsaid[x]) = Held(stored'[x]) - Held(stored[x])
  BY <1>2, <1>3, <1>4 DEF Held
<1>6. QED BY <1>1, <1>2, <1>3, <1>4, <1>5, WriteInv

\* An act on the whole Candidate says nothing of its resources, which is counted as unsaid.
LEMMA SaveWholeInv ==
    ASSUME HistoryInv, NEW a \in Actors, NEW document \in Candidates, SaveWhole(a, document)
    PROVE  HistoryInv'
<1> DEFINE entries == {[resource |-> Absent, action |-> "whole"]}
<1>1. HistoryTypeOK /\ stored \in Candidates /\ unsaid \in [Resources -> Int]
  BY DEF HistoryInv, HistoryTypeOK
<1>2. /\ stored' = document /\ Writes(a, entries) /\ handler[a].at \in {"idle", "loaded"}
      /\ unsaid' = [x \in Resources |-> unsaid[x] + Says(ChangesBetween(stored, document), x)]
      /\ UNCHANGED <<events, clock, stamped, reader>>
  BY DEF SaveWhole
<1>3. entries \in SUBSET Entries /\ IsFiniteSet(entries)
  <2>1. entries \in SUBSET Entries
    BY DEF Entries
  <2>2. QED BY <2>1, FS_Singleton
<1>4. \A x \in Resources : Of(x, "created") \notin entries /\ Of(x, "removed") \notin entries
  BY DEF Of
<1> HIDE DEF entries
<1>5. \A x \in Resources :
         /\ unsaid[x] \in Int /\ unsaid'[x] = unsaid[x] + Held(document[x]) - Held(stored[x])
         /\ Held(document[x]) \in Int /\ Held(stored[x]) \in Int
  <2>1. \A x \in Resources : Says(ChangesBetween(stored, document), x) = Held(document[x]) - Held(stored[x])
    BY <1>1, ChangesSay
  <2>2. QED BY <1>1, <1>2, <2>1 DEF Held
<1>6. unsaid' \in [Resources -> Int]
  BY <1>2, <1>5
<1>7. \A x \in Resources :
         Bit(Of(x, "created") \in entries) - Bit(Of(x, "removed") \in entries)
         + (unsaid'[x] - unsaid[x]) = Held(stored'[x]) - Held(stored[x])
  BY <1>2, <1>4, <1>5 DEF Bit
<1>8. QED BY <1>2, <1>3, <1>6, <1>7, WriteInv

\* A refusal changes nothing and says so.
LEMMA RefuseInv ==
    ASSUME HistoryInv, NEW a \in Actors, Refuse(a)
    PROVE  HistoryInv'
<1> DEFINE entries == {[resource |-> Absent, action |-> "attempted"]}
<1>1. HistoryTypeOK /\ stored \in Candidates /\ unsaid \in [Resources -> Int]
  BY DEF HistoryInv, HistoryTypeOK
<1>2. /\ stored' = stored /\ Writes(a, entries) /\ handler[a].at \in {"idle", "loaded"}
      /\ unsaid' = unsaid /\ UNCHANGED <<events, clock, stamped, reader>>
  BY DEF Refuse
<1>3. entries \in SUBSET Entries /\ IsFiniteSet(entries)
  <2>1. entries \in SUBSET Entries
    BY DEF Entries
  <2>2. QED BY <2>1, FS_Singleton
<1>4. \A x \in Resources : Of(x, "created") \notin entries /\ Of(x, "removed") \notin entries
  BY DEF Of
<1> HIDE DEF entries
<1>5. \A x \in Resources :
         Bit(Of(x, "created") \in entries) - Bit(Of(x, "removed") \in entries)
         + (unsaid'[x] - unsaid[x]) = Held(stored'[x]) - Held(stored[x])
  BY <1>1, <1>2, <1>4 DEF Bit, Held
<1>6. QED BY <1>1, <1>2, <1>3, <1>5, WriteInv

\* A request takes identifiers that nobody has.
LEMMA StampInv ==
    ASSUME HistoryInv, NEW a \in Actors, Stamp(a)
    PROVE  HistoryInv'
<1> USE DEF HistoryInv
<1> DEFINE n == Cardinality(handler[a].entries)
<1>1. n \in Nat /\ stamped \in Nat /\ clock \in Nat
  BY FS_CardinalityType DEF EntriesAreDue, HistoryTypeOK
<1>2. \A b \in Actors :
         /\ handler'[b].entries = handler[b].entries
         /\ b # a => handler'[b] = handler[b]
         /\ b = a => handler'[b].at = "stamped" /\ handler'[b].first = stamped + 1
  BY DEF Stamp, HistoryTypeOK, Handlers
<1>3. stamped' = stamped + n /\ UNCHANGED <<stored, events, clock, reader, unsaid>>
  BY DEF Stamp
<1>4. HistoryTypeOK'
  <2>1. handler' \in [Actors -> Handlers]
    <3> DEFINE h == [handler[a] EXCEPT !.at = "stamped", !.instant = clock, !.first = stamped + 1]
    <3>1. handler' = [handler EXCEPT ![a] = h] /\ handler \in [Actors -> Handlers]
      BY DEF Stamp, HistoryTypeOK
    <3>2. stamped + 1 \in Nat /\ handler[a] \in Handlers
      BY <1>1, <3>1
    <3>3. h \in Handlers
      BY <1>1, <3>2 DEF Handlers
    <3>4. QED BY <3>1, <3>3
  <2>2. stamped' \in Nat
    BY <1>1, <1>3
  <2>3. QED BY <1>3, <2>1, <2>2 DEF HistoryTypeOK
<1>5. EntriesAreDue'
  <2>1. \A b \in Actors : handler'[b].at \in {"idle", "loaded"} => b # a
    BY <1>2
  <2>2. QED BY <1>2, <2>1 DEF EntriesAreDue
<1>6. IdentifiersAreOwn'
  <2>1. Taken(a)' = (stamped + 1)..(stamped + n)
    BY <1>1, <1>2 DEF Taken
  <2>2. \A b \in Actors \ {a} : Taken(b)' = Taken(b)
    BY <1>2 DEF Taken
  <2>3. \A i \in 1..stamped : i \in 1..stamped' /\ i \notin Taken(a)'
    BY <1>1, <1>3, <2>1
  <2>4. Taken(a)' \subseteq 1..stamped'
    BY <1>1, <1>3, <2>1
  <2>5. \A e \in events' : e.id \in 1..stamped /\ e \in events
    BY <1>3 DEF IdentifiersAreOwn
  <2>6. ASSUME NEW b \in Actors \ {a}, handler'[b].at = "stamped"
        PROVE  /\ Taken(b)' \subseteq 1..stamped /\ Taken(b)' \subseteq 1..stamped'
               /\ \A e \in events' : e.id \notin Taken(b)'
               /\ Taken(b)' \cap Taken(a)' = {}
               /\ \A c \in Actors \ {a, b} : handler'[c].at = "stamped" => Taken(b)' \cap Taken(c)' = {}
    <3>1. handler[b].at = "stamped" /\ Taken(b)' = Taken(b)
      BY <1>2, <2>2, <2>6
    <3>2. Taken(b) \subseteq 1..stamped /\ \A e \in events : e.id \notin Taken(b)
      BY <3>1 DEF IdentifiersAreOwn
    <3>3. Taken(b)' \cap Taken(a)' = {} /\ Taken(b)' \subseteq 1..stamped'
      BY <2>3, <3>1, <3>2
    <3>4. \A c \in Actors \ {a, b} : handler'[c].at = "stamped" => Taken(b)' \cap Taken(c)' = {}
      BY <1>2, <2>2, <3>1 DEF IdentifiersAreOwn
    <3>5. QED BY <2>5, <3>1, <3>2, <3>3, <3>4
  <2>7. \A e \in events' : e.id \in 1..stamped' /\ e.id \notin Taken(a)'
    BY <2>3, <2>5
  <2>8. \A e, f \in events' : e.id = f.id => e = f
    BY <1>3 DEF IdentifiersAreOwn
  <2>9. ASSUME NEW b \in Actors, handler'[b].at = "stamped"
        PROVE  /\ Taken(b)' \subseteq 1..stamped'
               /\ \A e \in events' : e.id \notin Taken(b)'
               /\ \A c \in Actors \ {b} : handler'[c].at = "stamped" => Taken(b)' \cap Taken(c)' = {}
    <3>1. CASE b = a
      BY <2>4, <2>6, <2>7, <3>1
    <3>2. CASE b # a
      BY <2>6, <2>9, <3>2
    <3>3. QED BY <3>1, <3>2
  <2>10. QED BY <2>7, <2>8, <2>9 DEF IdentifiersAreOwn
<1>7. ReaderReads' /\ PagesMissNothing'
  BY <1>3, ReaderRests
<1>8. TrailAddsUp'
  <2>1. ASSUME NEW x PROVE Waiting(x)' = Waiting(x) /\ Told(x)' = Told(x)
    BY <1>2, <1>3, WaitSame DEF Told
  <2>2. ASSUME NEW x PROVE Count(x)' = Count(x)
    BY <2>1 DEF Count
  <2>3. \A r \in Resources :
           (Count(Of(r, "created")) - Count(Of(r, "removed")) + unsaid[r] = Held(stored[r]))'
    BY <1>3, <2>2, TrailIs DEF Held
  <2>4. QED BY <2>3 DEF TrailAddsUp, Count, Told, Waiting, Of, Held
<1>9. QED BY <1>4, <1>5, <1>6, <1>7, <1>8

\* The entries of a request as a list: each of them once.
LEMMA EntriesListed ==
    ASSUME NEW E, IsFiniteSet(E)
    PROVE  /\ Cardinality(E) \in Nat
           /\ SetToSeq(E) \in [1..Cardinality(E) -> E]
           /\ \A i, j \in 1..Cardinality(E) : SetToSeq(E)[i] = SetToSeq(E)[j] => i = j
           /\ \A x \in E : \E i \in 1..Cardinality(E) : SetToSeq(E)[i] = x
<1> DEFINE n == Cardinality(E)
           q == SetToSeq(E)
<1>1. n \in Nat /\ ExistsBijection(1..n, E)
  BY FS_CardinalityType
<1>2. \E f \in [1..n -> E] : IsInjective(f)
  BY <1>1 DEF ExistsBijection, Bijection, Injection, IsInjective
<1>3. q \in [1..n -> E] /\ IsInjective(q)
  BY <1>2 DEF SetToSeq
<1> HIDE DEF q
<1>4. q \in Injection(1..n, E)
  BY <1>3 DEF Injection
<1>5. IsFiniteSet(1..n) /\ Cardinality(1..n) = n
  BY <1>1, FS_Interval
<1>6. q \in Surjection(1..n, E)
  BY <1>4, <1>5, FS_Injection
<1>7. QED BY <1>1, <1>3, <1>6 DEF IsInjective, Surjection, q

\* The events of a request arrive: each of its entries becomes one event, under an identifier
\* of its own.
LEMMA RecordInv ==
    ASSUME HistoryInv, NEW a \in Actors, Record(a)
    PROVE  HistoryInv'
<1> USE DEF HistoryInv
<1> DEFINE h == handler[a]
           E == h.entries
           n == Cardinality(E)
           q == SetToSeq(E)
           ev(i) == [at |-> h.instant, id |-> h.first + i - 1, entry |-> q[i]]
           new == {ev(i) : i \in 1..n}
<1>1. h \in Handlers /\ E \in SUBSET Entries /\ IsFiniteSet(E) /\ h.first \in Nat /\ h.instant \in Nat
  BY DEF HistoryTypeOK, EntriesAreDue, Handlers
<1>2. /\ n \in Nat /\ q \in [1..n -> E]
      /\ \A i, j \in 1..n : q[i] = q[j] => i = j
      /\ \A x \in E : \E i \in 1..n : q[i] = x
  BY <1>1, EntriesListed
<1>3. /\ h.at = "stamped" /\ events' = events \cup new
      /\ handler' = [handler EXCEPT ![a] = NoHandler]
      /\ UNCHANGED <<stored, clock, stamped, reader, unsaid>>
  <2>1. DOMAIN q = 1..n
    BY <1>2
  <2>2. QED BY <2>1 DEF Record
<1> HIDE DEF q
<1>4. \A b \in Actors : handler'[b] = IF b = a THEN NoHandler ELSE handler[b]
  BY <1>3 DEF HistoryTypeOK
<1>5. /\ Taken(a) = h.first..(h.first + n - 1) /\ Taken(a) \subseteq 1..stamped
      /\ \A e \in events : e.id \notin Taken(a)
  BY <1>3 DEF Taken, IdentifiersAreOwn
<1>6. ASSUME NEW i \in 1..n
      PROVE  ev(i) \in Events /\ ev(i).id \in Taken(a) /\ ev(i) \notin events
  <2>1. h.first + i - 1 \in Nat /\ h.first + i - 1 \in Taken(a) /\ q[i] \in Entries
    BY <1>1, <1>2, <1>5
  <2>2. QED BY <1>1, <1>5, <2>1 DEF Events
<1>7. \A i, j \in 1..n : ev(i).id = ev(j).id => i = j
  BY <1>1
<1> HIDE DEF n, h
<1>8. HistoryTypeOK'
  <2>1. IsFiniteSet(new)
    <3> DEFINE f == [i \in 1..n |-> ev(i)]
    <3>1. f \in Surjection(1..n, new)
      BY DEF Surjection
    <3>2. IsFiniteSet(1..n)
      BY <1>2, FS_Interval
    <3>3. QED BY <3>1, <3>2, FS_Surjection
  <2>2. new \in SUBSET Events
    BY <1>6
  <2> HIDE DEF new
  <2>3. IsFiniteSet(events \cup new) /\ events \cup new \in SUBSET Events
    BY <2>1, <2>2, FS_Union DEF HistoryTypeOK
  <2>4. handler' \in [Actors -> Handlers]
    BY <1>3, NoHandlerIs DEF HistoryTypeOK
  <2>5. QED BY <1>3, <2>3, <2>4 DEF HistoryTypeOK
<1>9. EntriesAreDue'
  BY <1>4, NoHandlerIs, FS_EmptySet DEF EntriesAreDue
<1>10. IdentifiersAreOwn'
  <2>1. \A e \in new : e.id \in Taken(a) /\ e \notin events
    BY <1>6
  <2>2. \A e, f \in new : e.id = f.id => e = f
    BY <1>7
  <2> HIDE DEF new
  <2>3. \A e \in events' : e.id \in 1..stamped'
    BY <1>3, <1>5, <2>1 DEF IdentifiersAreOwn
  <2>4. \A e, f \in events' : e.id = f.id => e = f
    BY <1>3, <1>5, <2>1, <2>2 DEF IdentifiersAreOwn
  <2>5. ASSUME NEW b \in Actors, handler'[b].at = "stamped"
        PROVE  b # a /\ handler[b].at = "stamped" /\ Taken(b)' = Taken(b) /\ Taken(b) \cap Taken(a) = {}
    <3>1. b # a /\ handler'[b] = handler[b]
      BY <1>4, <2>5, NoHandlerIs
    <3>2. handler[b].at = "stamped" /\ Taken(b)' = Taken(b)
      BY <2>5, <3>1 DEF Taken
    <3>3. QED BY <1>3, <3>1, <3>2 DEF IdentifiersAreOwn, h
  <2>6. ASSUME NEW b \in Actors, handler'[b].at = "stamped"
        PROVE  /\ Taken(b)' \subseteq 1..stamped'
               /\ \A e \in events' : e.id \notin Taken(b)'
               /\ \A c \in Actors \ {b} : handler'[c].at = "stamped" => Taken(b)' \cap Taken(c)' = {}
    <3>1. Taken(b)' \subseteq 1..stamped'
      BY <1>3, <2>5, <2>6 DEF IdentifiersAreOwn
    <3>2. \A e \in events' : e.id \notin Taken(b)'
      BY <1>3, <2>1, <2>5, <2>6 DEF IdentifiersAreOwn
    <3>3. \A c \in Actors \ {b} : handler'[c].at = "stamped" => Taken(b)' \cap Taken(c)' = {}
      BY <2>5, <2>6 DEF IdentifiersAreOwn
    <3>4. QED BY <3>1, <3>2, <3>3
  <2>7. QED BY <2>3, <2>4, <2>6 DEF IdentifiersAreOwn
<1>11. ReaderReads' /\ PagesMissNothing'
  BY <1>3, ReaderRests
<1>12. TrailAddsUp'
  <2>1. ASSUME NEW x PROVE Count(x)' = Count(x)
    <3>1. Cardinality(Waiting(x)') = Cardinality(Waiting(x)) - Bit(x \in E)
      BY <1>3, NoHandlerIs, WaitLess DEF h
    <3>2. Cardinality(Told(x)') = Cardinality(Told(x)) + Bit(x \in E)
      <4>1. IsFiniteSet(Told(x)) /\ Cardinality(Told(x)) \in Nat
        BY CountsAre
      <4>2. Told(x)' = Told(x) \cup {e \in new : e.entry = x}
        BY <1>3 DEF Told
      <4>3. CASE x \in E
        <5>1. PICK i \in 1..n : q[i] = x
          BY <1>2, <4>3
        <5>2. \A j \in 1..n : ev(j).entry = x <=> j = i
          BY <1>2, <5>1
        <5>3. {e \in new : e.entry = x} = {ev(i)}
          BY <5>2
        <5>4. ev(i) \notin Told(x)
          BY <1>6 DEF Told
        <5>5. Cardinality(Told(x) \cup {ev(i)}) = Cardinality(Told(x)) + 1
          BY <4>1, <5>4, FS_AddElement
        <5>6. QED BY <4>2, <4>3, <5>3, <5>5 DEF Bit
      <4>4. CASE x \notin E
        <5>1. \A i \in 1..n : ev(i).entry # x
          BY <1>2, <4>4
        <5>2. Told(x)' = Told(x)
          BY <4>2, <5>1
        <5>3. QED BY <4>1, <4>4, <5>2 DEF Bit
      <4>5. QED BY <4>3, <4>4
    <3>3. Cardinality(Told(x)) \in Nat /\ Cardinality(Waiting(x)) \in Nat
      BY CountsAre
    <3>4. QED BY <3>1, <3>2, <3>3 DEF Count, Bit
  <2>2. \A r \in Resources :
           (Count(Of(r, "created")) - Count(Of(r, "removed")) + unsaid[r] = Held(stored[r]))'
    BY <1>3, <2>1, TrailIs DEF Held
  <2>3. QED BY <2>2 DEF TrailAddsUp, Count, Told, Waiting, Of, Held
<1>13. QED BY <1>8, <1>9, <1>10, <1>11, <1>12

\* The store refuses the events: what they would have said is counted as unsaid.
LEMMA RecordFailsInv ==
    ASSUME HistoryInv, NEW a \in Actors, RecordFails(a)
    PROVE  HistoryInv'
<1> USE DEF HistoryInv
<1> DEFINE E == handler[a].entries
<1>1. E \in SUBSET Entries
  BY DEF HistoryTypeOK, Handlers
<1>2. /\ handler' = [handler EXCEPT ![a] = NoHandler]
      /\ unsaid' = [r \in Resources |-> unsaid[r] + Says(E, r)]
      /\ UNCHANGED <<stored, events, clock, stamped, reader>>
  BY DEF RecordFails
<1>3. \A b \in Actors : handler'[b] = IF b = a THEN NoHandler ELSE handler[b]
  BY <1>2 DEF HistoryTypeOK
<1>4. \A r \in Resources :
         /\ unsaid[r] \in Int /\ unsaid'[r] \in Int
         /\ unsaid'[r] - unsaid[r] = Bit(Of(r, "created") \in E) - Bit(Of(r, "removed") \in E)
  <2>1. \A r \in Resources : Says(E, r) = Bit(Of(r, "created") \in E) - Bit(Of(r, "removed") \in E)
    BY <1>1, SaysIs
  <2>2. QED BY <1>2, <2>1 DEF HistoryTypeOK, Bit
<1>5. HistoryTypeOK'
  <2>1. handler' \in [Actors -> Handlers] /\ unsaid' \in [Resources -> Int]
    BY <1>2, <1>4, NoHandlerIs DEF HistoryTypeOK
  <2>2. QED BY <1>2, <2>1 DEF HistoryTypeOK
<1>6. EntriesAreDue'
  BY <1>3, NoHandlerIs, FS_EmptySet DEF EntriesAreDue
<1>7. IdentifiersAreOwn'
  <2>1. \A b \in Actors : handler'[b].at = "stamped" => handler'[b] = handler[b]
    BY <1>3, NoHandlerIs
  <2>2. QED BY <1>2, <2>1, IdentifiersRest
<1>8. ReaderReads' /\ PagesMissNothing'
  BY <1>2, ReaderRests
<1>9. TrailAddsUp'
  <2>1. ASSUME NEW x
        PROVE  Count(x) \in Int /\ Count(x)' \in Int /\ Count(x)' = Count(x) - Bit(x \in E)
    <3>1. Cardinality(Waiting(x)') = Cardinality(Waiting(x)) - Bit(x \in E)
      BY <1>2, NoHandlerIs, WaitLess
    <3>2. Told(x)' = Told(x)
      BY <1>2 DEF Told
    <3>3. Cardinality(Told(x)) \in Nat /\ Cardinality(Waiting(x)) \in Nat
      BY CountsAre
    <3>4. QED BY <3>1, <3>2, <3>3 DEF Count, Bit
  <2>2. ASSUME NEW r \in Resources
        PROVE  /\ Count(Of(r, "created"))' \in Int /\ Count(Of(r, "removed"))' \in Int
               /\ unsaid'[r] \in Int
               /\ (Count(Of(r, "created"))' - Count(Of(r, "created")))
                  - (Count(Of(r, "removed"))' - Count(Of(r, "removed")))
                  + (unsaid'[r] - unsaid[r]) = Held(stored'[r]) - Held(stored[r])
    <3>1. Count(Of(r, "created"))' - Count(Of(r, "created")) = 0 - Bit(Of(r, "created") \in E)
      BY <2>1 DEF Bit
    <3>2. Count(Of(r, "removed"))' - Count(Of(r, "removed")) = 0 - Bit(Of(r, "removed") \in E)
      BY <2>1 DEF Bit
    <3>3. stored' = stored
      BY <1>2
    <3>4. QED BY <1>4, <2>1, <3>1, <3>2, <3>3 DEF Bit, Held
  <2>3. QED BY <2>2, TrailMoves
<1>10. QED BY <1>5, <1>6, <1>7, <1>8, <1>9

\* A step of the clock or of the reader leaves the collection and the requests as they are.
LEMMA TrailRests ==
    ASSUME HistoryInv, UNCHANGED <<stored, handler, events, stamped, unsaid>>
    PROVE  EntriesAreDue' /\ IdentifiersAreOwn' /\ TrailAddsUp'
<1> USE DEF HistoryInv
<1>1. EntriesAreDue' /\ IdentifiersAreOwn'
  BY DEF EntriesAreDue, IdentifiersAreOwn, Taken
<1>2. TrailAddsUp'
  BY DEF TrailAddsUp, Pending
<1>3. QED BY <1>1, <1>2

\* Time passes.
LEMMA TickInv ==
    ASSUME HistoryInv, Tick
    PROVE  HistoryInv'
<1> USE DEF HistoryInv
<1>1. HistoryTypeOK'
  BY DEF Tick, HistoryTypeOK
<1>2. EntriesAreDue' /\ IdentifiersAreOwn' /\ TrailAddsUp'
  BY TrailRests DEF Tick
<1>3. ReaderReads' /\ PagesMissNothing'
  BY ReaderRests DEF Tick
<1>4. QED BY <1>1, <1>2, <1>3

\* A page follows what was shown before it: its rows are all older, and none that is owed lies
\* between.
LEMMA PageFollows ==
    ASSUME HistoryInv, NEW S \in SUBSET events, NEW owed \in SUBSET events, Shows(Page(S), owed),
           \A i \in DOMAIN reader.got : \A e \in S : Newer(reader.got[i], e),
           \A e \in owed : e \in Range(reader.got) \/ e \in S
    PROVE  /\ reader' \in [at: {"idle", "paging", "done"}, got: Seq(Events), owed: SUBSET Events]
           /\ Range(reader'.got) \subseteq events /\ reader'.owed \subseteq events
           /\ reader'.at # "idle" /\ (reader'.at = "paging" => reader'.got # <<>>)
           /\ PagesMissNothing'
<1> USE DEF HistoryInv
<1> DEFINE t == Page(S).items
           g == reader.got
<1>1. /\ S \in SUBSET Events /\ IsFiniteSet(S) /\ \A e, f \in S : e.id = f.id => e = f
  BY FS_Subset DEF HistoryTypeOK, IdentifiersAreOwn
<1>2. /\ t \in Seq(S) /\ Page(S).more \in BOOLEAN
      /\ \A i, j \in DOMAIN t : i < j => Newer(t[i], t[j])
      /\ Page(S).more => t # <<>>
  BY <1>1, PageIs
<1>3. \A e \in S : (\E i \in DOMAIN t : t[i] = e) \/ (Page(S).more /\ Newer(Last(t), e))
  BY <1>1, PageIs
<1>4. /\ reader'.at = (IF Page(S).more THEN "paging" ELSE "done")
      /\ reader' = [at |-> reader'.at, got |-> g \o t, owed |-> owed]
      /\ reader'.got = g \o t /\ reader'.owed = owed
  BY DEF Shows
<1> HIDE DEF t
<1>5. g \in Seq(Events) /\ t \in Seq(Events)
  <2>1. t \in Seq(Events)
    BY <1>1, <1>2
  <2>2. QED BY <2>1 DEF HistoryTypeOK
<1> HIDE DEF g
<1>6. /\ g \o t \in Seq(Events) /\ Len(g \o t) = Len(g) + Len(t) /\ Len(g) \in Nat /\ Len(t) \in Nat
      /\ \A i \in 1..Len(g) : (g \o t)[i] = g[i]
      /\ \A i \in 1..Len(t) : (g \o t)[Len(g) + i] = t[i]
  BY <1>5
<1>7. /\ DOMAIN g = 1..Len(g) /\ DOMAIN t = 1..Len(t)
      /\ DOMAIN (g \o t) = 1..(Len(g) + Len(t))
  BY <1>5, <1>6
<1>8. ASSUME NEW i \in DOMAIN (g \o t)
      PROVE  \/ i \in DOMAIN g /\ (g \o t)[i] = g[i]
             \/ i - Len(g) \in DOMAIN t /\ (g \o t)[i] = t[i - Len(g)] /\ i > Len(g)
  <2>1. CASE i <= Len(g)
    BY <1>6, <1>7, <2>1
  <2>2. CASE i > Len(g)
    <3> DEFINE k == i - Len(g)
    <3>1. k \in 1..Len(t) /\ i = Len(g) + k
      BY <1>6, <1>7, <2>2
    <3>2. QED BY <1>6, <1>7, <2>2, <3>1
  <2>3. QED BY <1>6, <1>7, <2>1, <2>2
<1>9. \A x : x \in Range(g) \/ x \in Range(t) => x \in Range(g \o t)
  <2>1. ASSUME NEW i \in DOMAIN g PROVE i \in DOMAIN (g \o t) /\ (g \o t)[i] = g[i]
    BY <1>6, <1>7
  <2>2. ASSUME NEW i \in DOMAIN t PROVE Len(g) + i \in DOMAIN (g \o t) /\ (g \o t)[Len(g) + i] = t[i]
    BY <1>6, <1>7
  <2>3. QED BY <2>1, <2>2 DEF Range
<1>10. Range(g \o t) \subseteq events
  <2>1. \A i \in DOMAIN g : g[i] \in events
    BY DEF ReaderReads, Range, g
  <2>2. \A i \in DOMAIN t : t[i] \in events
    BY <1>2, <1>7
  <2>3. QED BY <1>8, <2>1, <2>2 DEF Range
<1>11. ASSUME NEW i \in DOMAIN (g \o t), NEW j \in DOMAIN (g \o t), i < j
       PROVE  Newer((g \o t)[i], (g \o t)[j])
  <2>1. \A k \in DOMAIN g, l \in DOMAIN g : k < l => Newer(g[k], g[l])
    BY DEF PagesMissNothing, g
  <2>2. \A k \in DOMAIN g, l \in DOMAIN t : Newer(g[k], t[l])
    BY <1>2, <1>7 DEF g
  <2>3. CASE i \in DOMAIN g /\ j \in DOMAIN g
    BY <1>6, <1>7, <1>11, <2>1, <2>3
  <2>4. CASE i \in DOMAIN g /\ j \notin DOMAIN g
    BY <1>6, <1>7, <1>8, <2>2, <2>4
  <2>5. CASE i \notin DOMAIN g
    <3>1. i > Len(g) /\ j > Len(g)
      BY <1>6, <1>7, <1>11, <2>5
    <3>2. j \notin DOMAIN g
      BY <1>6, <1>7, <3>1
    <3>3. /\ i - Len(g) \in DOMAIN t /\ (g \o t)[i] = t[i - Len(g)]
          /\ j - Len(g) \in DOMAIN t /\ (g \o t)[j] = t[j - Len(g)]
      BY <1>8, <2>5, <3>2
    <3>4. i - Len(g) < j - Len(g)
      BY <1>6, <1>7, <1>11
    <3>5. QED BY <1>2, <3>3, <3>4
  <2>6. QED BY <2>3, <2>4, <2>5
<1>12. t # <<>> => Last(g \o t) = Last(t) /\ g \o t # <<>>
  <2>1. t # <<>> => Len(t) \in 1..Len(t) /\ Len(g \o t) # 0
    BY <1>5, <1>6
  <2>2. QED BY <1>6, <2>1 DEF Last
<1>13. ASSUME NEW e \in owed
       PROVE  e \in Range(g \o t) \/ (reader'.at = "paging" /\ Newer(Last(g \o t), e))
  <2>1. CASE e \in Range(g)
    BY <1>9, <2>1
  <2>2. CASE e \in S
    <3>1. CASE \E i \in DOMAIN t : t[i] = e
      BY <1>9, <3>1 DEF Range
    <3>2. CASE Page(S).more /\ Newer(Last(t), e)
      BY <1>2, <1>4, <1>12, <3>2
    <3>3. QED BY <1>3, <2>2, <3>1, <3>2
  <2>3. QED BY <2>1, <2>2 DEF g
<1>14. PagesMissNothing'
  <2>1. \A i, j \in DOMAIN reader'.got : i < j => Newer(reader'.got[i], reader'.got[j])
    BY <1>4, <1>11
  <2>2. \A e \in reader'.owed :
           e \in Range(reader'.got) \/ (reader'.at = "paging" /\ Newer(Last(reader'.got), e))
    BY <1>4, <1>13
  <2>3. QED BY <2>1, <2>2 DEF PagesMissNothing, Newer
<1>15. reader'.at \in {"paging", "done"} /\ (reader'.at = "paging" => reader'.got # <<>>)
  BY <1>2, <1>4, <1>12
<1>16. reader' \in [at: {"idle", "paging", "done"}, got: Seq(Events), owed: SUBSET Events]
  BY <1>4, <1>6, <1>15 DEF HistoryTypeOK
<1>17. Range(reader'.got) \subseteq events /\ reader'.owed \subseteq events
  BY <1>4, <1>10
<1>18. QED BY <1>14, <1>15, <1>16, <1>17

\* The first page of a reading: all that is there is owed.
LEMMA FirstPageInv ==
    ASSUME HistoryInv, FirstPage
    PROVE  HistoryInv'
<1> USE DEF HistoryInv
<1>1. /\ reader.got = <<>> /\ Shows(Page(events), events)
      /\ UNCHANGED <<stored, handler, events, clock, stamped, unsaid>>
  BY DEF FirstPage, ReaderReads, Resting
<1>2. DOMAIN reader.got = {}
  BY <1>1
<1>3. /\ reader' \in [at: {"idle", "paging", "done"}, got: Seq(Events), owed: SUBSET Events]
      /\ Range(reader'.got) \subseteq events /\ reader'.owed \subseteq events
      /\ reader'.at # "idle" /\ (reader'.at = "paging" => reader'.got # <<>>)
      /\ PagesMissNothing'
  BY <1>1, <1>2, PageFollows
<1>4. HistoryTypeOK' /\ ReaderReads'
  BY <1>1, <1>3 DEF HistoryTypeOK, ReaderReads
<1>5. QED BY <1>1, <1>3, <1>4, TrailRests

\* A further page: what lies strictly below the cursor is older than all that was shown, and an
\* event still owed lies below it.
LEMMA NextPageInv ==
    ASSUME HistoryInv, NextPage
    PROVE  HistoryInv'
<1> USE DEF HistoryInv
<1> DEFINE g == reader.got
           S == {e \in events : After(e, Last(g))}
<1>1. /\ reader.at = "paging" /\ Shows(Page(S), reader.owed)
      /\ UNCHANGED <<stored, handler, events, clock, stamped, unsaid>>
  BY DEF NextPage
<1>2. g \in Seq(Events) /\ g # <<>> /\ Len(g) \in 1..Len(g) /\ DOMAIN g = 1..Len(g)
  BY <1>1 DEF HistoryTypeOK, ReaderReads
<1>3. \A i \in DOMAIN g : g[i] \in events
  BY DEF ReaderReads, Range
<1> HIDE DEF g
<1>4. Last(g) = g[Len(g)] /\ Last(g) \in events
  BY <1>2, <1>3 DEF Last
<1>5. /\ events \in SUBSET Events /\ \A e, f \in events : e.id = f.id => e = f
  BY DEF HistoryTypeOK, IdentifiersAreOwn
<1>6. \A e \in events : e \in S <=> Newer(Last(g), e)
  <2>1. \A e \in events : e.at \in Nat /\ e.id \in Nat
    BY <1>5 DEF Events
  <2>2. QED BY <1>4, <2>1 DEF After, Newer
<1>7. ASSUME NEW i \in DOMAIN g, NEW e \in S PROVE Newer(g[i], e)
  <2>1. Newer(Last(g), e) /\ e \in events
    BY <1>6
  <2>2. i = Len(g) \/ Newer(g[i], Last(g))
    BY <1>2, <1>4 DEF PagesMissNothing, g
  <2>3. QED BY <1>3, <1>4, <1>5, <2>1, <2>2, NewerOrders
<1>8. \A e \in reader.owed : e \in Range(g) \/ e \in S
  BY <1>6 DEF PagesMissNothing, ReaderReads, g
<1>9. S \in SUBSET events /\ reader.owed \in SUBSET events
  BY DEF ReaderReads
<1> HIDE DEF S
<1>10. /\ reader' \in [at: {"idle", "paging", "done"}, got: Seq(Events), owed: SUBSET Events]
       /\ Range(reader'.got) \subseteq events /\ reader'.owed \subseteq events
       /\ reader'.at # "idle" /\ (reader'.at = "paging" => reader'.got # <<>>)
       /\ PagesMissNothing'
  BY <1>1, <1>7, <1>8, <1>9, PageFollows DEF g
<1>11. HistoryTypeOK' /\ ReaderReads'
  BY <1>1, <1>10 DEF HistoryTypeOK, ReaderReads
<1>12. QED BY <1>1, <1>10, <1>11, TrailRests

\* The reader turns to something else.
LEMMA LeaveInv ==
    ASSUME HistoryInv, Leave
    PROVE  HistoryInv'
<1> USE DEF HistoryInv
<1>1. reader' = Resting /\ UNCHANGED <<stored, handler, events, clock, stamped, unsaid>>
  BY DEF Leave
<1>2. HistoryTypeOK'
  BY <1>1 DEF HistoryTypeOK, Resting
<1>3. ReaderReads' /\ PagesMissNothing'
  BY <1>1 DEF ReaderReads, PagesMissNothing, Resting, Range
<1>4. QED BY <1>1, <1>2, <1>3, TrailRests

\* A step that changes nothing.
LEMMA HistoryStutters ==
    ASSUME HistoryInv, UNCHANGED historyVars
    PROVE  HistoryInv'
<1> USE DEF HistoryInv, historyVars
<1>1. HistoryTypeOK'
  BY DEF HistoryTypeOK
<1>2. ReaderReads' /\ PagesMissNothing'
  BY ReaderRests
<1>3. QED BY <1>1, <1>2, TrailRests

-----------------------------------------------------------------------------
(* The theorems. *)

\* The invariant holds of every state of the history.
THEOREM HistoryInvariant == HistorySpec => []HistoryInv
<1>1. HistoryInit => HistoryInv
  BY HistoryInitInv
<1>2. HistoryInv /\ [HistoryNext]_historyVars => HistoryInv'
  <2> SUFFICES ASSUME HistoryInv, [HistoryNext]_historyVars PROVE HistoryInv'
    OBVIOUS
  <2>1. ASSUME NEW a \in Actors, Changing(a) PROVE HistoryInv'
    BY <2>1, LoadInv, RefuseInv, StampInv, RecordInv, SaveEditInv DEF Changing
  <2>2. ASSUME NEW a \in Actors, Unsaying(a) PROVE HistoryInv'
    BY <2>2, RecordFailsInv, SaveWholeInv DEF Unsaying
  <2>3. CASE Reading
    BY <2>3, TickInv, FirstPageInv, NextPageInv, LeaveInv DEF Reading
  <2>4. CASE UNCHANGED historyVars
    BY <2>4, HistoryStutters
  <2>5. QED BY <2>1, <2>2, <2>3, <2>4 DEF HistoryNext
<1>3. QED BY <1>1, <1>2, PTL DEF HistorySpec

\* However edits of the Candidate overlap and overwrite one another (candidate.py), what the audit
\* says was created, less what it says was removed, is what the Candidate holds, but for acts on
\* the whole of it and events the store refused.
THEOREM TrailTells == HistorySpec => []TrailAddsUp
<1>1. HistoryInv => TrailAddsUp
  BY DEF HistoryInv
<1>2. QED BY <1>1, HistoryInvariant, PTL

\* Whatever arrives between two pages (pages.py), a reader is shown everything that was there when
\* the reading began, newest first and once.
THEOREM PagesTell == HistorySpec => []PagesMissNothing
<1>1. HistoryInv => PagesMissNothing
  BY DEF HistoryInv
<1>2. QED BY <1>1, HistoryInvariant, PTL

=============================================================================
