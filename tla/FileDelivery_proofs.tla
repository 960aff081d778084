------------------------ MODULE FileDelivery_proofs ------------------------
(***************************************************************************)
(* Proofs about FileDelivery, for any patterns, listeners and Admin        *)
(* values, and any number of saves, Applies and crashes.                   *)
(***************************************************************************)
EXTENDS FileDelivery, TLAPS

-----------------------------------------------------------------------------
(* The inductive invariant. *)

\* The stages in which the files are written, before the restart is taken or skipped.
Writing == {"applying", "mapping_written", "listener_written", "listener_mounted",
            "raw_written", "delivered"}
Rewriting == {"restore", "restore_mapping", "restore_listener", "restore_mounted"}

\* The rules are always a file.
RulesStay == secret["mapping"] \in Patterns \X Preserved

\* Between the two steps of its delivery a file may be mounted and not there.
HalfWay(f) == \/ f = "listener" /\ engine.pc \in {"listener_written", "restore_listener"}
              \/ f = "raw" /\ engine.pc \in {"raw_written", "restore_raw_written"}
NoBrokenMount == \A f \in Files : doubt[f] \/ HalfWay(f) \/ Served(f) # Broken

\* A restart that is over loaded every file.
RestartLoads ==
    engine.pc \in {"restarted", "restore_restarted"} /\ ~rolling =>
        \A f \in Files : running[f] = Served(f) /\ Served(f) # Broken

\* What an Apply has written so far is what it validated.
Past(f) == CASE f = "mapping" -> (Forward \cup {"committing"}) \ {"applying"}
             [] f = "listener" -> (Forward \cup {"committing"}) \ {"applying", "mapping_written"}
             [] f = "raw" -> {"raw_written", "delivered", "restarted", "verifying", "committing"}
WrittenSoFar == \A f \in Files : engine.pc \in Past(f) => secret[f] = Content[f]

\* An Admin Apply delivers the latest Snapshot.
AdminKeepsLatest ==
    engine.pc \in Forward \cup {"committing"} /\ engine.kind = "admin" => engine.desired = latest

\* Without a restart there was nothing to write, but for what could not be read.
NothingToLoad ==
    engine.pc \in Writing /\ ~engine.rollout =>
        \A f \in Files : doubt[f] \/ secret[f] = Content[f]

\* The pod holds what it would read, or is being replaced, or the file is in doubt --
\* except while an Apply that will restart it writes.
Loaded == rolling \/ \A f \in Files : doubt[f] \/ running[f] = Served(f)
LoadedSoFar ==
    /\ engine.pc \in {"idle", "verifying", "committing", "roll_back", "restore_verify"} => Loaded
    /\ engine.pc \in Writing \cup Rewriting /\ ~engine.rollout => Loaded

FileInv ==
    /\ TypeOK /\ RulesStay /\ NoBrokenMount /\ RestartLoads /\ WrittenSoFar /\ AdminKeepsLatest
    /\ NothingToLoad /\ LoadedSoFar /\ ValidatedIsDelivered

-----------------------------------------------------------------------------
(* Facts about the operators. *)

\* A file is broken exactly where a mount names no content, and what a pod reads
\* depends on the Secret and the template alone.
LEMMA ServedIs ==
    ASSUME TypeOK, NEW f \in Files
    PROVE  /\ Served(f) \in Contents \cup {Broken}
           /\ Served(f) = Broken <=> mounted[f] /\ secret[f] = None
<1>1. mounted[f] \in BOOLEAN /\ secret[f] \in Contents /\ None \in Contents /\ Broken # None
  BY FilesAssumption DEF TypeOK, Contents
<1>2. CASE ~mounted[f]
  BY <1>1, <1>2 DEF Served
<1>3. CASE mounted[f] /\ secret[f] # None
  BY <1>1, <1>3, FilesAssumption DEF Served
<1>4. CASE mounted[f] /\ secret[f] = None
  BY <1>1, <1>4 DEF Served
<1>5. QED BY <1>1, <1>2, <1>3, <1>4

\* And after a step.
LEMMA ServedNext ==
    ASSUME TypeOK', NEW f \in Files
    PROVE  Served(f)' = Broken => mounted'[f] /\ secret'[f] = None
<1>1. mounted'[f] \in BOOLEAN /\ secret'[f] \in Contents /\ None \in Contents /\ Broken # None
  BY FilesAssumption DEF TypeOK, Contents
<1>2. CASE ~mounted'[f]
  BY <1>1, <1>2 DEF Served
<1>3. CASE mounted'[f] /\ secret'[f] # None
  BY <1>1, <1>3, FilesAssumption DEF Served
<1>4. QED BY <1>1, <1>2, <1>3

\* What is rendered for a file is content that file may have.
LEMMA RenderedIs ==
    ASSUME NEW config \in Configs, NEW values \in AdminValues
    PROVE  /\ Rendered(config, values)["mapping"] \in Patterns \X Preserved
           /\ \A f \in Files : Rendered(config, values)[f] \in Contents
           /\ \A m \in [Files -> Contents] :
                 (\A f \in Files : m[f] = Rendered(config, values)[f]) =>
                 m = Rendered(config, values)
<1> DEFINE r == Rendered(config, values)
<1>1. /\ r.mapping = <<config.mapping, values.preserved>>
      /\ r.listener = config.listener /\ r.raw = values.raw
      /\ config.mapping \in Patterns /\ values.preserved \in Preserved
      /\ config.listener \in Listeners /\ values.raw \in RawFiles
  BY DEF Rendered, Configs, AdminValues
<1>2. r["mapping"] \in Patterns \X Preserved
  BY <1>1
<1>3. \A f \in Files : r[f] \in Contents
  BY <1>1, <1>2 DEF Files, Sections, Contents
<1>4. r = [f \in Files |-> r[f]]
  BY DEF Rendered, Files, Sections
<1> HIDE DEF r
<1>5. \A m \in [Files -> Contents] : (\A f \in Files : m[f] = r[f]) => m = r
  BY <1>4
<1>6. QED BY <1>2, <1>3, <1>5 DEF r

\* What the engine writes.
LEMMA ContentIs ==
    ASSUME TypeOK
    PROVE  Content["mapping"] \in Patterns \X Preserved /\ \A f \in Files : Content[f] \in Contents
<1>1. engine.desired \in Configs /\ engine.values \in AdminValues
  BY DEF TypeOK, EngineState
<1>2. QED BY <1>1, RenderedIs DEF Content

\* A step of the engine that only moves on.
SameApply ==
    /\ engine'.kind = engine.kind /\ engine'.values = engine.values
    /\ engine'.desired = engine.desired

\* A plain step of the engine changes where it is, and nothing it holds or delivered.
LEMMA StepTo ==
    ASSUME TypeOK, NEW from \in Pcs, NEW to \in Pcs, Step(from, to)
    PROVE  /\ engine' \in EngineState /\ engine.pc = from /\ engine'.pc = to
           /\ SameApply /\ engine'.rollout = engine.rollout /\ Content' = Content
           /\ UNCHANGED <<admin, previous, saving, latest, base, count>>
<1>1. engine \in EngineState /\ engine' = [engine EXCEPT !.pc = to] /\ engine.pc = from
  BY DEF TypeOK, Step
<1>2. engine' \in EngineState /\ engine'.pc = to /\ SameApply /\ engine'.rollout = engine.rollout
  BY <1>1 DEF EngineState, SameApply
<1>3. QED BY <1>1, <1>2 DEF Step, Content, SameApply, adminVars, staged

\* Initially nothing is configured, and the rules say so.
LEMMA InitInv == Init => FileInv
<1> SUFFICES ASSUME Init PROVE FileInv
  OBVIOUS
<1>1. NoConfig \in Configs /\ NoValues \in AdminValues
  BY FilesAssumption DEF NoConfig, NoValues, Configs, AdminValues
<1>2. secret = Rendered(NoConfig, NoValues) /\ running = secret
  BY DEF Init
<1>3. secret = [f \in Files |-> secret[f]] /\ \A f \in Files : secret[f] \in Contents
  <2>1. secret = [f \in Files |-> secret[f]]
    BY <1>2 DEF Rendered, Files, Sections
  <2>2. QED BY <1>1, <1>2, <2>1, RenderedIs
<1>4. TypeOK
  <2>1. secret \in [Files -> Contents] /\ running \in [Files -> Contents \cup {Broken}]
    BY <1>2, <1>3
  <2>2. engine \in EngineState
    BY <1>1 DEF Init, EngineState, Pcs
  <2>3. count \in [saves: 0..MaxSaves, applies: 0..MaxApplies, crashes: 0..MaxCrashes]
    BY LimitsAssumption DEF Init
  <2>4. QED BY <1>1, <2>1, <2>2, <2>3 DEF Init, TypeOK
<1>5. RulesStay
  BY <1>1, <1>2, RenderedIs DEF RulesStay
<1>6. ASSUME NEW f \in Files PROVE running[f] = Served(f) /\ Served(f) # Broken
  <2>1. CASE f = "mapping"
    BY <1>2, <1>5, <2>1, ServedIs, <1>4, FilesAssumption DEF RulesStay, Served, Init, Files, Sections
  <2>2. CASE f # "mapping"
    <3>1. ~mounted[f] /\ secret[f] = None
      <4>1. mounted = [g \in Files |-> g = "mapping"]
        BY DEF Init
      <4>2. ~mounted[f]
        BY <2>2, <4>1
      <4>3. secret["listener"] = None /\ secret["raw"] = None
        BY <1>2 DEF Rendered, NoConfig, NoValues
      <4>4. QED BY <2>2, <4>2, <4>3 DEF Files, Sections
    <3>2. QED BY <1>2, <1>4, <3>1, ServedIs DEF Served
  <2>3. QED BY <2>1, <2>2
<1>7. engine.pc = "idle" /\ engine.outcome = "none"
  BY DEF Init
<1>8. QED
  BY <1>4, <1>5, <1>6, <1>7 DEF FileInv, NoBrokenMount, RestartLoads, WrittenSoFar, Past, Forward,
     AdminKeepsLatest, NothingToLoad, LoadedSoFar, Loaded, Writing, Rewriting, ValidatedIsDelivered,
     Files, Sections

-----------------------------------------------------------------------------
(* The Admin's values, and the Deployment. *)

\* A save changes what the next Apply will read, and nothing that is delivered.
LEMMA AdminInv ==
    ASSUME FileInv, (\E values \in AdminValues : SaveAdmin(values)) \/ KeepPrevious
    PROVE  FileInv'
<1>1. UNCHANGED <<secret, mounted, running, rolling, latest, base, engine, doubt>>
  BY DEF SaveAdmin, KeepPrevious, clusterVars, staged
<1>2. TypeOK'
  <2>1. TypeOK BY DEF FileInv
  <2>2. admin' \in AdminValues /\ previous' \in AdminValues /\ saving' \in AdminValues \cup {None}
    BY <2>1 DEF TypeOK, SaveAdmin, KeepPrevious
  <2>3. count' \in [saves: 0..MaxSaves, applies: 0..MaxApplies, crashes: 0..MaxCrashes]
    BY <2>1, LimitsAssumption DEF TypeOK, SaveAdmin, KeepPrevious
  <2>4. QED BY <1>1, <2>1, <2>2, <2>3 DEF TypeOK
<1>3. /\ Content' = Content /\ \A f \in Files : Served(f)' = Served(f) /\ (HalfWay(f)' <=> HalfWay(f))
  BY <1>1 DEF Content, Served, HalfWay
<1>4. (RulesStay /\ NoBrokenMount /\ RestartLoads)'
  BY <1>1, <1>3 DEF FileInv, RulesStay, NoBrokenMount, RestartLoads
<1>5. (WrittenSoFar /\ AdminKeepsLatest /\ NothingToLoad)'
  BY <1>1, <1>3 DEF FileInv, WrittenSoFar, AdminKeepsLatest, NothingToLoad
<1>6. (LoadedSoFar /\ ValidatedIsDelivered)'
  BY <1>1, <1>3 DEF FileInv, LoadedSoFar, Loaded, ValidatedIsDelivered
<1>7. QED BY <1>2, <1>4, <1>5, <1>6 DEF FileInv

\* A pod that starts has what it can read; during an Apply no doubt is lifted.
LEMMA PodInv == ASSUME FileInv, PodStarts PROVE FileInv'
<1>1. /\ UNCHANGED <<secret, mounted, admin, previous, saving, latest, base, engine, count>>
      /\ TypeOK
  BY DEF PodStarts, adminVars, staged, FileInv
<1>2. /\ Content' = Content /\ \A f \in Files : Served(f)' = Served(f) /\ (HalfWay(f)' <=> HalfWay(f))
  BY <1>1 DEF Content, Served, HalfWay
<1>3. /\ \A f \in Files : running'[f] = Served(f)
      /\ rolling' <=> \E f \in Files : Served(f) = Broken
      /\ \A f \in Files : doubt'[f] <=> doubt[f] /\ (engine.pc # "idle" \/ Served(f) = Broken)
      /\ running' \in [Files -> Contents \cup {Broken}] /\ rolling' \in BOOLEAN
      /\ doubt' \in [Files -> BOOLEAN]
  <2>1. \A f \in Files : running'[f] = Served(f)
    BY DEF PodStarts
  <2>2. rolling' \in BOOLEAN /\ (rolling' <=> \E f \in Files : Served(f) = Broken)
    BY DEF PodStarts
  <2>3. \A f \in Files : doubt'[f] <=> doubt[f] /\ (engine.pc # "idle" \/ Served(f) = Broken)
    BY DEF PodStarts
  <2>4. running' \in [Files -> Contents \cup {Broken}]
    BY <1>1, ServedIs DEF PodStarts
  <2>5. doubt' \in [Files -> BOOLEAN]
    BY DEF PodStarts
  <2>6. QED BY <2>1, <2>2, <2>3, <2>4, <2>5
<1>4. TypeOK'
  BY <1>1, <1>3 DEF TypeOK
<1>5. (RulesStay /\ NoBrokenMount /\ RestartLoads)'
  BY <1>1, <1>2, <1>3 DEF FileInv, RulesStay, NoBrokenMount, RestartLoads
<1>6. (WrittenSoFar /\ AdminKeepsLatest)'
  BY <1>1, <1>2 DEF FileInv, WrittenSoFar, AdminKeepsLatest
<1>7. NothingToLoad'
  BY <1>1, <1>2, <1>3 DEF FileInv, NothingToLoad, Writing
<1>8. (LoadedSoFar /\ ValidatedIsDelivered)'
  BY <1>1, <1>2, <1>3 DEF FileInv, LoadedSoFar, Loaded, ValidatedIsDelivered
<1>9. QED BY <1>4, <1>5, <1>6, <1>7, <1>8 DEF FileInv

\* The restart decision: where it says no, every file that could be read is as it
\* would be written.
LEMMA ValidateInv ==
    ASSUME FileInv, NEW kind \in {"operator", "admin"}, NEW desired \in Configs,
           NEW unread \in SUBSET Sections, Validate(kind, desired, unread)
    PROVE  FileInv'
<1> DEFINE baseline == IF kind = "admin" THEN latest ELSE base
           missed == {f \in unread : desired[f] = baseline[f] /\ WouldChange(f, desired, admin)}
           decision == RolloutDecision(desired, baseline, admin, unread)
<1>1. /\ TypeOK /\ engine.pc = "idle"
      /\ kind = "admin" => desired = latest
      /\ engine' = [pc |-> "applying", kind |-> kind, values |-> admin, desired |-> desired,
                    rollout |-> decision, outcome |-> "none"]
      /\ doubt' = [f \in Files |-> doubt[f] \/ f \in missed]
      /\ UNCHANGED <<secret, mounted, running, rolling, admin, previous, saving, latest, base>>
  BY DEF Validate, FileInv, clusterVars, adminVars, staged
<1>2. decision \in BOOLEAN
  BY DEF RolloutDecision
<1>3. ~decision => \A f \in Files : f \in missed \/ secret[f] = Rendered(desired, admin)[f]
  <2> SUFFICES ASSUME ~decision, NEW f \in Files, f \notin missed
               PROVE  secret[f] = Rendered(desired, admin)[f]
    OBVIOUS
  <2>1. CASE f \in Sections
    BY <2>1 DEF RolloutDecision, WouldChange
  <2>2. CASE f = "raw"
    BY <2>2 DEF RolloutDecision, RawChanged, Rendered
  <2>3. QED BY <2>1, <2>2 DEF Files
<1> HIDE DEF missed, decision
<1>4. /\ engine'.pc = "applying" /\ engine'.kind = kind /\ engine'.desired = desired
      /\ engine'.outcome = "none" /\ (engine'.rollout <=> decision)
      /\ Content' = Rendered(desired, admin)
      /\ engine' \in EngineState
  <2>1. /\ engine'.pc = "applying" /\ engine'.kind = kind /\ engine'.desired = desired
        /\ engine'.outcome = "none" /\ (engine'.rollout <=> decision)
        /\ engine'.values = admin
    BY <1>1
  <2>2. engine' \in EngineState
    BY <1>1, <1>2 DEF TypeOK, EngineState, Pcs, Forward
  <2>3. QED BY <2>1, <2>2 DEF Content
<1>5. doubt' \in [Files -> BOOLEAN] /\ \A f \in Files : doubt'[f] <=> doubt[f] \/ f \in missed
  BY <1>1
<1>6. TypeOK'
  <2>1. count' \in [saves: 0..MaxSaves, applies: 0..MaxApplies, crashes: 0..MaxCrashes]
    BY <1>1, LimitsAssumption DEF TypeOK, Validate
  <2>2. QED BY <1>1, <1>4, <1>5, <2>1 DEF TypeOK
<1>7. \A f \in Files : Served(f)' = Served(f) /\ ~HalfWay(f)
  BY <1>1 DEF Served, HalfWay
<1>8. (RulesStay /\ NoBrokenMount /\ RestartLoads)'
  BY <1>1, <1>4, <1>5, <1>7 DEF FileInv, RulesStay, NoBrokenMount, RestartLoads
<1>9. (WrittenSoFar /\ AdminKeepsLatest)'
  BY <1>1, <1>4 DEF WrittenSoFar, Past, Files, Sections, AdminKeepsLatest
<1>10. NothingToLoad'
  BY <1>1, <1>3, <1>4, <1>5 DEF NothingToLoad
<1>11. LoadedSoFar'
  BY <1>1, <1>4, <1>5, <1>7 DEF FileInv, LoadedSoFar, Loaded
<1>12. ValidatedIsDelivered'
  BY <1>4 DEF ValidatedIsDelivered
<1>13. QED BY <1>6, <1>8, <1>9, <1>10, <1>11, <1>12 DEF FileInv

-----------------------------------------------------------------------------
(* Delivery, forward and back. *)

\* A Secret is written.  Where no restart is to come, it held the same already.
LEMMA WriteInv ==
    ASSUME FileInv, NEW f \in Files, NEW from \in Pcs, NEW to \in Pcs, WriteSecret(f, from, to),
           \/ f = "mapping" /\ from = "applying" /\ to = "mapping_written"
           \/ f = "listener" /\ from = "mapping_written" /\ to = "listener_written"
           \/ f = "raw" /\ from = "listener_mounted" /\ to = "raw_written"
           \/ f = "raw" /\ from = "restore_raw" /\ to = "restore_raw_written"
    PROVE  FileInv'
<1>1. /\ TypeOK /\ Step(from, to) /\ UNCHANGED <<mounted, running, rolling, doubt>>
      /\ secret' = [secret EXCEPT ![f] = Content[f]]
  BY DEF WriteSecret, FileInv
<1>2. /\ engine' \in EngineState /\ engine.pc = from /\ engine'.pc = to
      /\ SameApply /\ engine'.rollout = engine.rollout /\ Content' = Content
      /\ UNCHANGED <<admin, previous, saving, latest, base, count>>
  BY <1>1, StepTo
<1>3. /\ secret' \in [Files -> Contents] /\ secret'[f] = Content[f]
      /\ \A g \in Files \ {f} : secret'[g] = secret[g]
      /\ Content["mapping"] \in Patterns \X Preserved
  BY <1>1, ContentIs DEF TypeOK
<1>4. TypeOK'
  BY <1>1, <1>2, <1>3 DEF TypeOK
<1>5. RulesStay'
  BY <1>3 DEF FileInv, RulesStay, Files, Sections
<1>6. \A g \in Files \ {f} : Served(g)' = Served(g) /\ (HalfWay(g) => engine.pc # from)
  BY <1>1, <1>2, <1>3 DEF Served, HalfWay
<1>7. NoBrokenMount'
  <2> SUFFICES ASSUME NEW g \in Files PROVE (doubt[g] \/ HalfWay(g) \/ Served(g) # Broken)'
    BY DEF NoBrokenMount
  <2>1. CASE g # f
    BY <1>1, <1>2, <1>6, <2>1 DEF FileInv, NoBrokenMount
  <2>2. CASE g = f /\ f = "mapping"
    BY <1>3, <1>4, <2>2, ServedNext, FilesAssumption
  <2>3. CASE g = f /\ f # "mapping"
    BY <1>2, <2>3 DEF HalfWay
  <2>4. QED BY <2>1, <2>2, <2>3
<1>8. RestartLoads' /\ ValidatedIsDelivered'
  BY <1>2 DEF RestartLoads, ValidatedIsDelivered
<1>9. WrittenSoFar'
  BY <1>2, <1>3 DEF FileInv, WrittenSoFar, Past, Forward, Files, Sections
<1>10. AdminKeepsLatest'
  BY <1>2 DEF FileInv, AdminKeepsLatest, SameApply, Forward
<1>11. NothingToLoad'
  BY <1>1, <1>2, <1>3 DEF FileInv, NothingToLoad, Writing
<1>12. LoadedSoFar'
  <2> SUFFICES ASSUME to # "restore_raw_written", ~engine.rollout PROVE Loaded'
    BY <1>2 DEF LoadedSoFar, Writing, Rewriting
  <2>1. Loaded /\ NothingToLoad /\ from \in Writing
    BY <1>2 DEF FileInv, LoadedSoFar, Writing
  <2>2. doubt[f] \/ secret[f] = Content[f]
    BY <1>2, <2>1 DEF NothingToLoad
  <2>3. \A g \in Files : doubt[g] \/ Served(g)' = Served(g)
    BY <1>1, <1>3, <1>6, <2>2 DEF Served
  <2>4. QED BY <1>1, <2>1, <2>3 DEF Loaded
<1>13. QED
  BY <1>4, <1>5, <1>7, <1>8, <1>9, <1>10, <1>11, <1>12 DEF FileInv

\* The mount follows the content: a file that is not there is not mounted, and a
\* template that changes replaces the pod.
LEMMA MountInv ==
    ASSUME FileInv, NEW f \in Files, NEW from \in Pcs, NEW to \in Pcs, Mount(f, from, to),
           \/ f = "listener" /\ from = "listener_written" /\ to = "listener_mounted"
           \/ f = "raw" /\ from = "raw_written" /\ to = "delivered"
           \/ f = "listener" /\ from = "restore_listener" /\ to = "restore_mounted"
           \/ f = "raw" /\ from = "restore_raw_written" /\ to = "restored"
    PROVE  FileInv'
<1>1. /\ TypeOK /\ Step(from, to) /\ UNCHANGED <<secret, running, doubt>>
      /\ mounted' = [mounted EXCEPT ![f] = secret[f] # None]
      /\ rolling' = (rolling \/ mounted' # mounted)
  BY DEF Mount, FileInv
<1>2. /\ engine' \in EngineState /\ engine.pc = from /\ engine'.pc = to
      /\ SameApply /\ engine'.rollout = engine.rollout /\ Content' = Content
      /\ UNCHANGED <<admin, previous, saving, latest, base, count>>
  BY <1>1, StepTo
<1>3. /\ mounted' \in [Files -> BOOLEAN] /\ (mounted'[f] <=> secret[f] # None)
      /\ \A g \in Files \ {f} : mounted'[g] = mounted[g]
  BY <1>1 DEF TypeOK
<1>4. rolling' \in BOOLEAN /\ (rolling' <=> rolling \/ mounted' # mounted)
  BY <1>1 DEF TypeOK
<1>5. TypeOK'
  BY <1>1, <1>2, <1>3, <1>4 DEF TypeOK
<1>6. RulesStay'
  BY <1>1 DEF FileInv, RulesStay
<1>7. NoBrokenMount'
  <2> SUFFICES ASSUME NEW g \in Files PROVE (doubt[g] \/ Served(g) # Broken)'
    BY DEF NoBrokenMount
  <2>1. CASE g # f
    <3>1. Served(g)' = Served(g) /\ ~HalfWay(g)
      BY <1>1, <1>2, <1>3, <2>1 DEF Served, HalfWay
    <3>2. QED BY <1>1, <3>1 DEF FileInv, NoBrokenMount
  <2>2. CASE g = f
    BY <1>1, <1>3, <1>5, <2>2, ServedNext
  <2>3. QED BY <2>1, <2>2
<1>8. RestartLoads' /\ ValidatedIsDelivered'
  BY <1>2 DEF RestartLoads, ValidatedIsDelivered
<1>9. WrittenSoFar'
  BY <1>1, <1>2 DEF FileInv, WrittenSoFar, Past, Forward, Files, Sections
<1>10. AdminKeepsLatest'
  BY <1>2 DEF FileInv, AdminKeepsLatest, SameApply, Forward
<1>11. NothingToLoad'
  BY <1>1, <1>2 DEF FileInv, NothingToLoad, Writing
<1>12. LoadedSoFar'
  <2> SUFFICES ASSUME to # "restored", ~engine.rollout PROVE Loaded'
    BY <1>2 DEF LoadedSoFar, Writing, Rewriting
  <2>1. Loaded
    BY <1>2 DEF FileInv, LoadedSoFar, Writing, Rewriting
  <2>2. CASE mounted' = mounted
    <3>1. \A g \in Files : Served(g)' = Served(g)
      BY <1>1, <2>2 DEF Served
    <3>2. QED BY <1>1, <1>4, <2>1, <3>1 DEF Loaded
  <2>3. CASE mounted' # mounted
    BY <1>4, <2>3 DEF Loaded
  <2>4. QED BY <2>2, <2>3
<1>13. QED
  BY <1>5, <1>6, <1>7, <1>8, <1>9, <1>10, <1>11, <1>12 DEF FileInv

\* A restore asks for a restart before it writes, and only then.
LEMMA RestoreInv ==
    ASSUME FileInv, NEW f \in Files, NEW from \in Pcs, NEW to \in Pcs, RestoreSecret(f, from, to),
           \/ f = "mapping" /\ from = "restore" /\ to = "restore_mapping"
           \/ f = "listener" /\ from = "restore_mapping" /\ to = "restore_listener"
    PROVE  FileInv'
<1>1. /\ TypeOK /\ engine \in EngineState /\ engine.pc = from
      /\ engine' = [engine EXCEPT !.pc = to, !.rollout = @ \/ secret[f] # Content[f]]
      /\ secret' = [secret EXCEPT ![f] = Content[f]]
      /\ UNCHANGED <<mounted, running, rolling, doubt, admin, previous, saving, latest, base, count>>
  BY DEF RestoreSecret, FileInv, TypeOK, adminVars, staged
<1>2. /\ engine' \in EngineState /\ engine'.pc = to
      /\ engine'.rollout <=> engine.rollout \/ secret[f] # Content[f]
  BY <1>1 DEF EngineState
<1>3. /\ secret' \in [Files -> Contents] /\ secret'[f] = Content[f]
      /\ \A g \in Files \ {f} : secret'[g] = secret[g]
      /\ Content["mapping"] \in Patterns \X Preserved
  BY <1>1, ContentIs DEF TypeOK
<1>4. TypeOK'
  BY <1>1, <1>2, <1>3 DEF TypeOK
<1>5. RulesStay'
  BY <1>3 DEF FileInv, RulesStay, Files, Sections
<1>6. NoBrokenMount'
  <2> SUFFICES ASSUME NEW g \in Files PROVE (doubt[g] \/ HalfWay(g) \/ Served(g) # Broken)'
    BY DEF NoBrokenMount
  <2>1. CASE g # f
    <3>1. Served(g)' = Served(g) /\ ~HalfWay(g)
      BY <1>1, <1>3, <2>1 DEF Served, HalfWay
    <3>2. QED BY <1>1, <3>1 DEF FileInv, NoBrokenMount
  <2>2. CASE g = f /\ f = "mapping"
    BY <1>3, <1>4, <2>2, ServedNext, FilesAssumption
  <2>3. CASE g = f /\ f # "mapping"
    BY <1>2, <2>3 DEF HalfWay
  <2>4. QED BY <2>1, <2>2, <2>3
<1>7. /\ RestartLoads' /\ ValidatedIsDelivered' /\ WrittenSoFar' /\ AdminKeepsLatest'
      /\ NothingToLoad'
  BY <1>2 DEF RestartLoads, ValidatedIsDelivered, WrittenSoFar, Past, Forward, Files, Sections,
     AdminKeepsLatest, NothingToLoad, Writing
<1>8. LoadedSoFar'
  <2> SUFFICES ASSUME ~engine.rollout, secret[f] = Content[f] PROVE Loaded'
    BY <1>2 DEF LoadedSoFar, Writing, Rewriting
  <2>1. Loaded
    BY <1>1 DEF FileInv, LoadedSoFar, Rewriting
  <2>2. \A g \in Files : Served(g)' = Served(g)
    BY <1>1, <1>3 DEF Served
  <2>3. QED BY <1>1, <2>1, <2>2 DEF Loaded
<1>9. QED BY <1>4, <1>5, <1>6, <1>7, <1>8 DEF FileInv

-----------------------------------------------------------------------------
(* The restart, Verification, and the stages that write no file. *)

\* The restart is asked for: the pod is to be replaced.
LEMMA RestartInv ==
    ASSUME FileInv, NEW from \in Pcs, NEW to \in Pcs, RestartDeployment(from, to),
           \/ from = "delivered" /\ to = "restarted"
           \/ from = "restore_mounted" /\ to = "restore_restarted"
    PROVE  FileInv'
<1>1. /\ TypeOK /\ Step(from, to) /\ UNCHANGED <<secret, mounted, running, doubt>> /\ rolling' = TRUE
  BY DEF RestartDeployment, FileInv
<1>2. /\ engine' \in EngineState /\ engine.pc = from /\ engine'.pc = to
      /\ SameApply /\ engine'.rollout = engine.rollout /\ Content' = Content
      /\ UNCHANGED <<admin, previous, saving, latest, base, count>>
  BY <1>1, StepTo
<1>3. TypeOK'
  BY <1>1, <1>2 DEF TypeOK
<1>4. RulesStay' /\ RestartLoads' /\ ValidatedIsDelivered' /\ NothingToLoad' /\ LoadedSoFar'
  BY <1>1, <1>2 DEF FileInv, RulesStay, RestartLoads, ValidatedIsDelivered, NothingToLoad, LoadedSoFar,
     Writing, Rewriting
<1>5. \A f \in Files : Served(f)' = Served(f) /\ ~HalfWay(f)
  BY <1>1, <1>2 DEF Served, HalfWay
<1>6. NoBrokenMount'
  BY <1>1, <1>5 DEF FileInv, NoBrokenMount
<1>7. WrittenSoFar' /\ AdminKeepsLatest'
  BY <1>1, <1>2 DEF FileInv, WrittenSoFar, Past, Forward, Files, Sections, AdminKeepsLatest, SameApply
<1>8. QED BY <1>3, <1>4, <1>6, <1>7 DEF FileInv

\* A stage is passed that changes nothing in the Cluster: no restart was needed, or
\* the coordinator answers.
LEMMA PassInv ==
    ASSUME FileInv, NEW from \in Pcs, NEW to \in Pcs, Step(from, to),
           UNCHANGED <<clusterVars, doubt>>,
           \/ from = "delivered" /\ to = "verifying" /\ ~engine.rollout
           \/ from = "verifying" /\ to = "committing"
           \/ from = "restore_mounted" /\ to = "restore_verify" /\ ~engine.rollout
    PROVE  FileInv'
<1>1. /\ TypeOK /\ UNCHANGED <<secret, mounted, running, rolling, doubt>>
  BY DEF FileInv, clusterVars
<1>2. /\ engine' \in EngineState /\ engine.pc = from /\ engine'.pc = to
      /\ SameApply /\ engine'.rollout = engine.rollout /\ Content' = Content
      /\ UNCHANGED <<admin, previous, saving, latest, base, count>>
  BY <1>1, StepTo
<1>3. TypeOK'
  BY <1>1, <1>2 DEF TypeOK
<1>4. RulesStay' /\ RestartLoads' /\ ValidatedIsDelivered' /\ NothingToLoad'
  BY <1>1, <1>2 DEF FileInv, RulesStay, RestartLoads, ValidatedIsDelivered, NothingToLoad, Writing
<1>5. \A f \in Files : Served(f)' = Served(f) /\ ~HalfWay(f)
  BY <1>1, <1>2 DEF Served, HalfWay
<1>6. NoBrokenMount'
  BY <1>1, <1>5 DEF FileInv, NoBrokenMount
<1>7. WrittenSoFar' /\ AdminKeepsLatest'
  BY <1>1, <1>2 DEF FileInv, WrittenSoFar, Past, Forward, Files, Sections, AdminKeepsLatest, SameApply
<1>8. LoadedSoFar'
  <2>1. Loaded
    BY <1>2 DEF FileInv, LoadedSoFar, Writing, Rewriting
  <2>2. Loaded'
    BY <1>1, <1>5, <2>1 DEF Loaded
  <2>3. QED BY <2>2 DEF LoadedSoFar
<1>9. QED BY <1>3, <1>4, <1>6, <1>7, <1>8 DEF FileInv

\* The restart is over: every doubt is, for the pod has loaded every file.
LEMMA RolledOutInv ==
    ASSUME FileInv, NEW from \in Pcs, NEW to \in Pcs, Step(from, to), ~rolling,
           doubt' = [f \in Files |-> FALSE], UNCHANGED clusterVars,
           \/ from = "restarted" /\ to = "verifying"
           \/ from = "restore_restarted" /\ to = "restore_verify"
    PROVE  FileInv'
<1>1. /\ TypeOK /\ UNCHANGED <<secret, mounted, running, rolling>>
  BY DEF FileInv, clusterVars
<1>2. /\ engine' \in EngineState /\ engine.pc = from /\ engine'.pc = to
      /\ SameApply /\ engine'.rollout = engine.rollout /\ Content' = Content
      /\ UNCHANGED <<admin, previous, saving, latest, base, count>>
  BY <1>1, StepTo
<1>3. TypeOK'
  BY <1>1, <1>2 DEF TypeOK
<1>4. RulesStay' /\ RestartLoads' /\ ValidatedIsDelivered' /\ NothingToLoad'
  BY <1>1, <1>2 DEF FileInv, RulesStay, RestartLoads, ValidatedIsDelivered, NothingToLoad, Writing
<1>5. \A f \in Files : Served(f)' = Served(f) /\ running'[f] = Served(f) /\ Served(f) # Broken
  BY <1>1, <1>2 DEF FileInv, RestartLoads, Served
<1>6. NoBrokenMount'
  BY <1>5 DEF NoBrokenMount
<1>7. WrittenSoFar' /\ AdminKeepsLatest'
  BY <1>1, <1>2 DEF FileInv, WrittenSoFar, Past, Forward, Files, Sections, AdminKeepsLatest, SameApply
<1>8. LoadedSoFar'
  BY <1>5 DEF LoadedSoFar, Loaded
<1>9. QED BY <1>3, <1>4, <1>6, <1>7, <1>8 DEF FileInv

\* An Apply ends, or turns to Auto Rollback: what the pod has not loaded is in doubt
\* from here, unless the stage it left had everything loaded.
LEMMA EndsInv ==
    ASSUME FileInv, TypeOK', UNCHANGED clusterVars, engine'.pc \in {"idle", "roll_back"},
           \/ doubt' = LeftUnloaded
           \/ /\ doubt' = doubt
              /\ engine.pc \in {"idle", "committing", "roll_back", "restore_verify"},
           engine'.pc = "idle" /\ engine'.outcome = "succeeded" =>
              secret = Rendered(latest', engine'.values)
    PROVE  FileInv'
<1>1. /\ TypeOK /\ UNCHANGED <<secret, mounted, running, rolling>>
  BY DEF FileInv, clusterVars
<1>2. \A f \in Files : Served(f)' = Served(f)
  BY <1>1 DEF Served
<1>3. /\ RulesStay' /\ RestartLoads' /\ WrittenSoFar' /\ AdminKeepsLatest' /\ NothingToLoad'
      /\ ValidatedIsDelivered'
  BY <1>1 DEF FileInv, RulesStay, RestartLoads, WrittenSoFar, Past, Forward, Files, Sections,
     AdminKeepsLatest, NothingToLoad, Writing, ValidatedIsDelivered
<1>4. NoBrokenMount' /\ Loaded'
  <2>1. CASE doubt' = LeftUnloaded
    <3>1. \A f \in Files :
             doubt'[f] <=> doubt[f] \/ running[f] # Served(f) \/ Served(f) = Broken
      BY <2>1 DEF LeftUnloaded
    <3>2. QED BY <1>1, <1>2, <3>1 DEF NoBrokenMount, Loaded
  <2>2. CASE /\ doubt' = doubt
             /\ engine.pc \in {"idle", "committing", "roll_back", "restore_verify"}
    <3>1. Loaded /\ \A f \in Files : ~HalfWay(f)
      BY <2>2 DEF FileInv, LoadedSoFar, HalfWay
    <3>2. QED BY <1>1, <1>2, <2>2, <3>1 DEF FileInv, NoBrokenMount, Loaded
  <2>3. QED BY <2>1, <2>2
<1>5. LoadedSoFar'
  BY <1>4 DEF LoadedSoFar
<1>6. QED BY <1>3, <1>4, <1>5 DEF FileInv

\* A commit: what was delivered is the latest Snapshot with the values validated.
LEMMA CommitInv ==
    ASSUME FileInv, (\E reset \in BOOLEAN : Commit(reset)) \/ CommitFails
    PROVE  FileInv'
<1>1. /\ TypeOK /\ engine \in EngineState /\ engine.pc = "committing"
      /\ UNCHANGED <<clusterVars, admin, previous, saving, count, doubt>>
  BY DEF Commit, CommitFails, FileInv, TypeOK, adminVars
<1>2. secret = Content
  <2>1. \A f \in Files : secret[f] = Content[f]
    BY <1>1 DEF FileInv, WrittenSoFar, Past, Forward, Files, Sections
  <2>2. engine.desired \in Configs /\ engine.values \in AdminValues /\ secret \in [Files -> Contents]
    BY <1>1 DEF TypeOK, EngineState
  <2>3. QED BY <2>1, <2>2, RenderedIs DEF Content
<1>3. PICK o \in {"succeeded", "failed"} :
         /\ engine' = [engine EXCEPT !.pc = "idle", !.outcome = o]
         /\ o = "succeeded" => \E reset \in BOOLEAN : Commit(reset)
  <2>1. CASE CommitFails
    BY <2>1 DEF CommitFails
  <2>2. ASSUME NEW reset \in BOOLEAN, Commit(reset)
        PROVE  \E o \in {"succeeded", "failed"} : engine' = [engine EXCEPT !.pc = "idle", !.outcome = o]
    BY <2>2 DEF Commit
  <2>3. QED BY <2>1, <2>2
<1>4. /\ engine' \in EngineState /\ engine'.pc = "idle" /\ engine'.outcome = o
      /\ engine'.values = engine.values
  BY <1>1, <1>3 DEF EngineState, Pcs
<1>5. latest' \in Configs /\ base' \in Configs
  BY <1>1 DEF Commit, CommitFails, TypeOK, EngineState, staged
<1>6. TypeOK'
  BY <1>1, <1>4, <1>5 DEF TypeOK, clusterVars
<1>7. o = "succeeded" => latest' = engine.desired
  <2>1. engine.kind = "admin" => engine.desired = latest
    BY <1>1 DEF FileInv, AdminKeepsLatest
  <2>2. engine.kind \in {"operator", "admin"}
    BY <1>1 DEF EngineState
  <2>3. QED BY <1>3, <2>1, <2>2 DEF Commit
<1>8. QED BY <1>1, <1>2, <1>4, <1>6, <1>7, EndsInv DEF Content

\* A stage raises, the restore raises or ends, or the process stops.
LEMMA FailInv ==
    ASSUME FileInv, StageFails \/ RestoreFails \/ Restored \/ Crash
    PROVE  FileInv'
<1>1. /\ TypeOK /\ engine \in EngineState
      /\ UNCHANGED <<clusterVars, admin, previous, latest, base>>
  BY DEF FileInv, TypeOK, StageFails, RestoreFails, Restored, Crash, adminVars, staged
<1>2. LeftUnloaded \in [Files -> BOOLEAN]
  BY DEF LeftUnloaded
<1>3. CASE StageFails \/ RestoreFails \/ Restored
  <2>1. /\ doubt' = LeftUnloaded /\ UNCHANGED <<saving, count>>
        /\ \/ engine' = [engine EXCEPT !.pc = "roll_back"]
           \/ \E o \in {"rolled_back", "incident"} :
                 engine' = [engine EXCEPT !.pc = "idle", !.outcome = o]
    BY <1>3 DEF StageFails, RestoreFails, Restored, adminVars
  <2>2. /\ engine' \in EngineState /\ engine'.pc \in {"idle", "roll_back"}
        /\ engine'.pc = "idle" => engine'.outcome # "succeeded"
    BY <1>1, <2>1 DEF EngineState, Pcs, Backward
  <2>3. TypeOK'
    BY <1>1, <1>2, <2>1, <2>2 DEF TypeOK, clusterVars
  <2>4. QED BY <1>1, <2>1, <2>2, <2>3, EndsInv
<1>4. CASE Crash
  <2>1. /\ saving' = None
        /\ count' \in [saves: 0..MaxSaves, applies: 0..MaxApplies, crashes: 0..MaxCrashes]
    BY <1>1, <1>4, LimitsAssumption DEF Crash, TypeOK
  <2>2. doubt' \in [Files -> BOOLEAN]
    BY <1>1, <1>2, <1>4 DEF Crash, TypeOK
  <2>3. CASE engine.pc \in Forward
    <3>1. engine' = [engine EXCEPT !.pc = "roll_back", !.kind = "operator"] /\ doubt' = LeftUnloaded
      BY <1>4, <2>3 DEF Crash, Forward, Backward
    <3>2. engine' \in EngineState /\ engine'.pc = "roll_back"
      BY <1>1, <3>1 DEF EngineState, Pcs, Backward
    <3>3. TypeOK'
      BY <1>1, <2>1, <2>2, <3>2 DEF TypeOK, clusterVars
    <3>4. QED BY <1>1, <3>1, <3>2, <3>3, EndsInv
  <2>4. CASE engine.pc \in Backward \cup {"committing"}
    <3>1. /\ engine' = [engine EXCEPT !.pc = "idle", !.outcome = "failed"]
          /\ doubt' = LeftUnloaded \/ (doubt' = doubt /\ engine.pc = "committing")
      BY <1>4, <2>4 DEF Crash, Forward, Backward
    <3>2. engine' \in EngineState /\ engine'.pc = "idle" /\ engine'.outcome = "failed"
      BY <1>1, <3>1 DEF EngineState, Pcs
    <3>3. TypeOK'
      BY <1>1, <2>1, <2>2, <3>2 DEF TypeOK, clusterVars
    <3>4. QED BY <1>1, <3>1, <3>2, <3>3, EndsInv
  <2>5. CASE engine.pc = "idle"
    <3>1. engine' = engine /\ doubt' = doubt
      BY <1>4, <2>5 DEF Crash, Forward, Backward
    <3>2. TypeOK'
      BY <1>1, <2>1, <2>2, <3>1 DEF TypeOK, clusterVars
    <3>3. engine.outcome = "succeeded" => secret = Rendered(latest, engine.values)
      BY <2>5 DEF FileInv, ValidatedIsDelivered
    <3>4. QED BY <1>1, <2>5, <3>1, <3>2, <3>3, EndsInv
  <2>6. QED BY <1>1, <2>3, <2>4, <2>5 DEF EngineState, Pcs
<1>5. QED BY <1>3, <1>4

\* Auto Rollback begins: from what is loaded or in doubt, with no restart asked yet.
LEMMA RollBackInv == ASSUME FileInv, RollBack PROVE FileInv'
<1> DEFINE values == IF engine.kind = "admin" THEN previous ELSE admin
<1>1. /\ TypeOK /\ engine \in EngineState /\ engine.pc = "roll_back"
      /\ engine' = [engine EXCEPT !.pc = "restore", !.values = values, !.desired = latest,
                                  !.rollout = FALSE]
      /\ admin' = values
      /\ UNCHANGED <<secret, mounted, running, rolling, previous, saving, latest, base, count, doubt>>
  BY DEF FileInv, TypeOK, RollBack, clusterVars, staged
<1>2. values \in AdminValues
  BY <1>1 DEF TypeOK
<1> HIDE DEF values
<1>3. engine' \in EngineState /\ engine'.pc = "restore"
  BY <1>1, <1>2 DEF EngineState, Pcs, Backward, TypeOK
<1>4. TypeOK'
  BY <1>1, <1>2, <1>3 DEF TypeOK
<1>5. \A f \in Files : Served(f)' = Served(f) /\ ~HalfWay(f)
  BY <1>1 DEF Served, HalfWay
<1>6. /\ RulesStay' /\ RestartLoads' /\ WrittenSoFar' /\ AdminKeepsLatest' /\ NothingToLoad'
      /\ ValidatedIsDelivered'
  BY <1>1, <1>3 DEF FileInv, RulesStay, RestartLoads, WrittenSoFar, Past, Forward, Files, Sections,
     AdminKeepsLatest, NothingToLoad, Writing, ValidatedIsDelivered
<1>7. NoBrokenMount'
  BY <1>1, <1>5 DEF FileInv, NoBrokenMount
<1>8. LoadedSoFar'
  <2>1. Loaded
    BY <1>1 DEF FileInv, LoadedSoFar
  <2>2. QED BY <1>1, <1>5, <2>1 DEF LoadedSoFar, Loaded
<1>9. QED BY <1>4, <1>6, <1>7, <1>8 DEF FileInv

\* The restored Sections answer: the Operator's rollback is over, the Admin's is not.
LEMMA RestoreVerifyInv == ASSUME FileInv, RestoreVerify PROVE FileInv'
<1>1. /\ TypeOK /\ engine \in EngineState /\ engine.pc = "restore_verify"
      /\ UNCHANGED <<clusterVars, admin, previous, saving, latest, base, count, doubt>>
  BY DEF FileInv, TypeOK, RestoreVerify, adminVars, staged
<1>2. CASE engine.kind = "admin"
  <2>1. engine' = [engine EXCEPT !.pc = "restore_raw"]
    BY <1>2 DEF RestoreVerify
  <2>2. engine' \in EngineState /\ engine'.pc = "restore_raw"
    BY <1>1, <2>1 DEF EngineState, Pcs, Backward
  <2>3. TypeOK'
    BY <1>1, <2>2 DEF TypeOK, clusterVars
  <2>4. \A f \in Files : Served(f)' = Served(f) /\ ~HalfWay(f)
    BY <1>1 DEF Served, HalfWay, clusterVars
  <2>5. /\ RulesStay' /\ RestartLoads' /\ WrittenSoFar' /\ AdminKeepsLatest' /\ NothingToLoad'
        /\ ValidatedIsDelivered' /\ LoadedSoFar'
    BY <1>1, <2>2 DEF FileInv, RulesStay, RestartLoads, WrittenSoFar, Past, Forward, Files, Sections,
       AdminKeepsLatest, NothingToLoad, Writing, Rewriting, LoadedSoFar, ValidatedIsDelivered, clusterVars
  <2>6. NoBrokenMount'
    BY <1>1, <2>4 DEF FileInv, NoBrokenMount
  <2>7. QED BY <2>3, <2>5, <2>6 DEF FileInv
<1>3. CASE engine.kind # "admin"
  <2>1. engine' = [engine EXCEPT !.pc = "idle", !.outcome = "rolled_back"]
    BY <1>3 DEF RestoreVerify
  <2>2. engine' \in EngineState /\ engine'.pc = "idle" /\ engine'.outcome = "rolled_back"
    BY <1>1, <2>1 DEF EngineState, Pcs
  <2>3. TypeOK'
    BY <1>1, <2>2 DEF TypeOK, clusterVars
  <2>4. QED BY <1>1, <2>2, <2>3, EndsInv
<1>4. QED BY <1>2, <1>3

-----------------------------------------------------------------------------
(* The theorems. *)

\* Every step keeps the invariant.
LEMMA NextInv == FileInv /\ [Next]_vars => FileInv'
<1> SUFFICES ASSUME FileInv, [Next]_vars PROVE FileInv'
  OBVIOUS
<1>1. ASSUME NEW kind \in {"operator", "admin"}, NEW desired \in Configs,
             NEW unread \in SUBSET Sections, Validate(kind, desired, unread)
      PROVE  FileInv'
  BY <1>1, ValidateInv
<1>2. /\ Pcs = {"idle", "committing"} \cup Forward \cup Backward
      /\ Files = {"mapping", "listener", "raw"}
  BY DEF Pcs, Files, Sections
<1>3. CASE DeliverSections \/ DeliverRaw \/ RestoreRaw
  BY <1>2, <1>3, WriteInv, MountInv DEF DeliverSections, DeliverRaw, RestoreRaw, Forward, Backward
<1>4. CASE RestoreSections
  BY <1>2, <1>4, RestoreInv, MountInv DEF RestoreSections, Backward
<1>5. CASE RollOut \/ SkipRollout \/ RolledOut \/ Verify
  BY <1>2, <1>5, RestartInv, PassInv, RolledOutInv
     DEF RollOut, SkipRollout, RolledOut, Verify, Forward
<1>6. CASE RestoreRollOut
  BY <1>2, <1>6, RestartInv, PassInv, RolledOutInv DEF RestoreRollOut, Backward
<1>7. CASE UNCHANGED vars
  <2>1. UNCHANGED <<secret, mounted, running, rolling, admin, previous, saving, latest, base, engine,
                    count, doubt>>
    BY <1>7 DEF vars
  <2>2. /\ Content' = Content /\ \A f \in Files : Served(f)' = Served(f) /\ (HalfWay(f)' <=> HalfWay(f))
    BY <2>1 DEF Content, Served, HalfWay
  <2>3. TypeOK' /\ RulesStay' /\ NoBrokenMount' /\ RestartLoads'
    BY <2>1, <2>2 DEF FileInv, TypeOK, RulesStay, NoBrokenMount, RestartLoads
  <2>4. WrittenSoFar' /\ AdminKeepsLatest' /\ NothingToLoad'
    BY <2>1, <2>2 DEF FileInv, WrittenSoFar, AdminKeepsLatest, NothingToLoad
  <2>5. LoadedSoFar' /\ ValidatedIsDelivered'
    BY <2>1, <2>2 DEF FileInv, LoadedSoFar, Loaded, ValidatedIsDelivered
  <2>6. QED BY <2>3, <2>4, <2>5 DEF FileInv
<1>8. QED
  BY <1>1, <1>3, <1>4, <1>5, <1>6, <1>7, AdminInv, PodInv, CommitInv, FailInv, RollBackInv,
     RestoreVerifyInv DEF Next

\* The inductive invariant holds in every reachable state.
THEOREM FilesInvariant == Spec => []FileInv
BY InitInv, NextInv, PTL DEF Spec

\* Secrets, mounts, pods, Admin values and the engine hold what the code puts there.
THEOREM FileTypes == Spec => []TypeOK
<1>1. FileInv => TypeOK
  BY DEF FileInv
<1>2. QED BY <1>1, FilesInvariant, PTL

\* An Apply that succeeded delivered exactly what it validated: the Snapshot with
\* the Admin values frozen at its start, whatever was saved while it ran.
THEOREM FrozenValues == Spec => []ValidatedIsDelivered
<1>1. FileInv => ValidatedIsDelivered
  BY DEF FileInv
<1>2. QED BY <1>1, FilesInvariant, PTL

\* Outside the two halves of a delivery, a pod that is lost comes back, unless a
\* failure has put the file in doubt.
THEOREM LostPodsReturn == Spec => []PodsCanStart
<1>1. FileInv => PodsCanStart
  BY DEF FileInv, NoBrokenMount, HalfWay, PodsCanStart
<1>2. QED BY <1>1, FilesInvariant, PTL

\* With nothing in progress the coordinator runs the files its Secrets hold, but for
\* those in doubt: skipping a restart never leaves one behind.
THEOREM SkippedRestartsAreSafe == Spec => []LoadedUnlessDoubted
<1>1. FileInv => LoadedUnlessDoubted
  BY DEF FileInv, LoadedSoFar, Loaded, LoadedUnlessDoubted
<1>2. QED BY <1>1, FilesInvariant, PTL

=============================================================================
