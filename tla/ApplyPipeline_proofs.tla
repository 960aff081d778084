------------------------ MODULE ApplyPipeline_proofs ------------------------
(***************************************************************************)
(* Proofs about ApplyPipeline, for any number of callers, Applies,         *)
(* configurations, crashes and store failures; and, in the second half,    *)
(* the proof that with one caller at a time the records account for every  *)
(* divergence of the Cluster.                                              *)
(***************************************************************************)
EXTENDS ApplyPipeline, SequenceTheorems, TLAPS

-----------------------------------------------------------------------------
(* Types. *)

\* What the Cluster operators return is a place of the Cluster.
LEMMA PlaceTypes ==
    ASSUME NEW p \in ClusterPlaces, NEW l \in Configs, NEW b \in Configs, NEW d \in Configs
    PROVE  /\ DeliveryStarted(p, l, b, d) \in ClusterPlaces
           /\ DeliveryEnded(p, l, b, d) \subseteq ClusterPlaces
           /\ RestoreStarted(p, l) \in ClusterPlaces
           /\ RestoreEnded(p, l) \subseteq ClusterPlaces
<1>1. DeliveryStarted(p, l, b, d) \in ClusterPlaces
  BY DEF DeliveryStarted, ClusterPlaces
<1>2. DeliveryEnded(p, l, b, d) \subseteq ClusterPlaces
  BY DEF DeliveryEnded, ClusterPlaces
<1>3. RestoreStarted(p, l) \in ClusterPlaces
  BY DEF RestoreStarted, ClusterPlaces
<1>4. RestoreEnded(p, l) \subseteq ClusterPlaces
  BY DEF RestoreEnded, ClusterPlaces
<1>5. QED BY <1>1, <1>2, <1>3, <1>4

\* A Snapshot that exists, or the empty baseline, is a configuration.
LEMMA SnapshotTypes ==
    ASSUME TypeOK
    PROVE  /\ Latest \in Nat
           /\ \A n : SectionsOf(n) \in Configs
           /\ Loaded.base \in Nat /\ Loaded.sections \in Configs
<1>1. Latest \in Nat
  BY DEF TypeOK, Latest
<1>2. ASSUME NEW n
      PROVE  SectionsOf(n) \in Configs
  <2>1. CASE n \in 1..Len(snapshots)
    <3>1. snapshots[n] \in Snapshot
      BY <2>1, ElementOfSeq DEF TypeOK
    <3>2. QED BY <2>1, <3>1 DEF SectionsOf, Snapshot
  <2>2. CASE n \notin 1..Len(snapshots)
    BY <2>2, ConfigsAssumption DEF SectionsOf
  <2>3. QED BY <2>1, <2>2
<1>3. Loaded.base \in Nat /\ Loaded.sections \in Configs
  BY <1>1, <1>2 DEF TypeOK, Loaded, Document
<1>4. QED BY <1>1, <1>2, <1>3

\* ApplyStore.advance keeps a record a record.
LEMMA AdvancedType ==
    ASSUME NEW record \in ApplyRecord, NEW stage \in Stages
    PROVE  Advanced(record, stage) \in ApplyRecord
BY DEF Advanced, ApplyRecord

\* An idle task, an idle handler and a record not created have their types.
LEMMA NothingTypes ==
    /\ NoRunner \in RunnerState
    /\ NoClient \in ClientState
    /\ NoRecord \in ApplyRecord
<1>1. NoRunner \in RunnerState
  BY ConfigsAssumption DEF NoRunner, RunnerState, RunnerPcs
<1>2. NoClient \in ClientState
  BY ConfigsAssumption DEF NoClient, ClientState, RequestKinds
<1>3. NoRecord \in ApplyRecord
  BY DEF NoRecord, ApplyRecord
<1>4. QED BY <1>1, <1>2, <1>3

\* The ways a task moves on leave it well typed.
LEMMA TaskTypes ==
    ASSUME TypeOK, NEW a \in Applies, NEW from
    PROVE  /\ \A to \in RunnerPcs : Goto(a, from, to) => runner' \in [Applies -> RunnerState]
           /\ End(a, from) => runner' \in [Applies -> RunnerState]
           /\ \A stage \in Stages \cap RunnerPcs : Enter(a, from, stage) => TypeOK'
<1>1. ASSUME NEW to \in RunnerPcs, Goto(a, from, to)
      PROVE  runner' \in [Applies -> RunnerState]
  <2>1. [runner[a] EXCEPT !.pc = to] \in RunnerState
    BY DEF TypeOK, RunnerState
  <2>2. QED BY <1>1, <2>1 DEF TypeOK, Goto
<1>2. End(a, from) => runner' \in [Applies -> RunnerState]
  BY NothingTypes DEF TypeOK, End
<1>3. ASSUME NEW stage \in Stages \cap RunnerPcs, Enter(a, from, stage)
      PROVE  TypeOK'
  <2>1. runner' \in [Applies -> RunnerState]
    BY <1>1, <1>3 DEF Enter
  <2>2. applies' \in [Applies -> ApplyRecord]
    BY <1>3, AdvancedType DEF Enter, TypeOK
  <2>3. QED BY <1>3, <2>1, <2>2 DEF Enter, TypeOK, requestVars, processVars
<1>4. QED BY <1>1, <1>2, <1>3

\* A handler that moves between its steps leaves everything well typed.
LEMMA RequestTypes ==
    ASSUME TypeOK, NEW c \in Clients, Request(c)
    PROVE  TypeOK'
<1> USE DEF requestVars, processVars
<1>1. ASSUME NEW op \in Requests, MutationsEnabled(c, op)
      PROVE  TypeOK'
  <2>1. [NoClient EXCEPT !.pc = "enabled", !.op = op] \in ClientState
    BY NothingTypes, RequestsAssumption DEF ClientState
  <2>2. QED BY <1>1, <2>1 DEF MutationsEnabled, TypeOK
<1>2. CASE NothingInFlight(c)
  <2>1. Created \subseteq Applies
    BY DEF Created
  <2> HIDE DEF Created
  <2>2. [client[c] EXCEPT !.pc = "allowed", !.over = Created] \in ClientState
    BY <2>1 DEF TypeOK, ClientState
  <2>3. client' = [client EXCEPT ![c] = [client[c] EXCEPT !.pc = "allowed", !.over = Created]]
    BY <1>2 DEF NothingInFlight, TypeOK
  <2>4. QED BY <1>2, <2>2, <2>3 DEF NothingInFlight, TypeOK
<1>3. CASE Refused(c)
  BY <1>3, NothingTypes DEF Refused, TypeOK
<1>4. CASE Load(c)
  <2> DEFINE fromLatest == client[c].op \in {"import", "admin_import", "admin_apply"}
             read == IF fromLatest THEN Document(Latest, EmptyConfig) ELSE Loaded
  <2>1. read.base \in Nat /\ read.sections \in Configs
    BY SnapshotTypes, ConfigsAssumption DEF Document
  <2> HIDE DEF read
  <2>2. [client[c] EXCEPT !.pc = "loaded", !.base = read.base, !.sections = read.sections]
            \in ClientState
    BY <2>1 DEF TypeOK, ClientState
  <2>3. client' = [client EXCEPT ![c] =
            [client[c] EXCEPT !.pc = "loaded", !.base = read.base, !.sections = read.sections]]
    BY <1>4 DEF Load, read, TypeOK
  <2>4. UNCHANGED <<snapshots, candidate, applies, maintenance, cluster, runner, processVars>>
    BY <1>4 DEF Load
  <2>5. client' \in [Clients -> ClientState]
    BY <2>2, <2>3 DEF TypeOK
  <2>6. QED BY <2>4, <2>5 DEF TypeOK
<1>5. ASSUME NEW ops, NEW base \in Nat, NEW sections \in Configs, Save(c, ops, base, sections)
      PROVE  TypeOK'
  BY <1>5, NothingTypes DEF Save, Document, TypeOK
<1>6. client[c].base \in Nat
  BY DEF TypeOK, ClientState
<1>7. CASE Edit(c) \/ Import(c)
  BY <1>5, <1>6, <1>7 DEF Edit, Import
<1>8. CASE Reset(c)
  BY <1>5, <1>6, <1>8, SnapshotTypes DEF Reset
<1>9. CASE FullRollback(c)
  BY <1>5, <1>6, <1>9, SnapshotTypes DEF FullRollback
<1>10. ASSUME NEW a \in Applies, Create(c, a)
       PROVE  TypeOK'
  <2>1. Advanced(NoRecord, "validating") \in ApplyRecord
    BY NothingTypes, AdvancedType DEF Stages
  <2>2. [Advanced(NoRecord, "validating") EXCEPT !.base = client[c].base] \in ApplyRecord
    BY <1>6, <2>1 DEF ApplyRecord
  <2>3. ASSUME NEW k \in {"operator", "admin"}
        PROVE  [NoRunner EXCEPT !.pc = "validating", !.kind = k] \in RunnerState
    BY NothingTypes DEF RunnerState, RunnerPcs
  <2>4. applies' \in [Applies -> ApplyRecord]
    BY <1>10, <2>2 DEF Create, TypeOK
  <2>5. runner' \in [Applies -> RunnerState]
    BY <1>10, <2>3 DEF Create, TypeOK
  <2>6. QED BY <1>10, <2>4, <2>5, NothingTypes DEF Create, TypeOK
<1>11. QED
  BY <1>1, <1>2, <1>3, <1>4, <1>7, <1>8, <1>9, <1>10 DEF Request

\* Every step of an Apply's task does.
LEMMA TaskStepTypes ==
    ASSUME TypeOK, NEW a \in Applies, Task(a)
    PROVE  TypeOK'
<1> USE DEF requestVars, processVars
<1>1. CASE Capture(a)
  <2> DEFINE admin == runner[a].kind = "admin"
             desired == IF admin THEN SectionsOf(Latest) ELSE Loaded.sections
             baseline == IF admin THEN SectionsOf(Latest) ELSE SectionsOf(Loaded.base)
  <2>1. desired \in Configs /\ baseline \in Configs
    BY SnapshotTypes
  <2> HIDE DEF desired, baseline
  <2>2. [runner[a] EXCEPT !.pc = "probing", !.desired = desired, !.baseline = baseline]
            \in RunnerState
    BY <2>1 DEF TypeOK, RunnerState, RunnerPcs
  <2>3. runner' = [runner EXCEPT ![a] =
            [runner[a] EXCEPT !.pc = "probing", !.desired = desired, !.baseline = baseline]]
    BY <1>1 DEF Capture, desired, baseline, TypeOK
  <2>4. UNCHANGED <<snapshots, candidate, applies, cluster, requestVars>>
    BY <1>1 DEF Capture
  <2>5. runner' \in [Applies -> RunnerState]
    BY <2>2, <2>3 DEF TypeOK
  <2>6. QED BY <2>4, <2>5 DEF TypeOK
<1>2. CASE Validated(a) \/ StartRollout(a) \/ SkipRollout(a) \/ RolledOut(a) \/ Verified(a)
  <2>1. {"applying", "rolling_out", "verifying", "committing"} \subseteq Stages \cap RunnerPcs
    BY DEF Stages, RunnerPcs
  <2>2. QED
    BY <1>2, <2>1, TaskTypes DEF Validated, StartRollout, SkipRollout, RolledOut, Verified
<1>3. runner[a].desired \in Configs /\ runner[a].baseline \in Configs /\ runner[a].number \in Nat
  BY DEF TypeOK, RunnerState
<1>4. cluster \in ClusterPlaces /\ SectionsOf(Latest) \in Configs
  BY SnapshotTypes DEF TypeOK
<1>5. CASE Deliver(a)
  <2>1. cluster' \in ClusterPlaces
    BY <1>3, <1>4, <1>5, PlaceTypes DEF Deliver
  <2>2. runner' \in [Applies -> RunnerState]
    BY <1>5, TaskTypes DEF Deliver, RunnerPcs
  <2>3. QED BY <1>5, <2>1, <2>2 DEF Deliver, TypeOK
<1>6. CASE Delivered(a)
  <2>1. cluster' \in ClusterPlaces
    BY <1>3, <1>4, <1>6, PlaceTypes DEF Delivered
  <2>2. runner' \in [Applies -> RunnerState]
    BY <1>6, TaskTypes DEF Delivered, RunnerPcs
  <2>3. QED BY <1>6, <2>1, <2>2 DEF Delivered, TypeOK
<1>7. CASE ReadLatest(a)
  <2>1. [runner[a] EXCEPT !.pc = "inserting", !.number = Latest + 1] \in RunnerState
    <3>1. ASSUME NEW k \in Nat
          PROVE  [runner[a] EXCEPT !.pc = "inserting", !.number = k] \in RunnerState
      BY DEF TypeOK, RunnerState, RunnerPcs
    <3>2. Latest + 1 \in Nat
      BY SnapshotTypes
    <3>3. QED BY <3>1, <3>2
  <2>2. runner' = [runner EXCEPT ![a] =
            [runner[a] EXCEPT !.pc = "inserting", !.number = Latest + 1]]
    BY <1>7 DEF ReadLatest, TypeOK
  <2>3. QED BY <1>7, <2>1, <2>2 DEF ReadLatest, TypeOK
<1>8. CASE InsertSnapshot(a)
  <2>1. [sections |-> runner[a].desired, apply |-> a] \in Snapshot
    BY <1>3 DEF Snapshot
  <2>2. snapshots' \in Seq(Snapshot)
    BY <1>8, <2>1, AppendProperties DEF InsertSnapshot, TypeOK
  <2>3. runner' \in [Applies -> RunnerState]
    BY <1>8, TaskTypes DEF InsertSnapshot, RunnerPcs
  <2>4. QED BY <1>8, <2>2, <2>3 DEF InsertSnapshot, TypeOK
<1>9. CASE ResetCandidate(a)
  <2>1. runner' \in [Applies -> RunnerState]
    BY <1>9, TaskTypes DEF ResetCandidate, RunnerPcs
  <2>2. candidate' \in [stored: BOOLEAN, base: Nat, sections: Configs]
    BY <1>3, <1>9, SnapshotTypes DEF ResetCandidate, Document
  <2>3. QED BY <1>9, <2>1, <2>2 DEF ResetCandidate, TypeOK
<1>10. CASE DuplicateNumber(a) \/ CommitNothing(a)
  <2>1. runner' \in [Applies -> RunnerState]
    BY <1>10, TaskTypes DEF DuplicateNumber, CommitNothing, RunnerPcs
  <2>2. QED BY <1>10, <2>1 DEF DuplicateNumber, CommitNothing, TypeOK
<1>11. CASE StageFails(a) \/ StoreFails(a) \/ TaskDies(a)
  <2>1. \A reached : Handler(reached) \in RunnerPcs
    BY DEF Handler, RunnerPcs
  <2>2. runner' \in [Applies -> RunnerState]
    BY <1>11, <2>1, TaskTypes DEF StageFails, StoreFails, TaskDies
  <2>3. QED BY <1>11, <2>2 DEF StageFails, StoreFails, TaskDies, TypeOK
<1>12. applies[a] \in ApplyRecord
  BY DEF TypeOK
<1>13. CASE RecordSnapshot(a)
  <2>1. [applies[a] EXCEPT !.snapshot = runner[a].number] \in ApplyRecord
    BY <1>3, <1>12 DEF ApplyRecord
  <2>2. applies' \in [Applies -> ApplyRecord]
    BY <1>13, <2>1 DEF RecordSnapshot, TypeOK
  <2>3. runner' \in [Applies -> RunnerState]
    BY <1>13, TaskTypes DEF RecordSnapshot, RunnerPcs
  <2>4. QED BY <1>13, <2>2, <2>3 DEF RecordSnapshot, TypeOK
<1>14. CASE Succeed(a) \/ SucceedUnheard(a) \/ Fail(a) \/ DeclareIncident(a) \/ RollBack(a)
  <2>1. {"succeeded", "failed", "incident", "rolling_back"} \subseteq Stages
    BY DEF Stages, Terminal
  <2>2. applies' \in [Applies -> ApplyRecord]
    BY <1>12, <1>14, <2>1, AdvancedType
       DEF Succeed, SucceedUnheard, Fail, DeclareIncident, RollBack, TypeOK
  <2>3. runner' \in [Applies -> RunnerState]
    BY <1>14, TaskTypes DEF Succeed, SucceedUnheard, Fail, DeclareIncident, RollBack, RunnerPcs
  <2>4. QED
    BY <1>14, <2>2, <2>3 DEF Succeed, SucceedUnheard, Fail, DeclareIncident, RollBack, TypeOK
<1>15. CASE Restore(a)
  <2>1. cluster' \in ClusterPlaces
    BY <1>4, <1>15, PlaceTypes DEF Restore
  <2>2. [runner[a] EXCEPT !.pc = "restoring", !.desired = SectionsOf(Latest)] \in RunnerState
    BY <1>4 DEF TypeOK, RunnerState, RunnerPcs
  <2>3. runner' = [runner EXCEPT ![a] =
            [runner[a] EXCEPT !.pc = "restoring", !.desired = SectionsOf(Latest)]]
    BY <1>15 DEF Restore, TypeOK
  <2>4. QED BY <1>15, <2>1, <2>2, <2>3 DEF Restore, TypeOK
<1>16. CASE Restored(a)
  <2>1. cluster' \in ClusterPlaces
    BY <1>3, <1>4, <1>16, PlaceTypes DEF Restored
  <2>2. runner' \in [Applies -> RunnerState]
    BY <1>16, TaskTypes DEF Restored, RunnerPcs
  <2>3. QED BY <1>16, <2>1, <2>2 DEF Restored, TypeOK
<1>17. CASE RestoreFails(a)
  <2>1. cluster' \in ClusterPlaces
    BY <1>3, <1>4, <1>17 DEF RestoreFails, ClusterPlaces
  <2>2. runner' \in [Applies -> RunnerState]
    BY <1>17, TaskTypes DEF RestoreFails, RunnerPcs
  <2>3. [applies[a] EXCEPT !.rollback = "failed"] \in ApplyRecord
    BY <1>12 DEF ApplyRecord
  <2>4. applies' \in [Applies -> ApplyRecord]
    BY <1>17, <2>3 DEF RestoreFails, TypeOK
  <2>5. QED BY <1>17, <2>1, <2>2, <2>4 DEF RestoreFails, TypeOK
<1>18. CASE RecordRollback(a)
  <2>1. [applies[a] EXCEPT !.rollback = "succeeded"] \in ApplyRecord
    BY <1>12 DEF ApplyRecord
  <2>2. applies' \in [Applies -> ApplyRecord]
    BY <1>18, <2>1 DEF RecordRollback, TypeOK
  <2>3. runner' \in [Applies -> RunnerState]
    BY <1>18, TaskTypes DEF RecordRollback, RunnerPcs
  <2>4. QED BY <1>18, <2>2, <2>3 DEF RecordRollback, TypeOK
<1>19. CASE EngageMaintenance(a)
  <2>1. runner' \in [Applies -> RunnerState]
    BY <1>19, TaskTypes DEF EngageMaintenance, RunnerPcs
  <2>2. QED BY <1>19, <2>1 DEF EngageMaintenance, TypeOK
<1>20. QED
  BY <1>1, <1>2, <1>5, <1>6, <1>7, <1>8, <1>9, <1>10, <1>11, <1>13, <1>14, <1>15,
     <1>16, <1>17, <1>18, <1>19 DEF Task

\* And so do the process stopping, its startup recovery and an Admin's switch.
LEMMA ProcessTypes ==
    ASSUME TypeOK,
           \/ Startup \/ RecoveryAbandoned \/ Crash
           \/ \E engaged \in BOOLEAN : SetMaintenanceMode(engaged)
    PROVE  TypeOK'
<1> USE DEF requestVars, processVars, durableVars
<1>1. CASE Restart \/ RecoveryDone
  BY <1>1 DEF Restart, RecoveryDone, TypeOK
<1>2. ASSUME NEW a \in Applies, RecoverInterrupted(a)
      PROVE  TypeOK'
  <2>1. Advanced(applies[a], "failed") \in ApplyRecord
    BY AdvancedType DEF TypeOK, Stages, Terminal
  <2>2. [Advanced(applies[a], "failed") EXCEPT !.interrupted = TRUE] \in ApplyRecord
    BY <2>1 DEF ApplyRecord
  <2>3. applies' \in [Applies -> ApplyRecord]
    BY <1>2, <2>2 DEF RecoverInterrupted, TypeOK
  <2>4. [NoRunner EXCEPT !.pc = "restore", !.kind = "recovery"] \in RunnerState
    BY NothingTypes DEF RunnerState, RunnerPcs
  <2>5. runner' \in [Applies -> RunnerState]
    BY <1>2, <2>4 DEF RecoverInterrupted, TypeOK
  <2>6. QED BY <1>2, <2>3, <2>5 DEF RecoverInterrupted, TypeOK
<1>3. CASE RecoveryAbandoned
  BY <1>3, NothingTypes DEF RecoveryAbandoned, TypeOK
<1>4. CASE Crash
  BY <1>4, NothingTypes, BoundsAssumption DEF Crash, TypeOK
<1>5. ASSUME NEW engaged \in BOOLEAN, SetMaintenanceMode(engaged)
      PROVE  TypeOK'
  BY <1>5 DEF SetMaintenanceMode, TypeOK
<1>6. QED BY <1>1, <1>2, <1>3, <1>4, <1>5 DEF Startup

\* A step of Next, or none, keeps every variable in its type.
LEMMA TypeStep ==
    ASSUME TypeOK, [Next]_vars
    PROVE  TypeOK'
<1>1. CASE UNCHANGED vars
  BY <1>1 DEF vars, TypeOK
<1>2. CASE Next
  BY <1>2, RequestTypes, TaskStepTypes, ProcessTypes DEF Next
<1>3. QED BY <1>1, <1>2

\* A store that holds nothing has the right types.
LEMMA TypeInit == Init => TypeOK
<1>1. SUFFICES ASSUME Init PROVE TypeOK
  OBVIOUS
<1>2. snapshots \in Seq(Snapshot)
  BY <1>1 DEF Init
<1>3. applies \in [Applies -> ApplyRecord] /\ runner \in [Applies -> RunnerState]
  BY <1>1, NothingTypes DEF Init
<1>4. client \in [Clients -> ClientState]
  BY <1>1, NothingTypes DEF Init
<1>5. QED
  BY <1>1, <1>2, <1>3, <1>4, ConfigsAssumption, BoundsAssumption DEF Init, TypeOK, ClusterPlaces

\* Every variable of the pipeline keeps its type.
THEOREM TypeCorrect == Spec => []TypeOK
<1>1. QED BY TypeInit, TypeStep, PTL DEF Spec

-----------------------------------------------------------------------------
(* The inductive invariants. *)

\* Where a task is on its way to a Snapshot, and where it is committing one.
Committing == {"committing", "inserting", "inserted", "committed", "recorded"}
Forward == {"validating", "probing", "applying", "delivering", "delivered",
            "rolling_out", "verifying"} \cup Committing

\* No rollback has happened on the way to a Snapshot, and a task that commits has
\* said so in its record.
Clean(a) ==
    runner[a].pc \in Forward =>
        /\ "rolling_back" \notin applies[a].history
        /\ applies[a].rollback = "none"
        /\ runner[a].pc \in Committing =>
               applies[a].stage = "committing" /\ "committing" \in applies[a].history

\* An Apply with a Snapshot has committed, was not rolled back, and is nowhere
\* from where its task or recovery would roll it back.
Owner(a) ==
    /\ applies[a].stage \in {"committing", "succeeded", "failed"}
    /\ "committing" \in applies[a].history
    /\ "rolling_back" \notin applies[a].history
    /\ applies[a].rollback = "none"
    /\ runner[a].pc \in {"off", "inserted", "committed", "recorded", "failing"}

Owned(a) == \A n \in 1..Latest : snapshots[n].apply = a => Owner(a)

\* The number a task holds once it has inserted is that of its own Snapshot.
Numbered(a) ==
    /\ runner[a].pc \in {"validating", "probing", "applying", "delivering", "delivered",
                         "rolling_out", "verifying", "committing"} =>
           runner[a].number = 0
    /\ runner[a].pc \in {"inserted", "committed", "recorded"} /\ runner[a].number # 0 =>
           /\ runner[a].number \in 1..Latest
           /\ snapshots[runner[a].number].apply = a

\* The Snapshot a record names is its own.
Named(a) ==
    applies[a].snapshot # 0 =>
        /\ applies[a].snapshot \in 1..Latest
        /\ snapshots[applies[a].snapshot].apply = a

Good(a) == Clean(a) /\ Owned(a) /\ Numbered(a) /\ Named(a)

OneEach == \A m, n \in 1..Latest : snapshots[m].apply = snapshots[n].apply => m = n

CommitInv == TypeOK /\ OneEach /\ \A a \in Applies : Good(a)

\* A task about to fail a record that says succeeded: the reply was lost.
Late(a) ==
    /\ runner[a].pc = "failing" /\ runner[a].kind # "recovery"
    /\ applies[a].stage = "succeeded"

\* A task at work has a record in flight, except one that is late and recovery's,
\* whose record has failed already and says it was interrupted.
Driven(a) ==
    \/ runner[a].pc = "off"
    \/ runner[a].kind # "recovery" /\ InFlight(a)
    \/ Late(a)
    \/ /\ runner[a].kind = "recovery"
       /\ runner[a].pc \in {"restore", "restoring", "restored", "engage", "declare"}
       /\ applies[a].stage = "failed"
       /\ applies[a].interrupted

DrivenInv == TypeOK /\ \A a \in Applies : Driven(a)

\* A caller past its gates found nothing in flight, and still would.
Gated(c) ==
    client[c].pc \in {"allowed", "loaded"} /\ client[c].op # "admin_import" => ~Frozen

SerialInv == DrivenInv /\ OneInFlight /\ \A c \in Clients : Gated(c)

\* Handlers serve the requests that callers send.
Asked == \A c \in Clients : client[c].pc = "idle" \/ client[c].op \in Requests

-----------------------------------------------------------------------------
(* What a step does to the task and the record it is about, and to the others. *)

\* A task's move from one step to the next changes its own step and nothing else of it.
LEMMA GotoFacts ==
    ASSUME TypeOK, NEW a \in Applies, NEW from, NEW to, Goto(a, from, to)
    PROVE  /\ runner[a].pc = from /\ runner'[a].pc = to
           /\ runner'[a].kind = runner[a].kind /\ runner'[a].number = runner[a].number
           /\ \A b \in Applies \ {a} : runner'[b] = runner[b]
BY DEF Goto, TypeOK, RunnerState

\* A task that ends leaves nothing behind in its slot.
LEMMA EndFacts ==
    ASSUME TypeOK, NEW a \in Applies, NEW from, End(a, from)
    PROVE  /\ runner[a].pc = from
           /\ runner'[a].pc = "off" /\ runner'[a].kind = "operator" /\ runner'[a].number = 0
           /\ \A b \in Applies \ {a} : runner'[b] = runner[b]
BY DEF End, TypeOK, NoRunner

\* Advancing a record appends the stage to its history and keeps the rest of it.
LEMMA AdvancedFacts ==
    ASSUME NEW record \in ApplyRecord, NEW stage
    PROVE  LET next == Advanced(record, stage)
           IN  /\ next.stage = stage
               /\ next.history = record.history \cup {stage}
               /\ next.interrupted = record.interrupted
               /\ next.rollback = record.rollback
               /\ next.snapshot = record.snapshot
BY DEF Advanced, ApplyRecord

\* A step that enters a stage, in full.
LEMMA EnterFacts ==
    ASSUME TypeOK, NEW a \in Applies, NEW from, NEW stage, Enter(a, from, stage)
    PROVE  /\ runner[a].pc = from /\ runner'[a].pc = stage
           /\ runner'[a].kind = runner[a].kind /\ runner'[a].number = runner[a].number
           /\ applies'[a].stage = stage
           /\ applies'[a].history = applies[a].history \cup {stage}
           /\ applies'[a].interrupted = applies[a].interrupted
           /\ applies'[a].rollback = applies[a].rollback
           /\ applies'[a].snapshot = applies[a].snapshot
           /\ snapshots' = snapshots
<1>1. Goto(a, from, stage) /\ snapshots' = snapshots
  BY DEF Enter
<1>2. applies[a] \in ApplyRecord /\ applies'[a] = Advanced(applies[a], stage)
  BY DEF Enter, TypeOK
<1>3. QED BY <1>1, <1>2, GotoFacts, AdvancedFacts

\* A task writes its own record and moves itself, and only InsertSnapshot adds a
\* Snapshot.
LEMMA TaskFrame ==
    ASSUME TypeOK, NEW a \in Applies, Task(a), NEW b \in Applies \ {a}
    PROVE  applies'[b] = applies[b] /\ runner'[b] = runner[b]
<1> USE DEF TypeOK, Goto, End, Enter
<1>1. CASE Capture(a) \/ Validated(a) \/ Deliver(a) \/ Delivered(a) \/ StartRollout(a)
          \/ SkipRollout(a) \/ RolledOut(a) \/ Verified(a)
  BY <1>1 DEF Capture, Validated, Deliver, Delivered, StartRollout, SkipRollout, RolledOut,
              Verified
<1>2. CASE ReadLatest(a) \/ InsertSnapshot(a) \/ DuplicateNumber(a) \/ ResetCandidate(a)
          \/ CommitNothing(a) \/ RecordSnapshot(a) \/ Succeed(a)
  BY <1>2 DEF ReadLatest, InsertSnapshot, DuplicateNumber, ResetCandidate, CommitNothing,
              RecordSnapshot, Succeed
<1>3. CASE StageFails(a) \/ StoreFails(a) \/ SucceedUnheard(a) \/ TaskDies(a) \/ Fail(a)
          \/ RollBack(a)
  BY <1>3 DEF StageFails, StoreFails, SucceedUnheard, TaskDies, Fail, RollBack
<1>4. CASE Restore(a) \/ Restored(a) \/ RestoreFails(a) \/ RecordRollback(a)
          \/ EngageMaintenance(a) \/ DeclareIncident(a)
  BY <1>4 DEF Restore, Restored, RestoreFails, RecordRollback, EngageMaintenance, DeclareIncident
<1>5. QED BY <1>1, <1>2, <1>3, <1>4 DEF Task

-----------------------------------------------------------------------------
(* Snapshots and the Applies that committed them. *)

\* What a step leaves alone stays good.
LEMMA KeepGood ==
    ASSUME NEW a \in Applies, Good(a),
           applies'[a] = applies[a], runner'[a] = runner[a], snapshots' = snapshots
    PROVE  Good(a)'
BY DEF Good, Clean, Owned, Owner, Numbered, Named, Latest

\* A task keeps its own Apply good.  Insertion is the step that makes a Snapshot.
LEMMA TaskGood ==
    ASSUME TypeOK, NEW a \in Applies, Good(a), Task(a), ~InsertSnapshot(a)
    PROVE  Good(a)' /\ snapshots' = snapshots
<1> USE DEF Good, Clean, Owned, Owner, Numbered, Named, Latest, Forward, Committing
<1>1. applies[a] \in ApplyRecord /\ runner[a] \in RunnerState
  BY DEF TypeOK
<1>2. CASE Capture(a)
  <2>1. runner[a].pc = "validating" /\ runner'[a].pc = "probing"
          /\ runner'[a].number = runner[a].number
    BY <1>1, <1>2 DEF Capture, TypeOK, RunnerState
  <2>2. applies' = applies /\ snapshots' = snapshots
    BY <1>2 DEF Capture
  <2>3. QED BY <2>1, <2>2
<1>3. CASE Validated(a)
  <2>1. Enter(a, "probing", "applying")
    BY <1>3 DEF Validated
  <2>2. QED BY <2>1, EnterFacts
<1>4. CASE StartRollout(a)
  <2>1. Enter(a, "delivered", "rolling_out")
    BY <1>4 DEF StartRollout
  <2>2. QED BY <2>1, EnterFacts
<1>5. CASE SkipRollout(a) \/ RolledOut(a)
  <2>1. Enter(a, "delivered", "verifying") \/ Enter(a, "rolling_out", "verifying")
    BY <1>5 DEF SkipRollout, RolledOut
  <2>2. QED BY <2>1, EnterFacts
<1>6. CASE Verified(a)
  <2>1. Enter(a, "verifying", "committing")
    BY <1>6 DEF Verified
  <2>2. QED BY <2>1, EnterFacts
<1>7. CASE Deliver(a) \/ Delivered(a) \/ Restored(a)
  <2>1. \/ Goto(a, "applying", "delivering") \/ Goto(a, "delivering", "delivered")
        \/ Goto(a, "restoring", "restored")
    BY <1>7 DEF Deliver, Delivered, Restored
  <2>2. applies' = applies /\ snapshots' = snapshots
    BY <1>7 DEF Deliver, Delivered, Restored
  <2>3. QED BY <2>1, <2>2, GotoFacts
<1>8. CASE ReadLatest(a)
  <2>1. runner[a].pc = "committing" /\ runner'[a].pc = "inserting"
    BY <1>1, <1>8 DEF ReadLatest, TypeOK, RunnerState
  <2>2. applies' = applies /\ snapshots' = snapshots
    BY <1>8 DEF ReadLatest
  <2>3. QED BY <2>1, <2>2
<1>9. CASE DuplicateNumber(a) \/ ResetCandidate(a) \/ CommitNothing(a) \/ EngageMaintenance(a)
  <2>1. \/ Goto(a, "inserting", "failing") \/ Goto(a, "inserted", "committed")
        \/ Goto(a, "committing", "committed") \/ Goto(a, "engage", "declare")
    BY <1>9 DEF DuplicateNumber, ResetCandidate, CommitNothing, EngageMaintenance
  <2>2. applies' = applies /\ snapshots' = snapshots
    BY <1>9 DEF DuplicateNumber, ResetCandidate, CommitNothing, EngageMaintenance
  <2>3. QED BY <2>1, <2>2, GotoFacts
<1>10. CASE RecordSnapshot(a)
  <2>1. Goto(a, "committed", "recorded") /\ snapshots' = snapshots
    BY <1>10 DEF RecordSnapshot
  <2>2. /\ applies'[a].stage = applies[a].stage
        /\ applies'[a].history = applies[a].history
        /\ applies'[a].rollback = applies[a].rollback
        /\ applies'[a].snapshot = runner[a].number
    BY <1>1, <1>10 DEF RecordSnapshot, TypeOK, ApplyRecord
  <2>3. QED BY <2>1, <2>2, GotoFacts
<1>11. CASE StageFails(a)
  <2>1. PICK reached \in {"validating", "applying", "rolling_out", "verifying"} :
            /\ \/ runner[a].pc = reached
               \/ reached = "validating" /\ runner[a].pc = "probing"
               \/ reached = "applying" /\ runner[a].pc = "delivering"
            /\ Goto(a, runner[a].pc, Handler(reached))
    BY <1>11 DEF StageFails
  <2>2. applies' = applies /\ snapshots' = snapshots
    BY <1>11 DEF StageFails
  <2>3. runner'[a].pc \in {"roll_back", "failing"}
    BY <2>1, GotoFacts DEF Handler
  <2>4. runner[a].pc \in {"validating", "probing", "applying", "delivering",
                          "rolling_out", "verifying"}
    BY <2>1
  <2>5. QED BY <2>2, <2>3, <2>4
<1>12. CASE StoreFails(a)
  <2>1. applies' = applies /\ snapshots' = snapshots
    BY <1>12 DEF StoreFails
  <2>2. \/ Goto(a, "probing", "roll_back") \/ Goto(a, "delivered", "roll_back")
        \/ Goto(a, "rolling_out", "roll_back") \/ Goto(a, "verifying", "failing")
        \/ Goto(a, "committing", "failing") \/ Goto(a, "inserting", "failing")
        \/ Goto(a, "inserted", "failing") \/ Goto(a, "committed", "failing")
        \/ Goto(a, "recorded", "failing")
    BY <1>12 DEF StoreFails, Handler, RolledBackFrom
  <2>3. QED BY <2>1, <2>2, GotoFacts
<1>13. CASE TaskDies(a)
  <2>1. applies' = applies /\ snapshots' = snapshots
    BY <1>13 DEF TaskDies
  <2>2. runner'[a].pc = "off"
    BY <1>13, EndFacts DEF TaskDies
  <2>3. QED BY <2>1, <2>2
<1>14. CASE Fail(a) \/ Succeed(a)
  <2>1. /\ snapshots' = snapshots
        /\ \/ End(a, "failing") /\ applies'[a] = Advanced(applies[a], "failed")
           \/ End(a, "recorded") /\ applies'[a] = Advanced(applies[a], "succeeded")
    BY <1>14 DEF Fail, Succeed, TypeOK
  <2>2. QED BY <1>1, <2>1, EndFacts, AdvancedFacts
<1>15. CASE RollBack(a)
  <2>1. Goto(a, "roll_back", "restore") /\ snapshots' = snapshots
    BY <1>15 DEF RollBack
  <2>2. applies'[a] = Advanced(applies[a], "rolling_back")
    BY <1>15 DEF RollBack, TypeOK
  <2>3. QED BY <1>1, <2>1, <2>2, GotoFacts, AdvancedFacts
<1>16. CASE Restore(a)
  <2>1. runner[a].pc = "restore" /\ runner'[a].pc = "restoring"
    BY <1>1, <1>16 DEF Restore, TypeOK, RunnerState
  <2>2. applies' = applies /\ snapshots' = snapshots
    BY <1>16 DEF Restore
  <2>3. QED BY <2>1, <2>2
<1>17. CASE RestoreFails(a)
  <2>1. (Goto(a, "restore", "engage") \/ Goto(a, "restoring", "engage")) /\ snapshots' = snapshots
    BY <1>17 DEF RestoreFails
  <2>2. applies'[a].snapshot = applies[a].snapshot
    BY <1>1, <1>17 DEF RestoreFails, TypeOK, ApplyRecord
  <2>3. QED BY <2>1, <2>2, GotoFacts
<1>18. CASE RecordRollback(a)
  <2>1. (Goto(a, "restored", "failing") \/ End(a, "restored")) /\ snapshots' = snapshots
    BY <1>18 DEF RecordRollback
  <2>2. applies'[a].snapshot = applies[a].snapshot
    BY <1>1, <1>18 DEF RecordRollback, TypeOK, ApplyRecord
  <2>3. QED BY <2>1, <2>2, GotoFacts, EndFacts
<1>19. CASE DeclareIncident(a)
  <2>1. End(a, "declare") /\ snapshots' = snapshots
    BY <1>19 DEF DeclareIncident
  <2>2. applies'[a] = Advanced(applies[a], "incident")
    BY <1>19 DEF DeclareIncident, TypeOK
  <2>3. QED BY <1>1, <2>1, <2>2, EndFacts, AdvancedFacts
<1>20. CASE SucceedUnheard(a)
  <2>1. Goto(a, "recorded", "failing") /\ snapshots' = snapshots
    BY <1>20 DEF SucceedUnheard
  <2>2. applies'[a] = Advanced(applies[a], "succeeded")
    BY <1>20 DEF SucceedUnheard, TypeOK
  <2>3. QED BY <1>1, <2>1, <2>2, GotoFacts, AdvancedFacts
<1>21. QED
  BY <1>2, <1>3, <1>4, <1>5, <1>6, <1>7, <1>8, <1>9, <1>10, <1>11, <1>12, <1>13, <1>14,
     <1>15, <1>16, <1>17, <1>18, <1>19, <1>20 DEF Task

\* Inserting adds one Snapshot, the inserting Apply's first: whoever has one is
\* past the insert.
LEMMA InsertGood ==
    ASSUME CommitInv, NEW a \in Applies, InsertSnapshot(a)
    PROVE  OneEach' /\ \A b \in Applies : Good(b)'
<1> DEFINE new == [sections |-> runner[a].desired, apply |-> a]
<1>1. TypeOK /\ OneEach /\ \A b \in Applies : Good(b)
  BY DEF CommitInv
<1>2. new \in Snapshot /\ new.apply = a
  BY <1>1 DEF TypeOK, RunnerState, Snapshot
<1>3. /\ Latest \in Nat /\ Latest' = Latest + 1
      /\ \A n \in 1..Latest : snapshots'[n] = snapshots[n]
      /\ snapshots'[Latest + 1] = new
  <2>1. snapshots' = Append(snapshots, new) /\ snapshots \in Seq(Snapshot)
    BY <1>1 DEF InsertSnapshot, TypeOK
  <2> HIDE DEF new
  <2>2. QED BY <1>2, <2>1, AppendProperties, LenProperties DEF Latest
<1> HIDE DEF new
<1>4. /\ runner[a].pc = "inserting" /\ runner'[a].pc = "inserted"
      /\ runner[a].number = Latest + 1 /\ runner'[a].number = runner[a].number
      /\ \A b \in Applies \ {a} : runner'[b] = runner[b]
      /\ applies' = applies
  BY <1>1, GotoFacts DEF InsertSnapshot
<1>5. \A n \in 1..Latest : snapshots[n].apply # a
  BY <1>1, <1>4 DEF Good, Owned, Owner
<1>6. OneEach'
  <2>1. SUFFICES ASSUME NEW m \in 1..(Latest + 1), NEW n \in 1..(Latest + 1),
                        snapshots'[m].apply = snapshots'[n].apply
                 PROVE  m = n
    BY <1>3 DEF OneEach
  <2>2. CASE m \in 1..Latest /\ n \in 1..Latest
    BY <1>1, <1>3, <2>1, <2>2 DEF OneEach
  <2>3. CASE m = Latest + 1 \/ n = Latest + 1
    BY <1>2, <1>3, <1>5, <2>1, <2>3
  <2>4. QED BY <1>3, <2>2, <2>3
<1>7. ASSUME NEW b \in Applies
      PROVE  Good(b)'
  <2>1. Good(b)
    BY <1>1
  <2>2. Clean(b)'
    BY <1>4, <2>1 DEF Good, Clean, Forward, Committing
  <2>3. Owned(b)'
    <3>1. CASE b = a
      BY <1>4, <2>1, <3>1 DEF Owned, Owner, Good, Clean, Forward, Committing
    <3>2. CASE b # a
      <4>1. ASSUME NEW n \in 1..(Latest + 1), snapshots'[n].apply = b
            PROVE  Owner(b)'
        <5>1. n \in 1..Latest
          BY <1>2, <1>3, <3>2, <4>1
        <5>2. QED BY <1>3, <1>4, <2>1, <3>2, <4>1, <5>1 DEF Good, Owned, Owner
      <4>2. QED BY <1>3, <4>1 DEF Owned
    <3>3. QED BY <3>1, <3>2
  <2>4. Numbered(b)'
    <3>1. CASE b = a
      BY <1>2, <1>3, <1>4, <3>1 DEF Numbered, Forward, Committing
    <3>2. CASE b # a
      BY <1>3, <1>4, <2>1, <3>2 DEF Good, Numbered
    <3>3. QED BY <3>1, <3>2
  <2>5. Named(b)'
    BY <1>3, <1>4, <2>1 DEF Good, Named
  <2>6. QED BY <2>2, <2>3, <2>4, <2>5 DEF Good
<1>8. QED BY <1>6, <1>7

\* Creating an Apply writes one new record, and starts an ordinary task or none.
LEMMA CreateFacts ==
    ASSUME TypeOK, NEW c \in Clients, NEW a \in Applies, Create(c, a)
    PROVE  /\ applies[a].stage = "none" /\ applies'[a].stage = "validating"
           /\ applies'[a].history = {"validating"} /\ applies'[a].rollback = "none"
           /\ applies'[a].snapshot = 0
           /\ \/ /\ runner'[a].pc = "validating" /\ runner'[a].kind # "recovery"
                 /\ runner'[a].number = 0
              \/ runner'[a] = runner[a]
           /\ \A b \in Applies \ {a} : applies'[b] = applies[b] /\ runner'[b] = runner[b]
<1>1. PICK kind \in {"operator", "admin"} :
          \/ runner' = [runner EXCEPT ![a] =
                           [NoRunner EXCEPT !.pc = "validating", !.kind = kind]]
          \/ runner' = runner
  BY DEF Create
<1>2. /\ \/ /\ runner'[a].pc = "validating" /\ runner'[a].kind # "recovery"
            /\ runner'[a].number = 0
         \/ runner'[a] = runner[a]
      /\ \A b \in Applies \ {a} : runner'[b] = runner[b]
  BY <1>1 DEF TypeOK, NoRunner
<1>3. /\ applies[a].stage = "none" /\ applies'[a].stage = "validating"
      /\ applies'[a].history = {"validating"} /\ applies'[a].rollback = "none"
      /\ applies'[a].snapshot = 0
      /\ \A b \in Applies \ {a} : applies'[b] = applies[b]
  BY DEF Create, TypeOK, Advanced, NoRecord
<1>4. QED BY <1>2, <1>3

\* Requests commit nothing, and create an Apply only where there was none.
LEMMA RequestGood ==
    ASSUME TypeOK, NEW c \in Clients, Request(c), NEW b \in Applies, Good(b)
    PROVE  Good(b)'
<1>1. ASSUME NEW a \in Applies, Create(c, a)
      PROVE  Good(b)'
  <2>1. snapshots' = snapshots
    BY <1>1 DEF Create
  <2>2. CASE b # a
    BY <1>1, <2>1, <2>2, KeepGood DEF Create, TypeOK
  <2>3. CASE b = a
    <3>1. /\ applies[b].stage = "none" /\ applies'[b].snapshot = 0
          /\ applies'[b].history = {"validating"} /\ applies'[b].rollback = "none"
          /\ \/ runner'[b].pc = "validating" /\ runner'[b].number = 0
             \/ runner'[b] = runner[b]
      BY <1>1, <2>3, CreateFacts
    <3>2. QED
      BY <2>1, <3>1
         DEF Good, Clean, Owned, Owner, Numbered, Named, Latest, Forward, Committing
  <2>4. QED BY <2>2, <2>3
<1>2. CASE \E op \in Requests : MutationsEnabled(c, op)
  BY <1>2, KeepGood DEF MutationsEnabled
<1>3. CASE NothingInFlight(c) \/ Refused(c) \/ Load(c)
  BY <1>3, KeepGood DEF NothingInFlight, Refused, Load
<1>4. CASE Edit(c) \/ Reset(c) \/ FullRollback(c) \/ Import(c)
  BY <1>4, KeepGood DEF Edit, Reset, FullRollback, Import, Save
<1>5. QED BY <1>1, <1>2, <1>3, <1>4 DEF Request

\* A stop ends every task; recovery fails a record that was in flight, and
\* restores only what has not reached Commit.
LEMMA ProcessGood ==
    ASSUME TypeOK, NEW b \in Applies, Good(b),
           \/ Startup \/ RecoveryAbandoned \/ Crash
           \/ \E engaged \in BOOLEAN : SetMaintenanceMode(engaged)
    PROVE  Good(b)'
<1> USE DEF durableVars
<1>1. CASE Restart \/ RecoveryDone \/ \E engaged \in BOOLEAN : SetMaintenanceMode(engaged)
  BY <1>1, KeepGood DEF Restart, RecoveryDone, SetMaintenanceMode
<1>2. CASE RecoveryAbandoned \/ Crash
  <2>1. runner'[b] = NoRunner /\ applies' = applies /\ snapshots' = snapshots
    BY <1>2 DEF RecoveryAbandoned, Crash
  <2>2. QED
    BY <2>1 DEF Good, Clean, Owned, Owner, Numbered, Named, Latest, Forward, Committing, NoRunner
<1>3. ASSUME NEW a \in Applies, RecoverInterrupted(a)
      PROVE  Good(b)'
  <2>1. snapshots' = snapshots
    BY <1>3 DEF RecoverInterrupted
  <2>2. CASE b # a
    BY <1>3, <2>1, <2>2, KeepGood DEF RecoverInterrupted, TypeOK
  <2>3. CASE b = a
    <3>1. runner[b].pc = "off" /\ applies[b].stage \notin {"succeeded", "failed"}
      BY <1>3, <2>3 DEF RecoverInterrupted, Idle, InFlight, Terminal
    <3>2. /\ applies'[b].stage = "failed"
          /\ applies'[b].history = applies[b].history \cup {"failed"}
          /\ applies'[b].rollback = applies[b].rollback
          /\ applies'[b].snapshot = applies[b].snapshot
      BY <1>3, <2>3 DEF RecoverInterrupted, TypeOK, Advanced, ApplyRecord
    <3>3. /\ runner'[b].pc \in {"off", "restore"}
          /\ applies[b].stage = "committing" => runner'[b].pc = "off"
      BY <1>3, <2>3, <3>1 DEF RecoverInterrupted, TypeOK, NoRunner, RolledBackFrom
    <3>4. QED
      BY <2>1, <3>1, <3>2, <3>3
         DEF Good, Clean, Owned, Owner, Numbered, Named, Latest, Forward, Committing
  <2>4. QED BY <2>2, <2>3
<1>4. QED BY <1>1, <1>2, <1>3 DEF Startup

\* Every step keeps the commit invariant.
LEMMA CommitStep ==
    ASSUME CommitInv, [Next]_vars
    PROVE  CommitInv'
<1>1. TypeOK /\ OneEach /\ (\A b \in Applies : Good(b)) /\ TypeOK'
  BY TypeStep DEF CommitInv
<1>2. ASSUME snapshots' = snapshots
      PROVE  OneEach'
  BY <1>1, <1>2 DEF OneEach, Latest
<1>3. CASE UNCHANGED vars
  BY <1>1, <1>2, <1>3, KeepGood DEF vars, CommitInv
<1>4. ASSUME NEW c \in Clients, Request(c)
      PROVE  CommitInv'
  <2>1. \A b \in Applies : Good(b)'
    BY <1>1, <1>4, RequestGood
  <2>2. snapshots' = snapshots
    BY <1>4 DEF Request, MutationsEnabled, NothingInFlight, Refused, Load, Edit, Reset,
                FullRollback, Import, Save, Create
  <2>3. QED BY <1>1, <1>2, <2>1, <2>2 DEF CommitInv
<1>5. ASSUME NEW a \in Applies, Task(a)
      PROVE  CommitInv'
  <2>1. CASE InsertSnapshot(a)
    BY <1>1, <2>1, InsertGood DEF CommitInv
  <2>2. CASE ~InsertSnapshot(a)
    <3>1. Good(a)' /\ snapshots' = snapshots
      BY <1>1, <1>5, <2>2, TaskGood
    <3>2. ASSUME NEW b \in Applies \ {a}
          PROVE  Good(b)'
      BY <1>1, <1>5, <3>1, TaskFrame, KeepGood
    <3>3. QED BY <1>1, <1>2, <3>1, <3>2 DEF CommitInv
  <2>3. QED BY <2>1, <2>2
<1>6. CASE \/ Startup \/ RecoveryAbandoned \/ Crash
           \/ \E engaged \in BOOLEAN : SetMaintenanceMode(engaged)
  <2>1. snapshots' = snapshots
    BY <1>6 DEF Startup, Restart, RecoveryDone, RecoverInterrupted, RecoveryAbandoned, Crash,
                SetMaintenanceMode, durableVars
  <2>2. \A b \in Applies : Good(b)'
    BY <1>1, <1>6, ProcessGood
  <2>3. QED BY <1>1, <1>2, <2>1, <2>2 DEF CommitInv
<1>7. QED BY <1>3, <1>4, <1>5, <1>6 DEF Next

\* The commit invariant holds when there is neither a Snapshot nor an Apply.
LEMMA CommitInit == Init => CommitInv
<1>1. SUFFICES ASSUME Init PROVE CommitInv
  OBVIOUS
<1>2. TypeOK /\ Latest = 0
  BY <1>1, TypeInit DEF Init, Latest
<1>3. OneEach
  BY <1>2 DEF OneEach
<1>4. ASSUME NEW a \in Applies
      PROVE  Good(a)
  BY <1>1, <1>2 DEF Init, Good, Clean, Owned, Owner, Numbered, Named, Forward, Committing,
                    NoRunner, NoRecord
<1>5. QED BY <1>2, <1>3, <1>4 DEF CommitInv

\* The commit invariant holds in every reachable state, for any number of callers.
LEMMA CommitInvariant == Spec => []CommitInv
<1>1. QED BY CommitInit, CommitStep, PTL DEF Spec

\* No Snapshot's Apply is ever rolled back, neither by its own task nor by
\* recovery, for any interleaving of callers, failures and stops: Commit is left
\* out of ROLLED_BACK_FROM, and nothing that owns a Snapshot is in a stage of it.
THEOREM CommittedStays == Spec => []CommittedNeverRolledBack
<1>1. CommitInv => CommittedNeverRolledBack
  <2>1. SUFFICES ASSUME CommitInv, NEW n \in 1..Latest
                 PROVE  Owner(snapshots[n].apply)
    BY DEF CommittedNeverRolledBack, Owner
  <2>2. snapshots[n].apply \in Applies
    <3>1. snapshots \in Seq(Snapshot)
      BY <2>1 DEF CommitInv, TypeOK
    <3>2. snapshots[n] \in Snapshot
      BY <2>1, <3>1, ElementOfSeq DEF Latest
    <3>3. QED BY <3>2 DEF Snapshot
  <2>3. QED BY <2>1, <2>2 DEF CommitInv, Good, Owned
<1>2. QED BY <1>1, CommitInvariant, PTL

\* However many Applies commit at once, each commits at most one Snapshot and a
\* record never names another Apply's: the number is a key, and the loser fails.
THEOREM CommitsOwned == Spec => []CommitsAreOwn
<1>1. CommitInv => CommitsAreOwn
  BY DEF CommitInv, CommitsAreOwn, OneEach, Good, Named
<1>2. QED BY <1>1, CommitInvariant, PTL

-----------------------------------------------------------------------------
(* Tasks and the records they drive. *)

\* A record that nobody touches and whose task does not move stays driven.
LEMMA KeepDriven ==
    ASSUME NEW a \in Applies, Driven(a), applies'[a] = applies[a], runner'[a] = runner[a]
    PROVE  Driven(a)'
BY DEF Driven, InFlight, Late

\* A task's step keeps its record driven, and changes a record that is over only
\* from an interrupted failure to an incident, or from a success it never heard of
\* to a failure.
LEMMA TaskDriven ==
    ASSUME TypeOK, NEW a \in Applies, Driven(a), Task(a)
    PROVE  /\ Driven(a)'
           /\ InFlight(a)' => InFlight(a)
           /\ StaysOver(a)
<1> USE DEF Driven, InFlight, Terminal, StaysOver, Late
<1>1. applies[a] \in ApplyRecord /\ runner[a] \in RunnerState
  BY DEF TypeOK
<1>2. CASE Capture(a) \/ ReadLatest(a) \/ Restore(a)
  <2>1. /\ runner[a].pc # "off" /\ runner'[a].kind = runner[a].kind
        /\ \/ runner[a].pc = "validating" \/ runner[a].pc = "committing"
           \/ runner[a].pc = "restore" /\ runner'[a].pc = "restoring"
    BY <1>1, <1>2 DEF Capture, ReadLatest, Restore, TypeOK, RunnerState
  <2>2. applies' = applies
    BY <1>2 DEF Capture, ReadLatest, Restore
  <2>3. QED BY <2>1, <2>2
<1>3. CASE Validated(a) \/ StartRollout(a) \/ SkipRollout(a) \/ RolledOut(a) \/ Verified(a)
  <2>1. PICK from \in {"probing", "delivered", "rolling_out", "verifying"},
             stage \in {"applying", "rolling_out", "verifying", "committing"} :
             Enter(a, from, stage)
    BY <1>3 DEF Validated, StartRollout, SkipRollout, RolledOut, Verified
  <2>2. QED BY <2>1, EnterFacts
<1>4. CASE \/ Deliver(a) \/ Delivered(a) \/ InsertSnapshot(a) \/ DuplicateNumber(a)
           \/ ResetCandidate(a) \/ CommitNothing(a) \/ Restored(a) \/ EngageMaintenance(a)
  <2>1. applies' = applies
    BY <1>4 DEF Deliver, Delivered, InsertSnapshot, DuplicateNumber, ResetCandidate,
                CommitNothing, Restored, EngageMaintenance
  <2>2. PICK from \in {"applying", "delivering", "inserting", "inserted", "committing",
                       "restoring", "engage"},
             to \in {"delivering", "delivered", "inserted", "failing", "committed",
                     "restored", "declare"} :
             /\ Goto(a, from, to)
             /\ from \in {"restoring", "engage"} => to \in {"restored", "declare"}
    BY <1>4 DEF Deliver, Delivered, InsertSnapshot, DuplicateNumber, ResetCandidate,
                CommitNothing, Restored, EngageMaintenance
  <2>3. QED BY <2>1, <2>2, GotoFacts
<1>5. CASE StageFails(a) \/ StoreFails(a)
  <2>1. applies' = applies
    BY <1>5 DEF StageFails, StoreFails
  <2>2. PICK from \in {"validating", "probing", "applying", "delivering", "delivered",
                       "rolling_out", "verifying", "committing", "inserting", "inserted",
                       "committed", "recorded"} :
             \E to : Goto(a, from, to)
    BY <1>5 DEF StageFails, StoreFails
  <2>3. QED BY <2>1, <2>2, GotoFacts
<1>6. CASE TaskDies(a)
  <2>1. applies' = applies /\ runner'[a].pc = "off"
    BY <1>6, EndFacts DEF TaskDies
  <2>2. QED BY <2>1
<1>7. CASE RecordSnapshot(a)
  <2>1. Goto(a, "committed", "recorded") /\ applies'[a].stage = applies[a].stage
    BY <1>1, <1>7 DEF RecordSnapshot, TypeOK, ApplyRecord
  <2>2. QED BY <2>1, GotoFacts
<1>8. CASE Fail(a) \/ Succeed(a)
  <2>1. /\ \/ End(a, "failing") /\ applies'[a].stage = "failed"
           \/ End(a, "recorded") /\ applies'[a].stage = "succeeded"
        /\ applies'[a].snapshot = applies[a].snapshot
    BY <1>1, <1>8, AdvancedFacts DEF Fail, Succeed, TypeOK
  <2>2. QED BY <2>1, EndFacts
<1>9. CASE RollBack(a)
  <2>1. /\ Goto(a, "roll_back", "restore") /\ applies'[a].stage = "rolling_back"
        /\ applies'[a].snapshot = applies[a].snapshot
    BY <1>1, <1>9, AdvancedFacts DEF RollBack, TypeOK
  <2>2. QED BY <2>1, GotoFacts
<1>10. CASE RestoreFails(a)
  <2>1. Goto(a, "restore", "engage") \/ Goto(a, "restoring", "engage")
    BY <1>10 DEF RestoreFails
  <2>2. /\ applies'[a].stage = applies[a].stage
        /\ applies'[a].interrupted = applies[a].interrupted
        /\ applies'[a].snapshot = applies[a].snapshot
    BY <1>1, <1>10 DEF RestoreFails, TypeOK, ApplyRecord
  <2>3. QED BY <2>1, <2>2, GotoFacts
<1>11. CASE RecordRollback(a)
  <2>1. \/ runner[a].kind # "recovery" /\ Goto(a, "restored", "failing")
        \/ End(a, "restored")
    BY <1>11 DEF RecordRollback
  <2>2. applies'[a].stage = applies[a].stage /\ applies'[a].snapshot = applies[a].snapshot
    BY <1>1, <1>11 DEF RecordRollback, TypeOK, ApplyRecord
  <2>3. QED BY <2>1, <2>2, GotoFacts, EndFacts
<1>12. CASE DeclareIncident(a)
  <2>1. /\ End(a, "declare") /\ applies'[a].stage = "incident"
        /\ applies'[a].snapshot = applies[a].snapshot
    BY <1>1, <1>12, AdvancedFacts DEF DeclareIncident, TypeOK
  <2>2. QED BY <2>1, EndFacts
<1>13. CASE SucceedUnheard(a)
  <2>1. Goto(a, "recorded", "failing") /\ applies'[a].stage = "succeeded"
    BY <1>1, <1>13, AdvancedFacts DEF SucceedUnheard, TypeOK
  <2>2. QED BY <2>1, GotoFacts
<1>14. QED
  BY <1>2, <1>3, <1>4, <1>5, <1>6, <1>7, <1>8, <1>9, <1>10, <1>11, <1>12, <1>13 DEF Task

\* Of the requests only Create touches a record or a task, and it starts one.
LEMMA RequestFrame ==
    ASSUME NEW c \in Clients, Request(c), \A a \in Applies : ~Create(c, a)
    PROVE  applies' = applies /\ runner' = runner
<1>1. CASE \E op \in Requests : MutationsEnabled(c, op)
  BY <1>1 DEF MutationsEnabled
<1>2. CASE NothingInFlight(c) \/ Refused(c) \/ Load(c)
  BY <1>2 DEF NothingInFlight, Refused, Load
<1>3. CASE Edit(c) \/ Reset(c) \/ FullRollback(c) \/ Import(c)
  BY <1>3 DEF Edit, Reset, FullRollback, Import, Save
<1>4. QED BY <1>1, <1>2, <1>3 DEF Request


\* Recovery resolves one interrupted record; the rest of startup, a stop and an
\* Admin's switch leave the records alone.
LEMMA ProcessDriven ==
    ASSUME TypeOK, NEW b \in Applies, Driven(b),
           \/ Startup \/ RecoveryAbandoned \/ Crash
           \/ \E engaged \in BOOLEAN : SetMaintenanceMode(engaged)
    PROVE  /\ Driven(b)'
           /\ InFlight(b)' => InFlight(b)
           /\ ~InFlight(b) => applies'[b] = applies[b]
<1> USE DEF durableVars
<1>1. CASE Restart \/ RecoveryDone \/ \E engaged \in BOOLEAN : SetMaintenanceMode(engaged)
  <2>1. applies' = applies /\ runner' = runner
    BY <1>1 DEF Restart, RecoveryDone, SetMaintenanceMode
  <2>2. QED BY <2>1, KeepDriven DEF InFlight
<1>2. CASE RecoveryAbandoned \/ Crash
  <2>1. applies' = applies /\ runner'[b].pc = "off"
    BY <1>2 DEF RecoveryAbandoned, Crash, NoRunner
  <2>2. QED BY <2>1 DEF Driven, InFlight
<1>3. ASSUME NEW a \in Applies, RecoverInterrupted(a)
      PROVE  /\ Driven(b)'
             /\ InFlight(b)' => InFlight(b)
             /\ ~InFlight(b) => applies'[b] = applies[b]
  <2>1. CASE b # a
    <3>1. applies'[b] = applies[b] /\ runner'[b] = runner[b]
      BY <1>3, <2>1 DEF RecoverInterrupted, TypeOK
    <3>2. QED BY <3>1, KeepDriven DEF InFlight
  <2>2. CASE b = a
    <3>1. InFlight(b) /\ runner[b].pc = "off"
      BY <1>3, <2>2 DEF RecoverInterrupted, Idle
    <3>2. applies'[b].stage = "failed" /\ applies'[b].interrupted
      BY <1>3, <2>2 DEF RecoverInterrupted, TypeOK, Advanced, ApplyRecord
    <3>3. \/ runner'[b].pc = "off"
          \/ runner'[b].pc = "restore" /\ runner'[b].kind = "recovery"
      BY <1>3, <2>2, <3>1 DEF RecoverInterrupted, TypeOK, NoRunner
    <3>4. QED BY <3>1, <3>2, <3>3 DEF Driven, InFlight, Terminal
  <2>3. QED BY <2>1, <2>2
<1>4. QED BY <1>1, <1>2, <1>3 DEF Startup

\* Every step, a stop of the process included, keeps every record's task the right one.
LEMMA DrivenStep ==
    ASSUME DrivenInv, [Next]_vars
    PROVE  DrivenInv'
<1>1. TypeOK /\ TypeOK' /\ \A b \in Applies : Driven(b)
  BY TypeStep DEF DrivenInv
<1>2. SUFFICES ASSUME NEW b \in Applies PROVE Driven(b)'
  BY <1>1 DEF DrivenInv
<1>3. CASE UNCHANGED vars
  BY <1>1, <1>3, KeepDriven DEF vars
<1>4. ASSUME NEW c \in Clients, Request(c)
      PROVE  Driven(b)'
  <2>1. CASE \A a \in Applies : ~Create(c, a)
    BY <1>1, <1>4, <2>1, RequestFrame, KeepDriven
  <2>2. ASSUME NEW a \in Applies, Create(c, a)
        PROVE  Driven(b)'
    <3>1. CASE b = a
      BY <1>1, <2>2, <3>1, CreateFacts DEF Driven, InFlight, Terminal, Late
    <3>2. CASE b # a
      BY <1>1, <2>2, <3>2, CreateFacts, KeepDriven
    <3>3. QED BY <3>1, <3>2
  <2>3. QED BY <2>1, <2>2
<1>5. ASSUME NEW a \in Applies, Task(a)
      PROVE  Driven(b)'
  <2>1. CASE b = a
    BY <1>1, <1>5, <2>1, TaskDriven
  <2>2. CASE b # a
    BY <1>1, <1>5, <2>2, TaskFrame, KeepDriven
  <2>3. QED BY <2>1, <2>2
<1>6. CASE \/ Startup \/ RecoveryAbandoned \/ Crash
           \/ \E engaged \in BOOLEAN : SetMaintenanceMode(engaged)
  BY <1>1, <1>6, ProcessDriven
<1>7. QED BY <1>3, <1>4, <1>5, <1>6 DEF Next

\* With no records there is nothing to drive.
LEMMA DrivenInit == Init => DrivenInv
BY TypeInit DEF Init, DrivenInv, Driven, NoRunner

\* In every reachable state each record is driven as its stage says.
LEMMA DrivenInvariant == Spec => []DrivenInv
<1>1. QED BY DrivenInit, DrivenStep, PTL DEF Spec

\* Every step leaves an Apply that is over as it was, but for the two ways StaysOver names.
LEMMA OverStep ==
    ASSUME DrivenInv, Next, NEW b \in Applies
    PROVE  StaysOver(b)
<1> USE DEF StaysOver
<1>1. TypeOK /\ \A a \in Applies : Driven(a)
  BY DEF DrivenInv
<1>2. ASSUME NEW c \in Clients, Request(c)
      PROVE  StaysOver(b)
  <2>1. CASE \A a \in Applies : ~Create(c, a)
    BY <1>2, <2>1, RequestFrame
  <2>2. ASSUME NEW a \in Applies, Create(c, a)
        PROVE  StaysOver(b)
    BY <1>1, <2>2, CreateFacts
  <2>3. QED BY <2>1, <2>2
<1>3. ASSUME NEW a \in Applies, Task(a)
      PROVE  StaysOver(b)
  <2>1. CASE b = a
    BY <1>1, <1>3, <2>1, TaskDriven
  <2>2. CASE b # a
    BY <1>1, <1>3, <2>2, TaskFrame
  <2>3. QED BY <2>1, <2>2
<1>4. CASE \/ Startup \/ RecoveryAbandoned \/ Crash
           \/ \E engaged \in BOOLEAN : SetMaintenanceMode(engaged)
  BY <1>1, <1>4, ProcessDriven DEF InFlight, Terminal
<1>5. QED BY <1>2, <1>3, <1>4 DEF Next

\* An Apply that is over stays over, whoever else is running and however often
\* the process stops: what may still change it is recovery turning a failure it
\* recorded into an incident, and a task failing the success whose reply it lost.
THEOREM OverStaysOver == Spec => TerminalStays
<1>1. DrivenInv /\ [Next]_vars => [\A a \in Applies : StaysOver(a)]_vars
  BY OverStep
<1>2. QED BY <1>1, DrivenInvariant, PTL DEF Spec, TerminalStays

-----------------------------------------------------------------------------
(* One caller at a time: the operating assumption of the implementation       *)
(* document.  The runs of two callers show that the results need it.          *)

OneCaller == \A c, d \in Clients : c = d

\* Only Create puts an Apply in flight.
LEMMA NothingThaws ==
    ASSUME DrivenInv, Next, \A c \in Clients, a \in Applies : ~Create(c, a), NEW b \in Applies
    PROVE  InFlight(b)' => InFlight(b)
<1>1. TypeOK /\ \A a \in Applies : Driven(a)
  BY DEF DrivenInv
<1>2. ASSUME NEW c \in Clients, Request(c)
      PROVE  InFlight(b)' => InFlight(b)
  BY <1>2, RequestFrame DEF InFlight
<1>3. ASSUME NEW a \in Applies, Task(a)
      PROVE  InFlight(b)' => InFlight(b)
  <2>1. CASE b = a
    BY <1>1, <1>3, <2>1, TaskDriven
  <2>2. CASE b # a
    BY <1>1, <1>3, <2>2, TaskFrame DEF InFlight
  <2>3. QED BY <2>1, <2>2
<1>4. CASE \/ Startup \/ RecoveryAbandoned \/ Crash
           \/ \E engaged \in BOOLEAN : SetMaintenanceMode(engaged)
  BY <1>1, <1>4, ProcessDriven
<1>5. QED BY <1>2, <1>3, <1>4 DEF Next

\* A handler that comes to be past its gates passed them just now.
LEMMA GateFacts ==
    ASSUME TypeOK, Next, NEW c \in Clients,
           client'[c].pc \in {"allowed", "loaded"}, client'[c].op # "admin_import"
    PROVE  \/ ~Frozen /\ client'[c].over = Created
           \/ /\ client[c].pc \in {"allowed", "loaded"} /\ client[c].op # "admin_import"
              /\ client'[c].over = client[c].over
<1> USE DEF requestVars, processVars, durableVars
<1>1. client[c] \in ClientState
  BY DEF TypeOK
<1>2. CASE client' = client
  BY <1>2
<1>3. ASSUME NEW d \in Clients, Request(d)
      PROVE  \/ ~Frozen /\ client'[c].over = Created
             \/ /\ client[c].pc \in {"allowed", "loaded"} /\ client[c].op # "admin_import"
                /\ client'[c].over = client[c].over
  <2>1. CASE c # d
    <3>1. client'[c] = client[c]
      BY <1>3, <2>1 DEF Request, MutationsEnabled, NothingInFlight, Refused, Load, Edit, Reset,
                        FullRollback, Import, Save, Create, TypeOK
    <3>2. QED BY <3>1
  <2>2. CASE c = d
    <3>1. CASE \E op \in Requests : MutationsEnabled(d, op)
      BY <2>2, <3>1 DEF MutationsEnabled, TypeOK, NoClient
    <3>2. CASE NothingInFlight(d)
      BY <1>1, <2>2, <3>2 DEF NothingInFlight, TypeOK, ClientState
    <3>3. CASE Load(d)
      BY <1>1, <2>2, <3>3 DEF Load, TypeOK, ClientState
    <3>4. CASE client' = [client EXCEPT ![d] = NoClient]
      BY <2>2, <3>4 DEF TypeOK, NoClient
    <3>5. CASE Refused(d) \/ Edit(d) \/ Reset(d) \/ FullRollback(d) \/ Import(d)
               \/ \E a \in Applies : Create(d, a)
      BY <3>4, <3>5 DEF Refused, Edit, Reset, FullRollback, Import, Save, Create
    <3>6. QED BY <1>3, <3>1, <3>2, <3>3, <3>5 DEF Request
  <2>3. QED BY <2>1, <2>2
<1>4. CASE \E a \in Applies : Task(a)
  BY <1>2, <1>4 DEF Task, Capture, Validated, Deliver, Delivered, StartRollout, SkipRollout,
     RolledOut, Verified, Enter, ReadLatest, InsertSnapshot, DuplicateNumber, ResetCandidate,
     CommitNothing, RecordSnapshot, Succeed, StageFails, StoreFails,
     SucceedUnheard, TaskDies, Fail, RollBack, Restore, Restored, RestoreFails, RecordRollback, EngageMaintenance, DeclareIncident
<1>5. CASE \E engaged \in BOOLEAN : SetMaintenanceMode(engaged)
  BY <1>2, <1>5 DEF SetMaintenanceMode
<1>6. CASE Startup \/ RecoveryAbandoned
  BY <1>2, <1>6 DEF Startup, Restart, RecoveryDone, RecoverInterrupted, RecoveryAbandoned
<1>7. CASE Crash
  BY <1>7 DEF Crash, NoClient
<1>8. QED BY <1>3, <1>4, <1>5, <1>6, <1>7 DEF Next

\* With one caller every step keeps at most one Apply in flight.
LEMMA SerialStep ==
    ASSUME OneCaller, SerialInv, [Next]_vars
    PROVE  SerialInv'
<1>1. DrivenInv /\ TypeOK /\ OneInFlight /\ \A c \in Clients : Gated(c)
  BY DEF SerialInv, DrivenInv
<1>2. DrivenInv'
  BY <1>1, DrivenStep
<1>3. CASE UNCHANGED vars
  BY <1>1, <1>2, <1>3 DEF SerialInv, vars, OneInFlight, InFlight, Gated, Frozen
<1>4. ASSUME NEW c \in Clients, NEW a \in Applies, Create(c, a)
      PROVE  SerialInv'
  <2>1. ~Frozen
    BY <1>1, <1>4 DEF Create, Gated
  <2>2. \A b \in Applies \ {a} : ~InFlight(b)'
    BY <1>1, <1>4, <2>1, CreateFacts DEF Frozen, InFlight
  <2>3. client'[c].pc = "idle"
    BY <1>1, <1>4 DEF Create, TypeOK, NoClient
  <2>4. \A d \in Clients : Gated(d)'
    BY <2>3 DEF OneCaller, Gated
  <2>5. QED BY <1>2, <2>2, <2>4 DEF SerialInv, OneInFlight
<1>5. CASE Next /\ \A c \in Clients, a \in Applies : ~Create(c, a)
  <2>1. \A b \in Applies : InFlight(b)' => InFlight(b)
    BY <1>1, <1>5, NothingThaws
  <2>2. OneInFlight'
    BY <1>1, <2>1 DEF OneInFlight
  <2>3. Frozen' => Frozen
    BY <2>1 DEF Frozen
  <2>4. ASSUME NEW c \in Clients
        PROVE  Gated(c)'
    BY <1>1, <1>5, <2>3, GateFacts DEF Gated
  <2>5. QED BY <1>2, <2>2, <2>4 DEF SerialInv
<1>6. QED BY <1>3, <1>4, <1>5

\* At the start no Apply is in flight and no caller is past a gate.
LEMMA SerialInit == Init => SerialInv
BY DrivenInit DEF Init, SerialInv, OneInFlight, InFlight, Gated, NoRecord, NoClient

\* With one caller at most one Apply is ever in flight.
LEMMA SerialInvariant ==
    ASSUME OneCaller
    PROVE  Spec => []SerialInv
<1>1. SerialInv /\ [Next]_vars => SerialInv'
  BY SerialStep
<1>2. QED BY <1>1, SerialInit, PTL DEF Spec

\* With one caller at a time at most one Apply is in flight, however often the
\* process stops between the check and the insert or leaves a record behind.
THEOREM OneAtATime ==
    ASSUME OneCaller
    PROVE  Spec => []OneInFlight
<1>1. SerialInv => OneInFlight
  BY DEF SerialInv
<1>2. QED BY <1>1, SerialInvariant, PTL

\* Every step keeps each busy handler at one of the requests that callers send.
LEMMA AskedStep ==
    ASSUME TypeOK, Asked, [Next]_vars
    PROVE  Asked'
<1> USE DEF requestVars, processVars, durableVars
<1>1. CASE client' = client
  BY <1>1 DEF Asked
<1>2. ASSUME NEW d \in Clients, Request(d)
      PROVE  Asked'
  <2>1. CASE client' = [client EXCEPT ![d] = NoClient]
    BY <2>1 DEF Asked, TypeOK, NoClient
  <2>2. CASE Refused(d) \/ Edit(d) \/ Reset(d) \/ FullRollback(d) \/ Import(d)
             \/ \E a \in Applies : Create(d, a)
    BY <2>1, <2>2 DEF Refused, Edit, Reset, FullRollback, Import, Save, Create
  <2>3. CASE \E op \in Requests : MutationsEnabled(d, op)
    BY <2>3 DEF Asked, MutationsEnabled, TypeOK, NoClient
  <2>4. CASE NothingInFlight(d) \/ Load(d)
    <3>1. /\ client[d].pc # "idle" /\ client'[d].op = client[d].op
          /\ \A c \in Clients \ {d} : client'[c] = client[c]
      BY <2>4 DEF NothingInFlight, Load, TypeOK, ClientState
    <3>2. QED BY <3>1 DEF Asked
  <2>5. QED BY <1>2, <2>2, <2>3, <2>4 DEF Request
<1>3. CASE \E a \in Applies : Task(a)
  BY <1>1, <1>3 DEF Task, Capture, Validated, Deliver, Delivered, StartRollout, SkipRollout,
     RolledOut, Verified, Enter, ReadLatest, InsertSnapshot, DuplicateNumber, ResetCandidate,
     CommitNothing, RecordSnapshot, Succeed, StageFails, StoreFails,
     SucceedUnheard, TaskDies, Fail, RollBack, Restore, Restored, RestoreFails, RecordRollback, EngageMaintenance, DeclareIncident
<1>4. CASE \E engaged \in BOOLEAN : SetMaintenanceMode(engaged)
  BY <1>1, <1>4 DEF SetMaintenanceMode
<1>5. CASE Startup \/ RecoveryAbandoned
  BY <1>1, <1>5 DEF Startup, Restart, RecoveryDone, RecoverInterrupted, RecoveryAbandoned
<1>6. CASE Crash
  BY <1>6 DEF Crash, Asked, NoClient
<1>7. CASE UNCHANGED vars
  BY <1>1, <1>7 DEF vars
<1>8. QED BY <1>2, <1>3, <1>4, <1>5, <1>6, <1>7 DEF Next

\* In every reachable state a busy handler serves one of the requests that callers send.
LEMMA AskedInvariant == Spec => []Asked
<1>1. Init => Asked
  BY DEF Init, Asked, NoClient
<1>2. QED BY <1>1, AskedStep, TypeCorrect, PTL DEF Spec

\* The Applies a caller past its gates found to be over still are.
Past(c) ==
    client[c].pc \in {"allowed", "loaded"} /\ client[c].op # "admin_import" =>
        \A a \in client[c].over : applies[a].stage \in Terminal

PastInv == DrivenInv /\ \A c \in Clients : Past(c)

\* Every step keeps them so.
LEMMA PastStep ==
    ASSUME PastInv, [Next]_vars
    PROVE  PastInv'
<1>1. DrivenInv /\ DrivenInv' /\ TypeOK /\ \A c \in Clients : Past(c)
  BY DrivenStep DEF PastInv, DrivenInv
<1>2. CASE UNCHANGED vars
  BY <1>1, <1>2 DEF PastInv, Past, vars
<1>3. ASSUME Next, NEW c \in Clients, client'[c].pc \in {"allowed", "loaded"},
             client'[c].op # "admin_import", NEW a \in client'[c].over
      PROVE  applies'[a].stage \in Terminal
  <2>1. a \in Applies
    <3>1. client'[c] \in ClientState
      BY <1>1 DEF DrivenInv, TypeOK
    <3>2. QED BY <1>3, <3>1 DEF ClientState
  <2>2. applies[a].stage \in Terminal
    <3>1. CASE ~Frozen /\ client'[c].over = Created
      BY <1>3, <2>1, <3>1 DEF Frozen, InFlight, Created, Terminal
    <3>2. CASE /\ client[c].pc \in {"allowed", "loaded"} /\ client[c].op # "admin_import"
               /\ client'[c].over = client[c].over
      BY <1>1, <1>3, <3>2 DEF Past
    <3>3. QED BY <1>1, <1>3, <3>1, <3>2, GateFacts
  <2>3. QED BY <1>1, <1>3, <2>1, <2>2, OverStep DEF StaysOver, Terminal
<1>4. QED BY <1>1, <1>2, <1>3 DEF PastInv, Past

\* At the start no caller is past a gate.
LEMMA PastInit == Init => PastInv
BY DrivenInit DEF Init, PastInv, Past, NoClient

\* The steps that write the Candidate: a handler past its gates, as its last step,
\* and the second write of a commit.
LEMMA CandidateWriters ==
    ASSUME TypeOK, Next, candidate' # candidate
    PROVE  \/ \E a \in Applies : runner[a].pc = "inserted"
           \/ \E c \in Clients : client[c].pc = "loaded" /\ client'[c].pc = "idle"
<1> USE DEF requestVars, processVars, durableVars
<1>1. ASSUME NEW d \in Clients, Request(d)
      PROVE  client[d].pc = "loaded" /\ client'[d].pc = "idle"
  <2>1. client[d].pc = "loaded" /\ client' = [client EXCEPT ![d] = NoClient]
    BY <1>1 DEF Request, MutationsEnabled, NothingInFlight, Refused, Load, Edit, Reset,
                FullRollback, Import, Save, Create
  <2>2. QED BY <2>1 DEF TypeOK, NoClient
<1>2. ASSUME NEW a \in Applies, Task(a)
      PROVE  runner[a].pc = "inserted"
  BY <1>2 DEF Task, Capture, Validated, Deliver, Delivered, StartRollout, SkipRollout,
     RolledOut, Verified, Enter, ReadLatest, InsertSnapshot, DuplicateNumber, ResetCandidate,
     CommitNothing, RecordSnapshot, Succeed, StageFails, StoreFails, SucceedUnheard, TaskDies,
     Fail, RollBack, Restore, Restored, RestoreFails, RecordRollback, EngageMaintenance,
     DeclareIncident, Goto
<1>3. CASE \/ Startup \/ RecoveryAbandoned \/ Crash
           \/ \E engaged \in BOOLEAN : SetMaintenanceMode(engaged)
  BY <1>3 DEF Startup, Restart, RecoveryDone, RecoverInterrupted, RecoveryAbandoned, Crash,
              SetMaintenanceMode
<1>4. QED BY <1>1, <1>2, <1>3 DEF Next

\* From the moment an Apply exists until it is over, however many callers there are
\* and whatever they ask for, the Candidate changes only as an Apply commits, by an
\* Admin's import, or by a request that was let through before that Apply existed.
THEOREM FrozenFromItsStart == Spec => CandidateFrozen
<1>1. ASSUME PastInv, Next, candidate' # candidate
      PROVE  UnfrozenChange
  <2>1. TypeOK /\ (\A a \in Applies : Driven(a)) /\ \A c \in Clients : Past(c)
    BY <1>1 DEF PastInv, DrivenInv
  <2>2. CASE \E b \in Applies : runner[b].pc = "inserted"
    BY <2>1, <2>2 DEF Driven, Late, UnfrozenChange, Excused
  <2>3. ASSUME NEW c \in Clients, client[c].pc = "loaded", client'[c].pc = "idle",
               NEW a \in Applies, InFlight(a)
        PROVE  Excused(a)
    <3>1. client[c].op = "admin_import" \/ a \notin client[c].over
      BY <2>1, <2>3 DEF Past, InFlight
    <3>2. QED BY <2>3, <3>1 DEF Excused
  <2>4. QED BY <1>1, <2>1, <2>2, <2>3, CandidateWriters DEF UnfrozenChange
<1>2. PastInv /\ [Next]_vars => [UnfrozenChange]_vars
  BY <1>1 DEF UnfrozenChange
<1>3. QED BY <1>2, PastInit, PastStep, PTL DEF Spec, CandidateFrozen

-----------------------------------------------------------------------------
(* DivergenceIsRecorded: the inductive invariant. *)

\* What the latest Snapshot says the Cluster runs, and that the Candidate is a
\* change from it.
Committed == SectionsOf(Latest)
OnLatest == Loaded.base = Latest

\* The Cluster runs the latest Snapshot.
Home == cluster = Committed /\ OnLatest

\* A restore to the latest Snapshot will find every difference.
Known == cluster \in Configs \cup {Partial} /\ OnLatest

\* Apply a is unfinished: by its record, or by a recovery that still runs.
Busy(a) == InFlight(a) \/ (runner[a].pc # "off" /\ ~Late(a))

\* No record but a's own says that the Cluster may be elsewhere.
Clear(a) == \A b \in Applies \ {a} : ~Suspect(b)

AllClear == \A a \in Applies : ~Suspect(a)

\* The steps of a task that has not failed, from the one that entered Apply on.
Delivering == {"applying", "delivering", "delivered", "rolling_out", "verifying",
               "committing", "inserting", "inserted", "committed", "recorded"}

\* What a record tells of its own past.
RecordTells(a) ==
    /\ applies[a].stage \in RolledBackFrom \cup {"committing"} =>
           "applying" \in applies[a].history
    /\ applies[a].stage = "rolling_back" => "rolling_back" \in applies[a].history
    /\ InFlight(a) /\ applies[a].rollback = "succeeded" => applies[a].stage = "rolling_back"

\* Where a task is and what its record says of it.  A record that recovery is
\* still restoring is suspect until it has, and a late one will be once it is failed.
TaskTells(a) ==
    /\ runner[a].pc \in Delivering \cup {"validating", "probing", "roll_back"} =>
           applies[a].stage # "rolling_back"
    /\ runner[a].pc \in Delivering =>
           "applying" \in applies[a].history /\ applies[a].stage # "validating"
    /\ runner[a].kind # "recovery" /\ runner[a].pc \in {"restore", "restoring", "restored"} =>
           applies[a].stage = "rolling_back"
    /\ runner[a].kind = "recovery" /\ runner[a].pc # "off" =>
           Suspect(a) /\ boot = "recovering"
    /\ Late(a) => "applying" \in applies[a].history /\ applies[a].rollback # "succeeded"

\* Where the Cluster is, by the record alone: what recovery relies on.
RecordPlaces(a) ==
    /\ applies[a].stage = "validating" => Home
    /\ applies[a].stage \in RolledBackFrom => Known
    /\ applies[a].stage = "rolling_back" /\ applies[a].rollback = "succeeded" => Home

\* Where the Cluster is at each step of the task, and what the task captured.
TaskPlaces(a) ==
    LET pc == runner[a].pc
        desired == runner[a].desired
        admin == runner[a].kind = "admin"
    IN  /\ pc \in {"validating", "probing", "applying", "committed", "recorded", "restored"} => Home
        /\ pc \in {"probing", "applying", "delivering"} =>
               /\ runner[a].baseline = Committed
               /\ admin => desired = Committed
        /\ pc = "delivering" =>
               /\ cluster = Partial \/ (cluster = Committed /\ desired = cluster)
               /\ OnLatest
        /\ pc \in {"delivered", "rolling_out", "verifying", "committing", "inserting"} =>
               /\ cluster = desired /\ OnLatest
               /\ admin => desired = Committed
        /\ pc = "inserted" => cluster = Committed /\ runner[a].number = Latest
        /\ pc \in {"roll_back", "restore"} => Known
        /\ pc = "restoring" =>
               /\ desired = Committed /\ OnLatest
               /\ cluster \in {Committed, Unwinding}

OneBusy == \A a, b \in Applies : Busy(a) /\ Busy(b) => a = b

\* Handlers run once Apchi serves, and have read the latest base.
HandlersServe ==
    \A c \in Clients :
        /\ client[c].pc # "idle" => boot = "serving"
        /\ client[c].pc = "loaded" /\ AllClear => client[c].base = Latest

\* When nothing is unfinished and no record is suspect, the Cluster is at home.
Quiet == (\A a \in Applies : ~Busy(a)) /\ AllClear => Home

Story(a) ==
    /\ RecordTells(a)
    /\ TaskTells(a)
    /\ Clear(a) => RecordPlaces(a) /\ TaskPlaces(a)

DivergenceInv ==
    /\ SerialInv /\ Asked
    /\ OneBusy
    /\ \A a \in Applies : Story(a)
    /\ HandlersServe
    /\ Quiet

-----------------------------------------------------------------------------
(* What the steps leave alone. *)

\* A step that writes neither the Snapshots nor the Candidate moves neither.
LEMMA SameBase ==
    ASSUME snapshots' = snapshots, candidate' = candidate
    PROVE  /\ Latest' = Latest /\ Committed' = Committed
           /\ OnLatest' <=> OnLatest
BY DEF Committed, OnLatest, SectionsOf, Latest, Loaded, Document

\* What is committed is a configuration, and no place between two of them.
LEMMA CommittedType ==
    ASSUME TypeOK
    PROVE  Committed \in Configs /\ Committed \notin {Partial, Unwinding, Diverged}
BY SnapshotTypes, ClusterAssumption DEF Committed

\* A task that moves on keeps what it captured.
LEMMA GotoKeeps ==
    ASSUME TypeOK, NEW a \in Applies, NEW from, NEW to, Goto(a, from, to)
    PROVE  /\ runner[a].pc = from /\ runner'[a].pc = to
           /\ runner'[a].kind = runner[a].kind
           /\ runner'[a].desired = runner[a].desired
           /\ runner'[a].baseline = runner[a].baseline
           /\ runner'[a].number = runner[a].number
BY DEF Goto, TypeOK, RunnerState

\* Whether a record is suspect depends on that record alone.
LEMMA SuspectFrame ==
    ASSUME NEW b \in Applies, applies'[b] = applies[b]
    PROVE  (Suspect(b)' <=> Suspect(b)) /\ (InFlight(b)' <=> InFlight(b))
BY DEF Suspect, InFlight

-----------------------------------------------------------------------------
(* The steps of a task. *)

\* What a task's step has to show: its story goes on, and when it is over with
\* no record left suspect, the Cluster is at home.
Continues(a) ==
    /\ Story(a)'
    /\ ~Busy(a)' /\ Clear(a) /\ ~Suspect(a)' => Home'

\* A task's step does not change what other records say.
LEMMA ClearFrame ==
    ASSUME TypeOK, NEW a \in Applies, Task(a)
    PROVE  Clear(a)' <=> Clear(a)
<1>1. \A b \in Applies \ {a} : applies'[b] = applies[b]
  BY TaskFrame
<1>2. \A b \in Applies \ {a} : Suspect(b)' <=> Suspect(b)
  BY <1>1, SuspectFrame
<1>3. QED BY <1>2 DEF Clear

\* Engine.validate captures the latest Snapshot as the baseline.
LEMMA CaptureContinues ==
    ASSUME TypeOK, NEW a \in Applies, Driven(a), Story(a), Capture(a)
    PROVE  Continues(a)
<1>1. /\ snapshots' = snapshots /\ candidate' = candidate /\ applies' = applies
      /\ cluster' = cluster /\ boot' = boot
  BY DEF Capture, requestVars, processVars
<1>2. /\ runner[a].pc = "validating" /\ runner'[a].pc = "probing"
      /\ runner'[a].kind = runner[a].kind
  BY DEF Capture, TypeOK, RunnerState
<1>3. OnLatest => /\ runner'[a].baseline = Committed
                  /\ runner[a].kind = "admin" => runner'[a].desired = Committed
  BY DEF Capture, TypeOK, RunnerState, OnLatest, Committed
<1>4. (Clear(a)' <=> Clear(a)) /\ Busy(a)'
  BY <1>2, ClearFrame DEF Task, Busy, Late
<1>5. Committed' = Committed /\ (OnLatest' <=> OnLatest)
  BY <1>1, SameBase
<1>6. applies'[a] = applies[a] /\ (Suspect(a)' <=> Suspect(a)) /\ (InFlight(a)' <=> InFlight(a))
  BY <1>1, SuspectFrame
<1>7. RecordTells(a)' /\ TaskTells(a)'
  BY <1>1, <1>2, <1>6 DEF Story, RecordTells, TaskTells, Late, Delivering
<1>8. ASSUME Clear(a) PROVE RecordPlaces(a)' /\ TaskPlaces(a)'
  <2>1. RecordPlaces(a) /\ TaskPlaces(a) /\ Home
    BY <1>2, <1>8 DEF Story, TaskPlaces
  <2>2. Home' /\ (Known' <=> Known)
    BY <1>1, <1>5, <2>1 DEF Home, Known
  <2>3. RecordPlaces(a)'
    BY <1>6, <2>1, <2>2 DEF RecordPlaces
  <2>4. TaskPlaces(a)'
    BY <1>2, <1>3, <1>5, <2>1, <2>2 DEF TaskPlaces, Home
  <2>5. QED BY <2>3, <2>4
<1>9. QED BY <1>4, <1>7, <1>8 DEF Continues, Story

\* A task that enters a stage of its own course leaves the Cluster where it is.
LEMMA EnterContinues ==
    ASSUME TypeOK, NEW a \in Applies, Driven(a), Story(a),
           \/ Validated(a) \/ StartRollout(a) \/ SkipRollout(a) \/ RolledOut(a) \/ Verified(a)
    PROVE  Continues(a)
<1>1. PICK from, stage :
          /\ Enter(a, from, stage)
          /\ \/ from = "probing" /\ stage = "applying"
             \/ from = "delivered" /\ stage = "rolling_out"
             \/ from \in {"delivered", "rolling_out"} /\ stage = "verifying"
             \/ from = "verifying" /\ stage = "committing"
  BY DEF Validated, StartRollout, SkipRollout, RolledOut, Verified
<1>2. /\ Goto(a, from, stage) /\ snapshots' = snapshots /\ candidate' = candidate
      /\ cluster' = cluster /\ boot' = boot
  BY <1>1 DEF Enter, requestVars, processVars
<1>3. /\ runner[a].pc = from /\ runner'[a].pc = stage
      /\ runner'[a].kind = runner[a].kind /\ runner'[a].desired = runner[a].desired
      /\ runner'[a].baseline = runner[a].baseline
  BY <1>2, GotoKeeps
<1>4. /\ applies'[a].stage = stage /\ applies'[a].history = applies[a].history \cup {stage}
      /\ applies'[a].rollback = applies[a].rollback
  BY <1>1, EnterFacts
<1>5. runner[a].kind # "recovery" /\ InFlight(a)
  BY <1>1, <1>3 DEF Driven, Late
<1>6. (Clear(a)' <=> Clear(a)) /\ Busy(a)'
  BY <1>1, <1>3, ClearFrame DEF Task, Busy, Late
<1>7. Committed' = Committed /\ (OnLatest' <=> OnLatest)
  BY <1>2, SameBase
<1>8. RecordTells(a)'
  BY <1>1, <1>3, <1>4, <1>5 DEF Story, RecordTells, TaskTells, Late, Delivering, RolledBackFrom
<1>9. TaskTells(a)'
  BY <1>1, <1>3, <1>4, <1>5 DEF Story, TaskTells, Late, Delivering
<1>10. ASSUME Clear(a) PROVE RecordPlaces(a)' /\ TaskPlaces(a)'
  <2>1. TaskPlaces(a)
    BY <1>10 DEF Story
  <2>2. Committed \in Configs /\ runner[a].desired \in Configs
    BY CommittedType DEF TypeOK, RunnerState
  <2>3. RecordPlaces(a)'
    BY <1>1, <1>2, <1>3, <1>4, <1>7, <2>1, <2>2
       DEF RecordPlaces, TaskPlaces, Home, Known, RolledBackFrom
  <2>4. TaskPlaces(a)'
    BY <1>1, <1>2, <1>3, <1>7, <2>1 DEF TaskPlaces, Home
  <2>5. QED BY <2>3, <2>4
<1>11. QED BY <1>6, <1>8, <1>9, <1>10 DEF Continues, Story

\* A delivery that starts at home, measured from home, is one a restore can undo,
\* and ends where it was meant to.
LEMMA DeliveryContinues ==
    ASSUME TypeOK, NEW a \in Applies, Driven(a), Story(a), Deliver(a) \/ Delivered(a)
    PROVE  Continues(a)
<1>1. /\ snapshots' = snapshots /\ candidate' = candidate /\ applies' = applies /\ boot' = boot
  BY DEF Deliver, Delivered, requestVars, processVars
<1>2. /\ runner'[a].kind = runner[a].kind /\ runner'[a].desired = runner[a].desired
      /\ runner'[a].baseline = runner[a].baseline
      /\ \/ /\ runner[a].pc = "applying" /\ runner'[a].pc = "delivering"
            /\ cluster' = DeliveryStarted(cluster, Committed, runner[a].baseline,
                                          runner[a].desired)
         \/ /\ runner[a].pc = "delivering" /\ runner'[a].pc = "delivered"
            /\ cluster' \in DeliveryEnded(cluster, Committed, runner[a].baseline,
                                          runner[a].desired)
  BY GotoKeeps DEF Deliver, Delivered, Committed
<1>3. (Clear(a)' <=> Clear(a)) /\ Busy(a)'
  BY <1>2, ClearFrame DEF Task, Busy, Late
<1>4. Committed' = Committed /\ (OnLatest' <=> OnLatest)
  BY <1>1, SameBase
<1>5. applies'[a] = applies[a] /\ (Suspect(a)' <=> Suspect(a)) /\ (InFlight(a)' <=> InFlight(a))
  BY <1>1, SuspectFrame
<1>6. RecordTells(a)' /\ TaskTells(a)'
  BY <1>1, <1>2, <1>5 DEF Story, RecordTells, TaskTells, Late, Delivering
<1>7. ASSUME Clear(a) PROVE RecordPlaces(a)' /\ TaskPlaces(a)'
  <2>1. TaskPlaces(a) /\ RecordPlaces(a)
    BY <1>7 DEF Story
  <2>2. Committed \in Configs /\ Committed # Partial /\ runner[a].desired \in Configs
    BY CommittedType DEF TypeOK, RunnerState
  <2>3. CASE runner[a].pc = "applying"
    <3>1. Home /\ runner[a].baseline = Committed
      BY <2>1, <2>3 DEF TaskPlaces
    <3>2. cluster' = Partial \/ (cluster' = Committed /\ runner[a].desired = Committed)
      BY <1>2, <2>3, <3>1 DEF DeliveryStarted, Home
    <3>3. QED
      <4>1. TaskPlaces(a)'
        BY <1>2, <1>4, <2>1, <2>3, <3>1, <3>2 DEF TaskPlaces, Home
      <4>2. Known'
        BY <1>4, <2>2, <3>1, <3>2 DEF Known, Home
      <4>3. applies[a].stage # "rolling_back" /\ applies[a].stage # "validating"
        BY <2>3 DEF Story, TaskTells, Late, Delivering
      <4>4. QED BY <1>5, <4>1, <4>2, <4>3 DEF RecordPlaces
  <2>4. CASE runner[a].pc = "delivering"
    <3>1. runner[a].baseline = Committed /\ OnLatest
      BY <2>1, <2>4 DEF TaskPlaces
    <3>2. cluster' = runner[a].desired
      BY <1>2, <2>1, <2>4, <3>1 DEF TaskPlaces, DeliveryEnded
    <3>3. QED
      <4>1. TaskPlaces(a)'
        BY <1>2, <1>4, <2>1, <2>4, <3>1, <3>2 DEF TaskPlaces
      <4>2. Known'
        BY <1>4, <2>2, <3>1, <3>2 DEF Known
      <4>3. applies[a].stage # "rolling_back" /\ applies[a].stage # "validating"
        BY <2>4 DEF Story, TaskTells, Late, Delivering
      <4>4. QED BY <1>5, <4>1, <4>2, <4>3 DEF RecordPlaces
  <2>5. QED BY <1>2, <2>3, <2>4
<1>8. QED BY <1>3, <1>6, <1>7 DEF Continues, Story

\* Between Verification and the insert of the Snapshot nothing moves; an insert
\* that finds its number taken fails with the record in Commit.
LEMMA CommittingContinues ==
    ASSUME TypeOK, NEW a \in Applies, Driven(a), Story(a),
           ReadLatest(a) \/ DuplicateNumber(a) \/ CommitNothing(a)
    PROVE  Continues(a)
<1>1. /\ snapshots' = snapshots /\ candidate' = candidate /\ applies' = applies
      /\ cluster' = cluster /\ boot' = boot
  BY DEF ReadLatest, DuplicateNumber, CommitNothing, requestVars, processVars
<1>2. /\ runner'[a].kind = runner[a].kind /\ runner'[a].desired = runner[a].desired
      /\ \/ runner[a].pc = "committing" /\ runner'[a].pc = "inserting"
         \/ runner[a].pc = "inserting" /\ runner'[a].pc = "failing"
         \/ /\ runner[a].pc = "committing" /\ runner'[a].pc = "committed"
            /\ runner[a].kind = "admin"
  BY GotoKeeps DEF ReadLatest, DuplicateNumber, CommitNothing, TypeOK, RunnerState
<1>3. (Clear(a)' <=> Clear(a)) /\ InFlight(a)
  BY <1>2, ClearFrame DEF Task, Driven, Late
<1>4. Committed' = Committed /\ (OnLatest' <=> OnLatest)
  BY <1>1, SameBase
<1>5. applies'[a] = applies[a] /\ (Suspect(a)' <=> Suspect(a)) /\ InFlight(a)'
  BY <1>1, <1>3, SuspectFrame
<1>6. RecordTells(a)' /\ TaskTells(a)'
  BY <1>1, <1>2, <1>3, <1>5 DEF Story, RecordTells, TaskTells, Late, InFlight, Terminal, Delivering
<1>7. ASSUME Clear(a) PROVE RecordPlaces(a)' /\ TaskPlaces(a)'
  <2>1. TaskPlaces(a) /\ RecordPlaces(a)
    BY <1>7 DEF Story
  <2>2. (Home' <=> Home) /\ (Known' <=> Known)
    BY <1>1, <1>4 DEF Home, Known
  <2>3. RecordPlaces(a)'
    BY <1>5, <2>1, <2>2 DEF RecordPlaces
  <2>4. TaskPlaces(a)'
    BY <1>1, <1>2, <1>4, <2>1, <2>2 DEF TaskPlaces, Home
  <2>5. QED BY <2>3, <2>4
<1>8. QED BY <1>3, <1>5, <1>6, <1>7 DEF Continues, Story, Busy, Late

\* The Snapshot inserted is what the Cluster runs.
LEMMA InsertContinues ==
    ASSUME TypeOK, NEW a \in Applies, Driven(a), Story(a), Clean(a),
           InsertSnapshot(a)
    PROVE  Continues(a)
<1>1. /\ candidate' = candidate /\ applies' = applies /\ cluster' = cluster /\ boot' = boot
      /\ snapshots' = Append(snapshots, [sections |-> runner[a].desired, apply |-> a])
      /\ runner[a].number = Latest + 1
  BY DEF InsertSnapshot, requestVars, processVars
<1>2. /\ runner'[a].kind = runner[a].kind /\ runner'[a].number = runner[a].number
      /\ runner[a].pc = "inserting" /\ runner'[a].pc = "inserted"
  BY GotoKeeps DEF InsertSnapshot
<1>3. (Clear(a)' <=> Clear(a)) /\ Busy(a)'
  BY <1>2, ClearFrame DEF Task, Busy, Late
<1>4. Latest' = Latest + 1 /\ Committed' = runner[a].desired
  <2>1. [sections |-> runner[a].desired, apply |-> a] \in Snapshot /\ snapshots \in Seq(Snapshot)
    BY DEF TypeOK, RunnerState, Snapshot
  <2>2. /\ Len(snapshots') = Len(snapshots) + 1
        /\ snapshots'[Len(snapshots) + 1] = [sections |-> runner[a].desired, apply |-> a]
    BY <1>1, <2>1, AppendProperties
  <2>3. Len(snapshots) \in Nat
    BY <2>1
  <2>4. QED BY <2>2, <2>3 DEF Latest, Committed, SectionsOf
<1>5. applies'[a] = applies[a] /\ (Suspect(a)' <=> Suspect(a)) /\ (InFlight(a)' <=> InFlight(a))
  BY <1>1, SuspectFrame
<1>6. RecordTells(a)' /\ TaskTells(a)'
  BY <1>1, <1>2, <1>5 DEF Story, RecordTells, TaskTells, Late, Delivering
<1>7. ASSUME Clear(a) PROVE RecordPlaces(a)' /\ TaskPlaces(a)'
  <2>1. TaskPlaces(a)
    BY <1>7 DEF Story
  <2>2. RecordPlaces(a)'
    BY <1>2, <1>5 DEF Clean, Forward, Committing, RecordPlaces, RolledBackFrom
  <2>3. cluster' = Committed' /\ runner'[a].number = Latest'
    BY <1>1, <1>2, <1>4, <2>1 DEF TaskPlaces
  <2>4. TaskPlaces(a)'
    BY <1>2, <2>3 DEF TaskPlaces
  <2>5. QED BY <2>2, <2>4
<1>8. QED BY <1>3, <1>6, <1>7 DEF Continues, Story

\* The Candidate re-derived from the Snapshot is a change from the latest one.
LEMMA ResetContinues ==
    ASSUME TypeOK, NEW a \in Applies, Driven(a), Story(a), Clean(a),
           ResetCandidate(a)
    PROVE  Continues(a)
<1>1. /\ snapshots' = snapshots /\ applies' = applies /\ cluster' = cluster /\ boot' = boot
      /\ candidate' = Document(runner[a].number, SectionsOf(runner[a].number))
  BY DEF ResetCandidate, requestVars, processVars
<1>2. /\ runner'[a].kind = runner[a].kind
      /\ runner[a].pc = "inserted" /\ runner'[a].pc = "committed"
  BY GotoKeeps DEF ResetCandidate
<1>3. (Clear(a)' <=> Clear(a)) /\ Busy(a)'
  BY <1>2, ClearFrame DEF Task, Busy, Late
<1>4. /\ Latest' = Latest /\ Committed' = Committed
      /\ runner[a].number = Latest => OnLatest'
  BY <1>1 DEF Latest, Committed, SectionsOf, OnLatest, Loaded, Document
<1>5. applies'[a] = applies[a] /\ (Suspect(a)' <=> Suspect(a)) /\ (InFlight(a)' <=> InFlight(a))
  BY <1>1, SuspectFrame
<1>6. RecordTells(a)' /\ TaskTells(a)'
  BY <1>1, <1>2, <1>5 DEF Story, RecordTells, TaskTells, Late, Delivering
<1>7. ASSUME Clear(a) PROVE RecordPlaces(a)' /\ TaskPlaces(a)'
  <2>1. TaskPlaces(a)
    BY <1>7 DEF Story
  <2>2. RecordPlaces(a)'
    BY <1>2, <1>5 DEF Clean, Forward, Committing, RecordPlaces, RolledBackFrom
  <2>3. Home'
    BY <1>1, <1>2, <1>4, <2>1 DEF TaskPlaces, Home
  <2>4. TaskPlaces(a)'
    BY <1>2, <2>3 DEF TaskPlaces
  <2>5. QED BY <2>2, <2>4
<1>8. QED BY <1>3, <1>6, <1>7 DEF Continues, Story

\* What is left of a commit is told to the record.
LEMMA SucceedContinues ==
    ASSUME TypeOK, NEW a \in Applies, Driven(a), Story(a), RecordSnapshot(a) \/ Succeed(a)
    PROVE  Continues(a)
<1>1. /\ snapshots' = snapshots /\ candidate' = candidate /\ cluster' = cluster /\ boot' = boot
  BY DEF RecordSnapshot, Succeed, requestVars, processVars
<1>2. Committed' = Committed /\ (OnLatest' <=> OnLatest) /\ (Home' <=> Home) /\ (Known' <=> Known)
  BY <1>1, SameBase DEF Home, Known
<1>3. Clear(a)' <=> Clear(a)
  BY ClearFrame DEF Task
<1>4. CASE RecordSnapshot(a)
  <2>1. /\ runner[a].pc = "committed" /\ runner'[a].pc = "recorded"
        /\ runner'[a].kind = runner[a].kind
    BY <1>4, GotoKeeps DEF RecordSnapshot
  <2>2. /\ applies'[a].stage = applies[a].stage /\ applies'[a].history = applies[a].history
        /\ applies'[a].rollback = applies[a].rollback
    BY <1>4 DEF RecordSnapshot, TypeOK, ApplyRecord
  <2>3. (Suspect(a)' <=> Suspect(a)) /\ (InFlight(a)' <=> InFlight(a))
    BY <2>2 DEF Suspect, InFlight
  <2>4. RecordTells(a)' /\ TaskTells(a)'
    BY <1>1, <2>1, <2>2, <2>3 DEF Story, RecordTells, TaskTells, Late, Delivering
  <2>5. ASSUME Clear(a) PROVE RecordPlaces(a)' /\ TaskPlaces(a)'
    <3>1. TaskPlaces(a) /\ RecordPlaces(a)
      BY <2>5 DEF Story
    <3>2. QED BY <1>2, <2>1, <2>2, <3>1 DEF TaskPlaces, RecordPlaces
  <2>6. Busy(a)'
    BY <2>1 DEF Busy, Late
  <2>7. QED BY <1>3, <2>4, <2>5, <2>6 DEF Continues, Story
<1>5. CASE Succeed(a)
  <2>1. runner[a].pc = "recorded" /\ runner'[a].pc = "off" /\ runner'[a].kind = "operator"
    BY <1>5, EndFacts DEF Succeed
  <2>2. applies'[a].stage = "succeeded"
    BY <1>5, AdvancedFacts DEF Succeed, TypeOK
  <2>3. RecordTells(a)' /\ TaskTells(a)' /\ RecordPlaces(a)' /\ TaskPlaces(a)'
    BY <2>1, <2>2 DEF RecordTells, TaskTells, Late, RecordPlaces, TaskPlaces, Delivering,
                      RolledBackFrom, InFlight, Terminal
  <2>4. Clear(a) => Home'
    BY <1>2, <2>1 DEF Story, TaskPlaces
  <2>5. QED BY <2>3, <2>4 DEF Continues, Story
<1>6. QED BY <1>4, <1>5

\* A success its task never heard of is one: the Cluster is at home.
LEMMA UnheardContinues ==
    ASSUME TypeOK, NEW a \in Applies, Driven(a), Story(a), Clean(a), SucceedUnheard(a)
    PROVE  Continues(a)
<1>1. /\ snapshots' = snapshots /\ candidate' = candidate /\ cluster' = cluster /\ boot' = boot
  BY DEF SucceedUnheard, requestVars, processVars
<1>2. /\ runner[a].pc = "recorded" /\ runner'[a].pc = "failing"
      /\ runner'[a].kind = runner[a].kind
  BY GotoKeeps DEF SucceedUnheard
<1>3. /\ applies'[a].stage = "succeeded" /\ applies'[a].rollback = applies[a].rollback
      /\ applies'[a].history = applies[a].history \cup {"succeeded"}
  BY AdvancedFacts DEF SucceedUnheard, TypeOK
<1>4. runner[a].kind # "recovery"
  BY <1>2 DEF Driven, Late
<1>5. "applying" \in applies[a].history /\ applies[a].rollback = "none"
  BY <1>2 DEF Story, TaskTells, Delivering, Clean, Forward, Committing
<1>6. RecordTells(a)' /\ TaskTells(a)' /\ RecordPlaces(a)' /\ TaskPlaces(a)'
  BY <1>2, <1>3, <1>4, <1>5 DEF RecordTells, TaskTells, RecordPlaces, TaskPlaces, Delivering,
                                RolledBackFrom, InFlight, Terminal
<1>7. Clear(a) => Home
  BY <1>2 DEF Story, TaskPlaces
<1>8. QED BY <1>1, <1>6, <1>7, SameBase DEF Continues, Story, Home

\* A stage that fails, or a store that raises, leaves the Cluster where it is: a
\* place a restore knows, before Commit.
LEMMA FailureContinues ==
    ASSUME TypeOK, NEW a \in Applies, Driven(a), Story(a), StageFails(a) \/ StoreFails(a)
    PROVE  Continues(a)
<1>1. /\ snapshots' = snapshots /\ candidate' = candidate /\ applies' = applies
      /\ cluster' = cluster /\ boot' = boot
  BY DEF StageFails, StoreFails, requestVars, processVars
<1>2. PICK from, to :
          /\ Goto(a, from, to)
          /\ \/ from \in {"probing", "applying", "delivering", "delivered", "rolling_out",
                          "verifying"} /\ to = "roll_back"
             \/ from \in {"validating", "probing", "verifying"} \cup Committing /\ to = "failing"
  BY DEF StageFails, StoreFails, Handler, RolledBackFrom, Committing
<1>3. /\ runner[a].pc = from /\ runner'[a].pc = to
      /\ runner'[a].kind = runner[a].kind /\ runner'[a].desired = runner[a].desired
  BY <1>2, GotoKeeps
<1>4. (Clear(a)' <=> Clear(a)) /\ InFlight(a)
  BY <1>2, <1>3, ClearFrame DEF Task, Driven, Late, Committing
<1>5. Committed' = Committed /\ (OnLatest' <=> OnLatest)
  BY <1>1, SameBase
<1>6. applies'[a] = applies[a] /\ (Suspect(a)' <=> Suspect(a)) /\ InFlight(a)'
  BY <1>1, <1>4, SuspectFrame
<1>7. RecordTells(a)' /\ TaskTells(a)'
  BY <1>1, <1>2, <1>3, <1>4, <1>6
     DEF Story, RecordTells, TaskTells, Late, InFlight, Terminal, Delivering, Committing
<1>8. ASSUME Clear(a) PROVE RecordPlaces(a)' /\ TaskPlaces(a)'
  <2>1. TaskPlaces(a) /\ RecordPlaces(a)
    BY <1>8 DEF Story
  <2>2. (Home' <=> Home) /\ (Known' <=> Known)
    BY <1>1, <1>5 DEF Home, Known
  <2>3. RecordPlaces(a)'
    BY <1>6, <2>1, <2>2 DEF RecordPlaces
  <2>4. CASE to = "failing"
    <3>1. TaskPlaces(a)'
      BY <1>3, <2>4 DEF TaskPlaces
    <3>2. QED BY <2>3, <3>1
  <2>5. CASE to = "roll_back"
    <3>1. Committed \in Configs /\ runner[a].desired \in Configs
      BY CommittedType DEF TypeOK, RunnerState
    <3>2. Known
      BY <1>2, <1>3, <2>1, <2>5, <3>1 DEF TaskPlaces, Known, Home
    <3>3. TaskPlaces(a)'
      BY <1>3, <2>2, <2>5, <3>2 DEF TaskPlaces
    <3>4. QED BY <2>3, <3>3
  <2>6. QED BY <1>2, <2>4, <2>5
<1>9. QED BY <1>4, <1>6, <1>7, <1>8 DEF Continues, Story, Busy, Late

\* A task that dies in its handler leaves its record in flight, and what the
\* record says of the Cluster still holds.
LEMMA DeathContinues ==
    ASSUME TypeOK, NEW a \in Applies, Driven(a), Story(a), TaskDies(a), ~Late(a)
    PROVE  Continues(a)
<1>1. /\ snapshots' = snapshots /\ candidate' = candidate /\ applies' = applies
      /\ cluster' = cluster /\ boot' = boot
  BY DEF TaskDies, requestVars, processVars
<1>2. PICK from \in {"failing", "roll_back", "restore", "restoring", "restored", "engage",
                     "declare"} : End(a, from) /\ runner[a].kind # "recovery"
  BY DEF TaskDies
<1>3. runner[a].pc = from /\ runner'[a].pc = "off" /\ runner'[a].kind = "operator"
  BY <1>2, EndFacts
<1>4. Clear(a)' <=> Clear(a)
  BY ClearFrame DEF Task
<1>5. applies'[a] = applies[a] /\ (Suspect(a)' <=> Suspect(a)) /\ (InFlight(a)' <=> InFlight(a))
  BY <1>1, SuspectFrame
<1>6. InFlight(a)
  BY <1>2, <1>3 DEF Driven
<1>7. (Home' <=> Home) /\ (Known' <=> Known)
  BY <1>1, SameBase DEF Home, Known
<1>8. RecordTells(a)' /\ TaskTells(a)' /\ TaskPlaces(a)'
  BY <1>3, <1>5 DEF Story, RecordTells, TaskTells, Late, TaskPlaces, Delivering
<1>9. Clear(a) => RecordPlaces(a)'
  BY <1>5, <1>7 DEF Story, RecordPlaces
<1>10. QED BY <1>4, <1>5, <1>6, <1>8, <1>9 DEF Continues, Story, Busy, Late

\* A failure that is not suspect left the Cluster at home: nothing was delivered,
\* or it was restored.
LEMMA FailContinues ==
    ASSUME TypeOK, NEW a \in Applies, Driven(a), Story(a), Fail(a), ~Late(a)
    PROVE  Continues(a)
<1>1. /\ snapshots' = snapshots /\ candidate' = candidate /\ cluster' = cluster /\ boot' = boot
  BY DEF Fail, requestVars, processVars
<1>2. runner[a].pc = "failing" /\ runner'[a].pc = "off" /\ runner'[a].kind = "operator"
  BY EndFacts DEF Fail
<1>3. applies[a] \in ApplyRecord /\ applies'[a] = Advanced(applies[a], "failed")
  BY DEF Fail, TypeOK
<1>4. /\ applies'[a].stage = "failed" /\ applies'[a].rollback = applies[a].rollback
      /\ applies'[a].history = applies[a].history \cup {"failed"}
  BY <1>3, AdvancedFacts
<1>5. InFlight(a)
  BY <1>2 DEF Driven
<1>6. RecordTells(a)' /\ TaskTells(a)' /\ RecordPlaces(a)' /\ TaskPlaces(a)'
  BY <1>2, <1>4 DEF RecordTells, TaskTells, Late, RecordPlaces, TaskPlaces, Delivering,
                    RolledBackFrom, InFlight, Terminal
<1>7. ASSUME Clear(a), ~Suspect(a)' PROVE Home'
  <2>1. \/ applies[a].stage = "validating"
        \/ applies[a].stage = "rolling_back" /\ applies[a].rollback = "succeeded"
    <3>1. applies[a].stage \in RolledBackFrom \cup {"committing"} => Suspect(a)'
      BY <1>4, <1>5 DEF Suspect, Story, RecordTells, RolledBackFrom
    <3>2. applies[a].stage = "rolling_back" /\ applies[a].rollback # "succeeded" => Suspect(a)'
      BY <1>4 DEF Suspect, Story, RecordTells
    <3>3. QED BY <1>3, <1>5, <1>7, <3>1, <3>2
              DEF InFlight, Terminal, ApplyRecord, Stages, RolledBackFrom
  <2>2. Home
    BY <1>7, <2>1 DEF Story, RecordPlaces
  <2>3. QED BY <1>1, <2>2, SameBase DEF Home
<1>8. QED BY <1>6, <1>7 DEF Continues, Story

\* The record enters Auto Rollback before the Cluster is touched.
LEMMA RollBackContinues ==
    ASSUME TypeOK, NEW a \in Applies, Driven(a), Story(a), RollBack(a)
    PROVE  Continues(a)
<1>1. /\ snapshots' = snapshots /\ candidate' = candidate /\ cluster' = cluster /\ boot' = boot
  BY DEF RollBack, requestVars, processVars
<1>2. /\ runner[a].pc = "roll_back" /\ runner'[a].pc = "restore"
      /\ runner'[a].kind = runner[a].kind
  BY GotoKeeps DEF RollBack
<1>3. /\ applies'[a].stage = "rolling_back" /\ applies'[a].rollback = applies[a].rollback
      /\ applies'[a].history = applies[a].history \cup {"rolling_back"}
  BY AdvancedFacts DEF RollBack, TypeOK
<1>4. InFlight(a) /\ runner[a].kind # "recovery"
  BY <1>2 DEF Driven, Late
<1>5. (Clear(a)' <=> Clear(a)) /\ Busy(a)'
  BY <1>2, ClearFrame DEF Task, Busy, Late
<1>6. (Home' <=> Home) /\ (Known' <=> Known)
  BY <1>1, SameBase DEF Home, Known
<1>7. RecordTells(a)' /\ TaskTells(a)'
  BY <1>2, <1>3, <1>4 DEF RecordTells, TaskTells, Late, Delivering, RolledBackFrom
<1>8. applies[a].rollback # "succeeded"
  BY <1>2, <1>4 DEF Story, RecordTells, TaskTells
<1>9. RecordPlaces(a)'
  BY <1>3, <1>8 DEF RecordPlaces, RolledBackFrom
<1>10. Clear(a) => TaskPlaces(a)'
  BY <1>2, <1>6 DEF Story, TaskPlaces
<1>11. QED BY <1>5, <1>7, <1>9, <1>10 DEF Continues, Story

\* A restore that starts where every difference is known ends at home.
LEMMA RestoreContinues ==
    ASSUME TypeOK, NEW a \in Applies, Driven(a), Story(a), Restore(a) \/ Restored(a)
    PROVE  Continues(a)
<1>1. /\ snapshots' = snapshots /\ candidate' = candidate /\ applies' = applies /\ boot' = boot
  BY DEF Restore, Restored, requestVars, processVars
<1>2. /\ runner'[a].kind = runner[a].kind
      /\ \/ /\ runner[a].pc = "restore" /\ runner'[a].pc = "restoring"
            /\ runner'[a].desired = Committed
            /\ cluster' = RestoreStarted(cluster, Committed)
         \/ /\ runner[a].pc = "restoring" /\ runner'[a].pc = "restored"
            /\ cluster' \in RestoreEnded(cluster, runner[a].desired)
  BY GotoKeeps DEF Restore, Restored, Committed, TypeOK, RunnerState
<1>3. (Clear(a)' <=> Clear(a)) /\ Busy(a)'
  BY <1>2, ClearFrame DEF Task, Busy, Late
<1>4. Committed' = Committed /\ (OnLatest' <=> OnLatest)
  BY <1>1, SameBase
<1>5. applies'[a] = applies[a] /\ (Suspect(a)' <=> Suspect(a)) /\ (InFlight(a)' <=> InFlight(a))
  BY <1>1, SuspectFrame
<1>6. RecordTells(a)' /\ TaskTells(a)'
  BY <1>1, <1>2, <1>5 DEF Story, RecordTells, TaskTells, Late, Delivering
<1>7. applies[a].stage \in {"rolling_back", "failed"}
  BY <1>2 DEF Story, TaskTells, Driven, Late
<1>8. ASSUME Clear(a) PROVE RecordPlaces(a)' /\ TaskPlaces(a)'
  <2>1. TaskPlaces(a) /\ RecordPlaces(a)
    BY <1>8 DEF Story
  <2>2. Committed \in Configs /\ Committed \notin {Partial, Unwinding, Diverged}
    BY CommittedType
  <2>3. CASE runner[a].pc = "restore"
    <3>1. Known
      BY <2>1, <2>3 DEF TaskPlaces
    <3>2. cluster' \in {Committed, Unwinding} /\ (cluster = Committed => cluster' = Committed)
      BY <1>2, <2>2, <2>3, <3>1, ClusterAssumption DEF RestoreStarted, Known
    <3>3. TaskPlaces(a)'
      BY <1>2, <1>4, <2>3, <3>1, <3>2 DEF TaskPlaces, Known
    <3>4. Home => Home'
      BY <1>4, <3>2 DEF Home
    <3>5. RecordPlaces(a)'
      BY <1>5, <1>7, <2>1, <3>4 DEF RecordPlaces, RolledBackFrom
    <3>6. QED BY <3>3, <3>5
  <2>4. CASE runner[a].pc = "restoring"
    <3>1. /\ runner[a].desired = Committed /\ OnLatest
          /\ cluster \in {Committed, Unwinding}
      BY <2>1, <2>4 DEF TaskPlaces
    <3>2. Home'
      BY <1>2, <1>4, <2>4, <3>1 DEF RestoreEnded, Home
    <3>3. TaskPlaces(a)'
      BY <1>2, <2>4, <3>2 DEF TaskPlaces
    <3>4. RecordPlaces(a)'
      BY <1>5, <1>7, <3>2 DEF RecordPlaces, RolledBackFrom
    <3>5. QED BY <3>3, <3>4
  <2>5. QED BY <1>2, <2>3, <2>4
<1>9. QED BY <1>3, <1>6, <1>8 DEF Continues, Story

\* The attempt at a restore is told to the record: a failure keeps it suspect, a
\* success was one.
LEMMA OutcomeContinues ==
    ASSUME TypeOK, NEW a \in Applies, Driven(a), Story(a), RestoreFails(a) \/ RecordRollback(a)
    PROVE  Continues(a)
<1>1. snapshots' = snapshots /\ candidate' = candidate /\ boot' = boot
  BY DEF RestoreFails, RecordRollback, requestVars, processVars
<1>2. Clear(a)' <=> Clear(a)
  BY ClearFrame DEF Task
<1>3. /\ applies'[a].stage = applies[a].stage /\ applies'[a].history = applies[a].history
      /\ applies'[a].rollback = IF RestoreFails(a) THEN "failed" ELSE "succeeded"
  <2>1. applies[a] \in ApplyRecord
    BY DEF TypeOK
  <2>2. CASE RestoreFails(a)
    BY <2>1, <2>2 DEF RestoreFails, TypeOK, ApplyRecord
  <2>3. CASE RecordRollback(a) /\ ~RestoreFails(a)
    BY <2>1, <2>3 DEF RecordRollback, TypeOK, ApplyRecord
  <2>4. QED BY <2>2, <2>3
<1>4. CASE RestoreFails(a)
  <2>1. /\ runner[a].pc \in {"restore", "restoring"} /\ runner'[a].pc = "engage"
        /\ runner'[a].kind = runner[a].kind
    BY <1>4, GotoKeeps DEF RestoreFails
  <2>2. applies[a].stage \in {"rolling_back", "failed"}
    BY <2>1 DEF Story, TaskTells, Driven, Late
  <2>3. Suspect(a) => Suspect(a)'
    BY <1>3, <1>4 DEF Suspect
  <2>4. RecordTells(a)' /\ TaskTells(a)'
    BY <1>1, <1>3, <1>4, <2>1, <2>2, <2>3
       DEF Story, RecordTells, TaskTells, Late, Delivering, InFlight, RolledBackFrom
  <2>5. RecordPlaces(a)' /\ TaskPlaces(a)'
    BY <1>3, <1>4, <2>1, <2>2 DEF RecordPlaces, TaskPlaces, RolledBackFrom
  <2>6. QED BY <2>1, <2>4, <2>5 DEF Continues, Story, Busy, Late
<1>5. CASE RecordRollback(a) /\ ~RestoreFails(a)
  <2>1. /\ runner[a].pc = "restored" /\ runner'[a].kind # "recovery" /\ cluster' = cluster
        /\ runner[a].kind # "recovery" => runner'[a].pc = "failing"
        /\ runner[a].kind = "recovery" => runner'[a].pc = "off"
    BY <1>5, GotoKeeps, EndFacts DEF RecordRollback
  <2>2. applies[a].stage \in {"rolling_back", "failed"}
    BY <2>1 DEF Story, TaskTells, Driven, Late
  <2>3. Home' <=> Home
    BY <1>1, <2>1, SameBase DEF Home
  <2>4. RecordTells(a)' /\ TaskTells(a)'
    BY <1>3, <2>1, <2>2
       DEF Story, RecordTells, TaskTells, Late, Delivering, InFlight, RolledBackFrom, Terminal
  <2>5. Clear(a) => Home'
    BY <2>1, <2>3 DEF Story, TaskPlaces
  <2>6. Clear(a) => RecordPlaces(a)' /\ TaskPlaces(a)'
    BY <1>3, <2>1, <2>2, <2>5 DEF RecordPlaces, TaskPlaces, RolledBackFrom
  <2>7. QED BY <1>2, <2>4, <2>5, <2>6 DEF Continues, Story
<1>6. QED BY <1>4, <1>5

\* An incident is suspect.
LEMMA IncidentContinues ==
    ASSUME TypeOK, NEW a \in Applies, Driven(a), Story(a),
           EngageMaintenance(a) \/ DeclareIncident(a)
    PROVE  Continues(a)
<1>1. /\ snapshots' = snapshots /\ candidate' = candidate /\ cluster' = cluster /\ boot' = boot
  BY DEF EngageMaintenance, DeclareIncident, requestVars, processVars
<1>2. Clear(a)' <=> Clear(a)
  BY ClearFrame DEF Task
<1>3. (Home' <=> Home) /\ (Known' <=> Known)
  BY <1>1, SameBase DEF Home, Known
<1>4. CASE EngageMaintenance(a)
  <2>1. /\ runner[a].pc = "engage" /\ runner'[a].pc = "declare"
        /\ runner'[a].kind = runner[a].kind
    BY <1>4, GotoKeeps DEF EngageMaintenance
  <2>2. applies' = applies
    BY <1>4 DEF EngageMaintenance
  <2>3. applies'[a] = applies[a] /\ (Suspect(a)' <=> Suspect(a)) /\ (InFlight(a)' <=> InFlight(a))
    BY <2>2, SuspectFrame
  <2>4. RecordTells(a)' /\ TaskTells(a)' /\ TaskPlaces(a)'
    BY <1>1, <2>1, <2>3 DEF Story, RecordTells, TaskTells, Late, TaskPlaces, Delivering
  <2>5. Clear(a) => RecordPlaces(a)'
    BY <1>3, <2>3 DEF Story, RecordPlaces
  <2>6. QED BY <1>2, <2>1, <2>4, <2>5 DEF Continues, Story, Busy, Late
<1>5. CASE DeclareIncident(a)
  <2>1. runner'[a].pc = "off" /\ runner'[a].kind = "operator"
    BY <1>5, EndFacts DEF DeclareIncident
  <2>2. applies'[a].stage = "incident"
    BY <1>5, AdvancedFacts DEF DeclareIncident, TypeOK
  <2>3. RecordTells(a)' /\ TaskTells(a)' /\ RecordPlaces(a)' /\ TaskPlaces(a)'
    BY <2>1, <2>2 DEF RecordTells, TaskTells, Late, RecordPlaces, TaskPlaces, Delivering,
                      RolledBackFrom, InFlight, Terminal
  <2>4. Suspect(a)'
    BY <2>2 DEF Suspect
  <2>5. QED BY <2>3, <2>4 DEF Continues, Story
<1>6. QED BY <1>4, <1>5

\* Every step of a task that is not late continues its story.
LEMMA TaskContinues ==
    ASSUME TypeOK, NEW a \in Applies, Driven(a), Clean(a), Story(a), Task(a), ~Late(a)
    PROVE  Continues(a)
BY CaptureContinues, EnterContinues, DeliveryContinues, CommittingContinues, InsertContinues,
   ResetContinues, SucceedContinues, UnheardContinues, FailureContinues, DeathContinues, FailContinues,
   RollBackContinues, RestoreContinues, OutcomeContinues, IncidentContinues DEF Task

-----------------------------------------------------------------------------
(* The steps of everything else. *)

\* An Apply with nothing left to do has no story to keep.
LEMMA IdleStory ==
    ASSUME NEW b \in Applies, Story(b), ~Busy(b), applies'[b] = applies[b],
           runner'[b] = runner[b]
    PROVE  Story(b)' /\ ~Busy(b)'
<1>1. /\ applies[b].stage \in Terminal \cup {"none"}
      /\ runner[b].pc = "off" \/ Late(b)
  BY DEF Busy, InFlight
<1>2. ~Busy(b)'
  BY <1>1 DEF Busy, InFlight, Late
<1>3. RecordTells(b)' /\ TaskTells(b)' /\ RecordPlaces(b)' /\ TaskPlaces(b)'
  BY <1>1 DEF Story, RecordTells, TaskTells, Late, RecordPlaces, TaskPlaces, Delivering, RolledBackFrom,
              Terminal, InFlight
<1>4. QED BY <1>2, <1>3 DEF Story

\* Steps that only move a handler, a switch or the process change no story.
LEMMA FrameKeeps ==
    ASSUME \A a \in Applies : Story(a), OneBusy, Quiet,
           applies' = applies, runner' = runner, cluster' = cluster,
           snapshots' = snapshots, candidate' = candidate,
           boot' \in {boot, "recovering"} \/ Idle
    PROVE  (\A a \in Applies : Story(a)') /\ OneBusy' /\ Quiet'
<1>1. \A a \in Applies : (Suspect(a)' <=> Suspect(a)) /\ (Busy(a)' <=> Busy(a))
  BY DEF Suspect, Busy, InFlight, Late
<1>2. /\ Committed' = Committed /\ (OnLatest' <=> OnLatest) /\ Latest' = Latest
      /\ (Home' <=> Home) /\ (Known' <=> Known)
  BY SameBase DEF Home, Known
<1>3. ASSUME NEW a \in Applies
      PROVE  Story(a)'
  <2>1. Clear(a)' <=> Clear(a)
    BY <1>1 DEF Clear
  <2>2. RecordTells(a)' /\ TaskTells(a)'
    BY <1>1 DEF Story, RecordTells, TaskTells, Late, InFlight, Idle
  <2>3. ASSUME Clear(a) PROVE RecordPlaces(a)' /\ TaskPlaces(a)'
    <3>1. RecordPlaces(a) /\ TaskPlaces(a)
      BY <2>3 DEF Story
    <3>2. RecordPlaces(a)'
      BY <1>2, <3>1 DEF RecordPlaces
    <3>3. TaskPlaces(a)'
      BY <1>2, <3>1 DEF TaskPlaces
    <3>4. QED BY <3>2, <3>3
  <2>4. QED BY <2>1, <2>2, <2>3 DEF Story
<1>4. OneBusy'
  BY <1>1 DEF OneBusy
<1>5. Quiet'
  BY <1>1, <1>2 DEF Quiet, AllClear
<1>6. QED BY <1>3, <1>4, <1>5

\* A handler past its gates runs while nothing is unfinished.
LEMMA NothingBusy ==
    ASSUME "admin_import" \notin Requests, DivergenceInv, NEW c \in Clients,
           client[c].pc \in {"allowed", "loaded"}, NEW a \in Applies
    PROVE  ~Busy(a)
<1>1. ~Frozen /\ boot = "serving" /\ Driven(a) /\ Story(a)
  BY DEF DivergenceInv, SerialInv, DrivenInv, Gated, Asked, HandlersServe
<1>2. ~InFlight(a)
  BY <1>1 DEF Frozen
<1>3. runner[a].pc = "off" \/ Late(a)
  BY <1>1, <1>2 DEF Driven, Story, TaskTells
<1>4. QED BY <1>2, <1>3 DEF Busy

\* A task at work stops the handlers at their gates.
LEMMA NobodyLoaded ==
    ASSUME "admin_import" \notin Requests, DivergenceInv, NEW a \in Applies, Busy(a),
           NEW c \in Clients
    PROVE  client[c].pc \notin {"allowed", "loaded"}
BY NothingBusy

\* A late task's step touches nothing but its record, and a record it fails is
\* suspect for good.
LEMMA LateKeeps ==
    ASSUME DivergenceInv, NEW a \in Applies, Task(a), Late(a)
    PROVE  OneBusy' /\ (\A b \in Applies : Story(b)') /\ HandlersServe' /\ Quiet'
<1>1. /\ TypeOK /\ OneBusy /\ Quiet /\ HandlersServe
      /\ \A b \in Applies : Story(b) /\ Driven(b)
  BY DEF DivergenceInv, SerialInv, DrivenInv
<1>2. Fail(a) \/ TaskDies(a)
  BY DEF Late, Task, Capture, Validated, Deliver, Delivered, StartRollout, SkipRollout,
     RolledOut, Verified, Enter, ReadLatest, InsertSnapshot, DuplicateNumber, ResetCandidate,
     CommitNothing, RecordSnapshot, Succeed, StageFails, StoreFails, SucceedUnheard,
     RollBack, Restore, Restored, RestoreFails, RecordRollback, EngageMaintenance,
     DeclareIncident, Goto, End
<1>3. /\ snapshots' = snapshots /\ candidate' = candidate /\ cluster' = cluster
      /\ boot' = boot /\ client' = client
  BY <1>2 DEF Fail, TaskDies, requestVars, processVars
<1>4. runner'[a].pc = "off" /\ runner'[a].kind = "operator"
  BY <1>1, <1>2, EndFacts DEF Fail, TaskDies
<1>5. \/ applies' = applies
      \/ /\ applies'[a].stage = "failed" /\ applies'[a].rollback = applies[a].rollback
         /\ applies'[a].history = applies[a].history \cup {"failed"}
  <2>1. CASE TaskDies(a)
    BY <2>1 DEF TaskDies
  <2>2. CASE Fail(a)
    BY <1>1, <2>2, AdvancedFacts DEF Fail, TypeOK
  <2>3. QED BY <1>2, <2>1, <2>2
<1>6. Suspect(a)' \/ applies' = applies
  BY <1>1, <1>5 DEF Story, TaskTells, Suspect
<1>7. \A b \in Applies \ {a} : applies'[b] = applies[b] /\ runner'[b] = runner[b]
  BY <1>1, TaskFrame
<1>8. ~Busy(a)' /\ ~Busy(a)
  BY <1>4, <1>5 DEF Busy, InFlight, Late, Terminal
<1>9. \A b \in Applies : Busy(b)' <=> Busy(b)
  BY <1>7, <1>8 DEF Busy, InFlight, Late
<1>10. AllClear' => AllClear /\ applies' = applies
  BY <1>6 DEF AllClear, Suspect
<1>11. /\ Latest' = Latest /\ Committed' = Committed /\ (OnLatest' <=> OnLatest)
       /\ (Home' <=> Home) /\ (Known' <=> Known)
  BY <1>3, SameBase DEF Home, Known
<1>12. Story(a)'
  BY <1>4, <1>5 DEF Late, Story, RecordTells, TaskTells, RecordPlaces, TaskPlaces, Delivering,
                    RolledBackFrom, InFlight, Terminal
<1>13. ASSUME NEW b \in Applies \ {a}
       PROVE  Story(b)'
  <2>1. RecordTells(b)' /\ TaskTells(b)'
    BY <1>1, <1>3, <1>7 DEF Story, RecordTells, TaskTells, Late, Suspect, InFlight, Delivering
  <2>2. Clear(b)' => Clear(b)
    BY <1>6 DEF Clear, Suspect
  <2>3. ASSUME Clear(b) PROVE RecordPlaces(b)' /\ TaskPlaces(b)'
    <3>1. RecordPlaces(b) /\ TaskPlaces(b)
      BY <1>1, <2>3 DEF Story
    <3>2. RecordPlaces(b)'
      BY <1>7, <1>11, <3>1 DEF RecordPlaces
    <3>3. TaskPlaces(b)'
      BY <1>3, <1>7, <1>11, <3>1 DEF TaskPlaces
    <3>4. QED BY <3>2, <3>3
  <2>4. QED BY <2>1, <2>2, <2>3 DEF Story
<1>14. OneBusy'
  BY <1>1, <1>9 DEF OneBusy
<1>15. HandlersServe'
  BY <1>1, <1>3, <1>10, <1>11 DEF HandlersServe
<1>16. Quiet'
  BY <1>1, <1>9, <1>10, <1>11 DEF Quiet
<1>17. QED BY <1>12, <1>13, <1>14, <1>15, <1>16

\* A task's step keeps the invariant.
LEMMA TaskKeeps ==
    ASSUME "admin_import" \notin Requests, DivergenceInv, CommitInv, NEW a \in Applies, Task(a),
           ~Late(a)
    PROVE  OneBusy' /\ (\A b \in Applies : Story(b)') /\ HandlersServe' /\ Quiet'
<1>1. /\ TypeOK /\ Driven(a) /\ Clean(a) /\ Story(a)
      /\ \A b \in Applies : Story(b)
  BY DEF DivergenceInv, SerialInv, DrivenInv, CommitInv, Good
<1>2. Continues(a)
  BY <1>1, TaskContinues
<1>3. runner[a].pc # "off" /\ boot' = boot /\ client' = client
  BY DEF Task, Capture, Validated, Deliver, Delivered, StartRollout, SkipRollout,
     RolledOut, Verified, Enter, ReadLatest, InsertSnapshot, DuplicateNumber, ResetCandidate,
     CommitNothing, RecordSnapshot, Succeed, StageFails, StoreFails, SucceedUnheard, TaskDies,
     Fail, RollBack, Restore, Restored, RestoreFails, RecordRollback, EngageMaintenance, DeclareIncident,
     Goto, End, requestVars, processVars
<1>4. ASSUME NEW b \in Applies \ {a}
      PROVE  Story(b)' /\ ~Busy(b)' /\ (Suspect(b)' <=> Suspect(b))
  <2>1. applies'[b] = applies[b] /\ runner'[b] = runner[b]
    BY <1>1, TaskFrame
  <2>2. ~Busy(b)
    BY <1>3 DEF DivergenceInv, OneBusy, Busy
  <2>3. QED BY <1>1, <2>1, <2>2, IdleStory, SuspectFrame
<1>5. \A b \in Applies : Story(b)'
  BY <1>2, <1>4 DEF Continues
<1>6. OneBusy'
  BY <1>4 DEF OneBusy
<1>7. Quiet'
  BY <1>2, <1>4 DEF Quiet, AllClear, Clear, Continues
<1>8. HandlersServe'
  BY <1>3, NobodyLoaded DEF DivergenceInv, HandlersServe, Busy
<1>9. QED BY <1>5, <1>6, <1>7, <1>8

\* An Apply starts at home, or with another record suspect.
LEMMA CreateKeeps ==
    ASSUME OneCaller, "admin_import" \notin Requests, DivergenceInv, NEW c \in Clients,
           NEW a \in Applies, Create(c, a)
    PROVE  OneBusy' /\ (\A b \in Applies : Story(b)') /\ HandlersServe' /\ Quiet'
<1>1. TypeOK /\ \A b \in Applies : Story(b)
  BY DEF DivergenceInv, SerialInv, DrivenInv
<1>2. /\ snapshots' = snapshots /\ candidate' = candidate /\ cluster' = cluster /\ boot' = boot
      /\ client[c].pc = "loaded" /\ client'[c].pc = "idle"
  BY <1>1 DEF Create, TypeOK, NoClient, processVars
<1>3. /\ applies[a].stage = "none" /\ applies'[a].stage = "validating"
      /\ applies'[a].history = {"validating"} /\ applies'[a].rollback = "none"
      /\ \/ runner'[a].pc = "off"
         \/ runner'[a].pc = "validating" /\ runner'[a].kind # "recovery"
  <2>1. applies[a].stage = "none" => runner[a].pc = "off"
    BY DEF DivergenceInv, SerialInv, DrivenInv, Driven, InFlight, Late
  <2>2. QED BY <1>1, <2>1, CreateFacts
<1>4. \A b \in Applies : ~Busy(b)
  BY <1>2, NothingBusy
<1>5. ASSUME NEW b \in Applies \ {a}
      PROVE  Story(b)' /\ ~Busy(b)' /\ (Suspect(b)' <=> Suspect(b))
  <2>1. applies'[b] = applies[b] /\ runner'[b] = runner[b]
    BY <1>1, CreateFacts
  <2>2. QED BY <1>1, <1>4, <2>1, IdleStory, SuspectFrame
<1>6. RecordTells(a)' /\ TaskTells(a)'
  BY <1>3 DEF RecordTells, TaskTells, Late, Delivering, RolledBackFrom, InFlight
<1>7. ASSUME Clear(a)' PROVE RecordPlaces(a)' /\ TaskPlaces(a)'
  <2>1. AllClear
    BY <1>3, <1>5, <1>7 DEF AllClear, Clear, Suspect
  <2>2. Home'
    BY <1>2, <1>4, <2>1, SameBase DEF DivergenceInv, Quiet, Home
  <2>3. QED BY <1>3, <2>2 DEF RecordPlaces, TaskPlaces, RolledBackFrom
<1>8. \A b \in Applies : Story(b)'
  BY <1>5, <1>6, <1>7 DEF Story
<1>9. OneBusy'
  BY <1>5 DEF OneBusy
<1>10. Quiet'
  BY <1>3 DEF Quiet, Busy, InFlight, Terminal
<1>11. HandlersServe'
  BY <1>2 DEF OneCaller, HandlersServe
<1>12. QED BY <1>8, <1>9, <1>10, <1>11

\* A handler reads the latest base and writes it back, with nothing unfinished
\* between its two steps.
LEMMA RequestKeeps ==
    ASSUME OneCaller, "admin_import" \notin Requests, DivergenceInv, NEW c \in Clients,
           Request(c), \A a \in Applies : ~Create(c, a)
    PROVE  OneBusy' /\ (\A b \in Applies : Story(b)') /\ HandlersServe' /\ Quiet'
<1>1. /\ TypeOK /\ OneBusy /\ Quiet /\ HandlersServe /\ \A b \in Applies : Story(b)
  BY DEF DivergenceInv, SerialInv, DrivenInv
<1>2. \A d \in Clients : d = c
  BY DEF OneCaller
<1>3. applies' = applies /\ runner' = runner
  BY RequestFrame
<1>4. AllClear' <=> AllClear
  BY <1>3 DEF AllClear, Suspect
<1>5. ASSUME snapshots' = snapshots, candidate' = candidate, cluster' = cluster, boot' = boot
      PROVE  OneBusy' /\ (\A b \in Applies : Story(b)') /\ Quiet' /\ Latest' = Latest
  BY <1>1, <1>3, <1>5, FrameKeeps, SameBase
<1>6. CASE \/ \E op \in Requests : MutationsEnabled(c, op)
           \/ NothingInFlight(c) \/ Refused(c)
  <2>1. /\ snapshots' = snapshots /\ candidate' = candidate /\ cluster' = cluster
        /\ boot' = boot /\ client'[c].pc # "loaded"
        /\ client'[c].pc # "idle" => boot = "serving"
    <3>1. CASE \E op \in Requests : MutationsEnabled(c, op)
      BY <1>1, <3>1 DEF MutationsEnabled, processVars, TypeOK, NoClient
    <3>2. CASE NothingInFlight(c)
      BY <1>1, <3>2 DEF NothingInFlight, processVars, TypeOK, ClientState, HandlersServe
    <3>3. CASE Refused(c)
      BY <1>1, <3>3 DEF Refused, processVars, TypeOK, NoClient
    <3>4. QED BY <1>6, <3>1, <3>2, <3>3
  <2>2. HandlersServe'
    BY <1>2, <2>1 DEF HandlersServe
  <2>3. QED BY <1>5, <2>1, <2>2
<1>7. CASE Load(c)
  <2>1. /\ snapshots' = snapshots /\ candidate' = candidate /\ cluster' = cluster /\ boot' = boot
        /\ client[c].pc # "idle"
    BY <1>7 DEF Load, processVars
  <2>2. client[c].pc = "allowed"
    BY <1>7 DEF Load, DivergenceInv, Asked
  <2>3. AllClear => OnLatest
    BY <1>1, <2>2, NothingBusy DEF Quiet, Home
  <2>4. client'[c].base \in {Latest, Loaded.base}
    BY <1>1, <1>7 DEF Load, TypeOK, ClientState, Document
  <2>5. HandlersServe'
    BY <1>1, <1>2, <1>4, <1>5, <2>1, <2>3, <2>4 DEF HandlersServe, OnLatest
  <2>6. QED BY <1>5, <2>1, <2>5
<1>8. CASE Edit(c) \/ Reset(c) \/ FullRollback(c) \/ Import(c)
  <2>1. PICK base, sections :
            /\ candidate' = Document(base, sections)
            /\ AllClear => base = Latest
    <3>1. client[c].pc = "loaded"
      BY <1>8 DEF Edit, Reset, FullRollback, Import, Save
    <3>2. AllClear => client[c].base = Latest
      BY <1>1, <3>1 DEF HandlersServe
    <3>3. CASE Reset(c)
      BY <3>2, <3>3 DEF Reset, Save
    <3>4. CASE Edit(c) \/ FullRollback(c) \/ Import(c)
      BY <3>2, <3>4 DEF Edit, FullRollback, Import, Save
    <3>5. QED BY <1>8, <3>3, <3>4
  <2>2. /\ snapshots' = snapshots /\ cluster' = cluster /\ boot' = boot
        /\ client[c].pc = "loaded" /\ client' = [client EXCEPT ![c] = NoClient]
    BY <1>8 DEF Edit, Reset, FullRollback, Import, Save, processVars
  <2>3. client'[c].pc = "idle"
    BY <1>1, <2>2 DEF TypeOK, NoClient
  <2>4. HandlersServe'
    BY <1>2, <2>3 DEF HandlersServe
  <2>5. \A b \in Applies : ~Busy(b)
    BY <2>2, NothingBusy
  <2>6. \A b \in Applies : Story(b)' /\ ~Busy(b)'
    BY <1>1, <1>3, <2>5, IdleStory
  <2>7. OneBusy'
    BY <2>6 DEF OneBusy
  <2>8. ASSUME AllClear PROVE Home'
    <3>1. Home
      BY <1>1, <2>5, <2>8 DEF Quiet
    <3>2. Latest' = Latest /\ Committed' = Committed
      BY <2>2 DEF Latest, Committed, SectionsOf
    <3>3. OnLatest'
      BY <2>1, <2>8, <3>2 DEF OnLatest, Loaded, Document
    <3>4. QED BY <2>2, <3>1, <3>2, <3>3 DEF Home
  <2>9. QED BY <1>4, <2>4, <2>6, <2>7, <2>8 DEF Quiet
<1>9. QED BY <1>6, <1>7, <1>8 DEF Request

\* A stop, and a recovery that gives up, leave what the records say: a record in
\* flight places the Cluster by itself, and one that was being recovered is
\* suspect.
LEMMA StopKeeps ==
    ASSUME DivergenceInv, Crash \/ RecoveryAbandoned
    PROVE  OneBusy' /\ (\A b \in Applies : Story(b)') /\ HandlersServe' /\ Quiet'
<1>1. /\ TypeOK /\ OneBusy /\ Quiet /\ HandlersServe
      /\ \A b \in Applies : Story(b) /\ Driven(b)
  BY DEF DivergenceInv, SerialInv, DrivenInv
<1>2. /\ snapshots' = snapshots /\ candidate' = candidate /\ cluster' = cluster
      /\ applies' = applies
      /\ \A b \in Applies : runner'[b].pc = "off" /\ runner'[b].kind = "operator"
  BY DEF Crash, RecoveryAbandoned, durableVars, NoRunner
<1>3. \A c \in Clients : client'[c].pc = "idle"
  BY <1>1 DEF Crash, RecoveryAbandoned, durableVars, NoClient, HandlersServe
<1>4. /\ Committed' = Committed /\ (OnLatest' <=> OnLatest)
      /\ (Home' <=> Home) /\ (Known' <=> Known)
  BY <1>2, SameBase DEF Home, Known
<1>5. \A b \in Applies :
          (Suspect(b)' <=> Suspect(b)) /\ (InFlight(b)' <=> InFlight(b)) /\ (Busy(b)' => Busy(b))
  BY <1>2 DEF Suspect, InFlight, Busy, Late
<1>6. ASSUME NEW b \in Applies
      PROVE  Story(b)'
  <2>1. Clear(b)' <=> Clear(b)
    BY <1>5 DEF Clear
  <2>2. RecordTells(b)' /\ TaskTells(b)' /\ TaskPlaces(b)'
    BY <1>1, <1>2, <1>5 DEF Story, RecordTells, TaskTells, Late, TaskPlaces, Delivering
  <2>3. Clear(b) => RecordPlaces(b)'
    BY <1>1, <1>2, <1>4 DEF Story, RecordPlaces
  <2>4. QED BY <2>1, <2>2, <2>3 DEF Story
<1>7. OneBusy'
  BY <1>1, <1>5 DEF OneBusy
<1>8. HandlersServe'
  BY <1>3 DEF HandlersServe
<1>9. Quiet'
  <2>1. SUFFICES ASSUME \A b \in Applies : ~Busy(b)', AllClear'
                 PROVE  Home
    BY <1>4 DEF Quiet
  <2>2. AllClear
    BY <1>5, <2>1 DEF AllClear
  <2>3. \A b \in Applies : ~Busy(b)
    BY <1>1, <1>5, <2>1, <2>2 DEF Busy, Driven, Story, TaskTells, AllClear
  <2>4. QED BY <1>1, <2>2, <2>3 DEF Quiet
<1>10. QED BY <1>6, <1>7, <1>8, <1>9

\* Starting and finishing a recovery change no record.
LEMMA BootKeeps ==
    ASSUME DivergenceInv, Restart \/ RecoveryDone
    PROVE  OneBusy' /\ (\A b \in Applies : Story(b)') /\ HandlersServe' /\ Quiet'
<1>1. /\ TypeOK /\ OneBusy /\ Quiet /\ HandlersServe /\ \A b \in Applies : Story(b)
  BY DEF DivergenceInv, SerialInv, DrivenInv
<1>2. /\ snapshots' = snapshots /\ candidate' = candidate /\ cluster' = cluster
      /\ applies' = applies /\ runner' = runner /\ client' = client
  BY DEF Restart, RecoveryDone, durableVars
<1>3. /\ boot # "serving"
      /\ boot' = "recovering" \/ Idle
  BY DEF Restart, RecoveryDone
<1>4. HandlersServe'
  BY <1>1, <1>2, <1>3 DEF HandlersServe
<1>5. QED BY <1>1, <1>2, <1>3, <1>4, FrameKeeps

\* Recovery resolves a record: from Validation or after a restore the Cluster is
\* at home, from a stage that is rolled back it restores, and otherwise the
\* record is suspect.
LEMMA RecoverKeeps ==
    ASSUME DivergenceInv, NEW a \in Applies, RecoverInterrupted(a)
    PROVE  OneBusy' /\ (\A b \in Applies : Story(b)') /\ HandlersServe' /\ Quiet'
<1>1. /\ TypeOK /\ OneBusy /\ Quiet /\ HandlersServe /\ \A b \in Applies : Story(b)
      /\ applies[a] \in ApplyRecord
  BY DEF DivergenceInv, SerialInv, DrivenInv, TypeOK
<1>2. /\ snapshots' = snapshots /\ candidate' = candidate /\ cluster' = cluster
      /\ boot = "recovering" /\ boot' = boot /\ client' = client
      /\ InFlight(a) /\ \A b \in Applies : runner[b].pc = "off"
  BY DEF RecoverInterrupted, Idle, requestVars, processVars
<1>3. /\ applies'[a].stage = "failed" /\ applies'[a].rollback = applies[a].rollback
      /\ applies'[a].history = applies[a].history \cup {"failed"}
  <2>1. applies'[a] = [Advanced(applies[a], "failed") EXCEPT !.interrupted = TRUE]
    BY <1>1 DEF RecoverInterrupted, TypeOK
  <2>2. QED BY <1>1, <2>1 DEF Advanced, ApplyRecord
<1>4. IF applies[a].stage \in RolledBackFrom
      THEN runner'[a].pc = "restore" /\ runner'[a].kind = "recovery"
      ELSE runner'[a].pc = "off"
  BY <1>1, <1>2 DEF RecoverInterrupted, TypeOK, NoRunner
<1>5. ASSUME NEW b \in Applies \ {a}
      PROVE  Story(b)' /\ ~Busy(b)' /\ (Suspect(b)' <=> Suspect(b))
  <2>1. applies'[b] = applies[b] /\ runner'[b] = runner[b]
    BY <1>1 DEF RecoverInterrupted, TypeOK
  <2>2. ~Busy(b)
    BY <1>1, <1>2 DEF OneBusy, Busy
  <2>3. QED BY <1>1, <2>1, <2>2, IdleStory, SuspectFrame
<1>6. Clear(a)' <=> Clear(a)
  BY <1>5 DEF Clear
<1>7. (Home' <=> Home) /\ (Known' <=> Known)
  BY <1>2, SameBase DEF Home, Known
<1>8. applies[a].stage \in RolledBackFrom \cup {"committing"} => Suspect(a)'
  BY <1>1, <1>2, <1>3 DEF Suspect, Story, RecordTells, RolledBackFrom
<1>9. applies[a].stage = "rolling_back" /\ applies[a].rollback # "succeeded" => Suspect(a)'
  BY <1>1, <1>3 DEF Suspect, Story, RecordTells
<1>10. RecordTells(a)' /\ RecordPlaces(a)'
  BY <1>3 DEF RecordTells, RecordPlaces, RolledBackFrom, InFlight, Terminal
<1>11. TaskTells(a)'
  BY <1>2, <1>4, <1>8 DEF TaskTells, Late, Delivering
<1>12. Clear(a) => TaskPlaces(a)'
  <2>1. CASE applies[a].stage \in RolledBackFrom
    BY <1>1, <1>4, <1>7, <2>1 DEF Story, RecordPlaces, TaskPlaces
  <2>2. CASE applies[a].stage \notin RolledBackFrom
    BY <1>4, <2>2 DEF TaskPlaces
  <2>3. QED BY <2>1, <2>2
<1>13. \A b \in Applies : Story(b)'
  BY <1>5, <1>6, <1>10, <1>11, <1>12 DEF Story
<1>14. OneBusy'
  BY <1>5 DEF OneBusy
<1>15. HandlersServe'
  BY <1>1, <1>2 DEF HandlersServe
<1>16. Quiet'
  <2>1. SUFFICES ASSUME AllClear' PROVE Home
    BY <1>7 DEF Quiet
  <2>2. Clear(a) /\ ~Suspect(a)'
    BY <1>6, <2>1 DEF AllClear, Clear
  <2>3. \/ applies[a].stage = "validating"
        \/ applies[a].stage = "rolling_back" /\ applies[a].rollback = "succeeded"
    BY <1>1, <1>2, <1>8, <1>9, <2>2 DEF InFlight, Terminal, ApplyRecord, Stages, RolledBackFrom
  <2>4. QED BY <1>1, <2>2, <2>3 DEF Story, RecordPlaces
<1>17. QED BY <1>13, <1>14, <1>15, <1>16

-----------------------------------------------------------------------------
(* The theorem. *)

\* Every step keeps the invariant.
LEMMA DivergenceStep ==
    ASSUME OneCaller, "admin_import" \notin Requests, DivergenceInv, CommitInv, [Next]_vars
    PROVE  DivergenceInv'
<1> DEFINE Rest == OneBusy /\ (\A b \in Applies : Story(b)) /\ HandlersServe /\ Quiet
<1>1. /\ TypeOK /\ SerialInv /\ Asked /\ OneBusy /\ Quiet /\ HandlersServe
      /\ \A b \in Applies : Story(b)
  BY DEF DivergenceInv, SerialInv, DrivenInv
<1>2. SerialInv' /\ Asked'
  BY <1>1, SerialStep, AskedStep
<1>3. SUFFICES Rest'
  BY <1>2 DEF DivergenceInv
<1>4. CASE UNCHANGED vars \/ \E engaged \in BOOLEAN : SetMaintenanceMode(engaged)
  <2>1. /\ applies' = applies /\ runner' = runner /\ cluster' = cluster /\ boot' = boot
        /\ snapshots' = snapshots /\ candidate' = candidate /\ client' = client
    BY <1>4 DEF vars, SetMaintenanceMode, processVars
  <2>2. OneBusy' /\ (\A b \in Applies : Story(b)') /\ Quiet'
    BY <1>1, <2>1, FrameKeeps
  <2>3. HandlersServe'
    BY <1>1, <2>1, SameBase DEF HandlersServe, AllClear, Suspect
  <2>4. QED BY <2>2, <2>3
<1>5. ASSUME NEW c \in Clients, Request(c)
      PROVE  Rest'
  <2>1. CASE \A a \in Applies : ~Create(c, a)
    BY <1>5, <2>1, RequestKeeps
  <2>2. CASE \E a \in Applies : Create(c, a)
    BY <2>2, CreateKeeps
  <2>3. QED BY <2>1, <2>2
<1>6. ASSUME NEW a \in Applies, Task(a)
      PROVE  Rest'
  BY <1>6, TaskKeeps, LateKeeps
<1>7. CASE Startup \/ RecoveryAbandoned \/ Crash
  BY <1>7, StopKeeps, BootKeeps, RecoverKeeps DEF Startup
<1>8. QED BY <1>4, <1>5, <1>6, <1>7 DEF Next

\* It holds at the start: the Cluster is empty, and so is the first baseline.
LEMMA DivergenceInit == Init => DivergenceInv
<1>1. SUFFICES ASSUME Init PROVE DivergenceInv
  OBVIOUS
<1>2. SerialInv /\ Asked
  BY <1>1, SerialInit DEF Init, Asked, NoClient
<1>3. Home
  BY <1>1 DEF Init, Home, Committed, OnLatest, SectionsOf, Latest, Loaded, Document
<1>4. \A a \in Applies : applies[a].stage = "none" /\ runner[a].pc = "off"
  BY <1>1 DEF Init, NoRecord, NoRunner
<1>5. \A a \in Applies : Story(a) /\ ~Busy(a)
  BY <1>4 DEF Story, Busy, InFlight, RecordTells, TaskTells, Late, RecordPlaces, TaskPlaces,
              Delivering, RolledBackFrom
<1>6. HandlersServe
  BY <1>1 DEF Init, HandlersServe, NoClient
<1>7. QED BY <1>2, <1>3, <1>5, <1>6 DEF DivergenceInv, OneBusy, Quiet

\* After any mixture of failures, rollbacks, stops and recoveries, and for any
\* number of Applies: with one caller at a time and no Admin import, when nothing
\* is in flight and no record is an incident or a failure that reached the Cluster
\* unrestored, the Cluster runs the latest Snapshot.
THEOREM DivergencesRecorded ==
    ASSUME OneCaller, "admin_import" \notin Requests
    PROVE  Spec => []DivergenceIsRecorded
<1>1. DivergenceInv /\ CommitInv /\ [Next]_vars => DivergenceInv'
  BY DivergenceStep
<1>2. DivergenceInv => DivergenceIsRecorded
  <2>1. SUFFICES ASSUME DivergenceInv, boot = "serving", ~Frozen,
                        \A a \in Applies : ~Suspect(a)
                 PROVE  cluster = SectionsOf(Latest)
    BY DEF DivergenceIsRecorded
  <2>2. \A a \in Applies : ~Busy(a)
    BY <2>1 DEF DivergenceInv, SerialInv, DrivenInv, Driven, Frozen, Busy, Story, TaskTells
  <2>3. QED BY <2>1, <2>2 DEF DivergenceInv, Quiet, AllClear, Home, Committed
<1>3. QED BY <1>1, <1>2, DivergenceInit, CommitInvariant, PTL DEF Spec

=============================================================================
