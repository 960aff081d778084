-------------------------- MODULE Validation_proofs --------------------------
(***************************************************************************)
(* Proofs about Validation, for any number of validations at once, any     *)
(* Candidates and any number of stops.                                     *)
(***************************************************************************)
EXTENDS Validation, TLAPS

-----------------------------------------------------------------------------
(* The inductive invariant. *)

\* What a pass says about a Candidate.
Proved(c) ==
    /\ c \in Candidates /\ c.defect \notin {"check", "file", "statement"}
    /\ c.defect = "unreachable" => ~Blocks
    /\ c.defect = "raw" => ~c.probing

Cleaning == {"delete pod", "delete secret"}
Probing == {"image", "secret", "pod", "serving", "statements"} \cup Cleaning

\* What a task knows of its record, its Candidate and its verdict at each await.
TaskOK(v) ==
    LET q == task[v] IN
    /\ q.at \notin {"off", "create"} => record[v] = "running"
    /\ q.at \in Probing \cup {"checks"} => q.candidate \in Candidates
    /\ q.at \in Probing => q.candidate.defect # "check" /\ q.candidate.probing
    /\ q.at \in {"secret", "delete secret"} => HasFiles(q.candidate)
    /\ q.at = "statements" => Starts(q.candidate)
    /\ q.at \in Cleaning \cup {"finish"} =>
          /\ q.verdict \in {"passed", "failed", "cancelled"}
          /\ q.verdict = "passed" => Proved(q.candidate)
    /\ record[v] = "passed" => Proved(q.candidate)

\* A Secret that is not left to the sweep is one its task will delete.
SecretsKnown ==
    \A v \in secrets \ cut : HasFiles(task[v].candidate)

\* Nothing runs while the process is down, and the sweep is in order.
SweepOrder ==
    /\ process \in {"down", "swept pods"} => \A v \in Validations : task[v].at = "off"
    /\ process = "swept pods" => pods = {}

ValidationInv ==
    /\ ValidationTypeOK
    /\ \A v \in Validations : TaskOK(v)
    /\ ProbesAccounted /\ SecretsKnown /\ SweepOrder

\* Nothing has run yet.
LEMMA InitInv == Init => ValidationInv
<1> SUFFICES ASSUME Init PROVE ValidationInv
  OBVIOUS
<1>1. Off \in Tasks /\ Off.at = "off"
  BY DEF Off, Tasks
<1>2. ValidationTypeOK
  BY <1>1, ValidationAssumption DEF Init, ValidationTypeOK
<1>3. \A v \in Validations : TaskOK(v)
  BY <1>1, ValidationAssumption DEF Init, TaskOK, Probing, Cleaning
<1>4. ProbesAccounted /\ SecretsKnown /\ SweepOrder
  BY DEF Init, ProbesAccounted, SecretsKnown, SweepOrder
<1>5. QED BY <1>2, <1>3, <1>4 DEF ValidationInv

-----------------------------------------------------------------------------
(* One task moves. *)

\* Where the pod and the Secret of a task may be.
PodAt == {"serving", "statements", "delete pod"}
SecretAt == {"pod", "serving", "statements", "delete pod", "delete secret"}

\* Of the tasks only this one moves.
OnlyTask(v) == task'[v] \in Tasks /\ task' = [task EXCEPT ![v] = task'[v]]

\* A task that touches its own record and its own objects alone, and leaves them
\* as it should, keeps the invariant.
LEMMA OneTask ==
    ASSUME ValidationInv, NEW v \in Validations, OnlyTask(v),
           record' \in [Validations -> {None, "running", "passed", "failed"}],
           \A w \in Validations \ {v} : record'[w] = record[w],
           UNCHANGED <<process, stops>>, process \notin {"down", "swept pods"},
           lost' \subseteq Validations, pods' \subseteq Validations,
           secrets' \subseteq Validations, cut' \subseteq Validations,
           \A w \in Validations \ {v} :
              /\ w \in pods' <=> w \in pods
              /\ w \in secrets' <=> w \in secrets
              /\ w \in cut' <=> w \in cut,
           TaskOK(v)',
           v \in pods' \ cut' => task'[v].at \in PodAt,
           v \in secrets' \ cut' => task'[v].at \in SecretAt /\ HasFiles(task'[v].candidate)
    PROVE  ValidationInv'
<1>1. /\ ValidationTypeOK /\ ProbesAccounted /\ SecretsKnown
      /\ task \in [Validations -> Tasks]
  BY DEF ValidationInv, ValidationTypeOK
<1>2. task' \in [Validations -> Tasks] /\ \A w \in Validations \ {v} : task'[w] = task[w]
  BY <1>1 DEF OnlyTask
<1>3. ValidationTypeOK'
  BY <1>1, <1>2 DEF ValidationTypeOK
<1>4. ASSUME NEW w \in Validations PROVE TaskOK(w)'
  <2>1. CASE w = v
    BY <2>1
  <2>2. CASE w # v
    <3>1. TaskOK(w) /\ task'[w] = task[w] /\ record'[w] = record[w]
      BY <1>2, <2>2 DEF ValidationInv
    <3>2. QED BY <3>1 DEF TaskOK, HasFiles, Starts, Proved
  <2>3. QED BY <2>1, <2>2
<1>5. ProbesAccounted'
  BY <1>1, <1>2 DEF ProbesAccounted, PodAt, SecretAt
<1>6. SecretsKnown'
  BY <1>1, <1>2 DEF SecretsKnown
<1>7. SweepOrder'
  BY DEF SweepOrder
<1>8. QED BY <1>3, <1>4, <1>5, <1>6, <1>7 DEF ValidationInv

\* What a running task starts from.
LEMMA TaskFacts ==
    ASSUME ValidationInv, NEW v \in Validations
    PROVE  /\ task \in [Validations -> Tasks] /\ task[v] \in Tasks /\ TaskOK(v)
           /\ record \in [Validations -> {None, "running", "passed", "failed"}]
           /\ pods \subseteq Validations /\ secrets \subseteq Validations
           /\ lost \subseteq Validations /\ cut \subseteq Validations
           /\ task[v].at # "off" => process \notin {"down", "swept pods"}
           /\ v \in pods \ cut => task[v].at \in PodAt
           /\ v \in secrets \ cut => task[v].at \in SecretAt /\ HasFiles(task[v].candidate)
BY DEF ValidationInv, ValidationTypeOK, SweepOrder, ProbesAccounted, SecretsKnown, PodAt, SecretAt

\* A task that goes on, with the same Candidate and verdict.
LEMMA GoesTo ==
    ASSUME NEW v \in Validations, task \in [Validations -> Tasks],
           NEW at \in {"off", "create", "preconditions", "capture", "checks", "image", "secret",
                       "pod", "serving", "statements", "delete pod", "delete secret", "finish"},
           Goes(v, at)
    PROVE  /\ OnlyTask(v) /\ task'[v].at = at
           /\ task'[v].candidate = task[v].candidate /\ task'[v].verdict = task[v].verdict
<1> DEFINE q == [task[v] EXCEPT !.at = at]
<1>1. q \in Tasks /\ q.at = at /\ q.candidate = task[v].candidate /\ q.verdict = task[v].verdict
  BY DEF Tasks
<1>2. task' = [task EXCEPT ![v] = q] /\ task'[v] = q
  BY DEF Goes
<1>3. QED BY <1>1, <1>2 DEF OnlyTask

\* A task that has its verdict.
LEMMA ConcludesTo ==
    ASSUME NEW v \in Validations, task \in [Validations -> Tasks],
           NEW at \in {"delete pod", "finish"}, NEW verdict \in {"passed", "failed"},
           Concludes(v, at, verdict)
    PROVE  /\ OnlyTask(v) /\ task'[v].at = at
           /\ task'[v].candidate = task[v].candidate /\ task'[v].verdict = verdict
<1> DEFINE q == [task[v] EXCEPT !.at = at, !.verdict = verdict]
<1>1. q \in Tasks /\ q.at = at /\ q.candidate = task[v].candidate /\ q.verdict = verdict
  BY DEF Tasks
<1>2. task' = [task EXCEPT ![v] = q] /\ task'[v] = q
  BY DEF Concludes
<1>3. QED BY <1>1, <1>2 DEF OnlyTask

\* The handler: from nothing to a record, or to nothing again.
LEMMA HandlerInv ==
    ASSUME ValidationInv, NEW v \in Validations, StartValidation(v) \/ CreateRecord(v)
    PROVE  ValidationInv'
<1>1. /\ task \in [Validations -> Tasks] /\ TaskOK(v)
      /\ record \in [Validations -> {None, "running", "passed", "failed"}]
      /\ pods \subseteq Validations /\ secrets \subseteq Validations
      /\ lost \subseteq Validations /\ cut \subseteq Validations
      /\ task[v].at # "off" => process \notin {"down", "swept pods"}
      /\ task[v].at \in {"off", "create"} => v \notin pods \ cut /\ v \notin secrets \ cut
      /\ UNCHANGED <<process, stops, lost, pods, secrets, cut>>
  BY TaskFacts DEF StartValidation, CreateRecord, objects, PodAt, SecretAt
<1>2. CASE StartValidation(v)
  <2>1. /\ OnlyTask(v) /\ task'[v].at = "create"
        /\ task'[v].candidate = task[v].candidate /\ task'[v].verdict = task[v].verdict
    BY <1>1, <1>2, GoesTo DEF StartValidation
  <2>2. /\ process = "up" /\ record' = record /\ task[v].at = "off"
        /\ record[v] = None
    BY <1>2 DEF StartValidation
  <2>3. TaskOK(v)'
    BY <2>1, <2>2, ValidationAssumption DEF TaskOK, Probing, Cleaning
  <2>4. QED BY <1>1, <2>1, <2>2, <2>3, OneTask
<1>3. CASE CreateRecord(v)
  <2>1. /\ OnlyTask(v) /\ task'[v].at = "preconditions"
        /\ task'[v].candidate = task[v].candidate /\ task'[v].verdict = task[v].verdict
    BY <1>1, <1>3, GoesTo DEF CreateRecord
  <2>2. /\ record' = [record EXCEPT ![v] = "running"] /\ task[v].at = "create"
        /\ record'[v] = "running" /\ \A w \in Validations \ {v} : record'[w] = record[w]
        /\ record' \in [Validations -> {None, "running", "passed", "failed"}]
    BY <1>1, <1>3 DEF CreateRecord
  <2>3. TaskOK(v)'
    BY <2>1, <2>2 DEF TaskOK, Probing, Cleaning
  <2>4. QED BY <1>1, <2>1, <2>2, <2>3, OneTask
<1>4. QED BY <1>2, <1>3

\* Up to the probe: nothing of it exists yet, and each step has looked at what
\* the next one counts on.
LEMMA BeforeInv ==
    ASSUME ValidationInv, NEW v \in Validations,
           AssertPreconditions(v) \/ Capture(v) \/ CheckSections(v) \/ ReadImage(v)
    PROVE  ValidationInv'
<1>1. /\ task \in [Validations -> Tasks] /\ TaskOK(v)
      /\ record \in [Validations -> {None, "running", "passed", "failed"}]
      /\ pods \subseteq Validations /\ secrets \subseteq Validations
      /\ lost \subseteq Validations /\ cut \subseteq Validations
      /\ process \notin {"down", "swept pods"}
      /\ v \notin pods \ cut /\ v \notin secrets \ cut
      /\ task[v].at \in {"preconditions", "capture", "checks", "image"}
      /\ UNCHANGED <<process, stops, lost, pods, secrets, cut, record>>
      /\ record[v] = "running"
  BY TaskFacts DEF AssertPreconditions, Capture, CheckSections, ReadImage, objects, PodAt,
     SecretAt, TaskOK
<1>2. SUFFICES OnlyTask(v) /\ TaskOK(v)'
  BY <1>1, OneTask
<1>3. CASE AssertPreconditions(v)
  <2>1. /\ OnlyTask(v) /\ task'[v].at = "capture"
    BY <1>1, <1>3, GoesTo DEF AssertPreconditions
  <2>2. TaskOK(v)'
    BY <1>1, <2>1 DEF TaskOK, Probing, Cleaning
  <2>3. QED BY <2>1, <2>2
<1>4. CASE Capture(v)
  <2>1. PICK c \in Candidates :
           task' = [task EXCEPT ![v] = [task[v] EXCEPT !.at = "checks", !.candidate = c]]
    BY <1>1, <1>4 DEF Capture
  <2> DEFINE q == [task[v] EXCEPT !.at = "checks", !.candidate = c]
  <2>2. q \in Tasks /\ q.at = "checks" /\ q.candidate = c
    BY <1>1 DEF Tasks
  <2>3. task' = [task EXCEPT ![v] = q] /\ task'[v] = q
    BY <1>1, <2>1
  <2> HIDE DEF q
  <2>4. TaskOK(v)'
    BY <1>1, <2>2, <2>3 DEF TaskOK, Probing, Cleaning
  <2>5. QED BY <2>2, <2>3, <2>4 DEF OnlyTask
<1>5. CASE CheckSections(v)
  <2> DEFINE c == task[v].candidate
  <2>1. c \in Candidates /\ task[v].at = "checks"
    BY <1>1, <1>5 DEF CheckSections, TaskOK
  <2>2. CASE c.defect = "check" /\ Concludes(v, "finish", "failed")
    <3>1. /\ OnlyTask(v) /\ task'[v].at = "finish"
          /\ task'[v].candidate = c /\ task'[v].verdict = "failed"
      BY <1>1, <2>2, ConcludesTo
    <3>2. TaskOK(v)'
      BY <1>1, <3>1 DEF TaskOK, Probing, Cleaning
    <3>3. QED BY <3>1, <3>2
  <2>3. CASE c.defect # "check" /\ c.probing /\ Goes(v, "image")
    <3>1. /\ OnlyTask(v) /\ task'[v].at = "image"
          /\ task'[v].candidate = c
      BY <1>1, <2>3, GoesTo
    <3>2. TaskOK(v)'
      BY <1>1, <2>1, <2>3, <3>1 DEF TaskOK, Probing, Cleaning
    <3>3. QED BY <3>1, <3>2
  <2>4. CASE c.defect # "check" /\ ~c.probing /\ Concludes(v, "finish", "passed")
    <3>1. /\ OnlyTask(v) /\ task'[v].at = "finish"
          /\ task'[v].candidate = c /\ task'[v].verdict = "passed"
      BY <1>1, <2>4, ConcludesTo
    <3>2. Proved(c)
      BY <2>1, <2>4 DEF Proved, Candidates
    <3>3. TaskOK(v)'
      BY <1>1, <3>1, <3>2 DEF TaskOK, Probing, Cleaning, Proved
    <3>4. QED BY <3>1, <3>3
  <2>5. QED BY <1>5, <2>2, <2>3, <2>4 DEF CheckSections
<1>6. CASE ReadImage(v)
  <2> DEFINE c == task[v].candidate
  <2>1. task[v].at = "image" /\ c \in Candidates /\ c.defect # "check" /\ c.probing
    BY <1>1, <1>6 DEF ReadImage, TaskOK, Probing
  <2>2. /\ OnlyTask(v)
        /\ task'[v].at = IF HasFiles(c) THEN "secret" ELSE "pod"
        /\ task'[v].candidate = c
    BY <1>1, <1>6, GoesTo DEF ReadImage
  <2>3. TaskOK(v)'
    BY <1>1, <2>1, <2>2 DEF TaskOK, Probing, Cleaning, HasFiles
  <2>4. QED BY <2>2, <2>3
<1>7. QED BY <1>3, <1>4, <1>5, <1>6

\* The probe is made: a Secret where there are files, then the pod; from there it
\* is in the block that cleans up.
LEMMA CreateInv ==
    ASSUME ValidationInv, NEW v \in Validations, CreateSecret(v) \/ CreatePod(v)
    PROVE  ValidationInv'
<1>1. /\ task \in [Validations -> Tasks] /\ TaskOK(v)
      /\ record \in [Validations -> {None, "running", "passed", "failed"}]
      /\ pods \subseteq Validations /\ secrets \subseteq Validations
      /\ lost \subseteq Validations /\ cut \subseteq Validations
      /\ process \notin {"down", "swept pods"}
      /\ v \notin pods \ cut
      /\ v \in secrets \ cut => task[v].at = "pod" /\ HasFiles(task[v].candidate)
      /\ UNCHANGED <<process, stops, lost, cut, record>>
      /\ record[v] = "running"
  BY TaskFacts DEF CreateSecret, CreatePod, PodAt, SecretAt, TaskOK
<1>2. CASE CreateSecret(v)
  <2>1. /\ OnlyTask(v) /\ task'[v].at = "pod"
        /\ task'[v].candidate = task[v].candidate
    BY <1>1, <1>2, GoesTo DEF CreateSecret
  <2>2. /\ task[v].at = "secret" /\ HasFiles(task[v].candidate)
        /\ task[v].candidate \in Candidates /\ task[v].candidate.defect # "check"
        /\ task[v].candidate.probing
    BY <1>1, <1>2 DEF CreateSecret, TaskOK, Probing
  <2>3. TaskOK(v)'
    BY <1>1, <2>1, <2>2 DEF TaskOK, Probing, Cleaning
  <2>4. secrets' = secrets \cup {v} /\ pods' = pods
    BY <1>2 DEF CreateSecret
  <2>5. QED BY <1>1, <2>1, <2>2, <2>3, <2>4, OneTask DEF SecretAt
<1>3. CASE CreatePod(v)
  <2>1. /\ OnlyTask(v) /\ task'[v].at = "serving"
        /\ task'[v].candidate = task[v].candidate
    BY <1>1, <1>3, GoesTo DEF CreatePod
  <2>2. /\ task[v].at = "pod"
        /\ task[v].candidate \in Candidates /\ task[v].candidate.defect # "check"
        /\ task[v].candidate.probing
    BY <1>1, <1>3 DEF CreatePod, TaskOK, Probing
  <2>3. TaskOK(v)'
    BY <1>1, <2>1, <2>2 DEF TaskOK, Probing, Cleaning
  <2>4. pods' = pods \cup {v} /\ secrets' = secrets
    BY <1>3 DEF CreatePod
  <2>5. QED BY <1>1, <2>1, <2>2, <2>3, <2>4, OneTask DEF SecretAt, PodAt
<1>4. QED BY <1>2, <1>3

\* A failure before that block: what exists, or may, is left to the sweep.
LEMMA FailsInv ==
    ASSUME ValidationInv, NEW v \in Validations, Fails(v)
    PROVE  ValidationInv'
<1>1. /\ task \in [Validations -> Tasks] /\ TaskOK(v)
      /\ record \in [Validations -> {None, "running", "passed", "failed"}]
      /\ pods \subseteq Validations /\ secrets \subseteq Validations
      /\ lost \subseteq Validations /\ cut \subseteq Validations
      /\ process \notin {"down", "swept pods"}
      /\ UNCHANGED <<process, stops, lost, record>>
      /\ record[v] = "running"
  BY TaskFacts DEF Fails, TaskOK
<1>2. OnlyTask(v) /\ task'[v].at = "finish" /\ task'[v].verdict = "failed"
  BY <1>1, ConcludesTo DEF Fails
<1>3. TaskOK(v)'
  BY <1>1, <1>2 DEF TaskOK, Probing, Cleaning
<1>4. /\ secrets' \in {secrets, secrets \cup {v}} /\ pods' \in {pods, pods \cup {v}}
      /\ cut' = IF v \in secrets' \cup pods' THEN cut \cup {v} ELSE cut
  BY DEF Fails
<1>5. /\ v \notin pods' \ cut' /\ v \notin secrets' \ cut'
      /\ pods' \subseteq Validations /\ secrets' \subseteq Validations /\ cut' \subseteq Validations
      /\ \A w \in Validations \ {v} :
            /\ w \in pods' <=> w \in pods
            /\ w \in secrets' <=> w \in secrets
            /\ w \in cut' <=> w \in cut
  BY <1>1, <1>4
<1>6. QED BY <1>1, <1>2, <1>3, <1>5, OneTask

\* The probe's answers: a pass only from a coordinator that started and accepted.
LEMMA AnswersInv ==
    ASSUME ValidationInv, NEW v \in Validations, AwaitServing(v) \/ CheckAgainstProbe(v)
    PROVE  ValidationInv'
<1> DEFINE c == task[v].candidate
<1>1. /\ task \in [Validations -> Tasks] /\ TaskOK(v)
      /\ record \in [Validations -> {None, "running", "passed", "failed"}]
      /\ pods \subseteq Validations /\ secrets \subseteq Validations
      /\ lost \subseteq Validations /\ cut \subseteq Validations
      /\ process \notin {"down", "swept pods"}
      /\ v \in secrets \ cut => HasFiles(c)
      /\ UNCHANGED <<process, stops, lost, record, pods, secrets, cut>>
      /\ record[v] = "running" /\ task[v].at \in {"serving", "statements"}
      /\ c \in Candidates /\ c.defect # "check" /\ c.probing
  BY TaskFacts DEF AwaitServing, CheckAgainstProbe, TaskOK, objects, Probing
<1>2. ASSUME OnlyTask(v), TaskOK(v)', task'[v].candidate = c,
             task'[v].at \in {"statements", "delete pod"}
      PROVE  ValidationInv'
  BY <1>1, <1>2, OneTask DEF PodAt, SecretAt
<1>3. CASE Starts(c) /\ Goes(v, "statements")
  <2>1. OnlyTask(v) /\ task'[v].at = "statements" /\ task'[v].candidate = c
    BY <1>1, <1>3, GoesTo
  <2>2. TaskOK(v)'
    BY <1>1, <1>3, <2>1 DEF TaskOK, Probing, Cleaning, Starts
  <2>3. QED BY <1>2, <2>1, <2>2
<1>4. CASE Concludes(v, "delete pod", "failed")
  <2>1. /\ OnlyTask(v) /\ task'[v].at = "delete pod" /\ task'[v].candidate = c
        /\ task'[v].verdict = "failed"
    BY <1>1, <1>4, ConcludesTo
  <2>2. TaskOK(v)'
    BY <1>1, <2>1 DEF TaskOK, Probing, Cleaning
  <2>3. QED BY <1>2, <2>1, <2>2
<1>5. CASE /\ ~Rejected(c) /\ Concludes(v, "delete pod", "passed")
           /\ task[v].at = "statements"
  <2>1. /\ OnlyTask(v) /\ task'[v].at = "delete pod" /\ task'[v].candidate = c
        /\ task'[v].verdict = "passed"
    BY <1>1, <1>5, ConcludesTo
  <2>2. Starts(c)
    BY <1>1, <1>5 DEF TaskOK
  <2>3. Proved(c)
    BY <1>1, <1>5, <2>2 DEF Proved, Starts, Rejected
  <2>4. TaskOK(v)'
    BY <1>1, <2>1, <2>3 DEF TaskOK, Probing, Cleaning, Proved
  <2>5. QED BY <1>2, <2>1, <2>4
<1>6. QED BY <1>3, <1>4, <1>5 DEF AwaitServing, CheckAgainstProbe

\* Leaving the block: the pod goes, then the Secret, or both are left to the sweep.
LEMMA CleanupInv ==
    ASSUME ValidationInv, NEW v \in Validations,
           DeletePod(v) \/ DeleteSecret(v) \/ DeleteFails(v)
    PROVE  ValidationInv'
<1> DEFINE q == task[v]
<1>1. /\ task \in [Validations -> Tasks] /\ TaskOK(v)
      /\ record \in [Validations -> {None, "running", "passed", "failed"}]
      /\ pods \subseteq Validations /\ secrets \subseteq Validations
      /\ lost \subseteq Validations /\ cut \subseteq Validations
      /\ process \notin {"down", "swept pods"}
      /\ v \in pods \ cut => q.at = "delete pod"
      /\ v \in secrets \ cut => HasFiles(q.candidate)
      /\ UNCHANGED <<process, stops, lost, record>>
      /\ record[v] = "running"
      /\ q.candidate \in Candidates /\ q.candidate.defect # "check" /\ q.candidate.probing
      /\ q.verdict \in {"passed", "failed", "cancelled"}
      /\ q.verdict = "passed" => Proved(q.candidate)
  BY TaskFacts DEF DeletePod, DeleteSecret, DeleteFails, TaskOK, Probing, Cleaning, PodAt
<1>2. CASE DeletePod(v)
  <2>1. /\ OnlyTask(v) /\ task'[v].candidate = q.candidate /\ task'[v].verdict = q.verdict
        /\ task'[v].at = IF HasFiles(q.candidate) THEN "delete secret" ELSE "finish"
    BY <1>1, <1>2, GoesTo DEF DeletePod
  <2>2. TaskOK(v)'
    BY <1>1, <2>1 DEF TaskOK, Probing, Cleaning, Proved, HasFiles
  <2>3. pods' = pods \ {v} /\ secrets' = secrets /\ cut' = cut
    BY <1>2 DEF DeletePod
  <2>4. QED BY <1>1, <2>1, <2>2, <2>3, OneTask DEF SecretAt
<1>3. CASE DeleteSecret(v)
  <2>1. /\ OnlyTask(v) /\ task'[v].candidate = q.candidate /\ task'[v].verdict = q.verdict
        /\ task'[v].at = "finish" /\ q.at = "delete secret"
    BY <1>1, <1>3, GoesTo DEF DeleteSecret
  <2>2. TaskOK(v)'
    BY <1>1, <2>1 DEF TaskOK, Probing, Cleaning, Proved
  <2>3. pods' = pods /\ secrets' = secrets \ {v} /\ cut' = cut
    BY <1>3 DEF DeleteSecret
  <2>4. QED BY <1>1, <2>1, <2>2, <2>3, OneTask
<1>4. CASE DeleteFails(v)
  <2>1. OnlyTask(v) /\ task'[v].at = "finish" /\ task'[v].verdict = "failed"
    BY <1>1, <1>4, ConcludesTo DEF DeleteFails
  <2>2. TaskOK(v)'
    BY <1>1, <2>1 DEF TaskOK, Probing, Cleaning
  <2>3. pods' = pods /\ secrets' = secrets /\ cut' = cut \cup {v}
    BY <1>4 DEF DeleteFails
  <2>4. QED BY <1>1, <2>1, <2>2, <2>3, OneTask
<1>5. QED BY <1>2, <1>3, <1>4

\* The verdict is told, or not.
LEMMA FinishInv ==
    ASSUME ValidationInv, NEW v \in Validations, Finish(v) \/ FinishFails(v)
    PROVE  ValidationInv'
<1> DEFINE q == task[v]
<1>1. /\ task \in [Validations -> Tasks] /\ TaskOK(v)
      /\ record \in [Validations -> {None, "running", "passed", "failed"}]
      /\ pods \subseteq Validations /\ secrets \subseteq Validations
      /\ lost \subseteq Validations /\ cut \subseteq Validations
      /\ process \notin {"down", "swept pods"}
      /\ v \notin pods \ cut /\ v \notin secrets \ cut
      /\ UNCHANGED <<process, stops, pods, secrets, cut>>
      /\ lost' \subseteq Validations
      /\ record[v] = "running"
      /\ q.verdict \in {"passed", "failed", "cancelled"}
      /\ q.verdict = "passed" => Proved(q.candidate)
  BY TaskFacts DEF Finish, FinishFails, TaskOK, Cleaning, PodAt, SecretAt, objects
<1>2. OnlyTask(v) /\ task'[v].at = "off" /\ task'[v].candidate = q.candidate
  BY <1>1, GoesTo DEF Finish, FinishFails
<1>3. \/ record' = record
      \/ q.verdict \in {"passed", "failed"} /\ record' = [record EXCEPT ![v] = q.verdict]
  BY <1>1 DEF Finish, FinishFails
<1>4. /\ record' \in [Validations -> {None, "running", "passed", "failed"}]
      /\ \A w \in Validations \ {v} : record'[w] = record[w]
      /\ record'[v] = "passed" => Proved(q.candidate)
  BY <1>1, <1>3
<1>5. TaskOK(v)'
  BY <1>1, <1>2, <1>4 DEF TaskOK, Probing, Cleaning, Proved
<1>6. QED BY <1>1, <1>2, <1>4, <1>5, OneTask

-----------------------------------------------------------------------------
(* The process. *)

\* A process that stops, warned or not: the tasks inside the block clean up or end
\* with the others, and whatever nobody will delete is left to the sweep.
LEMMA StopInv ==
    ASSUME ValidationInv, Shutdown \/ Stop
    PROVE  ValidationInv'
<1>1. /\ ValidationTypeOK /\ ProbesAccounted /\ SecretsKnown
      /\ task \in [Validations -> Tasks]
      /\ \A v \in Validations : task[v] \in Tasks /\ TaskOK(v)
  BY DEF ValidationInv, ValidationTypeOK
<1>2. /\ pods' \subseteq Validations /\ secrets' \subseteq Validations
      /\ \A v \in Holding : v \in secrets' => v \in secrets
      /\ Holding \subseteq Validations
  BY <1>1 DEF Shutdown, Stop, Abandoned, ValidationTypeOK, Holding
<1>3. /\ lost' \subseteq Validations /\ cut' \subseteq Validations /\ record' = record
      /\ stops' \in 0..MaxStops /\ process' \in {"stopping", "down"}
      /\ cut \subseteq cut'
  <2>1. stops' \in 0..MaxStops
    <3>1. stops \in 0..MaxStops /\ (stops' = stops \/ (stops < MaxStops /\ stops' = stops + 1))
      BY <1>1 DEF Shutdown, Stop, ValidationTypeOK
    <3>2. QED BY <3>1, ValidationAssumption
  <2>2. lost' \subseteq Validations /\ cut' \subseteq Validations /\ cut \subseteq cut'
    BY <1>1, <1>2 DEF Shutdown, Stop, ValidationTypeOK, Running
  <2>3. record' = record /\ process' \in {"stopping", "down"}
    BY DEF Shutdown, Stop
  <2>4. QED BY <2>1, <2>2, <2>3
<1>4. ASSUME NEW v \in Validations
      PROVE  /\ task'[v] \in Tasks /\ task'[v].candidate = task[v].candidate
             /\ \/ task'[v].at = "off" /\ (v \in pods' \cup secrets' => v \in cut')
                \/ /\ v \in Holding /\ task'[v].at = "delete pod"
                   /\ task'[v].verdict = "cancelled" /\ process' = "stopping"
  <2>1. CASE Shutdown /\ v \in Holding
    <3>1. task'[v] = [task[v] EXCEPT !.at = "delete pod", !.verdict = "cancelled"]
      BY <2>1 DEF Shutdown
    <3>2. QED BY <1>1, <2>1, <3>1 DEF Shutdown, Tasks
  <2>2. CASE Shutdown /\ v \notin Holding
    <3>1. task'[v] = [task[v] EXCEPT !.at = "off"]
      BY <2>2 DEF Shutdown
    <3>2. v \in pods' \cup secrets' => v \in cut'
      BY <2>2 DEF Shutdown
    <3>3. QED BY <1>1, <3>1, <3>2 DEF Tasks
  <2>3. CASE Stop
    <3>1. task'[v] = [task[v] EXCEPT !.at = "off"]
      BY <2>3 DEF Stop
    <3>2. v \in pods' \cup secrets' => v \in cut'
      BY <2>3 DEF Stop
    <3>3. QED BY <1>1, <3>1, <3>2 DEF Tasks
  <2>4. QED BY <2>1, <2>2, <2>3
<1>5. task' \in [Validations -> Tasks]
  <2>1. task' = [v \in Validations |-> task'[v]]
    BY DEF Shutdown, Stop
  <2>2. QED BY <1>4, <2>1
<1>6. ValidationTypeOK'
  BY <1>1, <1>2, <1>3, <1>5 DEF ValidationTypeOK
<1>7. ASSUME NEW v \in Validations PROVE TaskOK(v)'
  <2>1. CASE task'[v].at = "off"
    BY <1>1, <1>3, <1>4, <2>1 DEF TaskOK, Probing, Cleaning, Proved
  <2>2. CASE /\ v \in Holding /\ task'[v].at = "delete pod"
             /\ task'[v].verdict = "cancelled"
    <3>1. /\ record[v] = "running" /\ task[v].candidate \in Candidates
          /\ task[v].candidate.defect # "check" /\ task[v].candidate.probing
      BY <1>1, <2>2 DEF TaskOK, Probing, Holding
    <3>2. QED BY <1>3, <1>4, <2>2, <3>1 DEF TaskOK, Probing, Cleaning
  <2>3. QED BY <1>4, <2>1, <2>2
<1>8. ProbesAccounted'
  BY <1>4 DEF ProbesAccounted
<1>9. SecretsKnown'
  <2> SUFFICES ASSUME NEW v \in secrets' \ cut' PROVE HasFiles(task'[v].candidate)
    BY DEF SecretsKnown
  <2>1. v \in Validations /\ v \in secrets \ cut
    BY <1>2, <1>3, <1>4
  <2>2. QED BY <1>1, <1>4, <2>1 DEF SecretsKnown
<1>10. SweepOrder'
  BY <1>3, <1>4 DEF SweepOrder
<1>11. QED BY <1>6, <1>7, <1>8, <1>9, <1>10 DEF ValidationInv

\* The sweep: what it deletes belongs to no task, since none runs.
LEMMA SweepInv ==
    ASSUME ValidationInv, SweepPods \/ SweepSecrets \/ SweepFails
    PROVE  ValidationInv'
<1>1. /\ ValidationTypeOK /\ ProbesAccounted /\ SecretsKnown /\ SweepOrder
      /\ \A v \in Validations : TaskOK(v)
      /\ process \in {"down", "swept pods"}
      /\ UNCHANGED <<record, task, stops, lost>>
  BY DEF ValidationInv, SweepPods, SweepSecrets, SweepFails
<1>2. /\ pods' \subseteq pods /\ secrets' \subseteq secrets
      /\ \/ cut' = cut
         \/ cut' = {} /\ pods' = {} /\ secrets' = {}
      /\ process' \in {"up", "swept pods"}
      /\ process' = "swept pods" => pods' = {}
  BY <1>1 DEF SweepPods, SweepSecrets, SweepFails, SweepOrder
<1>3. ValidationTypeOK'
  BY <1>1, <1>2 DEF ValidationTypeOK
<1>4. \A v \in Validations : TaskOK(v)'
  BY <1>1 DEF TaskOK, HasFiles, Starts, Proved
<1>5. ProbesAccounted' /\ SecretsKnown'
  BY <1>1, <1>2 DEF ProbesAccounted, SecretsKnown
<1>6. SweepOrder'
  BY <1>1, <1>2 DEF SweepOrder
<1>7. QED BY <1>3, <1>4, <1>5, <1>6 DEF ValidationInv

\* Whoever moves, the invariant holds after.
LEMMA NextInv == ValidationInv /\ [Next]_validationVars => ValidationInv'
<1> SUFFICES ASSUME ValidationInv, [Next]_validationVars PROVE ValidationInv'
  OBVIOUS
<1>1. ASSUME NEW v \in Validations, StartValidation(v) \/ Task(v)
      PROVE  ValidationInv'
  BY <1>1, HandlerInv, BeforeInv, CreateInv, FailsInv, AnswersInv, CleanupInv, FinishInv
     DEF Task
<1>2. CASE Process
  BY <1>2, StopInv, SweepInv DEF Process
<1>3. CASE UNCHANGED validationVars
  BY <1>3 DEF validationVars, ValidationInv, ValidationTypeOK, TaskOK, ProbesAccounted,
     SecretsKnown, SweepOrder, Proved, HasFiles, Starts
<1>4. QED BY <1>1, <1>2, <1>3 DEF Next

-----------------------------------------------------------------------------
(* The theorems. *)

\* The inductive invariant holds in every reachable state.
THEOREM ValidationInvariant == Spec => []ValidationInv
BY InitInv, NextInv, PTL DEF Spec

\* Every record and every task holds what validations.py and validation.py put
\* there.
THEOREM ValidationTypes == Spec => []ValidationTypeOK
<1>1. ValidationInv => ValidationTypeOK
  BY DEF ValidationInv
<1>2. QED BY <1>1, ValidationInvariant, PTL

\* A record says "passed" only of a Candidate in which nothing that was checked or put
\* in front of a coordinator was found wrong: a failure of Apchi's own, a cancellation
\* or a stop is never reported as a pass.
THEOREM PassesAreProved == Spec => []PassedMeansProved
<1>1. ValidationInv => PassedMeansProved
  BY DEF ValidationInv, TaskOK, PassedMeansProved, Proved
<1>2. QED BY <1>1, ValidationInvariant, PTL

\* A probe's pod or Secret that exists is one a task will delete, or one whose
\* cleanup was cut short, for the next sweep: however the block was left.
THEOREM NoProbeIsForgotten == Spec => []ProbesAccounted
<1>1. ValidationInv => ProbesAccounted
  BY DEF ValidationInv
<1>2. QED BY <1>1, ValidationInvariant, PTL

=============================================================================
