----------------------------- MODULE Validation -----------------------------
(***************************************************************************)
(* The Validate action: a record in MongoDB, a task that runs the stage an *)
(* Apply runs too, and the ephemeral coordinator the Candidate is proved   *)
(* against: a pod and, when there are files, a Secret of the same name.    *)
(* Any call to Kubernetes may raise, the store may refuse the verdict, and *)
(* the process may stop anywhere; the next start sweeps what it left.      *)
(*                                                                         *)
(* A Candidate is what Validation can find wrong with it.  It may be       *)
(* edited at any time, so what a task captures is any of them.             *)
(***************************************************************************)
EXTENDS Naturals, FiniteSets

CONSTANTS
    Validations,    \* bound: the validations ever started
    MaxStops,       \* bound: how often the process stops
    Blocks,         \* catalog_connectivity_blocks_apply
    None

ASSUME ValidationAssumption ==
    /\ MaxStops \in Nat
    /\ Blocks \in BOOLEAN
    /\ None \notin Validations /\ None \notin {"running", "passed", "failed", "cancelled"}

VARIABLES
    process,        \* "up", "stopping", "down" or in the sweep
    record,         \* the validation records
    task,           \* where each validation's handler or task stands
    pods, secrets,  \* the probe objects that exist, by validation
    stops,          \* how often the process stopped
    lost,           \* history: validations whose task could not tell its verdict
    cut             \* history: validations whose cleanup did not run to its end

validationVars == <<process, record, task, pods, secrets, stops, lost, cut>>
objects == <<pods, secrets, cut>>

-----------------------------------------------------------------------------
(* Candidates. *)

\* What can be wrong: a Section's own check or a reference to a certificate, a Section's file
\* or a raw file that Trino does not start with, a statement that Trino refuses, a data source
\* that does not answer.  "unprobed" is a file that is delivered and never put in front of a
\* probe: a raw config.properties, and the file of a Section that needs none, as Permissions'
\* without a grant, preserved rules and all.
Defects == {"check", "file", "raw", "unprobed", "statement", "unreachable"}

\* probing: some Section needs a probe (needs_probe); files: one that does contributes a file;
\* raw: the Admin has raw files, config.properties aside.
Candidates ==
    {c \in [probing: BOOLEAN, files: BOOLEAN, raw: BOOLEAN, defect: Defects \cup {None}] :
        /\ c.files => c.probing
        /\ c.defect = "file" => c.files
        /\ c.defect \in {"statement", "unreachable"} => c.probing
        /\ c.defect = "raw" => c.raw}

\* Whether the probe needs a Secret: for the files of the Sections that need a probe, and the
\* raw ones.  A raw config.properties is kept from it.
HasFiles(c) == c.files \/ c.raw

-----------------------------------------------------------------------------

Off == [at |-> "off", candidate |-> None, verdict |-> None]

Init ==
    /\ process = "up" /\ stops = 0
    /\ record = [v \in Validations |-> None]
    /\ task = [v \in Validations |-> Off]
    /\ pods = {} /\ secrets = {} /\ lost = {} /\ cut = {}

Goes(v, at) == task' = [task EXCEPT ![v].at = at]

\* The validation has its verdict, and whatever it still holds is cleaned up first.
Concludes(v, at, verdict) == task' = [task EXCEPT ![v].at = at, ![v].verdict = verdict]

\* The handler, first await: the Candidate's base, for the record alone.
StartValidation(v) ==
    /\ process = "up" /\ record[v] = None /\ task[v].at = "off" /\ Goes(v, "create")
    /\ UNCHANGED <<process, record, stops, lost, objects>>

\* The handler, second await: the record, and the task that will conclude it.
CreateRecord(v) ==
    /\ task[v].at = "create" /\ Goes(v, "preconditions")
    /\ record' = [record EXCEPT ![v] = "running"]
    /\ UNCHANGED <<process, stops, lost, objects>>

\* The deployment is asked whether it can support an Apply at all; if not, Fails.
AssertPreconditions(v) ==
    /\ task[v].at = "preconditions" /\ Goes(v, "capture")
    /\ UNCHANGED <<process, record, stops, lost, objects>>

\* The Admin values are frozen and the Candidate read, as it is by now: it may have been
\* edited, or committed by an Apply, since StartValidation read its base.
Capture(v) ==
    /\ task[v].at = "capture"
    /\ \E c \in Candidates :
          task' = [task EXCEPT ![v].at = "checks", ![v].candidate = c]
    /\ UNCHANGED <<process, record, stops, lost, objects>>

\* Every Section's own checks; a pod only if some Section has something to prove.
CheckSections(v) ==
    LET c == task[v].candidate IN
    /\ task[v].at = "checks"
    /\ \/ c.defect = "check" /\ Concludes(v, "finish", "failed")
       \/ c.defect # "check" /\ c.probing /\ Goes(v, "image")
       \/ c.defect # "check" /\ ~c.probing /\ Concludes(v, "finish", "passed")
    /\ UNCHANGED <<process, record, stops, lost, objects>>

ReadImage(v) ==
    /\ task[v].at = "image"
    /\ Goes(v, IF HasFiles(task[v].candidate) THEN "secret" ELSE "pod")
    /\ UNCHANGED <<process, record, stops, lost, objects>>

CreateSecret(v) ==
    /\ task[v].at = "secret" /\ Goes(v, "pod")
    /\ secrets' = secrets \cup {v}
    /\ UNCHANGED <<process, record, stops, lost, pods, cut>>

CreatePod(v) ==
    /\ task[v].at = "pod" /\ Goes(v, "serving")
    /\ pods' = pods \cup {v}
    /\ UNCHANGED <<process, record, stops, lost, secrets, cut>>

\* Mutant of Fails: only a failed Validation is caught, and the task ends on anything else.
FailsUncaught(v) ==
    /\ task[v].at \in {"preconditions", "capture", "checks", "image", "secret", "pod"}
    /\ Goes(v, "off")
    /\ UNCHANGED <<process, record, stops, lost, objects>>

\* The preconditions do not hold, or the store, Trino or Kubernetes raises, before the block
\* that cleans up is entered.  A create that raises may have created.
Fails(v) ==
    /\ task[v].at \in {"preconditions", "capture", "checks", "image", "secret", "pod"}
    /\ Concludes(v, "finish", "failed")
    /\ secrets' \in {secrets, IF task[v].at = "secret" THEN secrets \cup {v} ELSE secrets}
    /\ pods' \in {pods, IF task[v].at = "pod" THEN pods \cup {v} ELSE pods}
    /\ cut' = IF v \in secrets' \cup pods' THEN cut \cup {v} ELSE cut
    /\ UNCHANGED <<process, record, stops, lost>>

\* The probe serves, if Trino starts with the files it was given; or it has a problem that waiting
\* does not fix, or the deadline passes, or Kubernetes raises.
Starts(c) == c.defect \notin {"file", "raw"}

\* Mutant of AwaitServing: the wait is outside the block that cleans up.
AwaitServingOutside(v) ==
    /\ task[v].at = "serving"
    /\ \/ Starts(task[v].candidate) /\ Goes(v, "statements")
       \/ Concludes(v, "finish", "failed")
    /\ UNCHANGED <<process, record, stops, lost, objects>>

AwaitServing(v) ==
    /\ task[v].at = "serving"
    /\ \/ Starts(task[v].candidate) /\ Goes(v, "statements")
       \/ Concludes(v, "delete pod", "failed")
    /\ UNCHANGED <<process, record, stops, lost, objects>>

\* Mutant of Rejected: what is wrong with a statement is a warning too.
RejectedUnreachable(c) == c.defect \in {"statement", "unreachable"} /\ Blocks

\* What the probe answers counts as a failure: a refused statement is, a data source that
\* cannot be reached only where the setting says so.
Rejected(c) == c.defect = "statement" \/ (c.defect = "unreachable" /\ Blocks)

CheckAgainstProbe(v) ==
    /\ task[v].at = "statements"
    /\ \/ ~Rejected(task[v].candidate) /\ Concludes(v, "delete pod", "passed")
       \/ Concludes(v, "delete pod", "failed")
    /\ UNCHANGED <<process, record, stops, lost, objects>>

\* Leaving the block, whatever the verdict: the pod first, then the Secret if there was one.
DeletePod(v) ==
    /\ task[v].at = "delete pod"
    /\ pods' = pods \ {v}
    /\ Goes(v, IF HasFiles(task[v].candidate) THEN "delete secret" ELSE "finish")
    /\ UNCHANGED <<process, record, stops, lost, secrets, cut>>

DeleteSecret(v) ==
    /\ task[v].at = "delete secret" /\ Goes(v, "finish")
    /\ secrets' = secrets \ {v}
    /\ UNCHANGED <<process, record, stops, lost, pods, cut>>

\* A delete that raises replaces the verdict, and the cancellation too: Apchi could not do its
\* work, and says so on the record.
DeleteFails(v) ==
    /\ task[v].at \in {"delete pod", "delete secret"}
    /\ Concludes(v, "finish", "failed")
    /\ cut' = cut \cup {v}
    /\ UNCHANGED <<process, record, stops, lost, pods, secrets>>

\* Mutant of Finish: a cancelled task writes what it has.
FinishAlways(v) ==
    /\ task[v].at = "finish" /\ Goes(v, "off")
    /\ record' = [record EXCEPT ![v] = task[v].verdict]
    /\ UNCHANGED <<process, stops, lost, objects>>

\* The verdict is written; a cancelled task writes none.
Finish(v) ==
    /\ task[v].at = "finish" /\ Goes(v, "off")
    /\ IF task[v].verdict = "cancelled" THEN UNCHANGED record
       ELSE record' = [record EXCEPT ![v] = task[v].verdict]
    /\ UNCHANGED <<process, stops, lost, objects>>

\* The store refuses the verdict, and nobody tries again.
FinishFails(v) ==
    /\ task[v].at = "finish" /\ Goes(v, "off")
    /\ lost' = lost \cup {v}
    /\ UNCHANGED <<process, record, stops, objects>>

-----------------------------------------------------------------------------
(* The process. *)

Running == {v \in Validations : task[v].at # "off"}
Holding == {v \in Validations : task[v].at \in {"serving", "statements"}}

\* A create that its task no longer waits for runs in a thread of its own, and may happen yet.
Abandoned ==
    /\ \E made \in SUBSET {v \in Validations : task[v].at = "secret"} : secrets' = secrets \cup made
    /\ \E made \in SUBSET {v \in Validations : task[v].at = "pod"} : pods' = pods \cup made

\* The shutdown cancels every task: one inside the block leaves it, the others just end.
Shutdown ==
    /\ process = "up" /\ stops < MaxStops /\ process' = "stopping"
    /\ lost' = lost \cup {v \in Running : task[v].at # "create"}
    /\ task' = [v \in Validations |->
          IF v \in Holding THEN [task[v] EXCEPT !.at = "delete pod", !.verdict = "cancelled"]
          ELSE [task[v] EXCEPT !.at = "off"]]
    /\ Abandoned /\ cut' = cut \cup ((pods' \cup secrets') \ Holding)
    /\ UNCHANGED <<record, stops>>

\* It stops, warned or not, with whatever its tasks were doing.
Stop ==
    /\ process # "down" /\ stops < MaxStops /\ stops' = stops + 1
    /\ process' = "down"
    /\ lost' = lost \cup {v \in Running : task[v].at # "create"}
    /\ task' = [v \in Validations |-> [task[v] EXCEPT !.at = "off"]]
    /\ Abandoned /\ cut' = cut \cup pods' \cup secrets'
    /\ UNCHANGED <<record>>

\* The sweep at start deletes every pod that carries the probe's label, then every Secret.
SweepPods ==
    /\ process = "down" /\ process' = "swept pods"
    /\ pods' = {}
    /\ UNCHANGED <<record, task, stops, lost, secrets, cut>>

SweepSecrets ==
    /\ process = "swept pods" /\ process' = "up"
    /\ secrets' = {} /\ cut' = {}
    /\ UNCHANGED <<record, task, stops, lost, pods>>

\* A sweep that raises, part of the way, does not keep Apchi from starting.
SweepFails ==
    /\ process \in {"down", "swept pods"} /\ process' = "up"
    /\ \/ process = "down" /\ pods' \in SUBSET pods /\ UNCHANGED secrets
       \/ process = "swept pods" /\ secrets' \in SUBSET secrets /\ UNCHANGED pods
    /\ UNCHANGED <<record, task, stops, lost, cut>>

-----------------------------------------------------------------------------

Task(v) ==
    \/ CreateRecord(v) \/ AssertPreconditions(v) \/ Capture(v) \/ CheckSections(v)
    \/ ReadImage(v) \/ CreateSecret(v) \/ CreatePod(v) \/ Fails(v)
    \/ AwaitServing(v) \/ CheckAgainstProbe(v)
    \/ DeletePod(v) \/ DeleteSecret(v) \/ DeleteFails(v) \/ Finish(v) \/ FinishFails(v)

Process == Shutdown \/ Stop \/ SweepPods \/ SweepSecrets \/ SweepFails

Next ==
    \/ \E v \in Validations : StartValidation(v) \/ Task(v)
    \/ Process

Spec == Init /\ [][Next]_validationVars

\* Every call a task makes returns or raises, and the wait for the probe has its deadline.
FairSpec == Spec /\ \A v \in Validations : WF_validationVars(Task(v))

-----------------------------------------------------------------------------
(* Properties. *)

Tasks ==
    [at: {"off", "create", "preconditions", "capture", "checks", "image", "secret", "pod",
          "serving", "statements", "delete pod", "delete secret", "finish"},
     candidate: Candidates \cup {None},
     verdict: {None, "passed", "failed", "cancelled"}]

\* Every record and every task holds what the code puts there.
ValidationTypeOK ==
    /\ process \in {"up", "stopping", "down", "swept pods"}
    /\ stops \in 0..MaxStops
    /\ record \in [Validations -> {None, "running", "passed", "failed"}]
    /\ task \in [Validations -> Tasks]
    /\ pods \subseteq Validations /\ secrets \subseteq Validations
    /\ lost \subseteq Validations /\ cut \subseteq Validations

\* "It must not be reported as a clean pass" (validations.py:169): a pass says that the Sections'
\* checks hold, that a coordinator started with whatever was put in front of it, took every
\* statement and, where that counts, reached every data source; nothing Apchi failed to do, or
\* was stopped doing, is a pass.  It says nothing of what is not put there: the file of a
\* Section that needs no probe, a raw config.properties, and raw files when there is no probe.
PassedMeansProved ==
    \A v \in Validations :
        record[v] = "passed" =>
            LET c == task[v].candidate IN
            /\ c \in Candidates /\ c.defect \notin {"check", "file", "statement"}
            /\ c.defect = "unreachable" => ~Blocks
            /\ c.defect = "raw" => ~c.probing

\* "Deleted however this block exits" (validation.py): a probe pod, or a Secret with the keys in
\* it, belongs to a validation at work on it, or to one whose cleanup was cut short, which the
\* next sweep ends.
ProbesAccounted ==
    \A v \in Validations :
        /\ v \in pods \ cut => task[v].at \in {"serving", "statements", "delete pod"}
        /\ v \in secrets \ cut =>
              task[v].at \in {"pod", "serving", "statements", "delete pod", "delete secret"}

\* A validation ends with a verdict, unless the process stopped or the store refused it.
EveryValidationEnds ==
    \A v \in Validations :
        record[v] = "running" ~> record[v] # "running" \/ v \in lost

=============================================================================
