---------------------------- MODULE ClusterStates ----------------------------
(***************************************************************************)
(* What a delivery and a restore do to the Cluster, as far as the pipeline *)
(* can tell.  The Cluster runs a known configuration (the catalogs Trino   *)
(* serves and the Secret that seeds them agree on it), or                  *)
(*   Partial    a delivery begun on the latest Snapshot has not finished:  *)
(*              the Secret, written before the DDL, names all it may have  *)
(*              made, so a diff against the latest Snapshot is complete;   *)
(*   Unwinding  a restore that began from a complete diff has not finished;*)
(*   Diverged   what runs and what is recorded differ, and no plan is      *)
(*              known to name the difference.                              *)
(* CatalogApply shows that the catalog engine, the one engine that is not  *)
(* declarative, behaves like this.                                         *)
(***************************************************************************)
CONSTANTS
    Configs,     \* configurations of the Sections
    Partial, Unwinding, Diverged

ASSUME ClusterAssumption ==
    /\ {Partial, Unwinding, Diverged} \cap Configs = {}
    /\ Partial # Unwinding /\ Partial # Diverged /\ Unwinding # Diverged

ClusterPlaces == Configs \cup {Partial, Unwinding, Diverged}

\* Engine.apply starts to deliver desired, planned as a change from baseline.
\* An empty plan on a Cluster that runs the latest Snapshot changes nothing.
DeliveryStarted(place, latest, baseline, desired) ==
    CASE place = latest /\ desired = latest /\ baseline = latest -> place
      [] place = latest /\ ~(desired = latest /\ baseline = latest) -> Partial
      [] place # latest -> Diverged

\* Every Section and raw file delivered.  A plan measured from where the Cluster
\* was not may leave behind what it does not name.
DeliveryEnded(place, latest, baseline, desired) ==
    IF baseline = latest /\ (place = Partial \/ (place = latest /\ desired = latest))
    THEN {desired}
    ELSE {desired, Diverged}

\* auto_rollback.restore starts, unless it finds no difference: with the catalog
\* Secret, after which the Secret no longer names what the failed Apply made.
RestoreStarted(place, latest) ==
    CASE place = latest -> place
      [] place # latest /\ place \in Configs \cup {Partial} -> Unwinding
      [] place # latest /\ place \in {Unwinding, Diverged} -> Diverged

\* Everything restored and verified once.
RestoreEnded(place, latest) ==
    IF place \in {latest, Unwinding} THEN {latest} ELSE {latest, Diverged}
=============================================================================
