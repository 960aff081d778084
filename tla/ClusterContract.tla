--------------------------- MODULE ClusterContract ---------------------------
(***************************************************************************)
(* What the pipeline relies on when it delivers a configuration to the     *)
(* Cluster and when it restores one, one Apply at a time: an abstract      *)
(* specification over the places of ClusterStates.  ApplyPipeline moves    *)
(* its cluster variable by the same operators; CatalogApply implements     *)
(* them, statement by statement.                                           *)
(***************************************************************************)
EXTENDS ClusterStates

VARIABLES
    place,      \* where the Cluster is
    phase,      \* what is being done to it
    latest,     \* the latest Snapshot's configuration
    baseline,   \* what the delivery is planned as a change from
    target      \* what is being delivered or restored

contractVars == <<place, phase, latest, baseline, target>>

Phases == {"idle", "validated", "delivering", "delivered", "restore", "restoring"}

\* Before the first Snapshot the Cluster may already run a configuration, seeded
\* by an Adoption.
ContractInit ==
    /\ place \in Configs
    /\ phase = "idle"
    /\ latest \in Configs
    /\ baseline \in Configs
    /\ target \in Configs

Prepare(d, b) ==
    /\ phase = "idle"
    /\ phase' = "validated" /\ target' = d /\ baseline' = b
    /\ UNCHANGED <<place, latest>>

StartDelivery ==
    /\ phase = "validated"
    /\ phase' = "delivering"
    /\ place' = DeliveryStarted(place, latest, baseline, target)
    /\ UNCHANGED <<latest, baseline, target>>

FinishDelivery ==
    /\ phase = "delivering"
    /\ phase' = "delivered"
    /\ place' \in DeliveryEnded(place, latest, baseline, target)
    /\ UNCHANGED <<latest, baseline, target>>

\* The delivered configuration becomes the latest Snapshot, or the commit fails
\* and it stays where it is.
Settle ==
    /\ phase = "delivered"
    /\ phase' = "idle"
    /\ latest' \in {latest, target}
    /\ UNCHANGED <<place, baseline, target>>

\* A failure or an interruption: of a delivery, or of the restore itself.
Abort ==
    /\ \/ phase \in {"validated", "delivering", "delivered"} /\ phase' \in {"idle", "restore"}
       \/ phase \in {"restore", "restoring"} /\ phase' = "idle"
    /\ phase \in {"delivering", "delivered"} => phase' = "restore"
    /\ UNCHANGED <<place, latest, baseline, target>>

StartRestore ==
    /\ phase = "restore"
    /\ phase' = "restoring"
    /\ target' = latest
    /\ place' = RestoreStarted(place, latest)
    /\ UNCHANGED <<latest, baseline>>

FinishRestore ==
    /\ phase = "restoring"
    /\ phase' = "idle"
    /\ place' \in RestoreEnded(place, latest)
    /\ UNCHANGED <<latest, baseline, target>>

ContractNext ==
    \/ \E d, b \in Configs : Prepare(d, b)
    \/ StartDelivery \/ FinishDelivery \/ Settle
    \/ Abort \/ StartRestore \/ FinishRestore

ContractSpec == ContractInit /\ [][ContractNext]_contractVars
=============================================================================
