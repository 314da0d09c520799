------------------------------ MODULE Backends ------------------------------
(***************************************************************************)
(* The backend the orchestrator is configured with: one builder and runner *)
(* for all the models, chosen when the process is set up.                  *)
(***************************************************************************)
EXTENDS PhalaCluster, AwsEcsRunner, NomadModelRunner, LocalBackend

VARIABLE backend    \* infrastructure.runner.type

Kinds == {"phala", "aws", "nomad", "local"}

backendVars == <<phVars, ecVars, nmVars, loVars, backend>>

(* What a Docker daemon has matters to the local backend only. *)
Init ==
    /\ backend \in Kinds
    /\ PhInit
    /\ EcInit
    /\ NmInit
    /\ LoInit
    /\ backend # "local" => \A i \in Images : images[i] = "none"

PhalaStep == backend = "phala" /\ PhNext /\ UNCHANGED <<ecVars, nmVars, loVars, backend>>
AwsStep == backend = "aws" /\ EcNext /\ UNCHANGED <<phVars, nmVars, loVars, backend>>
NomadStep == backend = "nomad" /\ NmNext /\ UNCHANGED <<phVars, ecVars, loVars, backend>>
LocalStep == backend = "local" /\ LoNext /\ UNCHANGED <<phVars, ecVars, nmVars, backend>>

Next == PhalaStep \/ AwsStep \/ NomadStep \/ LocalStep

Spec == Init /\ [][Next]_backendVars /\ PhFairness /\ NmFairness /\ LoFairness

TypeOK ==
    /\ backend \in Kinds
    /\ PhTypeOK
    /\ EcTypeOK
    /\ NmTypeOK
    /\ LoTypeOK
=============================================================================
