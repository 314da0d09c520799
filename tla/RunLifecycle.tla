---------------------------- MODULE RunLifecycle ----------------------------
(***************************************************************************)
(* What ModelRunsService promises about the runs of a model, without the   *)
(* Builder, the Runner, the lock or the table: a run is created once, is   *)
(* wanted, possibly replaced by a newer run of the same model, asked to    *)
(* stop and forgotten.  It only ever goes forward, and a model never has   *)
(* two wanted runs, whatever fails and whenever the process restarts.      *)
(***************************************************************************)
CONSTANTS Models,   \* model ids
          Runs,     \* runs, in the order of their creation
          Nobody    \* the owner of a run not created yet

Stages == {"unborn", "wanted", "replacing", "stopping", "gone"}

VARIABLES
    stage,   \* stage[r]: how far r is
    owner    \* owner[r]: the model r is a run of

TypeOK ==
    /\ stage \in [Runs -> Stages]
    /\ owner \in [Runs -> Models \cup {Nobody}]

Init ==
    /\ stage = [r \in Runs |-> "unborn"]
    /\ owner = [r \in Runs |-> Nobody]

(* A new run of m takes over from the wanted one.  A refused run is never  *)
(* wanted, but it still takes the place of the other.                      *)
Create(r, m) ==
    /\ stage[r] = "unborn"
    /\ \E first \in {"wanted", "gone"} :
        stage' = [s \in Runs |->
                    CASE s = r -> first
                      [] s # r /\ owner[s] = m /\ stage[s] = "wanted" -> "replacing"
                      [] OTHER -> stage[s]]
    /\ owner' = [owner EXCEPT ![r] = m]

(* A run is asked to stop; one that was not launched is gone at once. *)
Retire(r) ==
    /\ stage[r] \in {"wanted", "replacing"}
    /\ \E next \in {"stopping", "gone"} : stage' = [stage EXCEPT ![r] = next]
    /\ UNCHANGED owner

(* Runs end: one that stopped or failed, or those a restart does not find. *)
Settle(S) ==
    /\ \A r \in S : stage[r] # "unborn"
    /\ stage' = [r \in Runs |-> IF r \in S THEN "gone" ELSE stage[r]]
    /\ UNCHANGED owner

Next ==
    \/ \E r \in Runs, m \in Models : Create(r, m)
    \/ \E r \in Runs : Retire(r)
    \/ \E S \in SUBSET Runs : Settle(S)

Spec == Init /\ [][Next]_<<stage, owner>>

(* A model has at most one wanted run. *)
OneWanted ==
    \A r, s \in Runs :
        stage[r] = "wanted" /\ stage[s] = "wanted" /\ owner[r] = owner[s] => r = s
=============================================================================
