-------------------------- MODULE RunLifecycleProofs --------------------------
(***************************************************************************)
(* What RunLifecycle promises, for every set of models and runs.           *)
(***************************************************************************)
EXTENDS RunLifecycle, TLAPS

(* A step keeps the types. *)
LEMMA StepKeepsType ==
    ASSUME TypeOK, [Next]_<<stage, owner>>
    PROVE  TypeOK'
<1>1. ASSUME NEW r \in Runs, NEW m \in Models, Create(r, m)
      PROVE  TypeOK'
  <2>1. PICK first \in {"wanted", "gone"} :
            stage' = [s \in Runs |->
                        CASE s = r -> first
                          [] s # r /\ owner[s] = m /\ stage[s] = "wanted" -> "replacing"
                          [] OTHER -> stage[s]]
    BY <1>1 DEF Create
  <2>2. ASSUME NEW s \in Runs
        PROVE  (CASE s = r -> first
                  [] s # r /\ owner[s] = m /\ stage[s] = "wanted" -> "replacing"
                  [] OTHER -> stage[s]) \in Stages
    BY DEF TypeOK, Stages
  <2> QED
    BY <1>1, <2>1, <2>2 DEF Create, TypeOK
<1>2. CASE \E r \in Runs : Retire(r)
  BY <1>2 DEF Retire, TypeOK, Stages
<1>3. CASE \E S \in SUBSET Runs : Settle(S)
  BY <1>3 DEF Settle, TypeOK, Stages
<1>4. CASE UNCHANGED <<stage, owner>>
  BY <1>4 DEF TypeOK
<1> QED
  BY <1>1, <1>2, <1>3, <1>4 DEF Next

(* Only Create makes a run wanted, and it displaces the one that was.      *)
LEMMA StepKeepsOneWanted ==
    ASSUME TypeOK, OneWanted, [Next]_<<stage, owner>>
    PROVE  OneWanted'
<1>1. ASSUME NEW r \in Runs, NEW m \in Models, Create(r, m)
      PROVE  OneWanted'
  <2>1. PICK first \in {"wanted", "gone"} :
            stage' = [s \in Runs |->
                        CASE s = r -> first
                          [] s # r /\ owner[s] = m /\ stage[s] = "wanted" -> "replacing"
                          [] OTHER -> stage[s]]
    BY <1>1 DEF Create
  <2>2. ASSUME NEW s \in Runs, s # r, stage'[s] = "wanted"
        PROVE  stage[s] = "wanted" /\ owner'[s] = owner[s] /\ owner[s] # m
    BY <1>1, <2>1, <2>2 DEF Create, TypeOK
  <2>3. owner'[r] = m
    BY <1>1 DEF Create, TypeOK
  <2> QED
    BY <2>2, <2>3 DEF OneWanted
<1>2. ASSUME owner' = owner, \A s \in Runs : stage'[s] = "wanted" => stage[s] = "wanted"
      PROVE  OneWanted'
  BY <1>2 DEF OneWanted
<1>3. CASE \E r \in Runs : Retire(r)
  BY <1>2, <1>3 DEF Retire, TypeOK
<1>4. CASE \E S \in SUBSET Runs : Settle(S)
  BY <1>2, <1>4 DEF Settle
<1>5. CASE UNCHANGED <<stage, owner>>
  BY <1>2, <1>5
<1> QED
  BY <1>1, <1>3, <1>4, <1>5 DEF Next

(* A model has at most one wanted run: what is promised by all that        *)
(* implements RunLifecycle, ModelRunsService among them.                   *)
THEOREM OneWantedAlways == Spec => []OneWanted
<1>1. Init => TypeOK /\ OneWanted
  BY DEF Init, TypeOK, OneWanted, Stages
<1>2. TypeOK /\ OneWanted /\ [Next]_<<stage, owner>> => (TypeOK /\ OneWanted)'
  BY StepKeepsType, StepKeepsOneWanted
<1> QED
  BY <1>1, <1>2, PTL DEF Spec
==============================================================================
