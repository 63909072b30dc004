----------------------- MODULE RuntimeLifecycleProofs -----------------------
(***************************************************************************)
(* RuntimeService implements RuntimeLifecycle, for any set of runtimes,    *)
(* any number of workers and any budget of failures.                       *)
(***************************************************************************)
EXTENDS RuntimeServiceProofs

-----------------------------------------------------------------------------
(***************************************************************************)
(* From one runtime to the functions RuntimeLifecycle is about.            *)
(***************************************************************************)
SameStage(R) == \A r \in R : Stage(r)' = Stage(r)
SameHere(R)  == \A r \in R : Here(r)' = Here(r)

LEMMA StageKept ==
  ASSUME SameStage(Runtimes)
  PROVE  [r \in Runtimes |-> Stage(r)]' = [r \in Runtimes |-> Stage(r)]
BY DEF SameStage

LEMMA HereKept ==
  ASSUME SameHere(Runtimes)
  PROVE  [r \in Runtimes |-> Here(r)]' = [r \in Runtimes |-> Here(r)]
BY DEF SameHere

LEMMA Turned ==
  ASSUME NEW s \in Runtimes, NEW from, NEW to, Stage(s) = from, Stage(s)' = to,
         SameStage(Runtimes \ {s})
  PROVE  Lifecycle!Turn(s, from, to)
BY DEF Lifecycle!Turn, SameStage

LEMMA HereBecomes ==
  ASSUME NEW s \in Runtimes, NEW things, Here(s)' = things,
         SameHere(Runtimes \ {s})
  PROVE  [r \in Runtimes |-> Here(r)]'
           = [[r \in Runtimes |-> Here(r)] EXCEPT ![s] = things]
BY DEF SameHere

\* What Here depends on.
LEMMA HereFrom ==
  ASSUME NEW r \in Runtimes,
         provision'[r] # {} <=> provision[r] # {},
         box'[r] # {} <=> box[r] # {},
         Labelled(r)' # {} <=> Labelled(r) # {}
  PROVE  Here(r)' = Here(r)
BY DEF Here

\* Making nothing and taking nothing: passes may end, and none begins that could
\* make anything for a runtime that is to go.
LEMMA PassesEnd ==
  ASSUME SameHere(Runtimes), UNCHANGED resource,
         \A r \in Runtimes : resource[r] = "leaving" /\ pc'[r] \in EnsureSteps
                               => pc[r] \in EnsureSteps
  PROVE  Lifecycle!Next
<1> DEFINE R == { r \in Runtimes : Stage(r) = "leaving" /\ Stage(r)' # "leaving" }
<1>1. \A r \in R : Stage(r)' = "closing"
  BY DEF Stage
<1>2. \A r \in Runtimes \ R : Stage(r)' = Stage(r)
  BY DEF Stage
<1>3. Lifecycle!Close(R)
  BY <1>1, <1>2, HereKept DEF Lifecycle!Close
<1> QED BY <1>3 DEF Lifecycle!Next

LEMMA Lost ==
  ASSUME NEW s \in Runtimes, NEW thing \in {"disks", "box"},
         Here(s)' = Here(s) \ {thing}, SameHere(Runtimes \ {s}),
         SameStage(Runtimes)
  PROVE  Lifecycle!Next
<1>1. Lifecycle!Lose(s, thing)
  BY HereBecomes, StageKept DEF Lifecycle!Lose
<1> QED BY <1>1 DEF Lifecycle!Next

\* Whoever's it was.
LEMMA DiskGone ==
  ASSUME TypeOK, NEW v \in VolumeNames, RemoveVolume(v),
         UNCHANGED <<box, provision, resource, pc>>
  PROVE  Lifecycle!Next
<1>1. SameStage(Runtimes)
  BY DEF SameStage, Stage
<1>2. \A r \in Runtimes : Labelled(r)' = Labelled(r) \ {v}
  BY LabelsAfter
<1>3. CASE \E s \in Runtimes : volumes[v] = s /\ Labelled(s) = {v}
  <2>1. PICK s \in Runtimes : volumes[v] = s /\ Labelled(s) = {v}
    BY <1>3
  <2>2. Here(s)' = Here(s) \ {"disks"}
    BY <1>2, <2>1 DEF Here
  <2>3. SameHere(Runtimes \ {s})
    BY <1>2, <2>1, HereFrom DEF SameHere, Labelled
  <2> QED BY <1>1, <2>2, <2>3, Lost
<1>4. CASE \A s \in Runtimes : volumes[v] = s => Labelled(s) # {v}
  <2>1. \A r \in Runtimes : Labelled(r)' # {} <=> Labelled(r) # {}
    BY <1>2, <1>4 DEF Labelled
  <2>2. SameHere(Runtimes)
    BY <2>1, HereFrom DEF SameHere
  <2> QED BY <2>2, PassesEnd
<1> QED BY <1>3, <1>4

-----------------------------------------------------------------------------
LEMMA InitContract == Init => Lifecycle!Init
<1> SUFFICES ASSUME Init PROVE Lifecycle!Init
  OBVIOUS
<1>1. \A r \in Runtimes : Labelled(r) = {}
  BY EngineNames DEF Init, Labelled
<1>2. ASSUME NEW r \in Runtimes
      PROVE  /\ Stage(r) = IF r \in Legacy THEN "held" ELSE "absent"
             /\ Here(r) = IF r \in Legacy THEN {"provision", "box"} ELSE {}
  <2>1. Stage(r) = IF r \in Legacy THEN "held" ELSE "absent"
    BY DEF Init, Stage
  <2>2. CASE r \in Legacy
    <3>1. PICK s : s \in spec[r]
      BY <2>2 DEF Init
    <3>2. Provision(Files(s), 1) \in provision[r]
      BY <3>1 DEF Init
    <3>3. [from |-> Payload(r, s, {}, NoPorts), ports |-> NoPorts,
           running |-> TRUE] \in box[r]
      BY <3>1 DEF Init
    <3> QED BY <1>1, <2>1, <2>2, <3>2, <3>3 DEF Here
  <2>3. CASE r \notin Legacy
    <3>1. spec[r] = {}
      BY <2>3 DEF Init
    <3>2. provision[r] = {} /\ box[r] = {}
      BY <3>1 DEF Init
    <3> QED BY <1>1, <2>1, <2>3, <3>2 DEF Here
  <2> QED BY <2>2, <2>3
<1> QED BY <1>2 DEF Lifecycle!Init

\* A reconcile that ends, with the machine as it was.
LEMMA EndContract ==
  ASSUME TypeOK, NEW R \in SUBSET Runtimes, Forget(R),
         UNCHANGED <<resource, volumes, provision>>,
         \A r \in Runtimes : box'[r] # {} <=> box[r] # {}
  PROVE  Lifecycle!Next
<1>1. SameHere(Runtimes)
  BY SameLabels, HereFrom DEF SameHere
<1>2. \A r \in Runtimes : pc'[r] = "idle" \/ pc'[r] = pc[r]
  BY DEF Forget
<1> QED BY <1>1, <1>2, PassesEnd DEF EnsureSteps

LEMMA FailedContract ==
  ASSUME TypeOK, NEW s \in Runtimes, Failed(s),
         UNCHANGED <<resource, box, volumes, provision>>
  PROVE  Lifecycle!Next
BY EndContract DEF Failed

\* One that goes on without having made or taken anything.
LEMMA GoneOnContract ==
  ASSUME TypeOK, NEW s \in Runtimes, NEW step, Goto(s, step),
         step \in EnsureSteps /\ resource[s] = "leaving" => pc[s] \in EnsureSteps,
         UNCHANGED <<resource, box, volumes, provision>>
  PROVE  Lifecycle!Next
<1>1. SameHere(Runtimes)
  BY SameLabels, HereFrom DEF SameHere
<1>2. \A r \in Runtimes : pc'[r] = IF r = s THEN step ELSE pc[r]
  BY DEF Goto, TypeOK
<1> QED BY <1>1, <1>2, PassesEnd

\* Others are not concerned.
LEMMA OthersStage ==
  ASSUME TypeOK, NEW s \in Runtimes, UNCHANGED resource,
         \A r \in Runtimes \ {s} : pc'[r] = pc[r]
  PROVE  SameStage(Runtimes \ {s})
BY DEF SameStage, Stage

LEMMA EnsureContract ==
  ASSUME TypeOK, TeardownInv, NEW s \in Runtimes,
         \/ ReadProvision(s) \/ WriteProvision(s) \/ Find(s) \/ PlanBox(s)
         \/ Start(s)
         \/ RemoveOld(s) \/ EnsureVolume(s) \/ Run(s) \/ Inspect(s)
  PROVE  Lifecycle!Next
<1> USE DEF declared, locals, budgets, engineVars
<1>1. CASE ReadProvision(s)
  BY <1>1, GoneOnContract DEF ReadProvision, EnsureSteps
<1>2. CASE WriteProvision(s)
  <2>1. CASE Failed(s) /\ UNCHANGED provision
    BY <1>2, <2>1, FailedContract DEF WriteProvision
  <2>2. ASSUME NEW p, provision' = [provision EXCEPT ![s] = {p}], Goto(s, "find")
        PROVE  Lifecycle!Next
    <3>1. UNCHANGED <<resource, box, volumes>> /\ pc[s] = "write"
      BY <1>2 DEF WriteProvision
    <3>2. \A r \in Runtimes : pc'[r] = IF r = s THEN "find" ELSE pc[r]
      BY <2>2 DEF Goto, TypeOK
    <3>3. Stage(s) \in {"held", "leaving"} /\ SameStage(Runtimes)
      BY <3>1, <3>2 DEF TeardownInv, RemoveOrder, Stage, SameStage, EnsureSteps
    <3>4. Here(s)' = Here(s) \cup {"provision"}
      BY <2>2, <3>1, SameLabels DEF Here, TypeOK
    <3>5. SameHere(Runtimes \ {s})
      BY <2>2, <3>1, SameLabels, HereFrom DEF SameHere, TypeOK
    <3>6. Lifecycle!Inform(s)
      BY <3>3, <3>4, <3>5, HereBecomes, StageKept DEF Lifecycle!Inform
    <3> QED BY <3>6 DEF Lifecycle!Next
  <2>3. \A t : \E p : Updated(copy[s], t) = {p}
    BY CopyUpdated
  <2> QED BY <1>2, <2>1, <2>2, <2>3 DEF WriteProvision
<1>3. CASE Find(s)
  BY <1>3, GoneOnContract DEF Find, EnsureSteps
<1>4. CASE PlanBox(s)
  <2>1. UNCHANGED <<resource, box, volumes, provision>> /\ pc[s] = "plan"
    BY <1>4 DEF PlanBox
  <2>2. \/ Failed(s)
        \/ \E labels : Done(s, labels, TRUE)
        \/ \E step \in EnsureSteps : Goto(s, step)
    BY <1>4 DEF PlanBox, Compare, Recreate, EnsureSteps
  <2>3. Forget({s}) \/ \E step \in EnsureSteps : Goto(s, step)
    BY <2>2 DEF Failed, Done
  <2> QED BY <2>1, <2>3, EndContract, GoneOnContract DEF EnsureSteps
<1>5. CASE Start(s)
  <2>1. Forget({s}) /\ UNCHANGED <<resource, volumes, provision>>
    BY <1>5 DEF Start, Done, Failed
  <2>2. \A r \in Runtimes : box'[r] # {} <=> box[r] # {}
    BY <1>5, SetRunningKeepsBoxes DEF Start
  <2> QED BY <2>1, <2>2, EndContract
<1>6. CASE RemoveOld(s)
  <2>1. UNCHANGED <<resource, volumes, provision>> /\ pc[s] = "replace"
    BY <1>6 DEF RemoveOld
  <2>2. \A r \in Runtimes : /\ pc'[r] = IF r = s THEN "volumes" ELSE pc[r]
                            /\ box'[r] = IF r = s THEN {} ELSE box[r]
    BY <1>6 DEF RemoveOld, RemoveBox, Goto, TypeOK, EngineTypeOK
  <2>3. SameStage(Runtimes)
    BY <2>1, <2>2 DEF SameStage, Stage, EnsureSteps
  <2>4. Here(s)' = Here(s) \ {"box"}
    BY <2>1, <2>2, SameLabels DEF Here
  <2>5. SameHere(Runtimes \ {s})
    BY <2>1, <2>2, SameLabels, HereFrom DEF SameHere
  <2> QED BY <2>3, <2>4, <2>5, Lost
<1>7. CASE EnsureVolume(s)
  <2>1. UNCHANGED <<resource, box, provision>> /\ pc[s] = "volumes"
    BY <1>7 DEF EnsureVolume
  <2>2. CASE Goto(s, "run") /\ UNCHANGED volumes
    BY <2>1, <2>2, GoneOnContract DEF EnsureSteps
  <2>3. ASSUME NEW v \in VolumeNames, CreateVolume(s, v), UNCHANGED pc
        PROVE  Lifecycle!Next
    <3>1. SameStage(Runtimes)
      BY <2>1, <2>3 DEF SameStage, Stage
    <3>2. \A r \in Runtimes \ {s} : Labelled(r)' = Labelled(r)
      BY <2>3, EngineNames DEF CreateVolume, Labelled, TypeOK, EngineTypeOK
    <3>3. SameHere(Runtimes \ {s})
      BY <2>1, <3>2, HereFrom DEF SameHere
    <3>4. Labelled(s) \subseteq Labelled(s)'
      BY <2>3, EngineNames DEF CreateVolume, Labelled, TypeOK, EngineTypeOK
    <3>5. CASE Labelled(s)' = {}
      <4>1. SameHere(Runtimes)
        BY <2>1, <3>3, <3>4, <3>5, HereFrom DEF SameHere
      <4> QED BY <2>1, <2>3, <4>1, PassesEnd
    <3>6. CASE Labelled(s)' # {}
      <4>1. Here(s)' = Here(s) \cup {"disks"}
        BY <2>1, <3>6 DEF Here
      <4>2. Stage(s) \in {"held", "leaving"} /\ "provision" \in Here(s)
        BY <2>1 DEF TeardownInv, RemoveOrder, Informed, Stage, Here, EnsureSteps
      <4>3. Lifecycle!Build(s, "disks")
        BY <3>1, <3>3, <4>1, <4>2, HereBecomes, StageKept DEF Lifecycle!Build
      <4> QED BY <4>3 DEF Lifecycle!Next
    <3> QED BY <3>5, <3>6
  <2>4. todo[s] \subseteq VolumeNames
    BY DEF TypeOK
  <2> QED BY <1>7, <2>2, <2>3, <2>4 DEF EnsureVolume
<1>8. CASE Run(s)
  <2>1. PICK w \in want[s] : RunBox(s, w.from, w.ports)
    BY <1>8 DEF Run
  <2>2. UNCHANGED <<resource, provision>> /\ pc[s] = "run"
    BY <1>8 DEF Run
  <2>3. \A r \in Runtimes \ {s} : box'[r] = box[r] /\ pc'[r] = pc[r]
    BY <1>8, <2>1 DEF Run, RunBox, Failed, Forget, Goto, TypeOK, EngineTypeOK
  <2>4. \A r \in Runtimes : Labelled(r)' = Labelled(r)
    BY <2>1, EngineNames DEF RunBox, Labelled, TypeOK, EngineTypeOK
  <2>5. box'[s] # {}
    BY <2>1 DEF RunBox, TypeOK, EngineTypeOK
  <2>6. Here(s)' = Here(s) \cup {"box"} /\ SameHere(Runtimes \ {s})
    BY <2>2, <2>3, <2>4, <2>5, HereFrom DEF SameHere, Here
  <2>7. SameStage(Runtimes \ {s})
    BY <2>2, <2>3, OthersStage
  <2>8. Stage(s) \in {"held", "leaving"} /\ "provision" \in Here(s)
    BY <2>2 DEF TeardownInv, RemoveOrder, Informed, Stage, Here, EnsureSteps
  <2>9. pc'[s] \in {"idle", "inspect"}
    BY <1>8 DEF Run, Failed, Forget, Goto, TypeOK
  <2>10. \/ SameStage(Runtimes)
         \/ Stage(s) = "leaving" /\ Stage(s)' = "closing"
    BY <2>2, <2>7, <2>9 DEF SameStage, Stage, EnsureSteps
  <2>11. Lifecycle!Build(s, "box")
    BY <2>6, <2>7, <2>8, <2>10, HereBecomes, StageKept, Turned
      DEF Lifecycle!Build
  <2> QED BY <2>11 DEF Lifecycle!Next
<1>9. CASE Inspect(s)
  <2>1. Forget({s}) /\ UNCHANGED <<resource, box, volumes, provision>>
    BY <1>9 DEF Inspect, Done, Failed
  <2> QED BY <2>1, EndContract
<1> QED BY <1>1, <1>2, <1>3, <1>4, <1>5, <1>6, <1>7, <1>8, <1>9

LEMMA RemoveContract ==
  ASSUME TypeOK, TeardownInv, NEW s \in Runtimes,
         Collect(s) \/ Rm(s) \/ Purge(s) \/ Unprovision(s) \/ Release(s)
  PROVE  Lifecycle!Next
<1> USE DEF declared, budgets, engineVars
<1>1. CASE Collect(s)
  BY <1>1, GoneOnContract DEF Collect, EnsureSteps
<1>2. CASE Rm(s)
  <2>1. UNCHANGED <<resource, volumes, provision>> /\ pc[s] = "rm"
    BY <1>2 DEF Rm
  <2>2. \A r \in Runtimes : /\ pc'[r] = IF r = s THEN "purge" ELSE pc[r]
                            /\ box'[r] = IF r = s THEN {} ELSE box[r]
    BY <1>2 DEF Rm, RemoveBox, Goto, TypeOK, EngineTypeOK
  <2>3. SameStage(Runtimes)
    BY <2>1, <2>2 DEF SameStage, Stage, EnsureSteps
  <2>4. Here(s)' = Here(s) \ {"box"}
    BY <2>1, <2>2, SameLabels DEF Here
  <2>5. SameHere(Runtimes \ {s})
    BY <2>1, <2>2, SameLabels, HereFrom DEF SameHere
  <2> QED BY <2>3, <2>4, <2>5, Lost
<1>3. CASE Purge(s)
  <2>1. UNCHANGED <<resource, box, provision>> /\ todo[s] \subseteq VolumeNames
    BY <1>3 DEF Purge, TypeOK
  <2>2. CASE Failed(s) /\ UNCHANGED volumes
    BY <2>1, <2>2, FailedContract
  <2>3. ASSUME NEW v \in VolumeNames, RemoveVolume(v), UNCHANGED pc
        PROVE  Lifecycle!Next
    BY <2>1, <2>3, DiskGone
  <2>4. CASE Goto(s, "unprovision") /\ UNCHANGED volumes
    BY <2>1, <2>4, GoneOnContract DEF EnsureSteps
  <2> QED BY <1>3, <2>1, <2>2, <2>3, <2>4 DEF Purge
<1>4. CASE Unprovision(s)
  <2>1. UNCHANGED <<resource, box, volumes>> /\ pc[s] = "unprovision"
    BY <1>4 DEF Unprovision
  <2>2. \A r \in Runtimes :
          /\ pc'[r] = IF r = s THEN "release" ELSE pc[r]
          /\ provision'[r] = IF r = s THEN {} ELSE provision[r]
    BY <1>4 DEF Unprovision, Goto, TypeOK
  <2>3. resource[s] = "leaving" /\ box[s] = {} /\ Labelled(s) = {}
    BY <2>1 DEF TeardownInv, RemoveOrder, RemoveSteps
  <2>4. Stage(s) = "closing" /\ SameStage(Runtimes)
    BY <2>1, <2>2, <2>3 DEF SameStage, Stage, EnsureSteps
  <2>5. Here(s) \subseteq {"provision"} /\ Here(s)' = {}
    BY <2>1, <2>2, <2>3, SameLabels DEF Here
  <2>6. SameHere(Runtimes \ {s})
    BY <2>1, <2>2, SameLabels, HereFrom DEF SameHere
  <2>7. Lifecycle!Withdraw(s)
    BY <2>4, <2>5, <2>6, HereBecomes, StageKept DEF Lifecycle!Withdraw
  <2> QED BY <2>7 DEF Lifecycle!Next
<1>5. CASE Release(s)
  <2>1. UNCHANGED <<box, volumes, provision>> /\ pc[s] = "release"
    BY <1>5 DEF Release
  <2>2. \A r \in Runtimes :
          /\ pc'[r] = IF r = s THEN "idle" ELSE pc[r]
          /\ resource'[r] = IF r = s THEN "absent" ELSE resource[r]
    BY <1>5 DEF Release, Forget, TypeOK
  <2>3. resource[s] = "leaving" /\ Here(s) = {}
    BY <2>1 DEF TeardownInv, RemoveOrder, RemoveSteps, Here
  <2>4. Stage(s) = "closing" /\ Stage(s)' = "absent"
    BY <2>1, <2>2, <2>3 DEF Stage, EnsureSteps
  <2>5. SameStage(Runtimes \ {s})
    BY <2>2 DEF SameStage, Stage
  <2>6. SameHere(Runtimes)
    BY <2>1, SameLabels, HereFrom DEF SameHere
  <2>7. Lifecycle!Dismiss(s)
    BY <2>3, <2>4, <2>5, <2>6, Turned, HereKept DEF Lifecycle!Dismiss
  <2> QED BY <2>7 DEF Lifecycle!Next
<1> QED BY <1>1, <1>2, <1>3, <1>4, <1>5

LEMMA BeginContract ==
  ASSUME TypeOK, TeardownInv, NEW s \in Runtimes, Begin(s)
  PROVE  Lifecycle!Next
<1> USE DEF declared, locals, budgets, engineVars
<1>1. CASE AddFinalizer(s)
  <2>1. /\ UNCHANGED <<box, volumes, provision, pc>>
        /\ resource[s] = "new" /\ resource' = [resource EXCEPT ![s] = "held"]
    BY <1>1 DEF AddFinalizer
  <2>2. Stage(s) = "new" /\ Stage(s)' = "held" /\ SameStage(Runtimes \ {s})
    BY <2>1 DEF Stage, SameStage, TypeOK
  <2>3. SameHere(Runtimes)
    BY <2>1, SameLabels, HereFrom DEF SameHere
  <2>4. Lifecycle!Hold(s)
    BY <2>2, <2>3, Turned, HereKept DEF Lifecycle!Hold
  <2> QED BY <2>4 DEF Lifecycle!Next
<1>2. CASE BeginEnsure(s)
  BY <1>2, GoneOnContract DEF BeginEnsure
<1>3. CASE BeginRemove(s)
  BY <1>3, GoneOnContract DEF BeginRemove, EnsureSteps
<1> QED BY <1>1, <1>2, <1>3 DEF Begin

LEMMA UserContract ==
  ASSUME TypeOK, TeardownInv, User
  PROVE  Lifecycle!Next
<1> USE DEF locals, engineVars
<1>1. UNCHANGED <<box, volumes, provision, pc>>
  BY DEF User
<1>2. SameHere(Runtimes)
  BY <1>1, SameLabels, HereFrom DEF SameHere
<1>3. CASE UNCHANGED resource
  BY <1>1, <1>2, <1>3, PassesEnd
<1>4. ASSUME NEW r \in Runtimes, NEW to, resource' = [resource EXCEPT ![r] = to],
             \/ resource[r] = "absent" /\ to = "new"
             \/ resource[r] = "new" /\ to = "absent"
             \/ resource[r] = "held" /\ to = "leaving"
      PROVE  Lifecycle!Next
  <2>1. SameStage(Runtimes \ {r}) /\ resource'[r] = to
    BY <1>1, <1>4 DEF SameStage, Stage, TypeOK
  <2>2. CASE resource[r] = "absent" /\ to = "new"
    <3>1. Stage(r) = "absent" /\ Stage(r)' = "new"
      BY <2>1, <2>2 DEF Stage
    <3>2. Lifecycle!Declare(r)
      BY <1>2, <2>1, <3>1, Turned, HereKept DEF Lifecycle!Declare
    <3> QED BY <3>2 DEF Lifecycle!Next
  <2>3. CASE resource[r] = "new" /\ to = "absent"
    <3>1. Stage(r) = "new" /\ Stage(r)' = "absent"
      BY <2>1, <2>3 DEF Stage
    <3>2. Lifecycle!Abandon(r)
      BY <1>2, <2>1, <3>1, Turned, HereKept DEF Lifecycle!Abandon
    <3> QED BY <3>2 DEF Lifecycle!Next
  <2>4. CASE resource[r] = "held" /\ to = "leaving"
    <3>1. Stage(r) = "held" /\ Stage(r)' \in {"leaving", "closing"}
      BY <2>1, <2>4 DEF Stage
    <3>2. Lifecycle!Leave(r)
      BY <1>2, <2>1, <3>1, Turned, HereKept DEF Lifecycle!Leave
    <3> QED BY <3>2 DEF Lifecycle!Next
  <2> QED BY <1>4, <2>2, <2>3, <2>4
<1>5. \/ UNCHANGED resource
      \/ \E r \in Runtimes : \E to :
           /\ resource' = [resource EXCEPT ![r] = to]
           /\ \/ resource[r] = "absent" /\ to = "new"
              \/ resource[r] = "new" /\ to = "absent"
              \/ resource[r] = "held" /\ to = "leaving"
  BY DEF User, Declare, Edit, Delete, AskMount, MoveDirectory
<1> QED BY <1>3, <1>4, <1>5

LEMMA MachineContract ==
  ASSUME TypeOK, TeardownInv, Machine
  PROVE  Lifecycle!Next
<1> USE DEF declared, locals
<1>1. UNCHANGED <<resource, provision, pc>>
  BY DEF Machine
<1>2. SameStage(Runtimes)
  BY <1>1 DEF SameStage, Stage
<1>3. ASSUME UNCHANGED volumes, \A r \in Runtimes : box'[r] # {} <=> box[r] # {}
      PROVE  Lifecycle!Next
  <2>1. SameHere(Runtimes)
    BY <1>1, <1>3, SameLabels, HereFrom DEF SameHere
  <2> QED BY <1>1, <2>1, PassesEnd
<1>4. ASSUME NEW s \in Runtimes, BoxStops(s) PROVE Lifecycle!Next
  BY <1>3, <1>4, SetRunningKeepsBoxes DEF BoxStops
<1>5. ASSUME NEW s \in Runtimes, BoxVanishes(s) PROVE Lifecycle!Next
  <2>1. UNCHANGED volumes
    BY <1>5 DEF BoxVanishes
  <2>2. \A r \in Runtimes : box'[r] = IF r = s THEN {} ELSE box[r]
    BY <1>5 DEF BoxVanishes, RemoveBox, TypeOK, EngineTypeOK
  <2>3. Here(s)' = Here(s) \ {"box"}
    BY <1>1, <2>1, <2>2, SameLabels DEF Here
  <2>4. SameHere(Runtimes \ {s})
    BY <1>1, <2>1, <2>2, SameLabels, HereFrom DEF SameHere
  <2> QED BY <1>2, <2>3, <2>4, Lost
<1>6. CASE VolumePruned
  BY <1>1, <1>6, DiskGone DEF VolumePruned
<1>7. CASE ForeignPort
  BY <1>3, <1>7 DEF ForeignPort
<1> QED BY <1>4, <1>5, <1>6, <1>7 DEF Machine

LEMMA OtherContract ==
  ASSUME TypeOK, TeardownInv,
         Crash \/ \E s \in Runtimes : CallFails(s) \/ InnerBeat(s)
  PROVE  Lifecycle!Next
<1> USE DEF declared, locals, budgets, engineVars
<1>1. CASE Crash
  BY <1>1, EndContract DEF Crash
<1>2. ASSUME NEW s \in Runtimes, CallFails(s) PROVE Lifecycle!Next
  BY <1>2, FailedContract DEF CallFails
<1>3. ASSUME NEW s \in Runtimes, InnerBeat(s) PROVE Lifecycle!Next
  <2>1. UNCHANGED <<resource, box, volumes, pc>>
    BY <1>3 DEF InnerBeat
  <2>2. \A r \in Runtimes : provision'[r] # {} <=> provision[r] # {}
    <3>1. DOMAIN provision = Runtimes
      BY DEF TypeOK
    <3>2. PICK o \in provision[s] :
            provision' = [provision EXCEPT ![s] = {Provision(o.files, o.beat + 1)}]
      BY <1>3 DEF InnerBeat
    <3> QED BY <3>1, <3>2
  <2>3. SameHere(Runtimes)
    BY <2>1, <2>2, SameLabels, HereFrom DEF SameHere
  <2> QED BY <2>1, <2>3, PassesEnd
<1> QED BY <1>1, <1>2, <1>3

-----------------------------------------------------------------------------
\* Whatever any number of workers, failures, crashes and other people do, a
\* Runtime goes through the steps of RuntimeLifecycle and no others: made only
\* while it is wanted, Provision first; only taken apart once the last pass from
\* before the deletion is over; dismissed when nothing is left
\* (runtime_controller.go:69-117, service.go:105-228).
THEOREM ContractKept == Spec => KeepsContract
<1>1. TypeOK /\ TeardownInv /\ [Next]_vars
        => [Lifecycle!Next]_(Lifecycle!vars)
  <2> SUFFICES ASSUME TypeOK, TeardownInv, [Next]_vars
               PROVE  [Lifecycle!Next]_(Lifecycle!vars)
    OBVIOUS
  <2>1. CASE UNCHANGED vars
    <3>1. SameStage(Runtimes) /\ SameHere(Runtimes)
      BY <2>1, SameLabels, HereFrom DEF vars, SameStage, SameHere, Stage
    <3> QED BY <3>1, StageKept, HereKept DEF Lifecycle!vars
  <2>2. ASSUME NEW s \in Runtimes, Begin(s) \/ Step(s) PROVE Lifecycle!Next
    BY <2>2, BeginContract, EnsureContract, RemoveContract DEF Step
  <2>3. CASE Next
    BY <2>2, <2>3, UserContract, MachineContract, OtherContract DEF Next
  <2> QED BY <2>1, <2>3
<1> QED
  BY <1>1, InitContract, TypeCorrect, TeardownCorrect, PTL
    DEF Spec, KeepsContract, Lifecycle!Spec

=============================================================================
