------------------------ MODULE RuntimeServiceProofs ------------------------
(***************************************************************************)
(* Theorems about RuntimeService for any set of runtimes, specs, mounts    *)
(* and ports, any number of workers and any budget of failures.            *)
(***************************************************************************)
EXTENDS RuntimeService, PortAllocationProofs

-----------------------------------------------------------------------------
(***************************************************************************)
(* What a plan is made of.                                                 *)
(***************************************************************************)
LEMMA SpecParts ==
  ASSUME NEW s \in Specs
  PROVE  /\ s.image \in Images
         /\ s.ports \subseteq PortSpec /\ s.extra \subseteq PortSpec
         /\ s.vols \subseteq Declared
BY ServiceConstants DEF IsSpec

LEMMA PayloadIsPayload ==
  ASSUME NEW r \in Runtimes, NEW s \in Specs, NEW binds \in SUBSET Binds,
         NEW ports
  PROVE  IsPayload(Payload(r, s, binds, ports))
<1>1. { VolumeName(r, v) : v \in s.vols } \subseteq VolumeNames
  BY SpecParts DEF VolumeNames
<1>2. MergePorts(s.ports, s.extra) \subseteq PortSpec
  BY SpecParts DEF MergePorts
<1> QED BY <1>1, <1>2, SpecParts DEF Payload, IsPayload

LEMMA PlannedIsPlan ==
  ASSUME NEW r \in Runtimes, NEW s \in Specs, NEW mounts \in SUBSET HostMounts,
         NEW ports, IsPortMap(ports)
  PROVE  IsPlan(Planned(r, s, mounts, ports))
<1>2. { Bind(m) : m \in mounts } \in SUBSET Binds
  BY DEF Binds
<1>1. Names(s.ports \cup s.extra) \subseteq PortName
  BY SpecParts, WantedNames DEF PortSpec
<1> QED BY <1>1, <1>2, PayloadIsPayload, LabelsArePortMap DEF Planned, IsPlan

LEMMA ProvisionIsProvision ==
  ASSUME NEW files, NEW beat \in Nat
  PROVE  IsProvision(Provision(files, beat))
BY DEF IsProvision, Provision

\* A Provision that is there is the only one.
LEMMA OneProvision ==
  ASSUME TypeOK, NEW r \in Runtimes, NEW p \in provision[r]
  PROVE  IsProvision(p) /\ provision[r] = {p}
BY DEF TypeOK

\* An update writes one Provision, with the beat of the one read if there was one.
LEMMA UpdatedIsProvision ==
  ASSUME NEW read, NEW s, \A o \in read : IsProvision(o) /\ read = {o}
  PROVE  \E p : /\ Updated(read, s) = {p} /\ IsProvision(p)
                /\ read # {} => \E o \in read : o.beat = p.beat
<1>1. CASE read = {}
  BY <1>1, ProvisionIsProvision DEF Updated
<1>2. ASSUME NEW o \in read
      PROVE  /\ Updated(read, s) = {Provision(Files(s), o.beat)}
             /\ IsProvision(Provision(Files(s), o.beat))
             /\ Provision(Files(s), o.beat).beat = o.beat
  <2>1. read = {o} /\ o.beat \in Nat
    BY <1>2 DEF IsProvision
  <2>2. Provision(Files(s), o.beat).beat = o.beat
    BY DEF Provision
  <2>3. { Provision(Files(s), p.beat) : p \in read } = {Provision(Files(s), o.beat)}
    BY <2>1
  <2> QED BY <2>1, <2>2, <2>3, ProvisionIsProvision DEF Updated
<1> QED BY <1>1, <1>2

LEMMA CopyUpdated ==
  ASSUME TypeOK, NEW r \in Runtimes
  PROVE  \A s : \E p : /\ Updated(copy[r], s) = {p} /\ IsProvision(p)
                       /\ copy[r] # {} => \E o \in copy[r] : o.beat = p.beat
<1>1. \A o \in copy[r] : IsProvision(o) /\ copy[r] = {o}
  BY DEF TypeOK
<1> QED BY <1>1, UpdatedIsProvision

LEMMA AddressesArePortMap ==
  ASSUME NEW labels, IsPortMap(labels)
  PROVE  IsPortMap(Addresses(labels))
BY DEF Addresses, IsPortMap

LEMMA LabelsOfIsPortMap ==
  ASSUME NEW found_, \A b \in found_ : IsBox(b)
  PROVE  IsPortMap(LabelsOf(found_))
<1>1. CASE found_ = {}
  BY <1>1, NoPortsIsPortMap DEF LabelsOf
<1>2. CASE found_ # {}
  <2>1. (CHOOSE b \in found_ : TRUE) \in found_
    BY <1>2
  <2> QED BY <1>2, <2>1 DEF LabelsOf, IsBox
<1> QED BY <1>1, <1>2

-----------------------------------------------------------------------------
(***************************************************************************)
(* Type correctness.                                                       *)
(***************************************************************************)
LEMMA InitTypeOK == Init => TypeOK
<1> SUFFICES ASSUME Init PROVE TypeOK
  OBVIOUS
<1>1. EngineTypeOK
  <2>1. ASSUME NEW r \in Runtimes, NEW b \in box[r]
        PROVE  IsBox(b) /\ box[r] = {b}
    <3>1. PICK s \in spec[r] :
            b = [from |-> Payload(r, s, {}, NoPorts), ports |-> NoPorts,
                 running |-> TRUE]
      BY <2>1 DEF Init
    <3>2. s \in Specs /\ spec[r] = {s}
      BY <3>1 DEF Init
    <3>3. IsPayload(Payload(r, s, {}, NoPorts))
      BY <3>2, PayloadIsPayload
    <3>4. IsBox(b)
      BY <3>1, <3>3, NoPortsIsPortMap DEF IsBox
    <3>5. box[r] = {b}
      BY <3>1, <3>2 DEF Init
    <3> QED BY <3>4, <3>5
  <2>2. volumes \in [VolumeNames -> Runtimes \cup {NoVolume, Unlabelled}]
    BY DEF Init
  <2> QED BY <2>1, <2>2 DEF Init, EngineTypeOK
<1>2. spec \in [Runtimes -> SUBSET Specs]
  BY DEF Init
<1>3. \A r \in Runtimes : IsStatus(status[r])
  BY NoPortsIsPortMap DEF Init, NoStatus, IsStatus
<1>4. moves \in 0..MaxMoves /\ faults \in 0..MaxFaults
  BY ServiceConstants DEF Init
<1>5. \A r \in Runtimes : InScope(r)
  BY DEF Init, InScope, EnsureSteps
<1>6. \A r \in Runtimes : spec[r] = {} <=> resource[r] = "absent"
  BY DEF Init
<1>7. \A r \in Runtimes : \A p \in provision[r] :
        IsProvision(p) /\ provision[r] = {p}
  <2> SUFFICES ASSUME NEW r \in Runtimes, NEW p \in provision[r]
               PROVE  IsProvision(p) /\ provision[r] = {p}
    OBVIOUS
  <2>1. PICK s \in spec[r] : p = Provision(Files(s), 1)
    BY DEF Init
  <2>2. spec[r] = {s}
    BY <2>1 DEF Init
  <2> QED BY <2>1, <2>2, ProvisionIsProvision DEF Init
<1> QED BY <1>1, <1>2, <1>3, <1>4, <1>5, <1>6, <1>7 DEF Init, TypeOK

\* A reconcile that ends leaves nothing of its locals behind.
LEMMA ForgetTyped ==
  ASSUME TypeOK, NEW R \in SUBSET Runtimes, Forget(R)
  PROVE  /\ seen' \in [Runtimes -> SUBSET Specs]
         /\ pc' \in [Runtimes -> {"idle"} \cup EnsureSteps \cup RemoveSteps]
         /\ todo' \in [Runtimes -> SUBSET VolumeNames]
         /\ copy'  = [r \in Runtimes |-> copy'[r]]
         /\ found' = [r \in Runtimes |-> found'[r]]
         /\ want'  = [r \in Runtimes |-> want'[r]]
         /\ \A r \in Runtimes :
              /\ \A p \in copy'[r] : IsProvision(p) /\ copy'[r] = {p}
              /\ \A b \in found'[r] : IsBox(b) /\ found'[r] = {b}
              /\ \A w \in want'[r] : IsPlan(w)
              /\ InScope(r)'
BY DEF TypeOK, Forget, InScope, EnsureSteps, RemoveSteps

\* The same, for the whole of TypeOK.
LEMMA EndTypeOK ==
  ASSUME TypeOK, NEW R \in SUBSET Runtimes, Forget(R),
         DOMAIN status' = Runtimes, \A s \in Runtimes : IsStatus(status'[s]),
         EngineTypeOK', UNCHANGED <<resource, spec, asked, provision>>,
         present' \subseteq Directories,
         moves' \in 0..MaxMoves, faults' \in 0..MaxFaults
  PROVE  TypeOK'
<1>1. \A r \in Runtimes : spec'[r] = {} <=> resource'[r] = "absent"
  BY DEF TypeOK
<1> QED BY <1>1, ForgetTyped DEF TypeOK

LEMMA Ranges ==
  ASSUME TypeOK
  PROVE  /\ EngineTypeOK /\ present \subseteq Directories
         /\ moves \in 0..MaxMoves /\ faults \in 0..MaxFaults
BY DEF TypeOK

LEMMA FailedTypeOK ==
  ASSUME TypeOK, NEW r \in Runtimes, Failed(r),
         EngineTypeOK', UNCHANGED <<resource, spec, asked, provision>>,
         present' \subseteq Directories,
         moves' \in 0..MaxMoves, faults' \in 0..MaxFaults
  PROVE  TypeOK'
<1>1. DOMAIN status' = Runtimes /\ \A s \in Runtimes : IsStatus(status'[s])
  BY DEF TypeOK, Failed, IsStatus
<1>2. Forget({r})
  BY DEF Failed
<1> QED BY <1>1, <1>2, EndTypeOK

LEMMA DoneTypeOK ==
  ASSUME TypeOK, NEW r \in Runtimes, NEW labels, IsPortMap(labels),
         NEW running, Done(r, labels, running),
         EngineTypeOK', UNCHANGED <<resource, spec, asked, provision>>,
         present' \subseteq Directories,
         moves' \in 0..MaxMoves, faults' \in 0..MaxFaults
  PROVE  TypeOK'
<1>1. DOMAIN status' = Runtimes /\ \A s \in Runtimes : IsStatus(status'[s])
  BY AddressesArePortMap DEF TypeOK, Done, IsStatus
<1>2. Forget({r})
  BY DEF Done
<1> QED BY <1>1, <1>2, EndTypeOK

LEMMA BoxIsTyped ==
  ASSUME TypeOK, NEW r \in Runtimes
  PROVE  /\ \A b \in box[r] : IsBox(b) /\ IsPortMap(b.ports)
         /\ IsPortMap(LabelsOf(found[r]))
BY LabelsOfIsPortMap DEF TypeOK, EngineTypeOK, IsBox

\* What docker run and docker start leave behind.
LEMMA RunBoxTyped ==
  ASSUME TypeOK, NEW r \in Runtimes, NEW w \in want[r], RunBox(r, w.from, w.ports),
         foreign' = foreign
  PROVE  EngineTypeOK'
<1>1. IsPlan(w)
  BY DEF TypeOK
<1>2. CanPublish(r, w.ports) \in BOOLEAN
  BY DEF CanPublish, Publishable
<1>3. IsBox([from |-> w.from, ports |-> w.ports, running |-> CanPublish(r, w.ports)])
  BY <1>1, <1>2 DEF IsPlan, IsBox
<1>4. volumes' \in [VolumeNames -> Runtimes \cup {NoVolume, Unlabelled}]
  BY DEF RunBox, TypeOK, EngineTypeOK
<1> QED BY <1>3, <1>4 DEF RunBox, TypeOK, EngineTypeOK

LEMMA SetRunningTyped ==
  ASSUME TypeOK, NEW r \in Runtimes, NEW running \in BOOLEAN,
         SetRunning(r, running), UNCHANGED <<volumes, foreign>>
  PROVE  EngineTypeOK'
<1>1. \A b \in box[r] : IsBox([b EXCEPT !.running = running])
  BY DEF TypeOK, EngineTypeOK, IsBox
<1> QED BY <1>1 DEF SetRunning, TypeOK, EngineTypeOK

LEMMA PlanBoxTypeOK ==
  ASSUME TypeOK, NEW r \in Runtimes, PlanBox(r)
  PROVE  TypeOK'
<1> USE DEF declared, budgets, engineVars
<1>1. UNCHANGED <<box, volumes, foreign, resource, spec, asked, present,
                  provision, moves, faults>>
  BY DEF PlanBox
<1>2. EngineTypeOK'
  BY <1>1 DEF TypeOK, EngineTypeOK
<1>3. CASE Failed(r)
  BY <1>1, <1>2, <1>3, FailedTypeOK, Ranges
<1>4. ASSUME NEW s \in seen[r], NEW ports \in
                Assignments(s.ports, LabelsOf(found[r]), OthersHosts(r), Listening),
             Compare(r, Planned(r, s, HonouredMounts(r), ports))
      PROVE  TypeOK'
  <2> DEFINE plan == Planned(r, s, HonouredMounts(r), ports)
  <2>1. s \in Specs /\ HonouredMounts(r) \in SUBSET HostMounts
    BY DEF TypeOK, HonouredMounts
  <2>2. IsPortMap(ports)
    BY <2>1, SpecParts, BoxIsTyped, AssignmentIsPortMap
  <2>3. IsPlan(plan)
    BY <2>1, <2>2, PlannedIsPlan
  <2> HIDE DEF plan
  <2>4. CASE \E b \in found[r] : Done(r, b.ports, TRUE)
    <3>1. \A b \in found[r] : IsPortMap(b.ports)
      BY DEF TypeOK, IsBox
    <3> QED BY <1>1, <1>2, <2>4, <3>1, DoneTypeOK, Ranges
  <2>5. CASE /\ Goto(r, "start") /\ pc[r] = "plan"
             /\ UNCHANGED <<status, copy, seen, found, want, todo>>
    BY <1>1, <1>2, <2>5 DEF Goto, TypeOK, InScope, EnsureSteps
  <2>6. CASE /\ Goto(r, IF found[r] = {} THEN "volumes" ELSE "replace")
             /\ want' = [want EXCEPT ![r] = {plan}]
             /\ todo' = [todo EXCEPT ![r] = plan.from.mounts]
             /\ UNCHANGED <<status, copy, seen, found>>
             /\ pc[r] = "plan"
    <3>1. plan.from.mounts \subseteq VolumeNames
      BY <2>3 DEF IsPlan, IsPayload
    <3> QED
      BY <1>1, <1>2, <2>3, <2>6, <3>1 DEF Goto, TypeOK, InScope, EnsureSteps
  <2>7. pc[r] = "plan"
    BY DEF PlanBox
  <2> QED BY <1>4, <2>4, <2>5, <2>6, <2>7 DEF Compare, Recreate, plan
<1> QED BY <1>3, <1>4 DEF PlanBox

LEMMA EnsureTypeOK ==
  ASSUME TypeOK, NEW r \in Runtimes,
         \/ ReadProvision(r) \/ WriteProvision(r) \/ Find(r) \/ PlanBox(r)
         \/ Start(r)
         \/ RemoveOld(r) \/ EnsureVolume(r) \/ Run(r) \/ Inspect(r)
  PROVE  TypeOK'
<1> USE DEF declared, locals, budgets, engineVars
<1>1. CASE ReadProvision(r)
  <2>1. \A q \in Runtimes : \A p \in copy'[q] : IsProvision(p) /\ copy'[q] = {p}
    BY <1>1 DEF ReadProvision, TypeOK
  <2>2. ASSUME NEW q \in Runtimes PROVE InScope(q)'
    <3>1. UNCHANGED <<seen, found, want, todo>> /\ InScope(q)
      BY <1>1 DEF ReadProvision, TypeOK
    <3>2. CASE q = r
      <4>1. pc[r] = "provision" /\ pc'[r] \in {"find", "write"}
            /\ (copy'[r] # {} => pc'[r] = "write" \/ copy'[r] = copy[r])
        BY <1>1 DEF ReadProvision, Goto, TypeOK
      <4> QED BY <3>1, <3>2, <4>1 DEF InScope, EnsureSteps
    <3>3. CASE q # r
      <4>1. pc'[q] = pc[q] /\ copy'[q] = copy[q]
        BY <1>1, <3>3 DEF ReadProvision, Goto, TypeOK
      <4> QED BY <3>1, <4>1 DEF InScope
    <3> QED BY <3>2, <3>3
  <2>3. EngineTypeOK' /\ copy' = [q \in Runtimes |-> copy'[q]]
    BY <1>1 DEF ReadProvision, TypeOK, EngineTypeOK
  <2> QED BY <1>1, <2>1, <2>2, <2>3 DEF ReadProvision, Goto, EnsureSteps, TypeOK
<1>9. CASE WriteProvision(r)
  <2>1. EngineTypeOK'
    BY <1>9 DEF WriteProvision, TypeOK, EngineTypeOK
  <2>2. CASE Failed(r) /\ UNCHANGED provision
    BY <1>9, <2>1, <2>2, FailedTypeOK, Ranges DEF WriteProvision
  <2>3. ASSUME NEW s, provision' = [provision EXCEPT ![r] = Updated(copy[r], s)],
               copy' = [copy EXCEPT ![r] = {}], Goto(r, "find"),
               UNCHANGED <<status, seen, found, want, todo>>
        PROVE  TypeOK'
    <3>2. PICK u : Updated(copy[r], s) = {u} /\ IsProvision(u)
      BY CopyUpdated
    <3>1. \A q \in Runtimes : \A p \in provision'[q] :
            IsProvision(p) /\ provision'[q] = {p}
      BY <2>3, <3>2, OneProvision DEF TypeOK
    <3> QED BY <1>9, <2>1, <2>3, <3>1
      DEF WriteProvision, Goto, TypeOK, InScope, EnsureSteps
  <2> QED BY <1>9, <2>2, <2>3 DEF WriteProvision
<1>2. CASE Find(r)
  BY <1>2 DEF Find, Goto, TypeOK, InScope, EnsureSteps, EngineTypeOK
<1>5. CASE RemoveOld(r)
  BY <1>5 DEF RemoveOld, RemoveBox, Goto, TypeOK, InScope, EnsureSteps, EngineTypeOK
<1>6. CASE EnsureVolume(r)
  BY <1>6 DEF EnsureVolume, CreateVolume, Goto, TypeOK, InScope, EnsureSteps, EngineTypeOK
<1>3. CASE PlanBox(r)
  BY <1>3, PlanBoxTypeOK
<1>4. CASE Start(r)
  <2>1. CASE SetRunning(r, TRUE) /\ Done(r, LabelsOf(found[r]), TRUE)
    <3>1. EngineTypeOK'
      BY <1>4, <2>1, SetRunningTyped DEF Start
    <3> QED
      BY <1>4, <2>1, <3>1, BoxIsTyped, DoneTypeOK, Ranges DEF Start
  <2>2. CASE Failed(r) /\ UNCHANGED box
    <3>1. EngineTypeOK'
      BY <1>4, <2>2 DEF Start, TypeOK, EngineTypeOK
    <3> QED BY <1>4, <2>2, <3>1, FailedTypeOK, Ranges DEF Start
  <2> QED BY <1>4, <2>1, <2>2 DEF Start
<1>7. CASE Run(r)
  <2>1. PICK w \in want[r] :
          /\ RunBox(r, w.from, w.ports)
          /\ present' = present \cup { b.host : b \in w.from.binds }
          /\ \/ /\ Goto(r, "inspect")
                /\ UNCHANGED <<status, copy, seen, found, want, todo>>
             \/ Failed(r)
    BY <1>7 DEF Run
  <2>2. EngineTypeOK'
    BY <1>7, <2>1, RunBoxTyped DEF Run
  <2>3. present' \subseteq Directories
    <3>1. w.from.binds \subseteq Binds
      BY DEF TypeOK, IsPlan, IsPayload
    <3>2. \A b \in Binds : b.host \in Directories
      BY DEF Binds, Bind, Directories
    <3> QED BY <2>1, <3>1, <3>2, Ranges
  <2>4. CASE Goto(r, "inspect") /\ UNCHANGED <<status, copy, seen, found, want, todo>>
    <3>1. todo[r] = {}
      BY <1>7 DEF Run, TypeOK, InScope
    <3> QED
      BY <1>7, <2>2, <2>3, <2>4 DEF Run, Goto, TypeOK, InScope, EnsureSteps
  <2>5. CASE Failed(r)
    BY <1>7, <2>2, <2>3, <2>5, FailedTypeOK, Ranges DEF Run
  <2> QED BY <2>1, <2>4, <2>5
<1>8. CASE Inspect(r)
  <2>1. EngineTypeOK'
    BY <1>8 DEF Inspect, TypeOK, EngineTypeOK
  <2>2. CASE \E b \in box[r] : Done(r, b.ports, b.running)
    BY <1>8, <2>1, <2>2, BoxIsTyped, DoneTypeOK, Ranges DEF Inspect
  <2>3. CASE Failed(r)
    BY <1>8, <2>1, <2>3, FailedTypeOK, Ranges DEF Inspect
  <2> QED BY <1>8, <2>2, <2>3 DEF Inspect
<1> QED BY <1>1, <1>2, <1>3, <1>4, <1>5, <1>6, <1>7, <1>8, <1>9

LEMMA RemoveTypeOK ==
  ASSUME TypeOK, NEW r \in Runtimes,
         Collect(r) \/ Rm(r) \/ Purge(r) \/ Unprovision(r) \/ Release(r)
  PROVE  TypeOK'
<1> USE DEF declared, budgets, engineVars
<1>1. CASE Collect(r)
  <2>1. \A b \in box[r] : b.from.mounts \subseteq VolumeNames
    BY BoxIsTyped DEF IsBox, IsPayload
  <2>2. Doomed(r) \subseteq VolumeNames
    BY <2>1 DEF Doomed, Mounted, Labelled
  <2> QED BY <1>1, <2>2
    DEF Collect, Goto, TypeOK, InScope, EnsureSteps, RemoveSteps, EngineTypeOK
<1>2. CASE Rm(r)
  BY <1>2 DEF Rm, RemoveBox, Goto, TypeOK, InScope, EnsureSteps, RemoveSteps,
              EngineTypeOK
<1>3. CASE Purge(r)
  <2>1. EngineTypeOK'
    BY <1>3 DEF Purge, RemoveVolume, TypeOK, EngineTypeOK
  <2>2. CASE Failed(r)
    BY <1>3, <2>1, <2>2, FailedTypeOK, Ranges DEF Purge
  <2>3. CASE ~Failed(r)
    BY <1>3, <2>1, <2>3
      DEF Purge, Goto, TypeOK, InScope, EnsureSteps, RemoveSteps
  <2> QED BY <2>2, <2>3
<1>4. CASE Unprovision(r)
  BY <1>4 DEF Unprovision, Goto, TypeOK, InScope, EnsureSteps, RemoveSteps,
              EngineTypeOK
<1>5. CASE Release(r)
  <2>1. EngineTypeOK'
    BY <1>5 DEF Release, TypeOK, EngineTypeOK
  <2>2. \A s \in Runtimes : IsStatus(status'[s])
    BY <1>5, NoPortsIsPortMap DEF Release, TypeOK, NoStatus, IsStatus
  <2>3. Forget({r})
    BY <1>5 DEF Release
  <2> QED BY <1>5, <2>1, <2>2, <2>3, ForgetTyped DEF Release, TypeOK
<1> QED BY <1>1, <1>2, <1>3, <1>4, <1>5

LEMMA InnerBeatTypeOK ==
  ASSUME TypeOK, NEW r \in Runtimes, InnerBeat(r)
  PROVE  TypeOK'
<1> USE DEF declared, locals, engineVars
<1> PICK o \in provision[r] :
      provision' = [provision EXCEPT ![r] = {Provision(o.files, o.beat + 1)}]
  BY DEF InnerBeat
<1>8. o.beat + 1 \in Nat
  BY OneProvision DEF IsProvision
<1>1. ASSUME NEW q \in Runtimes, NEW p \in provision'[q]
      PROVE  IsProvision(p) /\ provision'[q] = {p}
  <2> DOMAIN provision = Runtimes
    BY DEF TypeOK
  <2>1. CASE q # r
    <3>1. provision'[q] = provision[q]
      BY <2>1
    <3> QED BY <1>1, <3>1, OneProvision
  <2>2. CASE q = r
    <3>1. provision'[q] = {Provision(o.files, o.beat + 1)}
      BY <2>2
    <3> QED BY <1>1, <1>8, <3>1, ProvisionIsProvision
  <2> QED BY <2>1, <2>2
<1>2. UNCHANGED <<box, volumes, foreign>>
  BY DEF InnerBeat
<1>3. EngineTypeOK'
  BY <1>2 DEF TypeOK, EngineTypeOK
<1>4. DOMAIN provision' = Runtimes
  BY DEF TypeOK
<1>5. UNCHANGED <<resource, spec, asked, present, status, pc, copy, seen, found,
                  want, todo, faults>>
  BY DEF InnerBeat, Happens
<1>6. \A q \in Runtimes : InScope(q)'
  BY <1>5 DEF TypeOK, InScope
<1>7. moves' \in 0..MaxMoves
  BY ServiceConstants DEF InnerBeat, Happens, TypeOK
<1> QED BY <1>1, <1>3, <1>4, <1>5, <1>6, <1>7 DEF TypeOK

LEMMA BeginTypeOK ==
  ASSUME TypeOK, NEW r \in Runtimes, Begin(r)
  PROVE  TypeOK'
<1> USE DEF declared, locals, budgets, engineVars
<1>1. EngineTypeOK'
  <2>1. UNCHANGED <<box, volumes, foreign>>
    BY DEF Begin, AddFinalizer, BeginEnsure, BeginRemove
  <2> QED BY <2>1 DEF TypeOK, EngineTypeOK
<1>2. CASE AddFinalizer(r)
  BY <1>1, <1>2 DEF AddFinalizer, TypeOK, InScope
<1>3. CASE BeginEnsure(r)
  BY <1>1, <1>3 DEF BeginEnsure, MayStart, Goto, TypeOK, InScope, EnsureSteps
<1>4. CASE BeginRemove(r)
  BY <1>1, <1>4
    DEF BeginRemove, MayStart, Goto, TypeOK, InScope, EnsureSteps, RemoveSteps
<1> QED BY <1>2, <1>3, <1>4 DEF Begin

LEMMA FaultTypeOK ==
  ASSUME TypeOK, Crash \/ \E r \in Runtimes : CallFails(r)
  PROVE  TypeOK'
<1> USE DEF declared, budgets, engineVars
<1>1. EngineTypeOK'
  BY DEF Crash, CallFails, TypeOK, EngineTypeOK
<1>2. moves' \in 0..MaxMoves /\ faults' \in 0..MaxFaults
  BY ServiceConstants DEF Crash, CallFails, TypeOK
<1>3. CASE Crash
  BY <1>1, <1>2, <1>3, EndTypeOK DEF Crash, TypeOK
<1>4. ASSUME NEW r \in Runtimes, CallFails(r)
      PROVE  TypeOK'
  BY <1>1, <1>2, <1>4, FailedTypeOK, Ranges DEF CallFails
<1> QED BY <1>3, <1>4

LEMMA WorldTypeOK ==
  ASSUME TypeOK, User \/ Machine
  PROVE  TypeOK'
<1> USE DEF declared, locals, engineVars
<1>1. \A event : Happens(event) => /\ moves' \in 0..MaxMoves
                                   /\ faults' \in 0..MaxFaults
  BY ServiceConstants DEF Happens, TypeOK
<1>2. CASE User
  <2>1. EngineTypeOK'
    BY <1>2 DEF User, TypeOK, EngineTypeOK
  <2>2. ASSUME NEW r \in Runtimes, Declare(r) \/ Edit(r) \/ Delete(r)
        PROVE  TypeOK'
    <3>1. moves' \in 0..MaxMoves /\ faults' \in 0..MaxFaults
      BY <1>1, <2>2 DEF Declare, Edit, Delete
    <3>2. UNCHANGED <<provision, status, pc, copy, seen, found, want, todo>>
      BY <1>2 DEF User
    <3>3. CASE Declare(r)
      BY <2>1, <3>1, <3>2, <3>3 DEF Declare, TypeOK, InScope
    <3>4. CASE Edit(r)
      BY <2>1, <3>1, <3>2, <3>4 DEF Edit, TypeOK, InScope
    <3>5. CASE Delete(r)
      BY <2>1, <3>1, <3>2, <3>5 DEF Delete, TypeOK, InScope
    <3> QED BY <2>2, <3>3, <3>4, <3>5
  <2>3. ASSUME NEW r \in Runtimes, AskMount(r)
        PROVE  TypeOK'
    BY <1>1, <1>2, <2>1, <2>3 DEF User, AskMount, TypeOK, InScope
  <2>4. CASE MoveDirectory
    BY <1>1, <1>2, <2>1, <2>4 DEF User, MoveDirectory, TypeOK, InScope
  <2> QED BY <1>2, <2>2, <2>3, <2>4 DEF User
<1>3. CASE Machine
  <2>1. EngineTypeOK'
    <3>1. ASSUME NEW r \in Runtimes, BoxStops(r)
          PROVE  EngineTypeOK'
      BY <3>1, SetRunningTyped DEF BoxStops
    <3>2. ASSUME NEW r \in Runtimes, BoxVanishes(r)
          PROVE  EngineTypeOK'
      BY <3>2 DEF BoxVanishes, RemoveBox, TypeOK, EngineTypeOK
    <3>3. CASE VolumePruned
      <4>1. PICK v \in VolumeNames : RemoveVolume(v)
        BY <3>3 DEF VolumePruned
      <4>2. UNCHANGED <<box, foreign>>
        BY <3>3 DEF VolumePruned
      <4> QED BY <4>1, <4>2, Ranges DEF RemoveVolume, EngineTypeOK
    <3>4. CASE ForeignPort
      <4>1. UNCHANGED <<box, volumes>> /\ foreign' \subseteq foreign \cup HostPorts
        BY <3>4 DEF ForeignPort
      <4> QED BY <4>1, Ranges, ServiceConstants DEF EngineTypeOK
    <3> QED BY <1>3, <3>1, <3>2, <3>3, <3>4 DEF Machine
  <2>2. moves' \in 0..MaxMoves /\ faults' \in 0..MaxFaults
    BY <1>1, <1>3 DEF Machine, BoxStops, BoxVanishes, VolumePruned, ForeignPort
  <2> QED BY <1>3, <2>1, <2>2 DEF Machine, TypeOK, InScope
<1> QED BY <1>2, <1>3

LEMMA TypeStep ==
  ASSUME TypeOK, [Next]_vars
  PROVE  TypeOK'
<1>1. CASE UNCHANGED vars
  BY <1>1 DEF vars, TypeOK, EngineTypeOK, InScope
<1>2. ASSUME NEW r \in Runtimes, Step(r)
      PROVE  TypeOK'
  BY <1>2, EnsureTypeOK, RemoveTypeOK DEF Step
<1> QED
  BY <1>1, <1>2, BeginTypeOK, InnerBeatTypeOK, FaultTypeOK, WorldTypeOK DEF Next

\* Every state of every run is of the type the module declares.
THEOREM TypeCorrect == Spec => []TypeOK
<1>1. TypeOK /\ [Next]_vars => TypeOK'
  BY TypeStep
<1> QED BY <1>1, InitTypeOK, PTL DEF Spec

-----------------------------------------------------------------------------
(***************************************************************************)
(* Creation and removal: what holds of one runtime, whatever the others do. *)
(***************************************************************************)
Orderly(r) == RemoveOrder(r) /\ Informed(r) /\ Unheld(r)

LEMMA InitOrderly == Init => \A r \in Runtimes : Orderly(r)
<1> SUFFICES ASSUME Init, NEW r \in Runtimes PROVE Orderly(r)
  OBVIOUS
<1>1. \A v \in VolumeNames : volumes[v] # r
  BY EngineNames DEF Init
<1>2. box[r] # {} => provision[r] # {}
  <2>1. box[r] # {} => spec[r] # {}
    BY DEF Init
  <2>2. ASSUME NEW s \in spec[r] PROVE Provision(Files(s), 1) \in provision[r]
    BY DEF Init
  <2> QED BY <2>1, <2>2
<1>3. resource[r] \in {"absent", "new"} => spec[r] = {} /\ box[r] = {}
  BY DEF Init
<1> QED
  BY <1>1, <1>2, <1>3
    DEF Init, Orderly, RemoveOrder, Informed, Unheld, Labelled, RemoveSteps,
        EnsureSteps

\* A step of somebody else: it takes labels away from r at most.
LEMMA BystanderOrderly ==
  ASSUME NEW r \in Runtimes, Orderly(r), Labelled(r)' \subseteq Labelled(r),
         pc'[r] = pc[r], resource'[r] = resource[r], box'[r] = box[r],
         provision'[r] = provision[r], todo'[r] = todo[r]
  PROVE  Orderly(r)'
BY DEF Orderly, RemoveOrder, Informed, Unheld

LEMMA SameLabels ==
  ASSUME volumes' = volumes, NEW r \in Runtimes
  PROVE  Labelled(r)' = Labelled(r)
BY DEF Labelled

\* docker run gives no volume a label, docker volume rm takes one away, docker
\* volume create gives a new one that of the runtime it is called for.
LEMMA LabelsAfter ==
  ASSUME TypeOK, NEW r \in Runtimes
  PROVE  /\ \A v \in VolumeNames : RemoveVolume(v) =>
              Labelled(r)' = Labelled(r) \ {v}
         /\ \A s \in Runtimes : \A v \in VolumeNames :
              s # r /\ CreateVolume(s, v) => Labelled(r)' \subseteq Labelled(r)
         /\ \A s, payload, labels :
              RunBox(s, payload, labels) => Labelled(r)' \subseteq Labelled(r)
<1>1. \A v \in VolumeNames : RemoveVolume(v) => Labelled(r)' = Labelled(r) \ {v}
  BY EngineNames DEF RemoveVolume, Labelled, TypeOK, EngineTypeOK
<1>2. \A s \in Runtimes : \A v \in VolumeNames :
        s # r /\ CreateVolume(s, v) => Labelled(r)' \subseteq Labelled(r)
  BY EngineNames DEF CreateVolume, Labelled, TypeOK, EngineTypeOK
<1>3. \A s, payload, labels :
        RunBox(s, payload, labels) => Labelled(r)' \subseteq Labelled(r)
  BY EngineNames DEF RunBox, Labelled, TypeOK, EngineTypeOK
<1> QED BY <1>1, <1>2, <1>3

\* A reconcile that ends without having touched the machine.
LEMMA EndOrderly ==
  ASSUME TypeOK, NEW R \in SUBSET Runtimes, Forget(R),
         \A r \in Runtimes : Orderly(r),
         UNCHANGED <<resource, volumes, provision>>,
         \A r \in Runtimes : box'[r] # {} <=> box[r] # {}
  PROVE  \A r \in Runtimes : Orderly(r)'
<1> SUFFICES ASSUME NEW r \in Runtimes PROVE Orderly(r)'
  OBVIOUS
<1>1. Labelled(r)' = Labelled(r)
  BY SameLabels
<1>2. pc'[r] = "idle" \/ (pc'[r] = pc[r] /\ todo'[r] = todo[r])
  BY DEF Forget
<1> QED
  BY <1>1, <1>2
    DEF Orderly, RemoveOrder, Informed, Unheld, RemoveSteps, EnsureSteps

LEMMA FailedOrderly ==
  ASSUME TypeOK, NEW s \in Runtimes, Failed(s),
         \A r \in Runtimes : Orderly(r),
         UNCHANGED <<resource, volumes, provision, box>>
  PROVE  \A r \in Runtimes : Orderly(r)'
BY EndOrderly DEF Failed

LEMMA DoneOrderly ==
  ASSUME TypeOK, NEW s \in Runtimes, NEW labels, NEW running,
         Done(s, labels, running),
         \A r \in Runtimes : Orderly(r),
         UNCHANGED <<resource, volumes, provision>>,
         \A r \in Runtimes : box'[r] # {} <=> box[r] # {}
  PROVE  \A r \in Runtimes : Orderly(r)'
BY EndOrderly DEF Done

LEMMA SetRunningKeepsBoxes ==
  ASSUME TypeOK, NEW s \in Runtimes, NEW running, SetRunning(s, running)
  PROVE  \A r \in Runtimes : box'[r] # {} <=> box[r] # {}
<1> SUFFICES ASSUME NEW r \in Runtimes PROVE box'[r] # {} <=> box[r] # {}
  OBVIOUS
<1>1. CASE r # s
  BY <1>1 DEF SetRunning, TypeOK, EngineTypeOK
<1>2. CASE r = s
  <2>1. box'[s] = { [b EXCEPT !.running = running] : b \in box[s] }
    BY DEF SetRunning, TypeOK, EngineTypeOK
  <2> QED BY <1>2, <2>1
<1> QED BY <1>1, <1>2

LEMMA EnsureOrderly ==
  ASSUME TypeOK, NEW s \in Runtimes, \A r \in Runtimes : Orderly(r),
         \/ ReadProvision(s) \/ WriteProvision(s) \/ Find(s) \/ PlanBox(s)
         \/ Start(s)
         \/ RemoveOld(s) \/ EnsureVolume(s) \/ Run(s) \/ Inspect(s)
  PROVE  \A r \in Runtimes : Orderly(r)'
<1> USE DEF declared, locals, budgets, engineVars
<1>1. CASE ReadProvision(s)
  <2>1. ASSUME NEW r \in Runtimes, r # s PROVE Orderly(r)'
    BY <1>1, <2>1, SameLabels, BystanderOrderly DEF ReadProvision, Goto, TypeOK
  <2>2. pc'[s] = "write" \/ (pc'[s] = "find" /\ provision[s] # {})
    BY <1>1 DEF ReadProvision, Goto, TypeOK
  <2>3. Orderly(s)'
    BY <1>1, <2>2, SameLabels
      DEF ReadProvision, Orderly, RemoveOrder, Informed, Unheld, EnsureSteps,
          RemoveSteps
  <2> QED BY <2>1, <2>3
<1>9. CASE WriteProvision(s)
  <2>1. CASE Failed(s) /\ UNCHANGED provision
    BY <1>9, <2>1, FailedOrderly DEF WriteProvision
  <2>2. ASSUME NEW p, provision' = [provision EXCEPT ![s] = {p}],
               Goto(s, "find"), UNCHANGED todo
        PROVE  \A r \in Runtimes : Orderly(r)'
    <3>1. ASSUME NEW r \in Runtimes, r # s PROVE Orderly(r)'
      BY <1>9, <2>2, <3>1, SameLabels, BystanderOrderly
        DEF WriteProvision, Goto, TypeOK
    <3>2. pc'[s] = "find" /\ provision'[s] # {}
      BY <2>2 DEF Goto, TypeOK
    <3>3. Orderly(s)'
      BY <1>9, <2>2, <3>2, SameLabels
        DEF WriteProvision, Orderly, RemoveOrder, Informed, Unheld, EnsureSteps,
            RemoveSteps
    <3> QED BY <3>1, <3>3
  <2>3. \A t : \E p : Updated(copy[s], t) = {p}
    BY CopyUpdated
  <2> QED BY <1>9, <2>1, <2>2, <2>3 DEF WriteProvision
<1>2. CASE Find(s)
  <2>1. ASSUME NEW r \in Runtimes, r # s PROVE Orderly(r)'
    BY <1>2, <2>1, SameLabels, BystanderOrderly DEF Find, Goto, TypeOK
  <2>2. Orderly(s)'
    BY <1>2, SameLabels
      DEF Find, Goto, TypeOK, Orderly, RemoveOrder, Informed, Unheld,
          EnsureSteps, RemoveSteps
  <2> QED BY <2>1, <2>2
<1>3. CASE PlanBox(s)
  <2>1. UNCHANGED <<box, volumes, resource, provision>>
    BY <1>3 DEF PlanBox
  <2>2. CASE Failed(s)
    BY <2>1, <2>2, FailedOrderly
  <2>3. ASSUME NEW labels, Done(s, labels, TRUE)
        PROVE  \A r \in Runtimes : Orderly(r)'
    BY <2>1, <2>3, DoneOrderly
  <2>4. ASSUME NEW step \in {"start", "volumes", "replace"}, Goto(s, step),
               NEW work, todo' = [todo EXCEPT ![s] = work]
        PROVE  \A r \in Runtimes : Orderly(r)'
    <3>1. ASSUME NEW r \in Runtimes, r # s PROVE Orderly(r)'
      BY <2>1, <2>4, <3>1, SameLabels, BystanderOrderly DEF Goto, TypeOK
    <3>2. Orderly(s)'
      BY <1>3, <2>1, <2>4, SameLabels
        DEF PlanBox, Goto, TypeOK, Orderly, RemoveOrder, Informed, Unheld,
            EnsureSteps, RemoveSteps
    <3> QED BY <3>1, <3>2
  <2>5. \/ Failed(s)
        \/ \E labels : Done(s, labels, TRUE)
        \/ Goto(s, "start") /\ todo' = todo
        \/ /\ Goto(s, "volumes") \/ Goto(s, "replace")
           /\ \E work : todo' = [todo EXCEPT ![s] = work]
    BY <1>3 DEF PlanBox, Compare, Recreate
  <2>6. todo' = todo => todo' = [todo EXCEPT ![s] = todo[s]]
    BY DEF TypeOK
  <2> QED BY <2>2, <2>3, <2>4, <2>5, <2>6
<1>4. CASE Start(s)
  <2>1. CASE SetRunning(s, TRUE) /\ Done(s, LabelsOf(found[s]), TRUE)
    BY <1>4, <2>1, SetRunningKeepsBoxes, DoneOrderly DEF Start
  <2>2. CASE Failed(s) /\ UNCHANGED box
    BY <1>4, <2>2, FailedOrderly DEF Start
  <2> QED BY <1>4, <2>1, <2>2 DEF Start
<1>5. CASE RemoveOld(s)
  <2>1. ASSUME NEW r \in Runtimes, r # s PROVE Orderly(r)'
    BY <1>5, <2>1, SameLabels, BystanderOrderly
      DEF RemoveOld, RemoveBox, Goto, TypeOK, EngineTypeOK
  <2>2. Orderly(s)'
    BY <1>5, SameLabels
      DEF RemoveOld, RemoveBox, Goto, TypeOK, EngineTypeOK, Orderly, RemoveOrder,
          Informed, Unheld, EnsureSteps, RemoveSteps
  <2> QED BY <2>1, <2>2
<1>6. CASE EnsureVolume(s)
  <2>1. ASSUME NEW r \in Runtimes, r # s PROVE Orderly(r)'
    <3>1. Labelled(r)' \subseteq Labelled(r)
      BY <1>6, <2>1, LabelsAfter, SameLabels DEF EnsureVolume, TypeOK
    <3> QED
      BY <1>6, <2>1, <3>1, BystanderOrderly DEF EnsureVolume, Goto, TypeOK
  <2>2. Orderly(s)'
    BY <1>6
      DEF EnsureVolume, Goto, TypeOK, Orderly, RemoveOrder, Informed, Unheld,
          EnsureSteps, RemoveSteps
  <2> QED BY <2>1, <2>2
<1>7. CASE Run(s)
  <2>1. PICK w \in want[s] : RunBox(s, w.from, w.ports)
    BY <1>7 DEF Run
  <2>2. ASSUME NEW r \in Runtimes, r # s PROVE Orderly(r)'
    <3>1. Labelled(r)' \subseteq Labelled(r)
      BY <2>1, LabelsAfter
    <3>2. box'[r] = box[r] /\ pc'[r] = pc[r] /\ todo'[r] = todo[r]
      BY <1>7, <2>1, <2>2 DEF Run, RunBox, Failed, Forget, Goto, TypeOK, EngineTypeOK
    <3> QED BY <1>7, <3>1, <3>2, BystanderOrderly DEF Run
  <2>3. Orderly(s)'
    <3>1. pc'[s] \in {"idle", "inspect"}
      BY <1>7 DEF Run, Failed, Forget, Goto, TypeOK
    <3> QED
      BY <1>7, <3>1
        DEF Run, Orderly, RemoveOrder, Informed, Unheld, EnsureSteps, RemoveSteps
  <2> QED BY <2>2, <2>3
<1>8. CASE Inspect(s)
  <2>1. UNCHANGED <<box, volumes, resource, provision>>
    BY <1>8 DEF Inspect
  <2>2. CASE Failed(s)
    BY <2>1, <2>2, FailedOrderly
  <2>3. CASE \E b \in box[s] : Done(s, b.ports, b.running)
    BY <2>1, <2>3, DoneOrderly
  <2> QED BY <1>8, <2>2, <2>3 DEF Inspect
<1> QED BY <1>1, <1>2, <1>3, <1>4, <1>5, <1>6, <1>7, <1>8, <1>9

LEMMA RemoveOrderly ==
  ASSUME TypeOK, NEW s \in Runtimes, \A r \in Runtimes : Orderly(r),
         Collect(s) \/ Rm(s) \/ Purge(s) \/ Unprovision(s) \/ Release(s)
  PROVE  \A r \in Runtimes : Orderly(r)'
<1> USE DEF declared, locals, budgets, engineVars
<1>1. CASE Collect(s)
  <2>1. ASSUME NEW r \in Runtimes, r # s PROVE Orderly(r)'
    BY <1>1, <2>1, SameLabels, BystanderOrderly DEF Collect, Goto, TypeOK
  <2>2. Labelled(s)' = Labelled(s)
    BY <1>1, SameLabels DEF Collect
  <2>3. pc[s] = "collect" /\ pc'[s] = "rm" /\ Labelled(s) \subseteq todo'[s]
    BY <1>1 DEF Collect, Goto, Doomed, TypeOK
  <2>4. Orderly(s)'
    BY <1>1, <2>2, <2>3
      DEF Collect, Orderly, RemoveOrder, Informed, Unheld, EnsureSteps,
          RemoveSteps
  <2> QED BY <2>1, <2>4
<1>2. CASE Rm(s)
  <2>1. ASSUME NEW r \in Runtimes, r # s PROVE Orderly(r)'
    BY <1>2, <2>1, SameLabels, BystanderOrderly
      DEF Rm, RemoveBox, Goto, TypeOK, EngineTypeOK
  <2>2. Labelled(s)' = Labelled(s)
    BY <1>2, SameLabels DEF Rm
  <2>3. pc[s] = "rm" /\ pc'[s] = "purge" /\ box'[s] = {}
    BY <1>2 DEF Rm, RemoveBox, Goto, TypeOK, EngineTypeOK
  <2>4. Orderly(s)'
    BY <1>2, <2>2, <2>3
      DEF Rm, Orderly, RemoveOrder, Informed, Unheld, EnsureSteps, RemoveSteps
  <2> QED BY <2>1, <2>4
<1>3. CASE Purge(s)
  <2>1. UNCHANGED <<box, resource, provision>> /\ pc[s] = "purge"
    BY <1>3 DEF Purge
  <2>2. CASE Failed(s) /\ UNCHANGED volumes
    BY <2>1, <2>2, FailedOrderly
  <2>3. ASSUME NEW v \in VolumeNames, RemoveVolume(v),
               todo' = [todo EXCEPT ![s] = @ \ {v}], pc' = pc
        PROVE  \A r \in Runtimes : Orderly(r)'
    <3>1. \A r \in Runtimes : Labelled(r)' = Labelled(r) \ {v}
      BY <2>3, LabelsAfter
    <3>2. ASSUME NEW r \in Runtimes, r # s PROVE Orderly(r)'
      BY <2>1, <2>3, <3>1, <3>2, BystanderOrderly DEF TypeOK
    <3>3. todo'[s] = todo[s] \ {v}
      BY <2>3 DEF TypeOK
    <3>4. Orderly(s)'
      BY <2>1, <2>3, <3>1, <3>3
        DEF Orderly, RemoveOrder, Informed, Unheld, EnsureSteps, RemoveSteps
    <3> QED BY <3>2, <3>4
  <2>4. CASE todo[s] = {} /\ Goto(s, "unprovision") /\ UNCHANGED <<volumes, todo>>
    <3>1. ASSUME NEW r \in Runtimes, r # s PROVE Orderly(r)'
      BY <2>1, <2>4, <3>1, SameLabels, BystanderOrderly DEF Goto, TypeOK
    <3>2. Labelled(s)' = Labelled(s)
      BY <2>4, SameLabels
    <3>3. pc'[s] = "unprovision"
      BY <2>4 DEF Goto, TypeOK
    <3>4. Orderly(s)'
      BY <2>1, <2>4, <3>2, <3>3
        DEF Orderly, RemoveOrder, Informed, Unheld, EnsureSteps, RemoveSteps
    <3> QED BY <3>1, <3>4
  <2>5. \/ Failed(s) /\ UNCHANGED volumes
        \/ \E v \in todo[s] : /\ RemoveVolume(v) /\ pc' = pc
                               /\ todo' = [todo EXCEPT ![s] = @ \ {v}]
        \/ todo[s] = {} /\ Goto(s, "unprovision") /\ UNCHANGED <<volumes, todo>>
    BY <1>3 DEF Purge
  <2>6. todo[s] \subseteq VolumeNames
    BY DEF TypeOK
  <2> QED BY <2>2, <2>3, <2>4, <2>5, <2>6
<1>4. CASE Unprovision(s)
  <2>1. ASSUME NEW r \in Runtimes, r # s PROVE Orderly(r)'
    BY <1>4, <2>1, SameLabels, BystanderOrderly DEF Unprovision, Goto, TypeOK
  <2>2. Labelled(s)' = Labelled(s)
    BY <1>4, SameLabels DEF Unprovision
  <2>3. pc[s] = "unprovision" /\ pc'[s] = "release" /\ provision'[s] = {}
    BY <1>4 DEF Unprovision, Goto, TypeOK
  <2>4. Orderly(s)'
    BY <1>4, <2>2, <2>3
      DEF Unprovision, Orderly, RemoveOrder, Informed, Unheld, EnsureSteps,
          RemoveSteps
  <2> QED BY <2>1, <2>4
<1>5. CASE Release(s)
  <2>1. UNCHANGED <<box, volumes, provision>>
    BY <1>5 DEF Release
  <2>2. ASSUME NEW r \in Runtimes, r # s PROVE Orderly(r)'
    BY <1>5, <2>1, <2>2, SameLabels, BystanderOrderly DEF Release, Forget, TypeOK
  <2>3. Labelled(s)' = Labelled(s)
    BY <2>1, SameLabels
  <2>4. pc[s] = "release" /\ pc'[s] = "idle" /\ resource'[s] = "absent"
    BY <1>5 DEF Release, Forget, TypeOK
  <2>5. box[s] = {} /\ Labelled(s) = {} /\ provision[s] = {}
    BY <2>4 DEF Orderly, RemoveOrder
  <2>6. Orderly(s)'
    BY <2>1, <2>3, <2>4, <2>5
      DEF Orderly, RemoveOrder, Informed, Unheld, EnsureSteps, RemoveSteps
  <2> QED BY <2>2, <2>6
<1> QED BY <1>1, <1>2, <1>3, <1>4, <1>5

LEMMA BeginOrderly ==
  ASSUME TypeOK, NEW s \in Runtimes, \A r \in Runtimes : Orderly(r), Begin(s)
  PROVE  \A r \in Runtimes : Orderly(r)'
<1> USE DEF declared, locals, budgets, engineVars
<1>1. UNCHANGED <<box, volumes, provision, todo>> /\ pc[s] = "idle"
  BY DEF Begin, AddFinalizer, BeginEnsure, BeginRemove, MayStart
<1>2. \A r \in Runtimes : Labelled(r)' = Labelled(r)
  BY <1>1, SameLabels
<1>3. ASSUME NEW r \in Runtimes, r # s PROVE Orderly(r)'
  <2>1. pc'[r] = pc[r] /\ resource'[r] = resource[r]
    BY <1>3 DEF Begin, AddFinalizer, BeginEnsure, BeginRemove, Goto, TypeOK
  <2> QED BY <1>1, <1>2, <2>1, BystanderOrderly
<1>4. \/ pc'[s] = "idle" /\ resource'[s] = "held"
      \/ /\ resource'[s] = resource[s]
         /\ \/ pc'[s] = "provision" /\ resource[s] = "held"
            \/ pc'[s] = "collect" /\ resource[s] = "leaving"
  BY <1>1 DEF Begin, AddFinalizer, BeginEnsure, BeginRemove, Goto, TypeOK
<1>5. Orderly(s)'
  BY <1>1, <1>2, <1>4
    DEF Orderly, RemoveOrder, Informed, Unheld, EnsureSteps, RemoveSteps
<1> QED BY <1>3, <1>5

LEMMA InnerBeatOrderly ==
  ASSUME TypeOK, NEW s \in Runtimes, \A r \in Runtimes : Orderly(r), InnerBeat(s)
  PROVE  \A r \in Runtimes : Orderly(r)'
<1> USE DEF declared, locals, budgets, engineVars
<1> SUFFICES ASSUME NEW r \in Runtimes PROVE Orderly(r)'
  OBVIOUS
<1>1. UNCHANGED <<box, volumes, resource, pc, todo>>
  BY DEF InnerBeat
<1>2. provision'[r] # {} <=> provision[r] # {}
  <2> DOMAIN provision = Runtimes
    BY DEF TypeOK
  <2> PICK o \in provision[s] :
        provision' = [provision EXCEPT ![s] = {Provision(o.files, o.beat + 1)}]
    BY DEF InnerBeat
  <2>1. CASE r # s
    BY <2>1
  <2>2. CASE r = s
    BY <2>2
  <2> QED BY <2>1, <2>2
<1> QED
  BY <1>1, <1>2, SameLabels DEF Orderly, RemoveOrder, Informed, Unheld

LEMMA FaultOrderly ==
  ASSUME TypeOK, \A r \in Runtimes : Orderly(r),
         Crash \/ \E s \in Runtimes : CallFails(s)
  PROVE  \A r \in Runtimes : Orderly(r)'
<1> USE DEF declared, engineVars
<1>1. CASE Crash
  BY <1>1, EndOrderly DEF Crash
<1>2. ASSUME NEW s \in Runtimes, CallFails(s)
      PROVE  \A r \in Runtimes : Orderly(r)'
  BY <1>2, FailedOrderly DEF CallFails
<1> QED BY <1>1, <1>2

LEMMA UserOrderly ==
  ASSUME TypeOK, \A r \in Runtimes : Orderly(r), User
  PROVE  \A r \in Runtimes : Orderly(r)'
<1> USE DEF locals, engineVars
<1>1. UNCHANGED <<box, volumes, provision, pc, todo>>
  BY DEF User
<1>2. \A r \in Runtimes : Labelled(r)' = Labelled(r)
  BY <1>1, SameLabels
<1> SUFFICES ASSUME NEW r \in Runtimes PROVE Orderly(r)'
  OBVIOUS
<1>3. CASE resource'[r] = resource[r]
  BY <1>1, <1>2, <1>3, BystanderOrderly
<1>4. CASE resource[r] = "absent" /\ resource'[r] = "new"
  BY <1>1, <1>2, <1>4 DEF Orderly, RemoveOrder, Informed, Unheld
<1>5. CASE resource[r] = "new" /\ resource'[r] = "absent"
  BY <1>1, <1>2, <1>5 DEF Orderly, RemoveOrder, Informed, Unheld
<1>6. CASE resource[r] = "held" /\ resource'[r] = "leaving"
  BY <1>1, <1>2, <1>6 DEF Orderly, RemoveOrder, Informed, Unheld
<1>7. \/ resource'[r] = resource[r]
      \/ resource[r] = "absent" /\ resource'[r] = "new"
      \/ resource[r] = "new" /\ resource'[r] = "absent"
      \/ resource[r] = "held" /\ resource'[r] = "leaving"
  BY DEF User, Declare, Edit, Delete, AskMount, MoveDirectory, TypeOK
<1> QED BY <1>3, <1>4, <1>5, <1>6, <1>7

LEMMA MachineOrderly ==
  ASSUME TypeOK, \A r \in Runtimes : Orderly(r), Machine
  PROVE  \A r \in Runtimes : Orderly(r)'
<1> USE DEF declared, locals
<1>1. UNCHANGED <<resource, provision, pc, todo>>
  BY DEF Machine
<1> SUFFICES ASSUME NEW r \in Runtimes PROVE Orderly(r)'
  OBVIOUS
<1>2. Labelled(r)' \subseteq Labelled(r)
  <2>1. CASE volumes' = volumes
    BY <2>1, SameLabels
  <2>2. CASE VolumePruned
    BY <2>2, LabelsAfter DEF VolumePruned
  <2> QED
    BY <2>1, <2>2 DEF Machine, BoxStops, BoxVanishes, ForeignPort
<1>3. box'[r] # {} => box[r] # {}
  <2>1. ASSUME NEW s \in Runtimes, BoxStops(s) PROVE box'[r] # {} => box[r] # {}
    BY <2>1, SetRunningKeepsBoxes DEF BoxStops
  <2>2. ASSUME NEW s \in Runtimes, BoxVanishes(s)
        PROVE  box'[r] # {} => box[r] # {}
    BY <2>2 DEF BoxVanishes, RemoveBox, TypeOK, EngineTypeOK
  <2> QED BY <2>1, <2>2 DEF Machine, VolumePruned, ForeignPort
<1> QED
  BY <1>1, <1>2, <1>3 DEF Orderly, RemoveOrder, Informed, Unheld

-----------------------------------------------------------------------------
LEMMA TeardownStep ==
  ASSUME TypeOK, TeardownInv, [Next]_vars
  PROVE  TeardownInv'
<1> SUFFICES \A r \in Runtimes : Orderly(r)'
  BY DEF TeardownInv, Orderly
<1>1. \A r \in Runtimes : Orderly(r)
  BY DEF TeardownInv, Orderly
<1>2. CASE UNCHANGED vars
  BY <1>1, <1>2 DEF vars, Orderly, RemoveOrder, Informed, Unheld, Labelled
<1>3. ASSUME NEW s \in Runtimes, Step(s)
      PROVE  \A r \in Runtimes : Orderly(r)'
  BY <1>1, <1>3, EnsureOrderly, RemoveOrderly DEF Step
<1> QED
  BY <1>1, <1>2, <1>3, BeginOrderly, InnerBeatOrderly, FaultOrderly, UserOrderly,
     MachineOrderly
    DEF Next

\* Whatever fails, crashes or is meddled with on the way, a reconcile in flight
\* belongs to a Runtime that carries the finalizer, and each step of a removal
\* finds gone what the steps before it were to remove (service.go:211-228,
\* runtime_controller.go:69-117).
THEOREM TeardownCorrect == Spec => []TeardownInv
<1>1. Init => TeardownInv
  BY InitOrderly DEF TeardownInv, Orderly
<1>2. TypeOK /\ TeardownInv /\ [Next]_vars => TeardownInv'
  BY TeardownStep
<1> QED BY <1>1, <1>2, TypeCorrect, PTL DEF Spec

\* A Runtime without a finalizer has no container, no labelled volume and no
\* Provision on this machine.
THEOREM NothingIsLeft == Spec => []LeavesNothing
<1>1. TeardownInv => LeavesNothing
  BY DEF TeardownInv, LeavesNothing
<1> QED BY <1>1, TeardownCorrect, PTL

\* A container exists only next to the Provision the agent inside it reads.
THEOREM ProvisionSurroundsBox == Spec => []ProvisionAroundBox
<1>1. TeardownInv => ProvisionAroundBox
  BY DEF TeardownInv, ProvisionAroundBox, Informed
<1> QED BY <1>1, TeardownCorrect, PTL

=============================================================================
