------------------------- MODULE RuntimeKeepsProofs -------------------------
(***************************************************************************)
(* What a runtime keeps: its disks, for as long as it is not deleted, and   *)
(* what the agent in its box has written into its Provision.               *)
(***************************************************************************)
EXTENDS RuntimeServiceProofs

-----------------------------------------------------------------------------
(***************************************************************************)
(* Disks.  Everything a runtime mounts, plans to mount, is about to create *)
(* or to remove, or has its label on, carries one of its own names.        *)
(***************************************************************************)
OwnNames(r) == { VolumeName(r, d) : d \in Declared }

\* No two runtimes come to one volume name: VolumeName joins with a dash, so it
\* takes a name with a dash in it on either side.
NamesApart ==
  \A r, s \in Runtimes : \A d, e \in Declared :
    VolumeName(r, d) = VolumeName(s, e) => r = s

DisksOf(r) ==
  /\ Mounted(r) \subseteq OwnNames(r)
  /\ \A w \in want[r] : w.from.mounts \subseteq OwnNames(r)
  /\ todo[r] \subseteq OwnNames(r)
  /\ Labelled(r) \subseteq OwnNames(r)
  /\ \A v \in Mounted(r) : volumes[v] # NoVolume

DiskInv == \A r \in Runtimes : DisksOf(r)

LEMMA MountedNames ==
  ASSUME TypeOK, NEW r \in Runtimes
  PROVE  Mounted(r) \subseteq VolumeNames
<1>1. \A b \in box[r] : b.from.mounts \subseteq VolumeNames
  BY BoxIsTyped DEF IsBox, IsPayload
<1> QED BY <1>1 DEF Mounted

LEMMA PayloadMountsOwn ==
  ASSUME NEW r \in Runtimes, NEW s \in Specs, NEW binds, NEW ports
  PROVE  Payload(r, s, binds, ports).mounts \subseteq OwnNames(r)
BY SpecParts DEF Payload, OwnNames

LEMMA InitDisks == Init => DiskInv
<1> SUFFICES ASSUME Init, NEW r \in Runtimes PROVE DisksOf(r)
  BY DEF DiskInv
<1>1. Mounted(r) \subseteq OwnNames(r)
  <2>1. ASSUME NEW b \in box[r] PROVE b.from.mounts \subseteq OwnNames(r)
    <3>1. PICK s \in spec[r] : b.from = Payload(r, s, {}, NoPorts)
      BY DEF Init
    <3>2. s \in Specs /\ spec[r] = {s}
      BY <3>1 DEF Init
    <3> QED BY <3>1, <3>2, PayloadMountsOwn
  <2> QED BY <2>1 DEF Mounted
<1>2. \A v \in VolumeNames : volumes[v] # r
  BY EngineNames DEF Init
<1>3. \A v \in Mounted(r) : volumes[v] # NoVolume
  <2>1. Mounted(r) \subseteq VolumeNames
    BY <1>1 DEF OwnNames, VolumeNames
  <2>2. \A v \in Mounted(r) : InUse(v)
    BY DEF InUse
  <2> QED BY <2>1, <2>2, EngineNames DEF Init
<1> QED BY <1>1, <1>2, <1>3 DEF Init, DisksOf, Labelled

\* Nothing happens to containers and volumes, and no more is planned.
LEMMA QuietDisks ==
  ASSUME DiskInv, UNCHANGED <<box, volumes>>,
         \A r \in Runtimes : want'[r] \subseteq want[r] /\ todo'[r] \subseteq todo[r]
  PROVE  DiskInv'
<1> SUFFICES ASSUME NEW r \in Runtimes PROVE DisksOf(r)'
  BY DEF DiskInv
<1>1. Mounted(r)' = Mounted(r) /\ Labelled(r)' = Labelled(r)
  BY DEF Mounted, Labelled
<1> QED BY <1>1 DEF DiskInv, DisksOf, OwnNames

LEMMA ForgetIsQuiet ==
  ASSUME TypeOK, NEW R \in SUBSET Runtimes, Forget(R)
  PROVE  \A r \in Runtimes : want'[r] \subseteq want[r] /\ todo'[r] \subseteq todo[r]
BY DEF Forget

LEMMA EndDisks ==
  ASSUME TypeOK, DiskInv, NEW s \in Runtimes, UNCHANGED <<box, volumes>>,
         Failed(s) \/ \E labels, running : Done(s, labels, running)
  PROVE  DiskInv'
<1>1. Forget({s})
  BY DEF Failed, Done
<1> QED BY <1>1, ForgetIsQuiet, QuietDisks

\* A container started or stopped mounts what it mounted.
LEMMA RunningMounts ==
  ASSUME TypeOK, NEW s \in Runtimes, NEW running, SetRunning(s, running)
  PROVE  \A r \in Runtimes : Mounted(r)' = Mounted(r)
<1> SUFFICES ASSUME NEW r \in Runtimes PROVE Mounted(r)' = Mounted(r)
  OBVIOUS
<1>1. DOMAIN box = Runtimes
  BY DEF TypeOK, EngineTypeOK
<1>2. CASE r # s
  BY <1>1, <1>2 DEF SetRunning, Mounted
<1>3. CASE r = s
  <2>1. box'[s] = { [b EXCEPT !.running = running] : b \in box[s] }
    BY <1>1 DEF SetRunning
  <2>2. \A b \in box[s] : [b EXCEPT !.running = running].from = b.from
    <3>1. \A b \in box[s] : IsBox(b)
      BY DEF TypeOK, EngineTypeOK
    <3> QED BY <3>1 DEF IsBox
  <2>3. \A v : v \in Mounted(s)' <=> v \in Mounted(s)
    <3>1. \A v : v \in Mounted(s) <=> \E b \in box[s] : v \in b.from.mounts
      BY DEF Mounted
    <3>2. \A v : v \in Mounted(s)' <=> \E b \in box'[s] : v \in b.from.mounts
      BY DEF Mounted
    <3> QED BY <2>1, <2>2, <3>1, <3>2
  <2> QED BY <1>3, <2>3
<1> QED BY <1>2, <1>3

LEMMA StartStopDisks ==
  ASSUME TypeOK, DiskInv, NEW s \in Runtimes, NEW running, SetRunning(s, running),
         UNCHANGED volumes,
         \A r \in Runtimes : want'[r] \subseteq want[r] /\ todo'[r] \subseteq todo[r]
  PROVE  DiskInv'
<1> SUFFICES ASSUME NEW r \in Runtimes PROVE DisksOf(r)'
  BY DEF DiskInv
<1>1. Mounted(r)' = Mounted(r) /\ Labelled(r)' = Labelled(r)
  BY RunningMounts DEF Labelled
<1> QED BY <1>1 DEF DiskInv, DisksOf, OwnNames

LEMMA RemovedBoxDisks ==
  ASSUME TypeOK, DiskInv, NEW s \in Runtimes, RemoveBox(s),
         UNCHANGED <<volumes, want, todo>>
  PROVE  DiskInv'
<1> SUFFICES ASSUME NEW r \in Runtimes PROVE DisksOf(r)'
  BY DEF DiskInv
<1>1. Mounted(r)' \subseteq Mounted(r) /\ Labelled(r)' = Labelled(r)
  BY DEF RemoveBox, Mounted, Labelled, TypeOK, EngineTypeOK
<1> QED BY <1>1 DEF DiskInv, DisksOf, OwnNames

\* A volume nobody mounts goes.
LEMMA RemovedVolumeDisks ==
  ASSUME TypeOK, DiskInv, NEW u \in VolumeNames, ~InUse(u), RemoveVolume(u),
         UNCHANGED <<box, want>>, \A r \in Runtimes : todo'[r] \subseteq todo[r]
  PROVE  DiskInv'
<1> SUFFICES ASSUME NEW r \in Runtimes PROVE DisksOf(r)'
  BY DEF DiskInv
<1>1. Mounted(r)' = Mounted(r) /\ Labelled(r)' \subseteq Labelled(r)
  BY LabelsAfter DEF Mounted
<1>2. \A v \in Mounted(r) : volumes'[v] # NoVolume
  BY DEF RemoveVolume, InUse, DiskInv, DisksOf, TypeOK, EngineTypeOK
<1> QED BY <1>1, <1>2 DEF DiskInv, DisksOf, OwnNames

LEMMA PlannedDisks ==
  ASSUME TypeOK, DiskInv, NEW s \in Runtimes, PlanBox(s)
  PROVE  DiskInv'
<1> USE DEF engineVars
<1>1. UNCHANGED <<box, volumes>>
  BY DEF PlanBox
<1>2. CASE Failed(s) \/ \E labels, running : Done(s, labels, running)
  BY <1>1, <1>2, EndDisks
<1>3. CASE UNCHANGED <<want, todo>>
  BY <1>1, <1>3, QuietDisks
<1>4. ASSUME NEW t \in seen[s], NEW ports,
             want' = [want EXCEPT ![s] = {Planned(s, t, HonouredMounts(s), ports)}],
             todo' = [todo EXCEPT ![s] =
                        Planned(s, t, HonouredMounts(s), ports).from.mounts]
      PROVE  DiskInv'
  <2> DEFINE plan == Planned(s, t, HonouredMounts(s), ports)
  <2>1. plan.from.mounts \subseteq OwnNames(s)
    <3>1. t \in Specs
      BY DEF TypeOK
    <3> QED BY <3>1, PayloadMountsOwn DEF Planned
  <2> HIDE DEF plan
  <2> SUFFICES ASSUME NEW r \in Runtimes PROVE DisksOf(r)'
    BY DEF DiskInv
  <2>2. Mounted(r)' = Mounted(r) /\ Labelled(r)' = Labelled(r)
    BY <1>1 DEF Mounted, Labelled
  <2>3. DOMAIN want = Runtimes /\ DOMAIN todo = Runtimes
    BY DEF TypeOK
  <2>4. /\ \A w \in want'[r] : w.from.mounts \subseteq OwnNames(r)
        /\ todo'[r] \subseteq OwnNames(r)
    <3>1. want' = [want EXCEPT ![s] = {plan}]
          /\ todo' = [todo EXCEPT ![s] = plan.from.mounts]
      BY <1>4 DEF plan
    <3>2. CASE r = s
      BY <2>1, <2>3, <3>1, <3>2
    <3>3. CASE r # s
      BY <2>3, <3>1, <3>3 DEF DiskInv, DisksOf
    <3> QED BY <3>2, <3>3
  <2> QED BY <1>1, <2>2, <2>4 DEF DiskInv, DisksOf, OwnNames
<1>5. \/ Failed(s) \/ \E labels, running : Done(s, labels, running)
      \/ UNCHANGED <<want, todo>>
      \/ \E t \in seen[s] : \E ports :
           /\ want' = [want EXCEPT ![s] = {Planned(s, t, HonouredMounts(s), ports)}]
           /\ todo' = [todo EXCEPT ![s] =
                         Planned(s, t, HonouredMounts(s), ports).from.mounts]
  BY DEF PlanBox, Compare, Recreate
<1> QED BY <1>2, <1>3, <1>4, <1>5

\* docker volume create labels only what the runtime itself is to mount.
LEMMA CreatedVolumeDisks ==
  ASSUME TypeOK, DiskInv, NEW s \in Runtimes, EnsureVolume(s)
  PROVE  DiskInv'
<1>1. box' = box /\ want' = want /\ DOMAIN todo = Runtimes
  BY DEF EnsureVolume, TypeOK
<1>2. CASE \E v \in todo[s] : CreateVolume(s, v) /\ todo' = [todo EXCEPT ![s] = @ \ {v}]
  <2>1. PICK v \in todo[s] : /\ CreateVolume(s, v)
                             /\ todo' = [todo EXCEPT ![s] = @ \ {v}]
    BY <1>2
  <2>2. v \in OwnNames(s) /\ v \in VolumeNames
    BY DEF DiskInv, DisksOf, TypeOK
  <2> SUFFICES ASSUME NEW r \in Runtimes PROVE DisksOf(r)'
    BY DEF DiskInv
  <2>3. /\ Mounted(r)' = Mounted(r)
        /\ todo'[r] \subseteq todo[r]
    BY <1>1, <2>1 DEF Mounted
  <2>4. /\ DOMAIN volumes = VolumeNames
        /\ \A u \in VolumeNames : u # v => volumes'[u] = volumes[u]
        /\ volumes'[v] = IF volumes[v] = NoVolume THEN s ELSE volumes[v]
    BY <2>1, <2>2 DEF CreateVolume, TypeOK, EngineTypeOK
  <2>5. Labelled(r)' \subseteq OwnNames(r)
    BY <2>2, <2>4 DEF Labelled, DiskInv, DisksOf
  <2>6. \A u \in Mounted(r) : volumes'[u] # NoVolume
    <3>1. Mounted(r) \subseteq VolumeNames
      BY MountedNames
    <3> QED BY <2>4, <3>1, EngineNames DEF DiskInv, DisksOf
  <2> QED BY <1>1, <2>3, <2>5, <2>6 DEF DiskInv, DisksOf, OwnNames
<1>3. CASE UNCHANGED <<volumes, todo>>
  BY <1>1, <1>3, QuietDisks
<1> QED BY <1>2, <1>3 DEF EnsureVolume

LEMMA RunDisks ==
  ASSUME TypeOK, DiskInv, NEW s \in Runtimes, Run(s)
  PROVE  DiskInv'
<1>1. PICK w \in want[s] : RunBox(s, w.from, w.ports)
  BY DEF Run
<1>2. \A r \in Runtimes : want'[r] \subseteq want[r] /\ todo'[r] \subseteq todo[r]
  <2>1. CASE Failed(s)
    BY <2>1, ForgetIsQuiet DEF Failed
  <2>2. CASE UNCHANGED <<want, todo>>
    BY <2>2
  <2> QED BY <2>1, <2>2 DEF Run
<1> SUFFICES ASSUME NEW r \in Runtimes PROVE DisksOf(r)'
  BY DEF DiskInv
<1>3. DOMAIN box = Runtimes /\ DOMAIN volumes = VolumeNames
  BY DEF TypeOK, EngineTypeOK
<1>4. \A v \in VolumeNames :
        volumes'[v] = IF v \in w.from.mounts /\ volumes[v] = NoVolume
                      THEN Unlabelled ELSE volumes[v]
  BY <1>1 DEF RunBox
<1>5. Mounted(r)' = IF r = s THEN w.from.mounts ELSE Mounted(r)
  <2>1. CASE r # s
    BY <1>1, <1>3, <2>1 DEF RunBox, Mounted
  <2>2. CASE r = s
    <3>1. box'[r] = { [from |-> w.from, ports |-> w.ports,
                       running |-> CanPublish(s, w.ports)] }
      BY <1>1, <1>3, <2>2 DEF RunBox
    <3> QED BY <2>2, <3>1 DEF Mounted
  <2> QED BY <2>1, <2>2
<1>6. w.from.mounts \subseteq OwnNames(s) /\ w.from.mounts \subseteq VolumeNames
  <2>1. IsPlan(w)
    BY DEF TypeOK
  <2> QED BY <2>1 DEF IsPlan, IsPayload, DiskInv, DisksOf
<1>7. Labelled(r)' \subseteq Labelled(r)
  BY <1>1, LabelsAfter
<1>8. \A v \in Mounted(r)' : volumes'[v] # NoVolume
  <2>1. Mounted(r) \subseteq VolumeNames
    BY MountedNames
  <2> QED BY <1>4, <1>5, <1>6, <2>1, EngineNames DEF DiskInv, DisksOf
<1> QED BY <1>2, <1>5, <1>6, <1>7, <1>8 DEF DiskInv, DisksOf, OwnNames

LEMMA CollectDisks ==
  ASSUME TypeOK, DiskInv, NEW s \in Runtimes, Collect(s)
  PROVE  DiskInv'
<1>1. UNCHANGED <<box, volumes, want>> /\ DOMAIN todo = Runtimes
  BY DEF Collect, engineVars, TypeOK
<1>2. \A r \in Runtimes : todo'[r] \subseteq OwnNames(r)
  BY <1>1 DEF Collect, Doomed, DiskInv, DisksOf
<1> SUFFICES ASSUME NEW r \in Runtimes PROVE DisksOf(r)'
  BY DEF DiskInv
<1>3. Mounted(r)' = Mounted(r) /\ Labelled(r)' = Labelled(r)
  BY <1>1 DEF Mounted, Labelled
<1> QED BY <1>1, <1>2, <1>3 DEF DiskInv, DisksOf, OwnNames

LEMMA PurgeDisks ==
  ASSUME TypeOK, DiskInv, NEW s \in Runtimes, Purge(s)
  PROVE  DiskInv'
<1>1. box' = box /\ DOMAIN todo = Runtimes /\ todo[s] \subseteq VolumeNames
  BY DEF Purge, TypeOK
<1>2. CASE Failed(s) /\ UNCHANGED volumes
  BY <1>1, <1>2, EndDisks
<1>3. CASE \E v \in todo[s] : /\ ~InUse(v) /\ RemoveVolume(v) /\ want' = want
                              /\ todo' = [todo EXCEPT ![s] = @ \ {v}]
  BY <1>1, <1>3, RemovedVolumeDisks
<1>4. CASE UNCHANGED <<volumes, want, todo>>
  BY <1>1, <1>4, QuietDisks
<1> QED BY <1>2, <1>3, <1>4 DEF Purge

LEMMA StepDisks ==
  ASSUME TypeOK, DiskInv, NEW s \in Runtimes, Step(s)
  PROVE  DiskInv'
<1> USE DEF engineVars
<1>1. CASE \/ ReadProvision(s) \/ Find(s) \/ Unprovision(s)
  BY <1>1, QuietDisks DEF ReadProvision, Find, Unprovision
<1>2. CASE WriteProvision(s)
  BY <1>2, QuietDisks, EndDisks DEF WriteProvision
<1>3. CASE Start(s)
  <2>1. CASE SetRunning(s, TRUE) /\ Done(s, LabelsOf(found[s]), TRUE)
    BY <1>3, <2>1, ForgetIsQuiet, StartStopDisks DEF Start, Done
  <2>2. CASE Failed(s) /\ UNCHANGED box
    BY <1>3, <2>2, EndDisks DEF Start
  <2> QED BY <1>3, <2>1, <2>2 DEF Start
<1>4. CASE RemoveOld(s) \/ Rm(s)
  BY <1>4, RemovedBoxDisks DEF RemoveOld, Rm
<1>5. CASE Inspect(s)
  BY <1>5, EndDisks DEF Inspect
<1>6. CASE Release(s)
  BY <1>6, ForgetIsQuiet, QuietDisks DEF Release
<1> QED
  BY <1>1, <1>2, <1>3, <1>4, <1>5, <1>6, PlannedDisks, CreatedVolumeDisks,
     RunDisks, CollectDisks, PurgeDisks DEF Step

LEMMA ElsewhereDisks ==
  ASSUME TypeOK, DiskInv,
         \/ \E s \in Runtimes : Begin(s) \/ CallFails(s) \/ InnerBeat(s)
         \/ Crash \/ User \/ Machine
  PROVE  DiskInv'
<1> USE DEF engineVars, locals
<1>1. CASE \E s \in Runtimes : Begin(s) \/ InnerBeat(s)
  BY <1>1, QuietDisks DEF Begin, AddFinalizer, BeginEnsure, BeginRemove, InnerBeat
<1>2. CASE \E s \in Runtimes : CallFails(s)
  BY <1>2, EndDisks DEF CallFails
<1>3. CASE Crash
  BY <1>3, ForgetIsQuiet, QuietDisks DEF Crash
<1>4. CASE User
  BY <1>4, QuietDisks DEF User
<1>5. CASE Machine
  <2>1. UNCHANGED <<want, todo>>
    BY <1>5 DEF Machine
  <2>2. CASE \E s \in Runtimes : BoxStops(s)
    BY <2>1, <2>2, StartStopDisks DEF BoxStops
  <2>3. CASE \E s \in Runtimes : BoxVanishes(s)
    BY <2>1, <2>3, RemovedBoxDisks DEF BoxVanishes
  <2>4. CASE VolumePruned
    BY <2>1, <2>4, RemovedVolumeDisks DEF VolumePruned
  <2>5. CASE ForeignPort
    BY <2>1, <2>5, QuietDisks DEF ForeignPort
  <2> QED BY <1>5, <2>2, <2>3, <2>4, <2>5 DEF Machine
<1> QED BY <1>1, <1>2, <1>3, <1>4, <1>5

LEMMA DisksInvariant == Spec => []DiskInv
<1>1. TypeOK /\ DiskInv /\ [Next]_vars => DiskInv'
  <2> SUFFICES ASSUME TypeOK, DiskInv, [Next]_vars PROVE DiskInv'
    OBVIOUS
  <2>1. CASE UNCHANGED vars
    BY <2>1, QuietDisks DEF vars
  <2> QED BY <2>1, StepDisks, ElsewhereDisks DEF Next
<1> QED BY <1>1, InitDisks, TypeCorrect, PTL DEF Spec

\* RuntimeService.OwnDisks (plan.go:291-292): a container mounts volumes of its
\* own label or of none, and all of them exist, provided volume names keep the
\* runtimes apart.  Where two runtimes come to one name it is refuted.
THEOREM DisksAreOwn ==
  ASSUME NamesApart
  PROVE  Spec => []OwnDisks
<1>1. TypeOK /\ DiskInv => OwnDisks
  <2> SUFFICES ASSUME TypeOK, DiskInv, NEW r \in Runtimes, NEW v \in Mounted(r)
               PROVE  volumes[v] \in {r, Unlabelled}
    BY DEF OwnDisks
  <2>1. v \in VolumeNames /\ v \in OwnNames(r) /\ volumes[v] # NoVolume
    BY MountedNames DEF DiskInv, DisksOf
  <2>2. volumes[v] \in Runtimes \cup {NoVolume, Unlabelled}
    BY <2>1 DEF TypeOK, EngineTypeOK
  <2>3. ASSUME volumes[v] \in Runtimes
        PROVE  volumes[v] = r
    <3>1. v \in OwnNames(volumes[v])
      BY <2>1, <2>3 DEF Labelled, DiskInv, DisksOf
    <3> QED BY <2>1, <2>3, <3>1 DEF OwnNames, NamesApart
  <2> QED BY <2>1, <2>2, <2>3
<1> QED BY <1>1, DisksInvariant, TypeCorrect, PTL

\* Only a removal takes a volume that is labelled or mounted, apart from what
\* is done by hand: every other step of the agent makes volumes or none.
LEMMA WhoTakesDisks ==
  ASSUME TypeOK, [Next]_vars, moves' = moves, NEW v \in VolumeNames,
         volumes[v] # NoVolume, volumes'[v] = NoVolume
  PROVE  \E s \in Runtimes : pc[s] = "purge" /\ v \in todo[s] /\ ~InUse(v)
<1> USE DEF engineVars
<1>1. \A s \in Runtimes : \A u : CreateVolume(s, u) => volumes'[v] # NoVolume
  BY EngineNames DEF CreateVolume, TypeOK, EngineTypeOK
<1>2. \A s, payload, labels : RunBox(s, payload, labels) => volumes'[v] # NoVolume
  BY EngineNames DEF RunBox
<1>3. \A u : RemoveVolume(u) => u = v
  BY DEF RemoveVolume, TypeOK, EngineTypeOK
<1>4. \A event : ~Happens(event)
  BY DEF Happens, TypeOK
<1>5. volumes' # volumes
  OBVIOUS
<1>6. ASSUME NEW s \in Runtimes, Begin(s) \/ CallFails(s) \/ InnerBeat(s)
      PROVE  FALSE
  BY <1>5, <1>6
    DEF Begin, AddFinalizer, BeginEnsure, BeginRemove, CallFails, InnerBeat
<1>7. ASSUME NEW s \in Runtimes, Step(s)
      PROVE  pc[s] = "purge" /\ v \in todo[s] /\ ~InUse(v)
  <2>1. CASE EnsureVolume(s)
    BY <1>1, <1>5, <2>1 DEF EnsureVolume
  <2>2. CASE Run(s)
    BY <1>2, <2>2 DEF Run
  <2>3. CASE Purge(s)
    BY <1>3, <1>5, <2>3 DEF Purge
  <2>4. CASE \/ ReadProvision(s) \/ WriteProvision(s) \/ Find(s) \/ PlanBox(s)
             \/ Start(s) \/ RemoveOld(s) \/ Inspect(s) \/ Collect(s) \/ Rm(s)
             \/ Unprovision(s) \/ Release(s)
    BY <1>5, <2>4
      DEF ReadProvision, WriteProvision, Find, PlanBox, Start, RemoveOld, Inspect,
          Collect, Rm, Unprovision, Release
  <2> QED BY <1>7, <2>1, <2>2, <2>3, <2>4 DEF Step
<1>8. CASE Crash \/ User
  BY <1>5, <1>8 DEF Crash, User
<1>9. CASE Machine
  BY <1>4, <1>9 DEF Machine, BoxStops, BoxVanishes, VolumePruned, ForeignPort
<1>10. CASE UNCHANGED vars
  BY <1>5, <1>10 DEF vars
<1> QED BY <1>6, <1>7, <1>8, <1>9, <1>10 DEF Next

\* RuntimeService.DisksKept (docker.go:184-186, service.go:182-184 and 220): no
\* step of the agent takes a volume a runtime's container mounts or its label is
\* on, unless that runtime is being deleted, provided volume names keep the
\* runtimes apart.
THEOREM DisksAreKept ==
  ASSUME NamesApart
  PROVE  Spec => DisksKept
<1>1. TypeOK /\ TeardownInv /\ DiskInv /\ [Next]_vars
        => [moves' = moves =>
              \A r \in Runtimes : \A v \in Mounted(r) \cup Labelled(r) :
                volumes[v] # NoVolume /\ volumes'[v] = NoVolume
                  => resource[r] = "leaving"]_vars
  <2> SUFFICES ASSUME TypeOK, TeardownInv, DiskInv, [Next]_vars, moves' = moves,
                      NEW r \in Runtimes, NEW v \in Mounted(r) \cup Labelled(r),
                      volumes[v] # NoVolume, volumes'[v] = NoVolume
               PROVE  resource[r] = "leaving"
    OBVIOUS
  <2>1. v \in VolumeNames /\ v \in OwnNames(r)
    BY MountedNames DEF Labelled, DiskInv, DisksOf
  <2>2. PICK s \in Runtimes : pc[s] = "purge" /\ v \in todo[s] /\ ~InUse(v)
    BY <2>1, WhoTakesDisks
  <2>3. s = r
    BY <2>1, <2>2 DEF OwnNames, NamesApart, DiskInv, DisksOf
  <2> QED BY <2>2, <2>3 DEF TeardownInv, RemoveOrder, RemoveSteps
<1> QED
  BY <1>1, DisksInvariant, TypeCorrect, TeardownCorrect, PTL DEF DisksKept, Spec

-----------------------------------------------------------------------------
(***************************************************************************)
(* What the agent in the box has left in its Provision.                    *)
(***************************************************************************)
\* An update made of nothing is a create: there was no Provision, and nobody
\* but the reconcile itself makes one.
CopyInv ==
  \A r \in Runtimes : pc[r] = "write" /\ copy[r] = {} => provision[r] = {}

LEMMA ForgetCopies ==
  ASSUME TypeOK, CopyInv, NEW R \in SUBSET Runtimes, Forget(R), UNCHANGED provision
  PROVE  CopyInv'
BY DEF CopyInv, Forget

LEMMA EndCopies ==
  ASSUME TypeOK, CopyInv, NEW s \in Runtimes, UNCHANGED provision,
         Failed(s) \/ \E labels, running : Done(s, labels, running)
  PROVE  CopyInv'
BY ForgetCopies DEF Failed, Done

\* A reconcile goes to any other step than the write.
LEMMA GotoCopies ==
  ASSUME TypeOK, CopyInv, NEW s \in Runtimes, NEW step, step # "write",
         Goto(s, step), UNCHANGED copy,
         \A r \in Runtimes : r # s => provision'[r] = provision[r]
  PROVE  CopyInv'
BY DEF CopyInv, Goto, TypeOK

LEMMA StepCopies ==
  ASSUME TypeOK, CopyInv, NEW s \in Runtimes, Step(s)
  PROVE  CopyInv'
<1>1. CASE ReadProvision(s)
  <2>1. CASE Goto(s, "find") /\ UNCHANGED copy
    BY <1>1, <2>1, GotoCopies DEF ReadProvision
  <2>2. CASE Goto(s, "write") /\ copy' = [copy EXCEPT ![s] = provision[s]]
    BY <1>1, <2>2 DEF ReadProvision, Goto, CopyInv, TypeOK
  <2> QED BY <1>1, <2>1, <2>2 DEF ReadProvision
<1>2. CASE WriteProvision(s)
  <2>1. CASE Failed(s) /\ UNCHANGED provision
    BY <2>1, EndCopies
  <2>2. ASSUME NEW p, provision' = [provision EXCEPT ![s] = p],
               copy' = [copy EXCEPT ![s] = {}], Goto(s, "find")
        PROVE  CopyInv'
    BY <2>2 DEF Goto, CopyInv, TypeOK
  <2> QED BY <1>2, <2>1, <2>2 DEF WriteProvision
<1>3. CASE Unprovision(s)
  <2>1. \A r \in Runtimes : r # s => provision'[r] = provision[r]
    BY <1>3 DEF Unprovision, TypeOK
  <2> QED BY <1>3, <2>1, GotoCopies DEF Unprovision
<1>4. CASE Release(s)
  BY <1>4, ForgetCopies DEF Release
<1>5. CASE \/ Find(s) \/ RemoveOld(s) \/ EnsureVolume(s) \/ Collect(s) \/ Rm(s)
  <2>1. UNCHANGED <<provision, copy>>
    BY <1>5 DEF Find, RemoveOld, EnsureVolume, Collect, Rm
  <2>2. UNCHANGED pc \/ \E step : step # "write" /\ Goto(s, step)
    BY <1>5 DEF Find, RemoveOld, EnsureVolume, Collect, Rm
  <2>3. CASE UNCHANGED pc
    BY <2>1, <2>3 DEF CopyInv
  <2> QED BY <2>1, <2>2, <2>3, GotoCopies
<1>6. CASE PlanBox(s)
  <2>1. UNCHANGED provision
    BY <1>6 DEF PlanBox
  <2>2. \/ Failed(s) \/ \E labels, running : Done(s, labels, running)
        \/ UNCHANGED copy /\ \E step : step # "write" /\ Goto(s, step)
    BY <1>6 DEF PlanBox, Compare, Recreate
  <2> QED BY <2>1, <2>2, EndCopies, GotoCopies
<1>7. CASE Start(s) \/ Inspect(s)
  BY <1>7, EndCopies DEF Start, Inspect
<1>8. CASE Run(s)
  BY <1>8, EndCopies, GotoCopies DEF Run
<1>9. CASE Purge(s)
  <2>1. UNCHANGED provision
    BY <1>9 DEF Purge
  <2>2. Failed(s) \/ UNCHANGED <<pc, copy>> \/ (Goto(s, "unprovision") /\ UNCHANGED copy)
    BY <1>9 DEF Purge
  <2>3. CASE UNCHANGED <<pc, copy>>
    BY <2>1, <2>3 DEF CopyInv
  <2> QED BY <2>1, <2>2, <2>3, EndCopies, GotoCopies
<1> QED
  BY <1>1, <1>2, <1>3, <1>4, <1>5, <1>6, <1>7, <1>8, <1>9 DEF Step

LEMMA ElsewhereCopies ==
  ASSUME TypeOK, CopyInv,
         \/ \E s \in Runtimes : Begin(s) \/ CallFails(s) \/ InnerBeat(s)
         \/ Crash \/ User \/ Machine
  PROVE  CopyInv'
<1> USE DEF locals
<1>1. ASSUME NEW s \in Runtimes, Begin(s) PROVE CopyInv'
  <2>1. UNCHANGED <<provision, copy>>
    BY <1>1 DEF Begin, AddFinalizer, BeginEnsure, BeginRemove
  <2>2. UNCHANGED pc \/ Goto(s, "provision") \/ Goto(s, "collect")
    BY <1>1 DEF Begin, AddFinalizer, BeginEnsure, BeginRemove
  <2>3. CASE UNCHANGED pc
    BY <2>1, <2>3 DEF CopyInv
  <2> QED BY <2>1, <2>2, <2>3, GotoCopies
<1>2. CASE \E s \in Runtimes : CallFails(s)
  BY <1>2, EndCopies DEF CallFails
<1>3. ASSUME NEW s \in Runtimes, InnerBeat(s) PROVE CopyInv'
  <2>1. UNCHANGED <<pc, copy>> /\ DOMAIN provision = Runtimes
    BY <1>3 DEF InnerBeat, TypeOK
  <2>2. provision[s] # {} /\ \E p : provision' = [provision EXCEPT ![s] = {p}]
    BY <1>3 DEF InnerBeat
  <2>3. \A r \in Runtimes : provision[r] = {} => provision'[r] = {}
    BY <2>1, <2>2
  <2> QED BY <2>1, <2>3 DEF CopyInv
<1>4. CASE Crash
  BY <1>4, ForgetCopies DEF Crash
<1>5. CASE User \/ Machine
  BY <1>5 DEF User, Machine, CopyInv
<1> QED BY <1>1, <1>2, <1>3, <1>4, <1>5

LEMMA CopiesInvariant == Spec => []CopyInv
<1>1. Init => CopyInv
  BY DEF Init, CopyInv
<1>2. TypeOK /\ CopyInv /\ [Next]_vars => CopyInv'
  <2> SUFFICES ASSUME TypeOK, CopyInv, [Next]_vars PROVE CopyInv'
    OBVIOUS
  <2>1. CASE UNCHANGED vars
    BY <2>1 DEF vars, CopyInv
  <2> QED BY <2>1, StepCopies, ElsewhereCopies DEF Next
<1> QED BY <1>1, <1>2, TypeCorrect, PTL DEF Spec

\* Only two steps write a Provision that is still there afterwards, and only one
\* of them takes a beat back.
LEMMA WhoTakesBeats ==
  ASSUME TypeOK, [Next]_vars, NEW r \in Runtimes,
         NEW p \in provision[r], NEW q \in provision'[r], q.beat < p.beat
  PROVE  pc[r] = "write" /\ \E s : provision'[r] = Updated(copy[r], s)
<1> USE DEF locals
<1>1. /\ DOMAIN provision = Runtimes
      /\ p.beat \in Nat
      /\ provision[r] = {p}
  BY OneProvision DEF TypeOK, IsProvision
<1>5. provision' # provision /\ q \notin provision[r]
  BY <1>1
<1>2. ASSUME NEW s \in Runtimes, Step(s)
      PROVE  pc[r] = "write" /\ \E t : provision'[r] = Updated(copy[r], t)
  <2>1. CASE WriteProvision(s)
    BY <1>1, <1>5, <2>1 DEF WriteProvision
  <2>2. CASE Unprovision(s)
    BY <1>1, <1>5, <2>2 DEF Unprovision
  <2> QED
    BY <1>5, <1>2, <2>1, <2>2
      DEF Step, ReadProvision, Find, PlanBox, Start, RemoveOld, EnsureVolume, Run,
          Inspect, Collect, Rm, Purge, Release
<1>3. ASSUME NEW s \in Runtimes, InnerBeat(s)
      PROVE  FALSE
  <2>1. PICK o \in provision[s] :
          provision' = [provision EXCEPT ![s] = {Provision(o.files, o.beat + 1)}]
    BY <1>3 DEF InnerBeat
  <2>2. s = r
    BY <1>1, <1>5, <2>1
  <2>3. o = p /\ q = Provision(o.files, o.beat + 1)
    BY <1>1, <2>1, <2>2
  <2>4. q.beat = p.beat + 1
    BY <2>3 DEF Provision
  <2> QED BY <1>1, <2>4
<1> QED
  BY <1>5, <1>2, <1>3
    DEF Next, Begin, AddFinalizer, BeginEnsure, BeginRemove, CallFails, Crash,
        User, Machine, vars

\* RuntimeService.BeatKept (provision/service.go:78-81): only an update takes beats
\* back, and only those that came after the agent outside had read the Provision.
THEOREM BeatIsKept == Spec => BeatKept
<1>1. TypeOK /\ CopyInv /\ [Next]_vars
        => [\A r \in Runtimes : \A p \in provision[r], q \in provision'[r] :
              q.beat < p.beat
                => pc[r] = "write" /\ \E o \in copy[r] : o.beat = q.beat]_vars
  <2> SUFFICES ASSUME TypeOK, CopyInv, [Next]_vars, NEW r \in Runtimes,
                      NEW p \in provision[r], NEW q \in provision'[r],
                      q.beat < p.beat
               PROVE  pc[r] = "write" /\ \E o \in copy[r] : o.beat = q.beat
    OBVIOUS
  <2>1. pc[r] = "write" /\ \E s : provision'[r] = Updated(copy[r], s)
    BY WhoTakesBeats
  <2>2. PICK s : provision'[r] = Updated(copy[r], s)
    BY <2>1
  <2>3. copy[r] # {}
    BY <2>1 DEF CopyInv
  <2>4. PICK u : /\ Updated(copy[r], s) = {u}
                 /\ copy[r] # {} => \E o \in copy[r] : o.beat = u.beat
    BY CopyUpdated
  <2> QED BY <2>1, <2>2, <2>3, <2>4
<1> QED BY <1>1, CopiesInvariant, TypeCorrect, PTL DEF BeatKept, Spec

=============================================================================
