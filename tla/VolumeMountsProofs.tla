-------------------------- MODULE VolumeMountsProofs --------------------------
(***************************************************************************)
(* The VolumeMount controller next to the runtime controller, for any set  *)
(* of runtimes and mounts and any number of workers of either: it changes  *)
(* nothing the other one works with, so what holds of the other one alone  *)
(* holds of the two.                                                       *)
(***************************************************************************)
EXTENDS VolumeMounts, RuntimeServiceProofs, SequenceTheorems

Busy == { k \in Mounts : view[k] # "idle" }

(***************************************************************************)
(* The bound on the reconciles under way is kept because they are finitely *)
(* many to begin with and start one by one.                                *)
(***************************************************************************)
MountInv == MountTypeOK /\ IsFiniteSet(Busy)

\* All that the runtime controller reads and writes; the budget of failures is
\* not part of it.
watched == <<box, volumes, foreign, resource, spec, asked, present, provision,
             status, pc, seen, copy, found, want, todo, moves>>

-----------------------------------------------------------------------------
(***************************************************************************)
(* What a step is to the runtime controller.                               *)
(***************************************************************************)

\* An agent that dies between two reconciles of runtimes loses none of them.
LEMMA DeathIsCrash ==
  ASSUME TypeOK, AgentDies
  PROVE  Crash \/ UNCHANGED watched
<1>1. CASE \E r \in Runtimes : pc[r] # "idle"
  BY <1>1 DEF AgentDies, Crash
<1>2. CASE \A r \in Runtimes : pc[r] = "idle"
  <2>1. \A r \in Runtimes : /\ seen[r] = {} /\ copy[r] = {} /\ found[r] = {}
                            /\ want[r] = {} /\ todo[r] = {}
    BY <1>2 DEF TypeOK, InScope, EnsureSteps
  <2>2. /\ DOMAIN pc = Runtimes /\ DOMAIN seen = Runtimes /\ DOMAIN todo = Runtimes
        /\ DOMAIN copy = Runtimes /\ DOMAIN found = Runtimes
        /\ DOMAIN want = Runtimes
    BY DEF TypeOK
  <2>3. pc' = pc
    BY <1>2 DEF AgentDies, Forget, TypeOK
  <2>4. seen' = seen
    BY <2>1 DEF AgentDies, Forget, TypeOK
  <2>5. todo' = todo
    BY <2>1 DEF AgentDies, Forget, TypeOK
  <2>6. copy' = [r \in Runtimes |-> {}] /\ found' = [r \in Runtimes |-> {}]
        /\ want' = [r \in Runtimes |-> {}]
    BY DEF AgentDies, Forget
  <2>7. UNCHANGED <<copy, found, want>>
    <3>1. \A f, g : (/\ DOMAIN f = Runtimes /\ f = [r \in Runtimes |-> f[r]]
                    /\ g = [r \in Runtimes |-> {}]
                    /\ \A r \in Runtimes : f[r] = {}) => g = f
      OBVIOUS
    <3>2. /\ copy = [r \in Runtimes |-> copy[r]]
          /\ found = [r \in Runtimes |-> found[r]]
          /\ want = [r \in Runtimes |-> want[r]]
      BY DEF TypeOK
    <3> QED BY <2>1, <2>2, <2>6, <3>1, <3>2
  <2> QED
    BY <2>3, <2>4, <2>5, <2>7 DEF AgentDies, watched, engineVars, declared
<1> QED BY <1>1, <1>2

LEMMA StepKinds ==
  ASSUME TypeOK, [MountNext]_allVars
  PROVE  \/ [Next]_vars
         \/ UNCHANGED watched /\ faults' \in 0..MaxFaults
<1>1. ASSUME NEW k \in Mounts, MountStep(k)
      PROVE  UNCHANGED watched /\ faults' \in 0..MaxFaults
  BY <1>1, ServiceConstants
    DEF MountStep, LookFails, ReportFails, watched, engineVars, declared, locals,
        budgets, TypeOK
<1>2. CASE AgentDies
  <2>1. faults' \in 0..MaxFaults
    BY <1>2, ServiceConstants DEF AgentDies, TypeOK
  <2> QED BY <1>2, <2>1, DeathIsCrash DEF Next
<1>3. CASE UNCHANGED allVars
  BY <1>3 DEF allVars, vars
<1> QED
  BY <1>1, <1>2, <1>3 DEF MountNext, Next

LEMMA TypeKept ==
  ASSUME TypeOK, [MountNext]_allVars
  PROVE  TypeOK'
<1>1. CASE UNCHANGED watched /\ faults' \in 0..MaxFaults
  BY <1>1 DEF watched, TypeOK, EngineTypeOK, InScope
<1> QED BY <1>1, StepKinds, TypeStep

LEMMA TeardownKept ==
  ASSUME TypeOK, TeardownInv, [MountNext]_allVars
  PROVE  TeardownInv'
<1>1. CASE UNCHANGED watched
  BY <1>1 DEF watched, TeardownInv, RemoveOrder, Informed, Unheld, Labelled
<1> QED BY <1>1, StepKinds, TeardownStep

-----------------------------------------------------------------------------
(***************************************************************************)
(* What a step is to the VolumeMounts.                                     *)
(***************************************************************************)
StatusTyped ==
  /\ phase \in [Mounts -> {""} \cup Phases]
  /\ view \in [Mounts -> {"idle", "checked"} \cup Phases]

StatusOfSomething == \A k \in Mounts : phase[k] # "" => Exists(k)

Bounded == IsFiniteSet(Busy) /\ Cardinality(Busy) <= MountWorkers

LEMMA MountParts ==
  MountInv <=> TypeOK /\ StatusTyped /\ StatusOfSomething /\ Bounded
BY DEF MountInv, MountTypeOK, StatusTyped, StatusOfSomething, Bounded, Busy

\* A reconcile that is over, or goes on, makes no more of them.
LEMMA FewerBusy ==
  ASSUME Bounded, Busy' \subseteq Busy
  PROVE  Bounded'
<1>1. IsFiniteSet(Busy') /\ Cardinality(Busy') <= Cardinality(Busy)
  BY FS_Subset DEF Bounded
<1>2. Cardinality(Busy) \in Nat /\ Cardinality(Busy') \in Nat
  BY <1>1, FS_CardinalityType DEF Bounded
<1> QED BY <1>1, <1>2, MountConstants DEF Bounded

LEMMA OneMoreBusy ==
  ASSUME Bounded, Cardinality(Busy) < MountWorkers, NEW k,
         Busy' \subseteq Busy \cup {k}
  PROVE  Bounded'
<1>1. /\ IsFiniteSet(Busy \cup {k})
      /\ Cardinality(Busy \cup {k}) <= Cardinality(Busy) + 1
  <2>1. IsFiniteSet(Busy)
    BY DEF Bounded
  <2>2. /\ IsFiniteSet(Busy \cup {k})
        /\ Cardinality(Busy \cup {k}) = IF k \in Busy THEN Cardinality(Busy)
                                        ELSE Cardinality(Busy) + 1
    BY <2>1, FS_AddElement
  <2>3. Cardinality(Busy) \in Nat
    BY <2>1, FS_CardinalityType
  <2> QED BY <2>2, <2>3
<1>2. /\ IsFiniteSet(Busy')
      /\ Cardinality(Busy') <= Cardinality(Busy \cup {k})
  BY <1>1, FS_Subset
<1>3. Cardinality(Busy) \in Nat /\ Cardinality(Busy') \in Nat
      /\ Cardinality(Busy \cup {k}) \in Nat
  BY <1>1, <1>2, FS_CardinalityType DEF Bounded
<1> QED BY <1>1, <1>2, <1>3, MountConstants DEF Bounded

LEMMA MountStepKeeps ==
  ASSUME StatusTyped, StatusOfSomething, Bounded,
         NEW k \in Mounts, MountStep(k)
  PROVE  StatusTyped' /\ StatusOfSomething' /\ Bounded'
<1>1. asked' = asked
  BY DEF MountStep, declared
<1>2. \A l \in Mounts : Exists(l)' <=> Exists(l)
  BY <1>1 DEF Exists
<1>3. CASE Check(k)
  <2>1. phase' = phase /\ view' = [view EXCEPT ![k] = view'[k]]
        /\ view'[k] \in {"checked", "Failed"} /\ Cardinality(Busy) < MountWorkers
    BY <1>3 DEF Check, StatusTyped, Busy
  <2>2. Busy' \subseteq Busy \cup {k}
    BY <2>1 DEF Busy, StatusTyped
  <2>3. Bounded'
    BY <2>1, <2>2, OneMoreBusy
  <2> QED BY <1>2, <2>1, <2>3 DEF StatusTyped, StatusOfSomething, Phases
<1>4. CASE ~Check(k)
  <2>1. /\ view[k] # "idle"
        /\ view'[k] \in {"idle", "checked"} \cup Phases
        /\ view' = [view EXCEPT ![k] = view'[k]]
    BY <1>4 DEF MountStep, Look, Report, LookFails, ReportFails, StoreStatus,
                StatusTyped,
                Phases
  <2>2. Busy' \subseteq Busy
    BY <2>1 DEF Busy, StatusTyped
  <2>3. Bounded'
    BY <2>2, FewerBusy
  <2>4. \/ phase' = phase
        \/ Exists(k) /\ view[k] \in Phases /\ phase' = [phase EXCEPT ![k] = view[k]]
    BY <1>4 DEF MountStep, Look, Report, LookFails, ReportFails, StoreStatus,
                StatusTyped
  <2>5. StatusTyped'
    BY <2>1, <2>4 DEF StatusTyped
  <2>6. StatusOfSomething'
    BY <1>2, <2>4 DEF StatusOfSomething, StatusTyped
  <2> QED BY <2>3, <2>5, <2>6
<1> QED BY <1>3, <1>4

LEMMA OthersKeepStatus ==
  ASSUME StatusTyped, StatusOfSomething, Bounded, [MountNext]_allVars,
         ~ \E k \in Mounts : MountStep(k)
  PROVE  StatusTyped' /\ StatusOfSomething' /\ Bounded'
<1>1. CASE AgentDies
  <2>1. phase' = phase /\ asked' = asked /\ view' = [k \in Mounts |-> "idle"]
    BY <1>1 DEF AgentDies, declared
  <2>2. Busy' \subseteq Busy
    BY <2>1 DEF Busy
  <2>3. Bounded'
    BY <2>2, FewerBusy
  <2> QED BY <2>1, <2>3 DEF StatusTyped, StatusOfSomething, Exists
<1>2. CASE /\ \E r \in Runtimes : Begin(r) \/ Step(r) \/ CallFails(r) \/ InnerBeat(r)
           /\ UNCHANGED mountVars
  <2>1. phase' = phase /\ view' = view
    BY <1>2 DEF mountVars
  <2>2. asked' = asked
    BY <1>2 DEF Begin, AddFinalizer, BeginEnsure, BeginRemove, CallFails, InnerBeat,
                Step, ReadProvision, WriteProvision, Find, PlanBox, Start,
                RemoveOld, EnsureVolume, Run, Inspect, Collect, Rm, Purge,
                Unprovision, Release, declared
  <2> QED
    BY <2>1, <2>2 DEF StatusTyped, StatusOfSomething, Exists, Bounded, Busy
<1>3. CASE Forgotten /\ UNCHANGED view
  <2>1. StatusTyped'
    BY <1>3 DEF StatusTyped, Forgotten
  <2>2. StatusOfSomething'
    BY <1>3 DEF StatusOfSomething, Forgotten, Exists
  <2> QED BY <1>3, <2>1, <2>2 DEF Bounded, Busy
<1>4. CASE UNCHANGED allVars
  BY <1>4 DEF allVars, StatusTyped, StatusOfSomething, Exists, Bounded, Busy
<1> QED BY <1>1, <1>2, <1>3, <1>4 DEF MountNext

LEMMA MountInvInit == MountInit => MountInv
<1> SUFFICES ASSUME MountInit PROVE MountInv
  OBVIOUS
<1>1. TypeOK
  BY InitTypeOK DEF MountInit
<1>2. Busy = {}
  BY DEF Busy, MountInit
<1>3. Bounded
  BY <1>2, FS_EmptySet, MountConstants DEF Bounded
<1>4. StatusTyped /\ StatusOfSomething
  BY DEF MountInit, StatusTyped, StatusOfSomething
<1> QED BY <1>1, <1>3, <1>4, MountParts

-----------------------------------------------------------------------------
\* A status is only ever kept of a VolumeMount that exists, whoever deletes it
\* while its verdict is on the way, and no more reconciles are under way than the
\* controller has workers, for any number of either (MountTypeOK).
THEOREM MountsTypeCorrect == MountSpec => []MountTypeOK
<1>1. MountInv /\ [MountNext]_allVars => MountInv'
  <2> SUFFICES ASSUME MountInv, [MountNext]_allVars PROVE MountInv'
    OBVIOUS
  <2>1. TypeOK /\ StatusTyped /\ StatusOfSomething /\ Bounded
    BY MountParts
  <2>2. TypeOK'
    BY <2>1, TypeKept
  <2>3. StatusTyped' /\ StatusOfSomething' /\ Bounded'
    BY <2>1, MountStepKeeps, OthersKeepStatus
  <2> QED
    BY <2>2, <2>3 DEF MountInv, MountTypeOK, StatusTyped, StatusOfSomething,
                      Bounded, Busy
<1>2. MountInv => MountTypeOK
  BY DEF MountInv
<1> QED BY <1>1, <1>2, MountInvInit, PTL DEF MountSpec

\* The VolumeMount controller "does not mount anything" (volumemount_controller.go:
\* 3): whatever the two controllers, their crashes and everybody else do, each
\* step is one the runtime controller could have seen without this one, or
\* changes nothing it reads or writes.
THEOREM MountsOnlyWatch == MountSpec => [][[Next]_vars \/ UNCHANGED watched]_allVars
<1>1. MountTypeOK /\ [MountNext]_allVars
        => [[Next]_vars \/ UNCHANGED watched]_allVars
  BY StepKinds DEF MountTypeOK
<1> QED BY <1>1, MountsTypeCorrect, PTL DEF MountSpec

\* So the removal of a runtime still leaves nothing behind, and a container still
\* has its Provision around it, with VolumeMounts coming, going and being
\* reported on all the while.
THEOREM MountsLeaveNothing == MountSpec => [](LeavesNothing /\ ProvisionAroundBox)
<1>1. MountInit => TeardownInv
  BY InitOrderly DEF MountInit, TeardownInv, Orderly
<1>2. MountTypeOK /\ TeardownInv /\ [MountNext]_allVars => TeardownInv'
  BY TeardownKept DEF MountTypeOK
<1>3. TeardownInv => LeavesNothing /\ ProvisionAroundBox
  BY DEF TeardownInv, LeavesNothing, ProvisionAroundBox, Informed
<1> QED BY <1>1, <1>2, <1>3, MountsTypeCorrect, PTL DEF MountSpec

-----------------------------------------------------------------------------
(***************************************************************************)
(* What the engine calls a directory, and what of it is undone again.      *)
(***************************************************************************)

\* Nobody asks for the place where Docker Desktop's VM keeps the machine's files,
\* nor for what answers there in the place of the engine's socket.
SharesApart ==
  \A m \in HostMounts : \A host \in {m.host, Clean(m.host)} :
    /\ host \in Seq(STRING) /\ host # DesktopProxy
    /\ host # <<>> => Head(host) # DesktopShare[1]

LEMMA ShareUndone ==
  ASSUME NEW host \in Seq(STRING)
  PROVE  /\ WithoutShare(DesktopShare \o host) \in {host, DesktopShare \o host}
         /\ Head(DesktopShare \o host) = "host_mnt"
         /\ DesktopShare \o host # <<>>
<1>1. DesktopShare = <<"host_mnt">>
  BY DEF DesktopShare
<1> DEFINE Segment == STRING \cup {"host_mnt"}
<1> DEFINE joined == DesktopShare \o host
<1>2. DesktopShare \in Seq(Segment)
  <2>1. ASSUME NEW S, NEW x \in S PROVE <<x>> \in Seq(S)
    OBVIOUS
  <2>2. "host_mnt" \in Segment
    OBVIOUS
  <2> HIDE DEF Segment
  <2> QED BY <1>1, <2>1, <2>2
<1>3. host \in Seq(Segment)
  BY SeqMonotonic
<1> HIDE DEF Segment
<1>4. Len(DesktopShare) = 1 /\ DesktopShare[1] = "host_mnt"
  BY <1>1
<1>5. /\ joined \in Seq(Segment) /\ Len(joined) = 1 + Len(host)
      /\ \A i \in 1..1 + Len(host) :
           joined[i] = IF i <= 1 THEN DesktopShare[i] ELSE host[i - 1]
  <2>1. /\ DesktopShare \o host \in Seq(Segment)
        /\ Len(DesktopShare \o host) = Len(DesktopShare) + Len(host)
        /\ \A i \in 1..Len(DesktopShare) + Len(host) : (DesktopShare \o host)[i] =
             IF i <= Len(DesktopShare) THEN DesktopShare[i]
             ELSE host[i - Len(DesktopShare)]
    BY <1>2, <1>3, ConcatProperties, Zenon
  <2> QED BY <1>4, <2>1, Zenon
<1>6. Len(host) \in Nat
  BY LenProperties
<1> HIDE DEF joined
<1>7. joined[1] = "host_mnt"
  BY <1>4, <1>5, <1>6
<1>8. \A i \in 1..Len(host) : joined[i + 1] = host[i]
  BY <1>5, <1>6
<1>9. Head(joined) = "host_mnt" /\ joined # <<>>
  BY <1>5, <1>6, <1>7
<1>10. Tail(joined) = host
  <2>1. /\ Tail(joined) \in Seq(Segment) /\ Len(Tail(joined)) = Len(host)
        /\ \A i \in 1..Len(host) : Tail(joined)[i] = joined[i + 1]
    BY <1>5, <1>6, <1>9
  <2> QED BY <1>3, <1>8, <2>1, SeqEqual
<1>11. WithoutShare(joined) \in {Tail(joined), joined}
  BY <1>4, <1>5, <1>6, <1>9 DEF WithoutShare
<1> QED BY <1>9, <1>10, <1>11 DEF joined

\* sameHostPath takes what docker reports of one directory for another only when
\* both are the engine's socket.
LEMMA SameHostPathSound ==
  ASSUME SharesApart, NEW m \in HostMounts, NEW k \in HostMounts,
         SameHostPath(Reported(Clean(m.host)), k.host)
  PROVE  Clean(m.host) = k.host \/ {Clean(m.host), k.host} \subseteq DockerSockets
<1> DEFINE host == Clean(m.host)
<1> DEFINE asks == k.host
<1>1. /\ host \in Seq(STRING) /\ host # DesktopProxy
      /\ host # <<>> => Head(host) # "host_mnt"
  BY DEF SharesApart, DesktopShare
<1>2. /\ asks \in Seq(STRING) /\ asks # DesktopProxy
      /\ asks # <<>> => Head(asks) # "host_mnt"
  BY DEF SharesApart, DesktopShare
<1>3. SameHostPath(Reported(host), asks)
  OBVIOUS
<1> HIDE DEF host, asks
<1>4. CASE ~Desktop
  <2>1. Reported(host) = host
    BY <1>4 DEF Reported
  <2>2. WithoutShare(host) = host
    BY <1>1 DEF WithoutShare, DesktopShare
  <2> QED BY <1>1, <1>3, <2>1, <2>2 DEF SameHostPath, host, asks
<1>5. CASE Desktop /\ host \in DockerSockets
  <2>1. Reported(host) = DesktopProxy
    BY <1>5 DEF Reported
  <2>2. WithoutShare(DesktopProxy) = DesktopProxy
    BY DEF WithoutShare, DesktopShare, DesktopProxy
  <2> QED BY <1>2, <1>3, <1>5, <2>1, <2>2 DEF SameHostPath, host, asks
<1>6. CASE Desktop /\ host \notin DockerSockets
  <2>1. Reported(host) = DesktopShare \o host
    BY <1>6 DEF Reported
  <2>2. /\ WithoutShare(DesktopShare \o host) \in {host, DesktopShare \o host}
        /\ Head(DesktopShare \o host) = "host_mnt"
        /\ DesktopShare \o host # <<>>
    BY <1>1, ShareUndone
  <2>3. DesktopShare \o host # asks
    BY <1>2, <2>2
  <2>4. Head(DesktopProxy) = "run"
    BY DEF DesktopProxy
  <2>5. DesktopShare \o host # DesktopProxy
    BY <2>2, <2>4
  <2> QED BY <1>3, <2>1, <2>2, <2>3, <2>5 DEF SameHostPath, host, asks
<1> QED BY <1>4, <1>5, <1>6

\* A VolumeMount is found ready only when its own directory is bound at its
\* container path, under Docker Desktop as on Linux, whatever else is bound there
\* before and after (volumemount_controller.go:176-179).  That the names of the
\* share are not asked for themselves is needed: sameHostPath strips the share's
\* prefix on every machine.
THEOREM FoundReadyIsBound ==
  ASSUME SharesApart
  PROVE  MountSpec => ReadyIsBound
<1>1. ASSUME MountTypeOK, [MountNext]_allVars, NEW k \in Mounts,
             view[k] = "checked", view'[k] = "Ready"
      PROVE  BoundAsNamed(k)
  <2>1. Look(k)
    <3>1. view \in [Mounts -> {"idle", "checked"} \cup Phases]
      BY <1>1 DEF MountTypeOK
    <3>2. ASSUME NEW l \in Mounts, MountStep(l)
          PROVE  l = k /\ Look(k)
      <4>1. l = k
        BY <1>1, <3>1, <3>2
          DEF MountStep, Check, Look, Report, LookFails, ReportFails
      <4> QED
        BY <1>1, <3>1, <3>2, <4>1
          DEF MountStep, Check, Look, Report, LookFails, ReportFails, Phases
    <3>3. ~AgentDies
      BY <1>1 DEF AgentDies
    <3>4. view' # view
      BY <1>1
    <3> QED BY <1>1, <3>2, <3>3, <3>4 DEF MountNext, mountVars, allVars
  <2>2. OnBox(k)
    BY <1>1, <2>1 DEF Look, MountTypeOK
  <2>3. PICK b \in box[k[1]] : \E bind \in b.from.binds :
          bind.path = k[2].path /\ SameHostPath(Reported(bind.host), k[2].host)
    BY <2>2 DEF OnBox
  <2>4. PICK bind \in b.from.binds :
          bind.path = k[2].path /\ SameHostPath(Reported(bind.host), k[2].host)
    BY <2>3
  <2>5. k[1] \in Runtimes /\ k[2] \in HostMounts
    BY DEF Mounts
  <2>6. bind \in Binds
    BY <1>1, <2>5, BoxIsTyped DEF IsBox, IsPayload, MountTypeOK
  <2>7. PICK m \in HostMounts : bind = Bind(m)
    BY <2>6 DEF Binds
  <2>8. bind.host = Clean(m.host)
    BY <2>7 DEF Bind
  <2>9. bind.host = k[2].host \/ {bind.host, k[2].host} \subseteq DockerSockets
    BY <2>4, <2>5, <2>8, SameHostPathSound
  <2> QED BY <2>4, <2>9 DEF BoundAsNamed
<1>2. MountTypeOK /\ [MountNext]_allVars
        => [\A k \in Mounts :
              view[k] = "checked" /\ view'[k] = "Ready" => BoundAsNamed(k)]_allVars
  BY <1>1
<1> QED BY <1>2, MountsTypeCorrect, PTL DEF ReadyIsBound, MountSpec

=============================================================================
