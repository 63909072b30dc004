----------------------------- MODULE VolumeMounts -----------------------------
(***************************************************************************)
(* The VolumeMount controller next to the runtime controller.  It mounts   *)
(* nothing: it looks at the container the other one makes and says in the  *)
(* status of the VolumeMount whether the directory has reached it.         *)
(*                                                                         *)
(* A VolumeMount is a pair <<r, m>>: r is the runtime it names, m what it  *)
(* asks for; it exists while m \in asked[r].  The name <<>> is that of no  *)
(* runtime: a VolumeMount with an empty runtimeRef carries it.             *)
(***************************************************************************)
EXTENDS RuntimeService

CONSTANTS
  Desktop,              \* the engine runs in Docker Desktop's VM
  MountWorkers          \* reconciles this controller's loop runs at once

ASSUME MountConstants == Desktop \in BOOLEAN /\ MountWorkers \in Nat \ {0}

VARIABLES
  phase,                \* phase[k]: what the status of VolumeMount k says
  view                  \* where the reconcile of k is: "idle", "checked", or
                        \* the phase it is about to write

mountVars == <<phase, view>>
allVars == <<box, volumes, foreign, resource, spec, asked, present, provision,
             status, pc, seen, copy, found, want, todo, moves, faults,
             phase, view>>

Mounts == Runtimes \X HostMounts
Exists(k) == k[2] \in asked[k[1]]
Phases == {"Failed", "Degraded", "Pending", "Provisioning", "Ready"}

-----------------------------------------------------------------------------
(***************************************************************************)
(* What docker inspect reports, and the comparison with what was asked.    *)
(***************************************************************************)
DesktopShare == <<"host_mnt">>
DesktopProxy == <<"run", "host-services", "docker.proxy.sock">>
DockerSockets == {<<"var", "run", "docker.sock">>, <<"run", "docker.sock">>}

\* The source of a bind mount, as the engine calls it.
Reported(host) ==
  IF ~Desktop THEN host
  ELSE IF host \in DockerSockets THEN DesktopProxy ELSE DesktopShare \o host

\* Of the share itself the empty string would be left, which is no path.
WithoutShare(path) ==
  IF Len(path) > 1 /\ Head(path) = DesktopShare[1] THEN Tail(path) ELSE path

\* Mutant: docker's name for a directory is taken for the machine's.
SameHostPathPlain(reported, asks) == reported = asks

\* Mutant: whatever comes back under the proxy's name is what was asked for.
SameHostPathBroad(reported, asks) ==
  \/ reported \in {asks, DesktopProxy}
  \/ WithoutShare(reported) = asks

\* sameHostPath
SameHostPath(reported, asks) ==
  \/ reported = asks
  \/ reported = DesktopProxy /\ asks \in DockerSockets
  \/ WithoutShare(reported) = asks

\* The bind mounts of a container are keyed by container path, and looked up
\* under the path as the VolumeMount spells it.
OnBox(k) ==
  \E b \in box[k[1]] : \E bind \in b.from.binds :
    bind.path = k[2].path /\ SameHostPath(Reported(bind.host), k[2].host)

-----------------------------------------------------------------------------
MountInit ==
  /\ Init
  /\ phase = [k \in Mounts |-> ""]
  /\ view  = [k \in Mounts |-> "idle"]

\* Mutant: what has been called invalid is not looked at again.
CheckOnce(k) ==
  /\ view[k] = "idle" /\ Exists(k)
  /\ Cardinality({ l \in Mounts : view[l] # "idle" }) < MountWorkers
  /\ phase[k] # "Failed"
  /\ view' = [view EXCEPT ![k] = IF CheckMount(k[2]) /\ k[1] # <<>>
                                 THEN "checked" ELSE "Failed"]
  /\ UNCHANGED phase

\* reconcileNormal: CheckMount and the empty reference.
Check(k) ==
  /\ view[k] = "idle" /\ Exists(k)
  /\ Cardinality({ l \in Mounts : view[l] # "idle" }) < MountWorkers
  /\ view' = [view EXCEPT ![k] = IF CheckMount(k[2]) /\ k[1] # <<>>
                                 THEN "checked" ELSE "Failed"]
  /\ UNCHANGED phase

\* containers.Find, and what it means.
Look(k) ==
  /\ view[k] = "checked"
  /\ view' = [view EXCEPT ![k] =
                IF box[k[1]] = {} THEN "Pending"
                ELSE IF OnBox(k) THEN "Ready" ELSE "Provisioning"]
  /\ UNCHANGED phase

\* The control plane: a status has nowhere to go once the resource is gone.
StoreStatus(k, verdict) ==
  phase' = [phase EXCEPT ![k] = IF Exists(k) THEN verdict ELSE @]

\* Mutant: the write creates what it does not find.
ReportUpsert(k) ==
  /\ view[k] \in Phases
  /\ view' = [view EXCEPT ![k] = "idle"]
  /\ phase' = [phase EXCEPT ![k] = view[k]]

\* The deferred write.
Report(k) ==
  /\ view[k] \in Phases
  /\ view' = [view EXCEPT ![k] = "idle"]
  /\ StoreStatus(k, view[k])

\* Find returns an error: that too is a verdict.
LookFails(k) ==
  /\ faults < MaxFaults /\ view[k] = "checked"
  /\ faults' = faults + 1
  /\ view' = [view EXCEPT ![k] = "Degraded"]
  /\ UNCHANGED <<phase, moves>>

\* The status write returns an error.
ReportFails(k) ==
  /\ faults < MaxFaults /\ view[k] \in Phases
  /\ faults' = faults + 1
  /\ view' = [view EXCEPT ![k] = "idle"]
  /\ UNCHANGED <<phase, moves>>

\* The agent dies: the reconciles of both controllers are lost.
AgentDies ==
  /\ faults < MaxFaults
  /\ \/ \E r \in Runtimes : pc[r] # "idle"
     \/ \E k \in Mounts : view[k] # "idle"
  /\ faults' = faults + 1
  /\ Forget(Runtimes)
  /\ view' = [k \in Mounts |-> "idle"]
  /\ UNCHANGED <<engineVars, declared, provision, status, moves, phase>>

(***************************************************************************)
(* Everybody else's steps; a VolumeMount that is deleted takes its status  *)
(* with it.                                                                *)
(***************************************************************************)
Forgotten ==
  phase' = [k \in Mounts |-> IF k[2] \in asked'[k[1]] THEN phase[k] ELSE ""]

MountStep(k) ==
  /\ \/ (Check(k) \/ Look(k) \/ Report(k)) /\ UNCHANGED budgets
     \/ LookFails(k) \/ ReportFails(k)
  /\ UNCHANGED <<engineVars, declared, provision, status, locals>>

MountNext ==
  \/ \E k \in Mounts : MountStep(k)
  \/ AgentDies
  \/ /\ \E r \in Runtimes : Begin(r) \/ Step(r) \/ CallFails(r) \/ InnerBeat(r)
     /\ UNCHANGED mountVars
  \/ (User \/ Machine) /\ Forgotten /\ UNCHANGED view

MountSpec == MountInit /\ [][MountNext]_allVars

(***************************************************************************)
(* The same as for runtimes: a reconcile goes on, and every path through   *)
(* reconcileNormal asks to be called again.                                *)
(***************************************************************************)
MountFairness ==
  /\ \A r \in Runtimes : WF_allVars(Step(r) /\ UNCHANGED mountVars)
                         /\ SF_allVars(Begin(r) /\ UNCHANGED mountVars)
  /\ \A k \in Mounts : /\ WF_allVars(MountStep(k) /\ view[k] # "idle")
                       /\ SF_allVars(MountStep(k) /\ view[k] = "idle")

FairMountSpec == MountSpec /\ MountFairness

-----------------------------------------------------------------------------
MountTypeOK ==
  /\ TypeOK
  /\ phase \in [Mounts -> {""} \cup Phases]
  /\ view \in [Mounts -> {"idle", "checked"} \cup Phases]
  /\ \A k \in Mounts : phase[k] # "" => Exists(k)
  /\ Cardinality({ k \in Mounts : view[k] # "idle" }) <= MountWorkers

Bound(k) ==
  \E b \in box[k[1]] : \E bind \in b.from.binds :
    bind.host = Clean(k[2].host) /\ bind.path = Clean(k[2].path)

Due(k) ==
  IF ~CheckMount(k[2]) \/ k[1] = <<>> THEN "Failed"
  ELSE IF box[k[1]] = {} THEN "Pending"
  ELSE IF Bound(k) THEN "Ready" ELSE "Provisioning"

\* volumemount_controller.go:176-179: the names docker gives to what it binds are
\* translated back no further than needed, so as not to "report a mount as ready
\* that is not": when a VolumeMount is found ready, its directory (or the engine's
\* socket, under either name) is what is bound at its container path.
BoundAsNamed(k) ==
  \E b \in box[k[1]] : \E bind \in b.from.binds :
    /\ bind.path = k[2].path
    /\ bind.host = k[2].host \/ {bind.host, k[2].host} \subseteq DockerSockets

ReadyIsBound ==
  [][\A k \in Mounts :
       view[k] = "checked" /\ view'[k] = "Ready" => BoundAsNamed(k)]_allVars

\* volumemount_controller.go:1-13: once things stand still, the status says what
\* has become of the mount, whatever was said of it on the way.
MountShown == \A k \in Mounts : <>[]Exists(k) => <>[](phase[k] = Due(k))

\* volumemount_controller.go:145-147: a mount that can be made is made and called
\* ready, and does not "sit at 'not mounted yet' forever while the directory was
\* plainly there".
MountArrives ==
  \A k \in Mounts :
    <>[](Plannable(k[1]) /\ Exists(k) /\ CheckMount(k[2]))
      => <>[](phase[k] = "Ready" /\ Bound(k))

=============================================================================
