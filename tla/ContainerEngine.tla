--------------------------- MODULE ContainerEngine ---------------------------
(***************************************************************************)
(* The machine's container engine and the calls repository/container makes *)
(* to it: what `docker run`, `start`, `rm`, `volume create` and `volume    *)
(* rm` do to the containers and the named volumes, and what `inspect`,     *)
(* `ps` and `volume ls` let the agent read back.                           *)
(*                                                                         *)
(* A container is named after its runtime, so box[r] holds at most one: it *)
(* is {} or a singleton.  A container's spec-hash label is equal to another *)
(* hash exactly when both were made from equal payloads, so a box carries  *)
(* the payload (field from) in its place.                                  *)
(*                                                                         *)
(* Names are sequences of the segments a dash separates: VolumeName joins  *)
(* "new" and "dev-home" to what it joins "new-dev" and "home" to.          *)
(***************************************************************************)
EXTENDS PortAllocation

CONSTANTS
  Runtimes,             \* names of runtimes
  Declared,             \* names a template declares volumes under
  HostMounts,           \* what VolumeMount resources may ask for
  Images,               \* everything else a container is made from
  NoVolume,             \* the volume does not exist
  Unlabelled            \* it exists and carries no runtime label

\* Mutant: the volume is named after what the template calls it.
VolumeNameShared(runtime, volume) == volume

VolumeName(runtime, volume) == runtime \o volume
VolumeNames == { VolumeName(r, v) : r \in Runtimes, v \in Declared }

\* filepath.Clean: paths are absolute, a sequence of the segments between their
\* slashes; a trailing slash leaves an empty last segment.
Clean(path) == SelectSeq(path, LAMBDA segment : segment \notin {"", "."})

\* The bind mount a VolumeMount comes to.
Bind(m) == [host |-> Clean(m.host), path |-> Clean(m.path), readOnly |-> m.readOnly]
Binds == { Bind(m) : m \in HostMounts }
Directories == { Clean(m.host) : m \in HostMounts }

ASSUME MountShape ==
  \A m \in HostMounts : /\ m.host \in Seq(STRING) /\ m.path \in Seq(STRING)
                        /\ m.readOnly \in BOOLEAN

ASSUME EngineNames ==
  /\ NoVolume \notin Runtimes /\ Unlabelled \notin Runtimes
  /\ NoVolume # Unlabelled

VARIABLES
  box,                  \* box[r]: the container named r, if there is one
  volumes,              \* volumes[v]: its label, Unlabelled or NoVolume
  foreign               \* host ports held by what the agent knows nothing of

engineVars == <<box, volumes, foreign>>

\* The payload of Container.Hash: the ports without their host numbers, the
\* named volumes, the bound host directories, and of the environment the part
\* that depends on the machine.
IsPayload(d) ==
  /\ d = [image |-> d.image, ports |-> d.ports, mounts |-> d.mounts,
          binds |-> d.binds, told |-> d.told]
  /\ d.image \in Images /\ d.ports \subseteq PortSpec
  /\ d.mounts \subseteq VolumeNames /\ d.binds \subseteq Binds

IsBox(b) ==
  /\ b = [from |-> b.from, ports |-> b.ports, running |-> b.running]
  /\ IsPayload(b.from) /\ IsPortMap(b.ports) /\ b.running \in BOOLEAN

EngineTypeOK ==
  /\ DOMAIN box = Runtimes
  /\ \A r \in Runtimes : \A b \in box[r] : IsBox(b) /\ box[r] = {b}
  /\ volumes \in [VolumeNames -> Runtimes \cup {NoVolume, Unlabelled}]
  /\ foreign \subseteq Nat

-----------------------------------------------------------------------------
(***************************************************************************)
(* What can be read back.                                                  *)
(***************************************************************************)
\* volumesOf
Mounted(r) == UNION { b.from.mounts : b \in box[r] }

\* volumesLabelled
Labelled(r) == { v \in VolumeNames : volumes[v] = r }

InUse(v) == \E r \in Runtimes : v \in Mounted(r)

\* Mutant: the labels are not read back.
LabelsForgotten(found) == NoPorts

\* The labels of a container, with Observed's empty map when there is none.
LabelsOf(found) == IF found = {} THEN NoPorts ELSE (CHOOSE b \in found : TRUE).ports

\* Mutant: docker ps without --all.
OthersRunningHosts(r) ==
  UNION { UNION { Hosts(b.ports) : b \in { c \in box[s] : c.running } } :
            s \in Runtimes \ {r} }

\* List, as assignPorts reads it: running or not, every other box counts.
OthersHosts(r) ==
  UNION { UNION { Hosts(b.ports) : b \in box[s] } : s \in Runtimes \ {r} }

\* The ports on which a listen fails.
RunningHosts(r) ==
  UNION { Publishes(b.ports) : b \in { c \in box[r] : c.running } }
Listening == foreign \cup UNION { RunningHosts(r) : r \in Runtimes }

CanPublish(r, labels) ==
  /\ Publishable(labels)
  /\ Publishes(labels) \cap
       (foreign \cup UNION { RunningHosts(s) : s \in Runtimes \ {r} }) = {}

-----------------------------------------------------------------------------
(***************************************************************************)
(* What the calls do.                                                      *)
(***************************************************************************)
\* docker volume create: the label is ignored when the volume exists.
CreateVolume(r, v) ==
  volumes' = [volumes EXCEPT ![v] = IF @ = NoVolume THEN r ELSE @]

RemoveVolume(v) == volumes' = [volumes EXCEPT ![v] = NoVolume]

\* docker run makes the volumes that are missing, without a label, and leaves
\* the container behind, created, when a port cannot be bound.
RunBox(r, payload, labels) ==
  /\ box' = [box EXCEPT ![r] = { [from |-> payload, ports |-> labels,
                                  running |-> CanPublish(r, labels)] }]
  /\ volumes' = [v \in VolumeNames |->
                   IF v \in payload.mounts /\ volumes[v] = NoVolume
                   THEN Unlabelled ELSE volumes[v]]

SetRunning(r, running) ==
  box' = [box EXCEPT ![r] = { [b EXCEPT !.running = running] : b \in @ }]

RemoveBox(r) == box' = [box EXCEPT ![r] = {}]

=============================================================================
