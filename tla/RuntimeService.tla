--------------------------- MODULE RuntimeService ---------------------------
(***************************************************************************)
(* The runtime controller and the runtime service against the machine: one *)
(* reconcile of a Runtime is a sequence of calls to the control plane and  *)
(* to the engine, and between any two of them another reconcile may step,  *)
(* the user may change something, a container may stop, a call may fail,   *)
(* the agent may die.                                                      *)
(*                                                                         *)
(* The control loop runs one reconcile of a resource at a time; Workers is *)
(* how many resources it reconciles at once.                               *)
(***************************************************************************)
EXTENDS ContainerEngine, ProvisionFiles

CONSTANTS
  Specs,                \* what a Runtime and its template may ask for
  Legacy,               \* runtimes whose box predates labelled volumes
  Workers,              \* reconciles the control loop runs at once
  HostPorts,            \* ports a foreign process may take
  May,                  \* what else may happen: a subset of Happenings
  MaxMoves,             \* bound: changes made by anyone but the agent
  MaxFaults             \* bound: failed calls and crashes of the agent

\* sound: Plan accepts the template (no envFrom, no secret volume, an image).
\* covers: the container paths the template's own storage is mounted at.  None
\* of it is an emptyDir.
\* defaults, user: the files of the template and of the user config.
IsSpec(s) ==
  /\ s = [image |-> s.image, ports |-> s.ports, extra |-> s.extra,
          vols |-> s.vols, sound |-> s.sound, covers |-> s.covers,
          defaults |-> s.defaults, user |-> s.user]
  /\ s.image \in Images
  /\ s.ports \subseteq PortSpec /\ s.extra \subseteq PortSpec
  /\ s.vols \subseteq Declared /\ s.covers \subseteq Seq(STRING)
  /\ s.sound \in BOOLEAN
  /\ s.defaults \in Seq([path : STRING, body : STRING])
  /\ s.user \in Seq([path : STRING, body : STRING])

Happenings == {"declare", "edit", "delete", "mount", "directory", "stop",
               "vanish", "prune", "port", "beat"}

ASSUME ServiceConstants ==
  /\ May \subseteq Happenings
  /\ \A s \in Specs : IsSpec(s)
  /\ Legacy \subseteq Runtimes
  /\ Workers \in Nat \ {0} /\ HostPorts \subseteq Nat \ {0}
  /\ MaxMoves \in Nat /\ MaxFaults \in Nat

VARIABLES
  resource,             \* the Runtime: "absent", "new" (no finalizer yet),
                        \* "held", "leaving" (deletion requested)
  spec,                 \* spec[r]: what it asks for, {} when absent
  asked,                \* asked[r]: the VolumeMount resources naming it
  present,              \* the host directories that exist
  provision,            \* provision[r]: its Provision, if any: the files, and
                        \* how often the agent in the box has left its beat
  status,               \* status[r]: the phase and the addresses last written
  pc,                   \* where the reconcile of r is, "idle" between two
  seen, copy, found, want,
                        \* Ensure's locals: the spec it fetched, the Provision
                        \* to update, the container it found, the one it plans
  todo,                 \* volumes still to create, or to remove
  moves, faults         \* how much of the two budgets is spent

declared == <<resource, spec, asked, present>>
locals   == <<pc, copy, seen, found, want, todo>>
budgets  == <<moves, faults>>
vars == <<box, volumes, foreign, resource, spec, asked, present, provision,
          status, pc, copy, seen, found, want, todo, moves, faults>>

EnsureSteps == {"provision", "write", "find", "plan", "start", "replace",
                "volumes", "run", "inspect"}
RemoveSteps == {"collect", "rm", "purge", "unprovision", "release"}

NoStatus == [phase |-> "", tcp |-> NoPorts]

-----------------------------------------------------------------------------
(***************************************************************************)
(* What a spec plans to.                                                   *)
(***************************************************************************)
Files(s) == MergeFiles(s.defaults, s.user)

Payload(r, s, binds, ports) ==
  [image  |-> s.image,
   ports  |-> MergePorts(s.ports, s.extra),
   mounts |-> { VolumeName(r, v) : v \in s.vols },
   binds  |-> binds,
   told   |-> Advertised(ports)]

\* At this moment: the directory is there and the container path not the root.
CheckMount(m) == Clean(m.host) \in present /\ Clean(m.path) # <<>>

\* What does not pass is skipped, not fatal.
HonouredMounts(r) == { m \in asked[r] : CheckMount(m) }

\* addHostMounts refuses a mount over a path of the template or of another
\* mount; so does Plan everything a template may not ask for here.
PlanRefuses(s, mounts) ==
  \/ ~s.sound
  \/ \E m \in mounts :
       \/ Clean(m.path) \in s.covers
       \/ \E n \in mounts \ {m} : Clean(m.path) = Clean(n.path)

\* Mutant: the host mounts never reach the plan.
PlannedWithoutMounts(r, s, mounts, ports) ==
  [from  |-> Payload(r, s, {}, ports),
   ports |-> ApplyHostPorts(Names(s.ports \cup s.extra), ports)]

Planned(r, s, mounts, ports) ==
  [from  |-> Payload(r, s, { Bind(m) : m \in mounts }, ports),
   ports |-> ApplyHostPorts(Names(s.ports \cup s.extra), ports)]

\* Service.state: an address for every port that has a number.
Addresses(labels) ==
  [n \in { m \in DOMAIN labels : labels[m] # 0 } |-> labels[n]]

Provision(files, beat) == [files |-> files, beat |-> beat]

-----------------------------------------------------------------------------
Init ==
  /\ resource  = [r \in Runtimes |-> IF r \in Legacy THEN "held" ELSE "absent"]
  /\ spec \in [Runtimes -> { {} } \cup { {s} : s \in Specs }]
  /\ \A r \in Runtimes : /\ spec[r] = {} <=> r \notin Legacy
                        /\ \A s \in spec[r] : s.sound
  /\ asked     = [r \in Runtimes |-> {}]
  /\ present   = Directories
  /\ provision = [r \in Runtimes |-> { Provision(Files(s), 1) : s \in spec[r] }]
  /\ status    = [r \in Runtimes |-> NoStatus]
  /\ box       = [r \in Runtimes |->
                    { [from |-> Payload(r, s, {}, NoPorts), ports |-> NoPorts,
                       running |-> TRUE] : s \in spec[r] }]
  /\ volumes   = [v \in VolumeNames |->
                    IF InUse(v) THEN Unlabelled ELSE NoVolume]
  /\ foreign   = {}
  /\ pc    = [r \in Runtimes |-> "idle"]
  /\ seen  = [r \in Runtimes |-> {}]
  /\ copy  = [r \in Runtimes |-> {}]
  /\ found = [r \in Runtimes |-> {}]
  /\ want  = [r \in Runtimes |-> {}]
  /\ todo  = [r \in Runtimes |-> {}]
  /\ moves = 0 /\ faults = 0

-----------------------------------------------------------------------------
(***************************************************************************)
(* A reconcile ends: the status is written, the locals go out of scope.    *)
(***************************************************************************)
Goto(r, step) == pc' = [pc EXCEPT ![r] = step]

\* Mutant: the list of volumes survives the reconcile it was made in.
ForgetAllButTodo(R) ==
  /\ pc'    = [r \in Runtimes |-> IF r \in R THEN "idle" ELSE pc[r]]
  /\ seen'  = [r \in Runtimes |-> IF r \in R THEN {} ELSE seen[r]]
  /\ copy'  = [r \in Runtimes |-> IF r \in R THEN {} ELSE copy[r]]
  /\ found' = [r \in Runtimes |-> IF r \in R THEN {} ELSE found[r]]
  /\ want'  = [r \in Runtimes |-> IF r \in R THEN {} ELSE want[r]]
  /\ UNCHANGED todo

Forget(R) ==
  /\ pc'    = [r \in Runtimes |-> IF r \in R THEN "idle" ELSE pc[r]]
  /\ seen'  = [r \in Runtimes |-> IF r \in R THEN {} ELSE seen[r]]
  /\ copy'  = [r \in Runtimes |-> IF r \in R THEN {} ELSE copy[r]]
  /\ found' = [r \in Runtimes |-> IF r \in R THEN {} ELSE found[r]]
  /\ want'  = [r \in Runtimes |-> IF r \in R THEN {} ELSE want[r]]
  /\ todo'  = [r \in Runtimes |-> IF r \in R THEN {} ELSE todo[r]]

Done(r, labels, running) ==
  /\ status' = [status EXCEPT ![r] =
                  [phase |-> IF running THEN "Ready" ELSE "Initializing",
                   tcp   |-> Addresses(labels)]]
  /\ Forget({r})

\* The addresses written by an earlier pass stay in the status.
Failed(r) ==
  /\ status' = [status EXCEPT ![r].phase =
                  IF pc[r] \in RemoveSteps THEN "Terminating" ELSE "Failed"]
  /\ Forget({r})

-----------------------------------------------------------------------------
(***************************************************************************)
(* Reconcile.                                                              *)
(***************************************************************************)
MayStart(r) ==
  /\ pc[r] = "idle"
  /\ Cardinality({ s \in Runtimes : pc[s] # "idle" }) < Workers

AddFinalizer(r) ==
  /\ MayStart(r) /\ resource[r] = "new"
  /\ resource' = [resource EXCEPT ![r] = "held"]
  /\ UNCHANGED <<engineVars, spec, asked, present, provision, status, locals,
                 budgets>>

\* Mutant: nobody waits for the finalizer.
BeginEnsureUnheld(r) ==
  /\ MayStart(r) /\ resource[r] \in {"new", "held"}
  /\ Goto(r, "provision")
  /\ seen' = [seen EXCEPT ![r] = spec[r]]
  /\ UNCHANGED <<engineVars, declared, provision, status, copy, found, want,
                 todo, budgets>>

\* Mutant: no Provision is written.
BeginEnsureUnprovisioned(r) ==
  /\ MayStart(r) /\ resource[r] = "held"
  /\ Goto(r, "find")
  /\ seen' = [seen EXCEPT ![r] = spec[r]]
  /\ UNCHANGED <<engineVars, declared, provision, status, copy, found, want,
                 todo, budgets>>

\* Mutant: the deletion of a Runtime is not looked at.
BeginEnsureLeaving(r) ==
  /\ MayStart(r) /\ resource[r] \in {"held", "leaving"}
  /\ Goto(r, "provision")
  /\ seen' = [seen EXCEPT ![r] = spec[r]]
  /\ UNCHANGED <<engineVars, declared, provision, status, copy, found, want,
                 todo, budgets>>

\* Ensure fetches the template and the user config.
BeginEnsure(r) ==
  /\ MayStart(r) /\ resource[r] = "held"
  /\ Goto(r, "provision")
  /\ seen' = [seen EXCEPT ![r] = spec[r]]
  /\ UNCHANGED <<engineVars, declared, provision, status, copy, found, want,
                 todo, budgets>>

BeginRemove(r) ==
  /\ MayStart(r) /\ resource[r] = "leaving"
  /\ Goto(r, "collect")
  /\ UNCHANGED <<engineVars, declared, provision, status, copy, seen, found, want,
                 todo, budgets>>

Begin(r) == AddFinalizer(r) \/ BeginEnsure(r) \/ BeginRemove(r)

-----------------------------------------------------------------------------
(***************************************************************************)
(* Service.Ensure.                                                         *)
(***************************************************************************)
\* Provision.Ensure reads the Provision; what is right is left alone.
ReadProvision(r) ==
  /\ pc[r] = "provision"
  /\ \E s \in seen[r] :
       \/ /\ \E p \in provision[r] : p.files = Files(s)
          /\ Goto(r, "find") /\ UNCHANGED copy
       \/ /\ \A p \in provision[r] : p.files # Files(s)
          /\ Goto(r, "write") /\ copy' = [copy EXCEPT ![r] = provision[r]]
  /\ UNCHANGED <<engineVars, declared, provision, status, seen, found, want, todo,
                 budgets>>

\* Mutant: the update is made of a Provision of its own, as a create is.
UpdatedAfresh(read, s) == { Provision(Files(s), 0) }

\* Created without a status, or the object read with its spec replaced.
Updated(read, s) ==
  IF read = {} THEN { Provision(Files(s), 0) }
  ELSE { Provision(Files(s), p.beat) : p \in read }

\* An object that has changed since it was read is written over, or the write
\* is refused: which, is the control plane's business.
WriteProvision(r) ==
  /\ pc[r] = "write"
  /\ \/ \E s \in seen[r] :
          /\ provision' = [provision EXCEPT ![r] = Updated(copy[r], s)]
          /\ copy' = [copy EXCEPT ![r] = {}]
          /\ Goto(r, "find") /\ UNCHANGED <<status, seen, found, want, todo>>
     \/ provision[r] # copy[r] /\ Failed(r) /\ UNCHANGED provision
  /\ UNCHANGED <<engineVars, declared, budgets>>

Find(r) ==
  /\ pc[r] = "find" /\ Goto(r, "plan")
  /\ found' = [found EXCEPT ![r] = box[r]]
  /\ UNCHANGED <<engineVars, declared, provision, status, copy, seen, want, todo,
                 budgets>>

Recreate(r, plan) ==
  /\ \A b \in found[r] : b.from # plan.from
  /\ Goto(r, IF found[r] = {} THEN "volumes" ELSE "replace")
  /\ want' = [want EXCEPT ![r] = {plan}]
  /\ todo' = [todo EXCEPT ![r] = plan.from.mounts]
  /\ UNCHANGED <<status, copy, seen, found>>

\* Mutant: a container of the right make is never started again.
CompareMakeOnly(r, plan) ==
  \/ \E b \in found[r] : b.from = plan.from /\ Done(r, b.ports, b.running)
  \/ Recreate(r, plan)

\* What comes of comparing the fingerprints.
Compare(r, plan) ==
  \/ \E b \in found[r] :
       /\ b.from = plan.from
       /\ \/ b.running /\ Done(r, b.ports, TRUE)
          \/ /\ ~b.running /\ Goto(r, "start")
             /\ UNCHANGED <<status, copy, seen, found, want, todo>>
  \/ Recreate(r, plan)

\* hostMounts, assignPorts, Plan and applyHostPorts: nothing is changed yet.
PlanBox(r) ==
  /\ pc[r] = "plan"
  /\ \E s \in seen[r] :
       LET mounts  == HonouredMounts(r)
           answers == Assignments(s.ports, LabelsOf(found[r]), OthersHosts(r),
                                  Listening)
       IN  \/ (answers = {} \/ PlanRefuses(s, mounts)) /\ Failed(r)
           \/ /\ ~PlanRefuses(s, mounts)
              /\ \E ports \in answers : Compare(r, Planned(r, s, mounts, ports))
  /\ UNCHANGED <<engineVars, declared, provision, budgets>>

Start(r) ==
  /\ pc[r] = "start"
  /\ \/ /\ \E b \in box[r] : CanPublish(r, b.ports)
        /\ SetRunning(r, TRUE)
        /\ Done(r, LabelsOf(found[r]), TRUE)
     \/ /\ \A b \in box[r] : ~CanPublish(r, b.ports)
        /\ Failed(r) /\ UNCHANGED box
  /\ UNCHANGED <<volumes, foreign, declared, provision, budgets>>

\* Remove(name, false) before the new container is made.
RemoveOld(r) ==
  /\ pc[r] = "replace" /\ Goto(r, "volumes")
  /\ RemoveBox(r)
  /\ UNCHANGED <<volumes, foreign, declared, provision, status, copy, seen,
                 found, want, todo, budgets>>

EnsureVolume(r) ==
  /\ pc[r] = "volumes"
  /\ \/ \E v \in todo[r] :
          /\ CreateVolume(r, v)
          /\ todo' = [todo EXCEPT ![r] = @ \ {v}]
          /\ UNCHANGED pc
     \/ /\ todo[r] = {} /\ Goto(r, "run")
        /\ UNCHANGED <<volumes, todo>>
  /\ UNCHANGED <<box, foreign, declared, provision, status, copy, seen, found, want,
                 budgets>>

\* Create's docker run.  A bind source that has vanished since it was checked
\* is made by docker, so from here on it exists.
Run(r) ==
  /\ pc[r] = "run"
  /\ \E w \in want[r] :
       /\ RunBox(r, w.from, w.ports)
       /\ present' = present \cup { b.host : b \in w.from.binds }
       /\ \/ /\ CanPublish(r, w.ports) /\ Goto(r, "inspect")
             /\ UNCHANGED <<status, copy, seen, found, want, todo>>
          \/ ~CanPublish(r, w.ports) /\ Failed(r)
  /\ UNCHANGED <<foreign, resource, spec, asked, provision, budgets>>

\* Create's second look: the container may have stopped or vanished by now.
Inspect(r) ==
  /\ pc[r] = "inspect"
  /\ \/ \E b \in box[r] : Done(r, b.ports, b.running)
     \/ box[r] = {} /\ Failed(r)
  /\ UNCHANGED <<engineVars, declared, provision, budgets>>

-----------------------------------------------------------------------------
(***************************************************************************)
(* Service.Remove and the end of reconcileDelete.                          *)
(***************************************************************************)
\* Mutant: what no container mounts any more is not looked for.
DoomedMounted(r) == Mounted(r)

\* Mutant: volumes are found by the prefix of their name, the way docker.go
\* 184-186 says they must not be.
DoomedByPrefix(r) ==
  { v \in VolumeNames : volumes[v] # NoVolume /\ SubSeq(v, 1, Len(r)) = r }

Doomed(r) == Mounted(r) \cup Labelled(r)

Collect(r) ==
  /\ pc[r] = "collect" /\ Goto(r, "rm")
  /\ todo' = [todo EXCEPT ![r] = Doomed(r)]
  /\ UNCHANGED <<engineVars, declared, provision, status, copy, seen, found, want,
                 budgets>>

\* Mutant: a container that is not there is an error.
RmStrict(r) ==
  /\ pc[r] = "rm"
  /\ \/ /\ box[r] # {} /\ Goto(r, "purge") /\ RemoveBox(r)
        /\ UNCHANGED <<status, copy, seen, found, want, todo>>
     \/ box[r] = {} /\ Failed(r) /\ UNCHANGED box
  /\ UNCHANGED <<volumes, foreign, declared, provision, budgets>>

Rm(r) ==
  /\ pc[r] = "rm" /\ Goto(r, "purge")
  /\ RemoveBox(r)
  /\ UNCHANGED <<volumes, foreign, declared, provision, status, copy, seen,
                 found, want, todo, budgets>>

\* A volume another container holds is an error, and so is one that is gone:
\* docker says "no such volume", which isNotFound does not know.
Purge(r) ==
  /\ pc[r] = "purge"
  /\ \/ \E v \in todo[r] :
          \/ /\ volumes[v] # NoVolume /\ ~InUse(v)
             /\ RemoveVolume(v)
             /\ todo' = [todo EXCEPT ![r] = @ \ {v}]
             /\ UNCHANGED <<status, pc, copy, seen, found, want>>
          \/ /\ volumes[v] = NoVolume \/ InUse(v)
             /\ Failed(r) /\ UNCHANGED volumes
     \/ /\ todo[r] = {} /\ Goto(r, "unprovision")
        /\ UNCHANGED <<volumes, status, copy, seen, found, want, todo>>
  /\ UNCHANGED <<box, foreign, declared, provision, budgets>>

Unprovision(r) ==
  /\ pc[r] = "unprovision" /\ Goto(r, "release")
  /\ provision' = [provision EXCEPT ![r] = {}]
  /\ UNCHANGED <<engineVars, declared, status, copy, seen, found, want, todo, budgets>>

\* RemoveFinalizer reaches the control plane with the status, and the resource
\* is gone for good.
Release(r) ==
  /\ pc[r] = "release"
  /\ resource' = [resource EXCEPT ![r] = "absent"]
  /\ spec' = [spec EXCEPT ![r] = {}]
  /\ status' = [status EXCEPT ![r] = NoStatus]
  /\ Forget({r})
  /\ UNCHANGED <<engineVars, asked, present, provision, budgets>>

Step(r) ==
  \/ ReadProvision(r) \/ WriteProvision(r) \/ Find(r) \/ PlanBox(r) \/ Start(r)
  \/ RemoveOld(r) \/ EnsureVolume(r) \/ Run(r) \/ Inspect(r)
  \/ Collect(r) \/ Rm(r) \/ Purge(r) \/ Unprovision(r) \/ Release(r)

-----------------------------------------------------------------------------
(***************************************************************************)
(* What may go wrong with the agent itself.                                *)
(***************************************************************************)
\* A call to the control plane or to docker returns an error.
CallFails(r) ==
  /\ faults < MaxFaults /\ pc[r] # "idle"
  /\ faults' = faults + 1
  /\ Failed(r)
  /\ UNCHANGED <<engineVars, declared, provision, moves>>

\* The agent dies and is started again: every reconcile in flight is lost.
Crash ==
  /\ faults < MaxFaults /\ \E r \in Runtimes : pc[r] # "idle"
  /\ faults' = faults + 1
  /\ Forget(Runtimes)
  /\ UNCHANGED <<engineVars, declared, provision, status, moves>>

-----------------------------------------------------------------------------
(***************************************************************************)
(* Everybody else.                                                         *)
(***************************************************************************)
Happens(event) ==
  /\ event \in May /\ moves < MaxMoves
  /\ moves' = moves + 1 /\ UNCHANGED faults

\* Every resource has a name.
Declare(r) ==
  /\ Happens("declare") /\ resource[r] = "absent" /\ r # <<>>
  /\ resource' = [resource EXCEPT ![r] = "new"]
  /\ \E s \in Specs : spec' = [spec EXCEPT ![r] = {s}]
  /\ UNCHANGED <<asked, present>>

\* The Runtime or its template changes.
Edit(r) ==
  /\ Happens("edit") /\ resource[r] \in {"new", "held"}
  /\ \E s \in Specs : s \notin spec[r] /\ spec' = [spec EXCEPT ![r] = {s}]
  /\ UNCHANGED <<resource, asked, present>>

\* Without a finalizer there is nothing to wait for.
Delete(r) ==
  /\ Happens("delete")
  /\ \/ /\ resource[r] = "held"
        /\ resource' = [resource EXCEPT ![r] = "leaving"]
        /\ UNCHANGED spec
     \/ /\ resource[r] = "new"
        /\ resource' = [resource EXCEPT ![r] = "absent"]
        /\ spec' = [spec EXCEPT ![r] = {}]
  /\ UNCHANGED <<asked, present>>

\* A VolumeMount naming the runtime is created or deleted.
AskMount(r) ==
  /\ Happens("mount")
  /\ \E m \in HostMounts :
       asked' = [asked EXCEPT ![r] = IF m \in @ THEN @ \ {m} ELSE @ \cup {m}]
  /\ UNCHANGED <<resource, spec, present>>

MoveDirectory ==
  /\ Happens("directory")
  /\ \E d \in Directories :
       present' = IF d \in present THEN present \ {d} ELSE present \cup {d}
  /\ UNCHANGED <<resource, spec, asked>>

User ==
  /\ \/ \E r \in Runtimes : Declare(r) \/ Edit(r) \/ Delete(r) \/ AskMount(r)
     \/ MoveDirectory
  /\ UNCHANGED <<engineVars, provision, status, locals>>

\* A container dies, or someone stops it, or removes it by hand.
BoxStops(r) ==
  /\ Happens("stop") /\ \E b \in box[r] : b.running
  /\ SetRunning(r, FALSE) /\ UNCHANGED <<volumes, foreign>>

BoxVanishes(r) ==
  /\ Happens("vanish") /\ box[r] # {}
  /\ RemoveBox(r) /\ UNCHANGED <<volumes, foreign>>

\* docker volume prune
VolumePruned ==
  /\ Happens("prune")
  /\ \E v \in VolumeNames : volumes[v] # NoVolume /\ ~InUse(v) /\ RemoveVolume(v)
  /\ UNCHANGED <<box, foreign>>

ForeignPort ==
  /\ Happens("port")
  /\ \E p \in HostPorts :
       \/ p \in foreign /\ foreign' = foreign \ {p}
       \/ p \notin Listening /\ foreign' = foreign \cup {p}
  /\ UNCHANGED <<box, volumes>>

\* The agent in the box leaves a beat in the status of its Provision.
InnerBeat(r) ==
  /\ Happens("beat") /\ \E b \in box[r] : b.running
  /\ \E p \in provision[r] :
       provision' = [provision EXCEPT ![r] = {Provision(p.files, p.beat + 1)}]
  /\ UNCHANGED <<engineVars, declared, status, locals>>

Machine ==
  /\ \/ \E r \in Runtimes : BoxStops(r) \/ BoxVanishes(r)
     \/ VolumePruned \/ ForeignPort
  /\ UNCHANGED <<declared, provision, status, locals>>

-----------------------------------------------------------------------------
Next ==
  \/ \E r \in Runtimes : Begin(r) \/ Step(r) \/ CallFails(r) \/ InnerBeat(r)
  \/ Crash \/ User \/ Machine

Spec == Init /\ [][Next]_vars

(***************************************************************************)
(* A started reconcile goes on until it ends.  The queue is served in      *)
(* order and every reconcile asks to be called again, so a runtime that is *)
(* waiting gets its turn however often the others take theirs.             *)
(***************************************************************************)
Fairness == \A r \in Runtimes : WF_vars(Step(r)) /\ SF_vars(Begin(r))
FairSpec == Spec /\ Fairness

-----------------------------------------------------------------------------
\* Each of Ensure's locals is there from the call that yields it to the end of
\* the reconcile.
InScope(r) ==
  /\ seen[r]  # {} <=> pc[r] \in EnsureSteps
  /\ copy[r]  # {} => pc[r] = "write"
  /\ found[r] # {} => pc[r] \in EnsureSteps \ {"provision", "write", "find"}
  /\ want[r]  # {} <=> pc[r] \in {"replace", "volumes", "run", "inspect"}
  /\ todo[r]  # {} => pc[r] \in {"replace", "volumes", "rm", "purge"}

IsPlan(w) ==
  /\ w = [from |-> w.from, ports |-> w.ports]
  /\ IsPayload(w.from) /\ IsPortMap(w.ports)

IsStatus(s) == s = [phase |-> s.phase, tcp |-> s.tcp] /\ IsPortMap(s.tcp)

IsProvision(p) == p = Provision(p.files, p.beat) /\ p.beat \in Nat

TypeOK ==
  /\ EngineTypeOK
  /\ resource \in [Runtimes -> {"absent", "new", "held", "leaving"}]
  /\ spec \in [Runtimes -> SUBSET Specs]
  /\ seen \in [Runtimes -> SUBSET Specs]
  /\ asked \in [Runtimes -> SUBSET HostMounts] /\ present \subseteq Directories
  /\ pc \in [Runtimes -> {"idle"} \cup EnsureSteps \cup RemoveSteps]
  /\ todo \in [Runtimes -> SUBSET VolumeNames]
  /\ DOMAIN status = Runtimes /\ DOMAIN provision = Runtimes
  /\ copy  = [r \in Runtimes |-> copy[r]]
  /\ found = [r \in Runtimes |-> found[r]]
  /\ want  = [r \in Runtimes |-> want[r]]
  /\ \A r \in Runtimes :
       /\ spec[r] = {} <=> resource[r] = "absent"
       /\ IsStatus(status[r])
       /\ \A p \in provision[r] : IsProvision(p) /\ provision[r] = {p}
       /\ \A p \in copy[r] : IsProvision(p) /\ copy[r] = {p}
       /\ \A b \in found[r] : IsBox(b) /\ found[r] = {b}
       /\ \A w \in want[r] : IsPlan(w)
       /\ InScope(r)
  /\ moves \in 0..MaxMoves /\ faults \in 0..MaxFaults

\* What holds of a runtime at every step of its reconcile: a reconcile in flight
\* is held by the finalizer, and each step of a removal relies on what the ones
\* before it have taken away.
RemoveOrder(r) ==
  /\ pc[r] # "idle" => resource[r] \in {"held", "leaving"}
  /\ pc[r] \in RemoveSteps => resource[r] = "leaving"
  /\ pc[r] \in {"rm", "purge"} => Labelled(r) \subseteq todo[r]
  /\ pc[r] \in {"purge", "unprovision", "release"} => box[r] = {}
  /\ pc[r] \in {"unprovision", "release"} => Labelled(r) = {}
  /\ pc[r] = "release" => provision[r] = {}

Informed(r) ==
  box[r] # {} \/ pc[r] \in EnsureSteps \ {"provision", "write"} => provision[r] # {}

Unheld(r) ==
  resource[r] \in {"absent", "new"} =>
    box[r] = {} /\ Labelled(r) = {} /\ provision[r] = {}

\* runtime_controller.go:69-78 and service.go:211-215: the finalizer goes on
\* before anything is made and comes off after everything is gone, so a Runtime
\* that carries none has no container, no volume labelled as its own and no
\* Provision on this machine, whatever failed or crashed on the way.
LeavesNothing == \A r \in Runtimes : Unheld(r)

\* service.go:211-215: "it leaves nothing on the machine".  Not only what is
\* labelled: no volume of a name this runtime's boxes mounted.
NoDiskLeft ==
  \A r \in Runtimes : resource[r] = "absent" =>
    \A d \in Declared : volumes[VolumeName(r, d)] = NoVolume

\* service.go:134-140 and 225-227: a container exists only next to a Provision
\* the agent inside it can read, from before it starts until after it is gone.
ProvisionAroundBox ==
  \A r \in Runtimes : box[r] # {} => provision[r] # {}

\* The inductive invariant behind the two.
TeardownInv ==
  \A r \in Runtimes : RemoveOrder(r) /\ Informed(r) /\ Unheld(r)

(***************************************************************************)
(* The same as a contract: see RuntimeLifecycle.                           *)
(***************************************************************************)
Stage(r) ==
  IF resource[r] = "leaving" /\ pc[r] \notin EnsureSteps
  THEN "closing" ELSE resource[r]

Here(r) ==
  { t \in {"provision", "disks", "box"} :
      \/ t = "provision" /\ provision[r] # {}
      \/ t = "disks" /\ Labelled(r) # {}
      \/ t = "box" /\ box[r] # {} }

Lifecycle == INSTANCE RuntimeLifecycle
  WITH Owners <- Runtimes,
       stage <- [r \in Runtimes |-> Stage(r)],
       here  <- [r \in Runtimes |-> Here(r)]

\* runtime_controller.go:69-117, service.go:105-228: however passes, failures and
\* other people interleave, what a reconcile does to a Runtime is one of the
\* steps RuntimeLifecycle allows, in particular nothing is made any more once
\* the last pass from before its deletion is over.
KeepsContract == Lifecycle!Spec

\* docker.go:184-186, service.go:182-184 and 220: no step of the agent takes a
\* volume that is labelled as a runtime's own or mounted by its container,
\* unless that runtime is being deleted.
DisksKept ==
  [][moves' = moves =>
       \A r \in Runtimes : \A v \in Mounted(r) \cup Labelled(r) :
         volumes[v] # NoVolume /\ volumes'[v] = NoVolume
           => resource[r] = "leaving"]_vars

\* plan.go:291-292: "two runtimes on one machine never share a home directory
\* by accident".
OwnDisks ==
  \A r \in Runtimes : \A v \in Mounted(r) : volumes[v] \in {r, Unlabelled}

\* service.go:308-319: two containers never carry the same host port, running
\* or not, as long as one reconcile at a time picks them.
PortsApart ==
  \A r, s \in Runtimes : r # s =>
    \A b \in box[r], c \in box[s] : Publishes(b.ports) \cap Publishes(c.ports) = {}

\* plan.go:257-259 and service.go:336-337: every port the merged list names is
\* published, on the number it asks for when it asks for one.
PublishesWhatIsAsked ==
  \A r \in Runtimes : \A b \in box[r] : \A p \in b.from.ports :
    b.ports[p.name] # 0 /\ (p.pin > 0 => b.ports[p.name] = p.pin)

\* service.go:301-303: a container is recreated because something it was asked
\* for has changed, never because of what this machine told it on its own.  The
\* exception: a list that drops port ssh has its container recreated twice, the
\* second time because the first still told it the number.
WithoutTold(payload) == [payload EXCEPT !.told = {}]

StillTold(b) == b.from.told.ssh # NoPort /\ Ssh \notin Names(b.from.ports)

ReplacedForAReason ==
  \A r \in Runtimes : pc[r] = "replace" =>
    \A b \in found[r], w \in want[r] :
      WithoutTold(b.from) # WithoutTold(w.from) \/ StillTold(b)

\* service.go:353-354: "an address already handed out does not move under
\* whoever is using it", unless the spec pins that port to another number.
AddressKept(r) ==
  \A n \in DOMAIN status[r].tcp \cap DOMAIN status'[r].tcp :
    \/ status'[r].tcp[n] = status[r].tcp[n]
    \/ \E s \in seen[r] : \E p \in Pinned(s.ports) : p.name = n

AddressesStay == [][\A r \in Runtimes : AddressKept(r)]_vars

\* The same, for an agent of which no call has failed and that has not died, when
\* the last pass came through (one that fails leaves addresses in the status
\* that the container need not have any more) and there is a container to learn
\* the numbers from.
AddressesStayUnbroken ==
  [][faults = 0 =>
       \A r \in Runtimes :
         status[r].phase \in {"Ready", "Initializing"} /\ found[r] # {}
           => AddressKept(r)]_vars

\* reconcileDelete retries until it is through: a deletion always completes.
DeletionCompletes ==
  \A r \in Runtimes : resource[r] = "leaving" ~> resource[r] = "absent"

\* provision/service.go:78-81: "the status the runtime's own agent maintains - its
\* heartbeat - survives the update".  Only an update ever takes beats back, and no
\* further than to what it has read: every beat that was there by then survives,
\* and those that came between its read and its write are all it may lose.
BeatKept ==
  [][\A r \in Runtimes : \A p \in provision[r], q \in provision'[r] :
       q.beat < p.beat => pc[r] = "write" /\ \E o \in copy[r] : o.beat = q.beat]_vars

\* provision/service.go:120-121: for as long as a Runtime stays, its Provision
\* comes to carry the template's files with the user's over them, whether or
\* not a container can be planned.
Informs ==
  \A r \in Runtimes :
    <>[](resource[r] = "held") =>
      <>[](\E p \in provision[r], s \in spec[r] :
             Layered(p.files, s.defaults, s.user))

\* Once nobody interferes any more the machine comes to match the Runtime: its
\* container runs, made from what the spec and the mounts ask for, for good.
\* A pin on another runtime's number is for the user to settle.
Plannable(r) ==
  /\ resource[r] = "held" /\ foreign = {}
  /\ \A s \in spec[r] : /\ ~PlanRefuses(s, HonouredMounts(r))
                        /\ \A p \in Pinned(s.ports) : p.pin \notin OthersHosts(r)

Matches(r) ==
  \E b \in box[r], s \in spec[r] :
    /\ b.running
    /\ WithoutTold(b.from)
         = WithoutTold(Payload(r, s, { Bind(m) : m \in HonouredMounts(r) }, b.ports))

Settles == \A r \in Runtimes : <>[]Plannable(r) => <>[]Matches(r)

=============================================================================
