# location-agent: a TLA+ model

The agent runs on somebody's machine. It watches the Runtimes the platform
assigns to its *location* and makes the machine match them: one container per
Runtime, with published ports, named volumes and host directories, next to a
Provision in the control plane that the agent inside the container reads.
Paths below are relative to `src/`; `service.go` and `plan.go` without a
directory are those of `internal/services/runtime/`, `docker.go` is
`internal/repository/container/docker.go`.

## Inventory

| Component | State | Operations | What makes it correct |
|---|---|---|---|
| runtime controller (`internal/controllers/runtime`) | finalizer and status on the Runtime | Reconcile: add finalizer, normal pass, delete pass; status written by a deferred call | finalizer on before anything is made, off after everything is gone; a deletion completes; the machine comes to match the spec |
| runtime service (`service.go`) | none: reads the machine and the control plane on each pass | Ensure, Remove, assignPorts, hostMounts | no recreate without a reason; addresses stay; ports are nobody else's |
| plan (`plan.go`, `hostmount.go`) | none | Plan, Container.Hash, VolumeName, ValidateMount, CheckMount | equal hash exactly for equal wishes; names do not collide |
| docker repository (`docker.go`) | containers, their labels, volumes and their labels | Find, List, EnsureVolume, Create, Start, Remove | Remove takes what is the runtime's and nothing else |
| provision service (`internal/services/provision`) | one Provision per runtime | Ensure (read, compare, write back whole), Remove | there before the container, gone after it |
| storage set (`internal/repository/storage`) | none | lookups and lists in the control plane, merge of the local profile | what a pass reads is what is there |
| location controller (`internal/controllers/location`) | beat on the Location, the flag `leaving` | Reconcile stamps and writes; Farewell erases | no beat after the goodbye |
| lock (`internal/config/lock.go`) | lock file, its open descriptor | Acquire, Release | one agent per location |
| main (`cmd/app/main.go`) | the process | start, signal, goodbye, shutdown within a grace | it dies when told to |
| VolumeMount controller (`internal/controllers/volumemount`) | status of a VolumeMount | one pass: check, look at the container, write the phase | the phase settles on what has become of the mount; a mount that can be made is called Ready |
| configuration, logger, dry run repository | read once, or none | - | - |

Components talk through three things: the control plane (resources, any user
may change them at any time), the container engine (anybody with a shell may
change it too) and the host's ports. No state is kept in memory between two
passes, so a crash loses a pass and nothing else; what a pass needs to know of
earlier ones it reads back from labels. Hard are therefore: steps of one pass
that another runtime's pass, a user, a dying container or a crash come between;
what is lost when a call fails halfway (the old container is removed before the
new one is made, and a container before its volumes); numbers read before they
are bound; names that are built from other names; and, in the location
controller, a write that is deferred past the check it depends on. `PROJECT.json`
lists each under "hazards" at its line.

## Modules

    PortAllocation  (operators)     ProvisionFiles  (operators)    LocationAgent
      |        |                        |                            (process)
      |   ContainerEngine  (docker)     |
      |        |                        |
      |    RuntimeService  (controller + services + the world)
      |        |        \---> RuntimeLifecycle  (the contract it implements)
      |   VolumeMounts  (the second controller)
      |
      +-- PortAllocator  (assignPorts, loop by loop)

    Proofs, below the one a module extends; each also
    extends what it is named after:
      PortAllocationProofs
        +-- PortAllocatorProofs
        +-- RuntimeServiceProofs
              +-- RuntimeLifecycleProofs   (the contract)
              +-- RuntimeKeepsProofs       (disks, beats)
              +-- RuntimePortsProofs       (ports, addresses)
              +-- VolumeMountsProofs
      LocationAgentProofs

    TLC: MCPortAllocator, MCLifecycle and MCPorts (RuntimeService),
         MCMounts (VolumeMounts), MCLocationAgent

**PortAllocation** holds what `assignPorts`, `agentEnv`, `applyHostPorts` and
`mergePorts` compute, as operators. Names sorted by the code are ranked by
`Rank`; a port map is a function; `Assignments` is the set of at most one map
the function returns, `{}` an error. `LocalNames` stands for `LocalPortName(0)`,
`LocalPortName(1)` and so on, which the code asks for by number.

**PortAllocator** is the same function one loop iteration at a time, with
`assigned` and `taken` as in the code and the map walk in any order. Its run
shows that the closed form is what the loops arrive at, so that the big model
may use the closed form.

**ContainerEngine** is docker as the agent uses it. `box[r]` is the container
named after `r`, `{}` or a singleton. The spec-hash label is replaced by the
payload it is computed from (`from`), `told` being the part of the environment
that depends on the machine. A failed `docker run` leaves a stopped container
behind; `volume create` on an existing name ignores the label.

**ProvisionFiles** is `mergeFiles`: the user's files laid over the template's,
entry by entry, with the index the code keeps, next to a statement of what a
layered list has to contain (`Layered`).

**RuntimeService** is a reconcile as a sequence of calls, `pc[r]` naming the
next one, in the world around it:

| `pc` | code | action |
|---|---|---|
| idle | `Reconcile` of the controller | `AddFinalizer`, `BeginEnsure`, `BeginRemove` |
| provision, write | `service.go:137`, `provision/service.go:43-88` | `ReadProvision`, `WriteProvision` |
| find | `service.go:141` | `Find` |
| plan | `service.go:146-179` | `PlanBox`: mounts, ports, plan, comparison |
| start | `service.go:171-178` | `Start` |
| replace | `service.go:181-190` | `RemoveOld` |
| volumes | `service.go:192-202` | `EnsureVolume`, one volume a step |
| run, inspect | `docker.go:146-169` | `Run`, `Inspect` |
| collect, rm, purge | `docker.go:187-224` | `Collect`, `Rm`, `Purge`, one volume a step |
| unprovision | `service.go:227` | `Unprovision` |
| release | `runtime_controller.go:115` | `Release` |

A pass ends in `Done` or `Failed`, which also write the status. Any call may
fail (`CallFails`) and the agent may die (`Crash`), `MaxFaults` times; users, the
machine and the agents inside the containers act `MaxMoves` times, in the ways the constant `May` lists. The
bounds are in the guards of exactly these actions; the agent's own steps are
not bounded.

At any time, between the read and the write of a Provision as well, the agent
inside the container may leave a beat in the same object (`InnerBeat`); a Provision
counts them. `copy[r]` is the object as it was read. The write replaces the whole
object or, when that has changed meanwhile, is refused: which of the two is the
control plane's business. Where it is accepted it takes the beats back that came
after the read, although `provision/service.go:78-79` wants the heartbeat to
survive; `BeatKept` says that it takes no others.

**RuntimeLifecycle** is what the agent promises of one Runtime, without calls,
locals, ports or files: a stage (absent, new, held, leaving, closing) and which
of three things there are for it (Provision, disks, box). It says in which order
they may appear, that from *closing* on they only go, that the Provision is
withdrawn last and that the Runtime is dismissed when nothing is left.
RuntimeService implements it under the mapping `Stage`, `Here`
(`Lifecycle == INSTANCE ...`, property `KeepsContract`). A Runtime being deleted
is *leaving* as long as a pass from before the deletion is still under way: that
pass has fetched its template and goes on making things (`runtime_controller.go`
looks at the deletion timestamp once, at the start), and *closing* afterwards.

**VolumeMounts** adds the VolumeMount controller. A VolumeMount is a pair of the
runtime it names and what it asks for; `phase` is its status and `view` where
its reconcile is:

| `view` | code (`volumemount_controller.go`) | action |
|---|---|---|
| idle | 77-104 | `Check` |
| checked | 106-135 | `Look`, `LookFails` |
| a phase | 59-75, the deferred write | `Report`, `ReportFails` |

What becomes of a status written to a VolumeMount that is gone is the control
plane's doing (`StoreStatus`: nothing), and so is that a status goes with its
resource (`Forgotten`); the controller itself does not look.

`Reported` is the name the engine has for a bound directory, the same on Linux,
below `/host_mnt` in Docker Desktop's VM, and `SameHostPath` the comparison. A
VolumeMount has no finalizer, so deleting one is one step and takes its status
along. A crash of the agent (`AgentDies`) ends the passes of both controllers.

**LocationAgent** has any number of processes for one location: the open lock
file, the flock, the loop that stamps a copy of the Location and writes it
later, the goodbye and the three ways out of the shutdown. The Location is *new*
until somebody beats, and *off*, not new, once a beat has been erased, as the
version annotation stays.

## Runs

Passing:

| run | asks | bounds |
|---|---|---|
| `allocator` | do the four loops compute the closed form, without giving out another box's number or giving one to a second name | two template names, two local ports, pool and range of three numbers, so that both can run dry; pins inside, outside and across them; every label map over four numbers, 0 included, also one with a number twice or with another box's |
| `lifecycle` | teardown order, nothing left, no disk of a living runtime taken, the beats of the inner agent survive an update that has read them, the contract | two runtimes, `new` and `new-dev`, one a prefix of the other; two workers; four moves, one fault: create, edit, delete and one hand-made removal fit, and so does a fault in the middle; or a change and two beats of the inner agent, one before a pass reads the Provision and one before it writes |
| `ports` | no two boxes on one port, what is asked is published, no recreate without a reason; addresses stay; when everything else stops changing, and no foreign process keeps a port, every box runs what was asked, for good | two runtimes, pool of four numbers and a local range of two, so that numbers suffice but collide; a pin outside both, which the second runtime may ask for as well; a foreign process on a port of the pool or on the pinned one; four moves, one fault, one worker |
| `mounts` | the machine settles, a deletion completes from whatever it finds, the Provision comes to carry the layered files, and every VolumeMount's phase comes to say what has become of it, never finding one ready whose directory is not bound at its path | one runtime, one volume, two VolumeMounts, a directory and docker's socket, that clash; behind Docker Desktop; three templates: one the plan accepts, one it refuses with either mount, one it refuses outright, with files that replace, add and repeat a path, on both sides; directories move, container and volume may be removed by hand; three moves, one fault |
| `agent` | one serves; a goodbye stays said; a signalled agent dies | three processes, three files: one more of each than a swap needs |

Violations, each a disagreement between the code and what its comments promise
("findings" quotes them):

| run | what happens |
|---|---|
| `runtime_port` | a port that only the Runtime lists gets no number and is never published |
| `pin_over_own` | a pin onto a number the container already holds under another name gives the number out twice; docker cannot publish it, and every later pass starts the stillborn container in vain. Without the pin both names keep the number, so taking it away does not help |
| `port_moves` | a failure between removing the old container and making the new one loses the numbers, and the address moves |
| `collision` | runtime `new` with volume `dev-home` and `new-dev` with `home` share a disk |
| `legacy` | a removal that is interrupted after the container is gone never finds its unlabelled volumes again |
| `untidy_mount` | a VolumeMount whose container path ends in a slash is mounted under the cleaned path, looked up under the raw one, and stays Provisioning for good |
| `beat_back` | a turn handed the Location before Farewell erased the beat writes the old copy, beat and all, over the goodbye |

Some smaller ones came up and have no run of their own. A template that drops
port `ssh` has its container recreated twice: `assignPorts` keeps the dropped
number and the first new container is told it (`service.go:270`, `355`;
`ReplacedForAReason` names the exception). An `ssh` port that only the Runtime lists
gets no number, its label says 0, and 0 is what the next pass reads back and
advertises (`service.go:270`): the container is recreated for that too. A volume pruned between its listing
and its removal fails the pass, as `isNotFound` (`docker.go:357`) does not know
docker's "no such volume"; the next pass does not list it any more, and
`DeletionCompletes` covers that. A host directory that disappears between
`CheckMount` and `docker run` is made by docker, against `hostmount.go:12-15`. A
container that `docker run` left behind because another program had taken its
port is started again on every pass, in vain for as long as that program keeps
the port, although other numbers are free (`service.go:171`): `Plannable` requires
that none does. An `emptyDir` is said to be a tmpfs (`plan.go:293-294`), but
`RunArgs` writes it as `--volume :path` (`docker.go:268-282`), which docker
refuses. Where the template lists a path twice the user's file replaces the last
of the two and the container gets the other as well (`provision/service.go:127-135`).
A mount that clashes with
another or with the template's storage takes the whole plan down (`plan.go:365-370`)
and with it the Runtime, while `service.go:230-237` wants what cannot be mounted
"dropped rather than fatal"; `Plannable` requires that nothing clashes.
`sameHostPath` strips `/host_mnt` on every machine: on Linux a directory bound from
`/host_mnt/x` passes for `/x`. In Docker Desktop the whole disk, `hostPath: /`,
comes back as the share itself, of which stripping leaves the empty string: such a
mount is never called ready.

`CHECK_DEADLOCK FALSE` stands in the configurations of RuntimeService and of
PortAllocator: with every Runtime deleted and the budgets spent nothing is left
to do, and a computed assignment is the end. LocationAgent never stops and is
checked for deadlock.

### Fairness

`WF(Step(r))`: a reconcile that has begun goes on; its calls return, with an
error if need be. `SF(Begin(r))`: the control loop's queue is served in order
and every path through `Reconcile` other than a completed deletion asks to be
called again (`RequeueAfter`), so a waiting runtime gets its turn although with
one worker it is disabled while another has it. The VolumeMount controller is
treated the same: a pass that has begun goes on (`WF`), and as each of
`reconcileNormal`'s returns asks to be called again, a pass begins ever again
(`SF`). The weak fairness is on the whole step, so a call may fail, but only
`MaxFaults` times. No fairness is assumed of users,
of the machine, of faults. In LocationAgent `WF(Main(a))`: main runs by itself;
Farewell has a context with a deadline and the grace is a timer. Nothing is
assumed of the loops there: they may hang for ever.

## Proofs

TLAPS checks these for every value of the constants that meets the named
assumptions (`PortRanges`, `PortNames`, `AllocatorInputs`, `EngineNames`,
`ServiceConstants`, `MountShape`, `MountConstants`, `NoFileIsNone`): any runtimes,
specs, ports, volumes, workers and budgets. Every invariant and every action
property of the passing runs is among them, and so is the contract. Where a
theorem has a hypothesis of its own, the table says what goes wrong without it.

| theorem | states | hypothesis, and why |
|---|---|---|
| `RuntimeServiceProofs!TypeCorrect` | `TypeOK` | |
| `TeardownCorrect`, `NothingIsLeft`, `ProvisionSurroundsBox` | `TeardownInv`, `LeavesNothing`, `ProvisionAroundBox` | |
| `RuntimeLifecycleProofs!ContractKept` | `KeepsContract` | |
| `RuntimeKeepsProofs!DisksAreOwn`, `DisksAreKept` | `OwnDisks`, `DisksKept` | `NamesApart`: no two runtimes come to one volume name. `collision` refutes `OwnDisks` where they do |
| `BeatIsKept` | `BeatKept`: whoever takes beats back is an update, and it takes those that came after its read | |
| `RuntimePortsProofs!NumbersStayApart` | `PortsApart` | `Workers = 1`: two passes at once may choose one number before either container exists |
| `WhatIsAskedIsPublished` | `PublishesWhatIsAsked` | `TemplatePortsOnly`: no runtime lists ports of its own (`runtime_port` is what happens when one does), no name twice in a template. `Legacy = {}`: a container older than the agent has whatever labels it has |
| `ReplacementHasReason` | `ReplacedForAReason` | `ToldByTemplate`: a runtime may list ports of its own, but none the container is told the number of (`ssh`, local ports; see the smaller disagreements above). `Legacy = {}` |
| `HandedOutStays` | `AddressesStayUnbroken` | |
| `VolumeMountsProofs!MountsTypeCorrect` | `MountTypeOK`: that a phase is kept only of what exists rests on `StoreStatus` and `Forgotten` | |
| `MountsOnlyWatch` | a step of the composition is one of RuntimeService or leaves all it reads and writes as it was | |
| `MountsLeaveNothing` | `LeavesNothing` and `ProvisionAroundBox`, of the composition | |
| `FoundReadyIsBound` | `ReadyIsBound` | `SharesApart`: nobody asks for a directory below `/host_mnt` or for Docker Desktop's proxy socket by its own name, which `sameHostPath` takes for another |
| `PortAllocatorProofs!LoopsCorrect` | `LoopInv` | |
| `TypeCorrect`, `LoopsMatchReference` | `TypeOK`, `MatchesReference` | |
| `NothingOfOthers`, `NumbersDistinct` | `NeverAnothersNumber`, `DistinctNumbers` | none, the labels may say anything: what doubles or is another's was so on the labels, or is a pin over a held number |
| `PortAllocationProofs!NobodyElsesNumber` | the same of the answer of `assignPorts` | nothing of another's was on the labels |
| `NoNumberTwice` | `OncePerName`, of the answer of `assignPorts` | none; its exceptions, a number the labels carry twice and a pin over a held one, are what `pin_over_own` ends in |
| `LocationAgentProofs!AgentTypeCorrect`, `LockCorrect`, `OneAgentServes` | `TypeOK`, `LockInv`, `OneServes` | |
| `GoodbyeIsKept` | `GoodbyeStays` | |

`TypeOK` of RuntimeService is inductive because it contains `InScope`: which of
Ensure's locals exist at which step. What the others rest on:

- **Teardown.** `LeavesNothing` alone is not inductive: that nothing is left when
  the finalizer comes off follows from what each earlier step of the removal has
  established (`RemoveOrder`), and that a removed Provision has no container
  from the steps of a creation (`Informed`). The delicate step is `RemoveOrder`'s
  "labelled volumes are among those still to be removed": another runtime's
  `docker run` may create volumes at the same time, but only unlabelled or
  labelled with its own name.
- **Contract.** Under the mapping every step is either a step of the contract or a
  stutter, but only in states that meet `TypeOK` and `TeardownInv`: that
  *withdraw* finds neither disks nor box, and *dismiss* nothing at all, is what
  `RemoveOrder` says at `unprovision` and `release`, and that a box is built next
  to a Provision is `Informed`. One lemma per action names the step of the contract
  it is. Steps of several runtimes at once are the reason for `Close(R)`: a crash
  ends the passes of all of them.
- **Disks.** `DiskInv`: what a runtime mounts, plans to mount, has yet to create or
  to remove, or has its label on, carries one of its own names. A mounted volume
  exists, since docker neither removes one in use nor starts without it.
- **Beats.** `CopyInv`: a write that is about to create a Provision still finds none.
  Any other has read a Provision and writes its beat count back (`CopyUpdated`), and
  no other step lowers one (`WhoTakesBeats`).
- **Ports apart.** `ApartInv` speaks of claims, what a runtime's container carries
  and what its pass has found or is about to make, and holds a claim against every
  other container. It is kept because at most one pass is under way (`Alone`, its
  own invariant), so `NobodyElsesNumber`, true when the number was chosen, is still
  true when the container is made.
- **Publishing and reasons.** `ServedInv` says that labels and environment of every
  container, made, found or planned, are what *one* assignment comes to that serves
  all that was asked; `ToldInv` says the same of only those ports the container is
  told of, so that it survives ports that get no number. Two containers with
  the same wishes and different numbers then differ because an assignment moved,
  and `assignPorts` keeps every number already held that no pin overrides.
- **Addresses.** `AddressInv` ties the status to the labels of the container the
  pass is looking at, for as long as no call has failed, and the labels found to
  those planned, but for pins.
- **Loops.** `LoopInv` says of every loop what it has done so far in terms of the
  closed form: the pins looked at are granted; the held names gone over are in
  `target`; a search loop has served the names that come first with the lowest
  free numbers (`Filling`). When a loop ends that determines its result, by the
  same count that `PortAllocationProofs` makes of `HandOut`: different names have
  different turns, and the k-th turn gets the k-th free number.
- **VolumeMounts.** Each step of the composition is a step of RuntimeService or
  watches (`StepKinds`), which carries invariants over (`MountsLeaveNothing` is
  one). A status is deleted with its VolumeMount even when a report is on the way,
  and `Busy` is finite, which the count of workers needs. `FoundReadyIsBound` takes
  the two names of a bound directory apart.
- **LocationAgent.** Mutual exclusion by flock holds because all open descriptors
  lead to one file, which holds because Release leaves the file in place. The
  goodbye stays because the beat is written by the loop of the one agent that
  holds the lock, and that agent has set `leaving` and carries no copy with a beat,
  nor is it handed one. `beat_back` is what happens when it does carry one.

Only model-checked: liveness (`DeletionCompletes`, `Settles`, `Informs`,
`MountShown`, `MountArrives`, `SignalledDies`), which needs fairness and is out of
the prover's reach. `MergeFiles` is a fold, and that it yields a `Layered` list for
every input would take an induction over sequences: `Informs` checks it on the
templates of `mounts`. The seven disagreements are behaviours, which TLC exhibits.

## What the model leaves out

- How many reconciles run at once is the control loop's configuration, outside
  this repository. `PortsApart` is checked with one; with two it fails, as two
  passes may choose numbers before either container exists.
- The reads of `PlanBox` (list, labels, listens) are one step: with one worker
  only a foreign process can come between them, and its port is refused at
  `docker run`.
- A status write is part of the step that ends the pass; when the write fails the
  pass has failed (`CallFails`). `equalStatus` saves writes and is not modelled.
- Duplicate port names in one list, digests, resources, `RunArgs`' formatting,
  image pulls. A template that is missing, or a user config that cannot be read, fails
  the pass before anything is done; here it is a call that fails. A user config that
  is missing is only warned of (`service.go:118-132`), which here is an empty `user`.
  No template has an `emptyDir`. Everything in a template that
  Plan may refuse is one flag, `sound`; of a mount's clashes one survives,
  `covers`.
- A write to the Location replaces what is there whatever version it was read
  at, as `location_controller.go:42-46` expects. With a control plane that
  refuses stale writes `beat_back` would lose its race and the beat stay away.
- Of the inner agent's status a Provision keeps the number of its beats. When that
  agent writes and what else is its own code, outside this repository.
- Nobody but the agent deletes a Provision. If somebody did, `ProvisionAroundBox`
  would not hold until the next pass writes it again.
- A turn of the location controller is handed the Location as it is at that
  moment. How the control loop gets hold of it is its own code; one that hands out
  older objects could put the beat back at any later turn.
- `ShutdownFails` has no fairness of its own: that main goes on when Shutdown
  neither returns nor fails is `GraceElapses`.
- An edit of a VolumeMount in place is a deletion and a creation; its namespace
  and the shard by which `storage.go` lists are left out. `readOnly` is part of what
  is bound, and the controller does not compare it. An empty `runtimeRef` is in
  the model (`<<>>`), but in no run: a second runtime is beyond what the
  liveness checks can take.
- The runtimes' environment is layered from template, Runtime and agent; only the
  part that depends on the machine can differ between two passes and is kept
  (`told`).
- Two Runtimes of one name in two namespaces, which would share a container.

## Not modelled

The dry run repository answers every question with nothing and every call with
success. The configuration is read once, from the environment, and its values
are the constants of the modules; that `PORT_MIN` is not above `PORT_MAX`, which
it checks, none of the proofs needs. The logger has no behaviour. Of `main.go` the wiring
and the local profile are left out: the profile is laid over the user config by a
function of another repository (`userconfig.Merge`), and the result is what
`user` stands for. Of `storage.go` the rest is lookups by name, which every pass
does and which are taken to return what is there or an error.

## Plan

Done: the modules above, the runs and the proofs. Left:

1. `OwnDisks`, `PortsApart`, `BeatKept` and the rest for the composition with
   VolumeMounts, as `MountsLeaveNothing` does for the teardown: `StepKinds` carries
   each invariant over.
2. What still holds of ports with several workers: a container may carry another's
   number, but docker lets only one of them run.
