------------------------- MODULE RuntimePortsProofs -------------------------
(***************************************************************************)
(* The host ports of the boxes: nobody else's number, what the template    *)
(* asks for, and addresses that stay.                                      *)
(***************************************************************************)
EXTENDS RuntimeServiceProofs

-----------------------------------------------------------------------------
(***************************************************************************)
(* What a step does to one runtime's container and to what its reconcile   *)
(* holds in its hands.                                                     *)
(***************************************************************************)
\* What a container or a plan is made from and published on, running or not.
Made(bs) == { <<b.from, b.ports>> : b \in bs }

KeepsWhatItHas(r) ==
  /\ Made(box'[r])   \subseteq Made(box[r])
  /\ Made(found'[r]) \subseteq Made(found[r])
  /\ Made(want'[r])  \subseteq Made(want[r])

\* The one step that decides on numbers.
Decides(r) ==
  /\ pc[r] = "plan" /\ pc'[r] \in {"replace", "volumes"}
  /\ box'[r] = box[r] /\ found'[r] = found[r] /\ UNCHANGED <<seen, status>>
  /\ \E s \in seen[r] :
     \E ports \in Assignments(s.ports, LabelsOf(found[r]), OthersHosts(r),
                              Listening) :
       LET plan == Planned(r, s, HonouredMounts(r), ports)
       IN  want'[r] = {plan} /\ \A b \in found[r] : b.from # plan.from

\* The one step that makes a container.
Makes(r) ==
  /\ pc[r] = "run"
  /\ \E w \in want[r] : Made(box'[r]) = { <<w.from, w.ports>> }
  /\ found'[r] \subseteq found[r] /\ want'[r] \subseteq want[r]

LEMMA StartStopKeeps ==
  ASSUME TypeOK, NEW s \in Runtimes, NEW running, SetRunning(s, running),
         NEW r \in Runtimes
  PROVE  Made(box'[r]) = Made(box[r])
<1>1. DOMAIN box = Runtimes /\ \A b \in box[s] : IsBox(b)
  BY DEF TypeOK, EngineTypeOK
<1>2. CASE r # s
  BY <1>1, <1>2 DEF SetRunning
<1>3. CASE r = s
  <2>1. box'[s] = { [b EXCEPT !.running = running] : b \in box[s] }
    BY <1>1 DEF SetRunning
  <2>2. \A b \in box[s] : /\ [b EXCEPT !.running = running].from = b.from
                          /\ [b EXCEPT !.running = running].ports = b.ports
    BY <1>1 DEF IsBox
  <2>3. ASSUME NEW c \in box'[s] PROVE <<c.from, c.ports>> \in Made(box[s])
    <3>1. PICK b \in box[s] : c = [b EXCEPT !.running = running]
      BY <2>1
    <3> QED BY <2>2, <3>1 DEF Made
  <2>4. ASSUME NEW b \in box[s] PROVE <<b.from, b.ports>> \in Made(box'[s])
    <3>1. [b EXCEPT !.running = running] \in box'[s]
      BY <2>1
    <3> QED BY <2>2, <3>1 DEF Made
  <2>5. Made(box'[s]) = Made(box[s])
    <3>1. Made(box'[s]) \subseteq Made(box[s])
      BY <2>3 DEF Made
    <3>2. Made(box[s]) \subseteq Made(box'[s])
      BY <2>4 DEF Made
    <3> QED BY <3>1, <3>2
  <2> QED BY <1>3, <2>5
<1> QED BY <1>2, <1>3

LEMMA FewerKeeps ==
  ASSUME NEW r, box'[r] \subseteq box[r], found'[r] \subseteq found[r],
         want'[r] \subseteq want[r]
  PROVE  KeepsWhatItHas(r)
BY DEF KeepsWhatItHas, Made

LEMMA ForgetKeeps ==
  ASSUME TypeOK, NEW R \in SUBSET Runtimes, Forget(R), NEW r \in Runtimes
  PROVE  found'[r] \subseteq found[r] /\ want'[r] \subseteq want[r]
BY DEF Forget

LEMMA EndKeeps ==
  ASSUME TypeOK, NEW s \in Runtimes,
         Failed(s) \/ \E labels, running : Done(s, labels, running),
         NEW r \in Runtimes
  PROVE  found'[r] \subseteq found[r] /\ want'[r] \subseteq want[r]
<1>1. Forget({s})
  BY DEF Failed, Done
<1> QED BY <1>1, ForgetKeeps

LEMMA PlanBoxKinds ==
  ASSUME TypeOK, NEW s \in Runtimes, PlanBox(s), NEW r \in Runtimes
  PROVE  KeepsWhatItHas(r) \/ Decides(r)
<1> USE DEF engineVars
<1>1. box' = box
  BY DEF PlanBox
<1>2. CASE Failed(s) \/ \E labels, running : Done(s, labels, running)
  BY <1>1, <1>2, EndKeeps, FewerKeeps
<1>3. CASE UNCHANGED <<found, want>>
  BY <1>1, <1>3, FewerKeeps
<1>4. ASSUME NEW t \in seen[s], pc[s] = "plan",
             NEW ports \in Assignments(t.ports, LabelsOf(found[s]),
                                       OthersHosts(s), Listening),
             Recreate(s, Planned(s, t, HonouredMounts(s), ports))
      PROVE  KeepsWhatItHas(r) \/ Decides(r)
  <2> DEFINE plan == Planned(s, t, HonouredMounts(s), ports)
  <2>1. DOMAIN want = Runtimes /\ DOMAIN pc = Runtimes
    BY DEF TypeOK
  <2>2. CASE r # s
    <3>1. found'[r] = found[r] /\ want'[r] = want[r]
      BY <1>4, <2>1, <2>2 DEF Recreate
    <3> QED BY <1>1, <3>1, FewerKeeps
  <2>3. CASE r = s
    <3>1. pc'[s] \in {"replace", "volumes"} /\ UNCHANGED <<found, seen, status>>
      BY <1>4, <2>1 DEF Recreate, Goto
    <3>2. want'[s] = {plan} /\ \A b \in found[s] : b.from # plan.from
      <4> HIDE DEF plan
      <4>1. Recreate(s, plan)
        BY <1>4 DEF plan
      <4> QED BY <2>1, <4>1 DEF Recreate
    <3> QED BY <1>1, <1>4, <2>3, <3>1, <3>2 DEF Decides
  <2> QED BY <2>2, <2>3
<1>5. \/ Failed(s) \/ \E labels, running : Done(s, labels, running)
      \/ UNCHANGED <<found, want>>
      \/ /\ pc[s] = "plan"
         /\ \E t \in seen[s] :
            \E ports \in Assignments(t.ports, LabelsOf(found[s]),
                                     OthersHosts(s), Listening) :
              Recreate(s, Planned(s, t, HonouredMounts(s), ports))
  BY DEF PlanBox, Compare
<1> QED BY <1>2, <1>3, <1>4, <1>5

LEMMA RunKinds ==
  ASSUME TypeOK, NEW s \in Runtimes, Run(s), NEW r \in Runtimes
  PROVE  KeepsWhatItHas(r) \/ Makes(r)
<1>1. PICK w \in want[s] : RunBox(s, w.from, w.ports)
  BY DEF Run
<1>2. found'[r] \subseteq found[r] /\ want'[r] \subseteq want[r]
  <2>1. Failed(s) \/ UNCHANGED <<found, want>>
    BY DEF Run
  <2> QED BY <2>1, EndKeeps
<1>3. DOMAIN box = Runtimes
  BY DEF TypeOK, EngineTypeOK
<1>4. CASE r # s
  <2>1. box'[r] = box[r]
    BY <1>1, <1>3, <1>4 DEF RunBox
  <2> QED BY <1>2, <2>1, FewerKeeps
<1>5. CASE r = s
  <2>1. box'[s] = { [from |-> w.from, ports |-> w.ports,
                     running |-> CanPublish(s, w.ports)] }
    BY <1>1, <1>3 DEF RunBox
  <2>2. Made(box'[s]) = { <<w.from, w.ports>> }
    BY <2>1 DEF Made
  <2> QED BY <1>2, <1>5, <2>2 DEF Makes, Run
<1> QED BY <1>4, <1>5

LEMMA StepKinds ==
  ASSUME TypeOK, NEW s \in Runtimes, Step(s), NEW r \in Runtimes
  PROVE  KeepsWhatItHas(r) \/ Find(r) \/ Decides(r) \/ Makes(r)
<1> USE DEF engineVars
<1>1. CASE ReadProvision(s) \/ Collect(s) \/ Unprovision(s) \/ EnsureVolume(s)
  <2>1. UNCHANGED <<box, found, want>>
    BY <1>1 DEF ReadProvision, Collect, Unprovision, EnsureVolume
  <2> QED BY <2>1, FewerKeeps
<1>2. CASE WriteProvision(s) \/ Inspect(s) \/ Purge(s)
  <2>1. box' = box
    BY <1>2 DEF WriteProvision, Inspect, Purge
  <2>2. \/ Failed(s) \/ \E labels, running : Done(s, labels, running)
        \/ UNCHANGED <<found, want>>
    BY <1>2 DEF WriteProvision, Inspect, Purge
  <2> QED BY <2>1, <2>2, EndKeeps, FewerKeeps
<1>3. CASE Find(s)
  <2>1. UNCHANGED <<box, want>> /\ DOMAIN found = Runtimes
    BY <1>3 DEF Find, TypeOK
  <2>2. CASE r # s
    <3>1. found'[r] = found[r]
      BY <1>3, <2>1, <2>2 DEF Find
    <3> QED BY <2>1, <3>1, FewerKeeps
  <2> QED BY <1>3, <2>2
<1>4. CASE Start(s)
  <2>1. found'[r] \subseteq found[r] /\ want'[r] \subseteq want[r]
    BY <1>4, EndKeeps DEF Start
  <2>2. Made(box'[r]) = Made(box[r])
    BY <1>4, StartStopKeeps DEF Start
  <2> QED BY <2>1, <2>2 DEF KeepsWhatItHas, Made
<1>5. CASE RemoveOld(s) \/ Rm(s)
  <2>1. box'[r] \subseteq box[r] /\ UNCHANGED <<found, want>>
    <3>1. DOMAIN box = Runtimes
      BY DEF TypeOK, EngineTypeOK
    <3> QED BY <1>5, <3>1 DEF RemoveOld, Rm, RemoveBox
  <2> QED BY <2>1, FewerKeeps
<1>6. CASE Release(s)
  <2>1. box' = box /\ Forget({s})
    BY <1>6 DEF Release
  <2> QED BY <2>1, ForgetKeeps, FewerKeeps
<1> QED
  BY <1>1, <1>2, <1>3, <1>4, <1>5, <1>6, PlanBoxKinds, RunKinds DEF Step

\* Nobody but the runtime's own reconcile makes a container or plans one.
LEMMA ElsewhereKeeps ==
  ASSUME TypeOK,
         \/ \E s \in Runtimes : Begin(s) \/ CallFails(s) \/ InnerBeat(s)
         \/ Crash \/ User \/ Machine,
         NEW r \in Runtimes
  PROVE  KeepsWhatItHas(r)
<1> USE DEF engineVars, locals
<1>1. CASE (\E s \in Runtimes : Begin(s) \/ InnerBeat(s)) \/ User
  <2>1. UNCHANGED <<box, found, want>>
    BY <1>1 DEF Begin, AddFinalizer, BeginEnsure, BeginRemove, InnerBeat, User
  <2> QED BY <2>1, FewerKeeps
<1>2. CASE \E s \in Runtimes : CallFails(s)
  BY <1>2, EndKeeps, FewerKeeps DEF CallFails
<1>3. CASE Crash
  BY <1>3, ForgetKeeps, FewerKeeps DEF Crash
<1>4. CASE Machine
  <2>1. UNCHANGED <<found, want>>
    BY <1>4 DEF Machine
  <2>2. CASE \E s \in Runtimes : BoxStops(s)
    <3>1. Made(box'[r]) = Made(box[r])
      BY <2>2, StartStopKeeps DEF BoxStops
    <3> QED BY <2>1, <3>1 DEF KeepsWhatItHas
  <2>3. CASE \E s \in Runtimes : BoxVanishes(s)
    <3>1. box'[r] \subseteq box[r]
      BY <2>3 DEF BoxVanishes, RemoveBox, TypeOK, EngineTypeOK
    <3> QED BY <2>1, <3>1, FewerKeeps
  <2>4. CASE VolumePruned \/ ForeignPort
    <3>1. box' = box
      BY <2>4 DEF VolumePruned, ForeignPort
    <3> QED BY <2>1, <3>1, FewerKeeps
  <2> QED BY <1>4, <2>2, <2>3, <2>4 DEF Machine
<1> QED BY <1>1, <1>2, <1>3, <1>4

LEMMA NextKinds ==
  ASSUME TypeOK, [Next]_vars, NEW r \in Runtimes
  PROVE  KeepsWhatItHas(r) \/ Find(r) \/ Decides(r) \/ Makes(r)
<1>1. CASE UNCHANGED vars
  BY <1>1, FewerKeeps DEF vars
<1> QED BY <1>1, StepKinds, ElsewhereKeeps DEF Next

-----------------------------------------------------------------------------
(***************************************************************************)
(* Nobody else's number, with one reconcile at a time.                     *)
(***************************************************************************)
Alone ==
  \A r, s \in Runtimes : pc[r] # "idle" /\ pc[s] # "idle" => r = s

Numbers(bs) == UNION { Publishes(b.ports) : b \in bs }

Claims(r) == Numbers(box[r]) \cup Numbers(found[r]) \cup Numbers(want[r])

\* What a runtime publishes, or is about to, is on no other runtime's box.
ApartInv ==
  \A r, s \in Runtimes : r # s => Claims(r) \cap Numbers(box[s]) = {}

\* Only the control loop wakes a reconcile that rests.
LEMMA RestIsKept ==
  ASSUME TypeOK, NEW s \in Runtimes, Step(s) \/ CallFails(s), NEW r \in Runtimes
  PROVE  pc'[r] # "idle" => pc[r] # "idle"
<1>1. CASE r # s
  <2>1. \/ UNCHANGED pc \/ (\E step : Goto(s, step)) \/ Failed(s)
        \/ (\E labels, running : Done(s, labels, running)) \/ Forget({s})
    BY DEF Step, ReadProvision, WriteProvision, Find, PlanBox, Compare, Recreate,
           Start, RemoveOld, EnsureVolume, Run, Inspect, Collect, Rm, Purge,
           Unprovision, Release, CallFails
  <2> QED BY <1>1, <2>1 DEF Goto, Failed, Done, Forget, TypeOK
<1>2. pc[s] # "idle"
  BY DEF Step, ReadProvision, WriteProvision, Find, PlanBox, Start, RemoveOld,
         EnsureVolume, Run, Inspect, Collect, Rm, Purge, Unprovision, Release,
         CallFails
<1> QED BY <1>1, <1>2

LEMMA BeginAlone ==
  ASSUME TypeOK, Alone, Workers = 1, NEW s \in Runtimes, Begin(s)
  PROVE  Alone'
<1> USE DEF locals
<1>1. CASE UNCHANGED pc
  BY <1>1 DEF Alone
<1>2. CASE MayStart(s) /\ \E step : Goto(s, step)
  <2> DEFINE Busy == { r \in Runtimes : pc[r] # "idle" }
  <2>1. Busy = {}
    <3> SUFFICES ASSUME NEW r \in Busy PROVE FALSE
      OBVIOUS
    <3>1. Busy = {r}
      BY DEF Alone
    <3>2. Cardinality(Busy) = 1
      BY <3>1, FS_Singleton
    <3>3. Cardinality(Busy) < 1
      BY <1>2 DEF MayStart
    <3> QED BY <3>2, <3>3
  <2>2. \A r \in Runtimes : r # s => pc'[r] = "idle"
    BY <1>2, <2>1 DEF Goto, TypeOK
  <2> QED BY <2>2 DEF Alone
<1> QED BY <1>1, <1>2 DEF Begin, AddFinalizer, BeginEnsure, BeginRemove

LEMMA AloneInvariant ==
  ASSUME Workers = 1
  PROVE  Spec => []Alone
<1>1. Init => Alone
  BY DEF Init, Alone
<1>2. TypeOK /\ Alone /\ [Next]_vars => Alone'
  <2> SUFFICES ASSUME TypeOK, Alone, [Next]_vars PROVE Alone'
    OBVIOUS
  <2>1. CASE \E s \in Runtimes : Begin(s)
    BY <2>1, BeginAlone
  <2>2. CASE \E s \in Runtimes : Step(s) \/ CallFails(s)
    BY <2>2, RestIsKept DEF Alone
  <2>3. CASE Crash
    BY <2>3 DEF Crash, Forget, Alone
  <2>4. CASE (\E s \in Runtimes : InnerBeat(s)) \/ User \/ Machine \/ UNCHANGED vars
    <3>1. UNCHANGED pc
      BY <2>4 DEF InnerBeat, User, Machine, locals, vars
    <3> QED BY <3>1 DEF Alone
  <2> QED BY <2>1, <2>2, <2>3, <2>4 DEF Next
<1> QED BY <1>1, <1>2, TypeCorrect, PTL DEF Spec

LEMMA NumbersOfMade ==
  ASSUME NEW bs, NEW cs, Made(bs) \subseteq Made(cs)
  PROVE  Numbers(bs) \subseteq Numbers(cs)
<1> SUFFICES ASSUME NEW b \in bs PROVE \E c \in cs : b.ports = c.ports
  BY DEF Numbers
<1>1. <<b.from, b.ports>> \in Made(cs)
  BY DEF Made
<1> QED BY <1>1 DEF Made

LEMMA LabelsPublishLess ==
  ASSUME NEW names, NEW ports
  PROVE  Publishes(ApplyHostPorts(names, ports)) \subseteq Publishes(ports)
BY DEF ApplyHostPorts, Publishes, Hosts

LEMMA OthersAreSeen ==
  ASSUME NEW r \in Runtimes, NEW s \in Runtimes, r # s
  PROVE  Numbers(box[s]) \subseteq OthersHosts(r)
BY DEF Numbers, Publishes, OthersHosts

\* The numbers decided on are none of another box's.
LEMMA DecidesApart ==
  ASSUME TypeOK, ApartInv, NEW r \in Runtimes, Decides(r), NEW s \in Runtimes, r # s
  PROVE  Numbers(want'[r]) \cap Numbers(box[s]) = {}
<1> DEFINE existing == LabelsOf(found[r])
<1>0. PICK t \in seen[r] :
        \E ports \in Assignments(t.ports, existing, OthersHosts(r), Listening) :
          want'[r] = {Planned(r, t, HonouredMounts(r), ports)}
  BY DEF Decides
<1>1. PICK ports \in Assignments(t.ports, existing, OthersHosts(r), Listening) :
        want'[r] = {Planned(r, t, HonouredMounts(r), ports)}
  BY <1>0
<1>2. Publishes(existing) \cap OthersHosts(r) = {}
  <2>1. CASE found[r] = {}
    BY <2>1 DEF LabelsOf, NoPorts, Publishes, Hosts
  <2>2. CASE found[r] # {}
    <3>1. Publishes(existing) \subseteq Numbers(found[r])
      BY <2>2 DEF LabelsOf, Numbers
    <3>2. Numbers(found[r]) \cap OthersHosts(r) = {}
      <4> SUFFICES ASSUME NEW x \in Numbers(found[r]), NEW q \in Runtimes \ {r},
                          NEW b \in box[q], x \in Hosts(b.ports)
                   PROVE  FALSE
        BY DEF OthersHosts
      <4>1. x # 0
        BY DEF Numbers, Publishes
      <4>2. x \in Numbers(box[q])
        BY <4>1 DEF Numbers, Publishes
      <4> QED BY <4>2 DEF ApartInv, Claims
    <3> QED BY <3>1, <3>2
  <2> QED BY <2>1, <2>2
<1>3. t.ports \in SUBSET PortSpec
  BY SpecParts DEF TypeOK
<1>4. Publishes(ports) \cap OthersHosts(r) = {}
  BY <1>2, <1>3, NobodyElsesNumber
<1>5. Numbers(want'[r]) \subseteq Publishes(ports)
  <2>1. Planned(r, t, HonouredMounts(r), ports).ports
          = ApplyHostPorts(Names(t.ports \cup t.extra), ports)
    BY DEF Planned
  <2> QED BY <1>1, <2>1, LabelsPublishLess DEF Numbers
<1> QED BY <1>4, <1>5, OthersAreSeen

LEMMA RestsEmptyHanded ==
  ASSUME TypeOK, NEW r \in Runtimes, pc[r] = "idle"
  PROVE  found[r] = {} /\ want[r] = {}
BY DEF TypeOK, InScope, EnsureSteps

LEMMA ClaimsAfter ==
  ASSUME TypeOK, NEW r \in Runtimes
  PROVE  /\ KeepsWhatItHas(r) \/ Find(r) \/ Makes(r) => Claims(r)' \subseteq Claims(r)
         /\ Decides(r) => Claims(r)' \subseteq Claims(r) \cup Numbers(want'[r])
         /\ KeepsWhatItHas(r) \/ Find(r) \/ Decides(r) =>
              Numbers(box'[r]) \subseteq Numbers(box[r])
         /\ Makes(r) => Numbers(box'[r]) \subseteq Numbers(want[r])
<1> USE DEF engineVars
<1>1. ASSUME KeepsWhatItHas(r)
      PROVE  /\ Numbers(box'[r]) \subseteq Numbers(box[r])
             /\ Numbers(found'[r]) \subseteq Numbers(found[r])
             /\ Numbers(want'[r]) \subseteq Numbers(want[r])
  BY <1>1, NumbersOfMade DEF KeepsWhatItHas
<1>2. ASSUME Find(r)
      PROVE  box' = box /\ found'[r] = box[r] /\ want' = want
  BY <1>2 DEF Find, TypeOK
<1>3. ASSUME Makes(r)
      PROVE  /\ Numbers(box'[r]) \subseteq Numbers(want[r])
             /\ Numbers(found'[r]) \subseteq Numbers(found[r])
             /\ Numbers(want'[r]) \subseteq Numbers(want[r])
  <2>1. Made(box'[r]) \subseteq Made(want[r])
    BY <1>3 DEF Makes, Made
  <2>2. Made(found'[r]) \subseteq Made(found[r]) /\ Made(want'[r]) \subseteq Made(want[r])
    BY <1>3 DEF Makes, Made
  <2> QED BY <2>1, <2>2, NumbersOfMade
<1>4. ASSUME Decides(r)
      PROVE  box'[r] = box[r] /\ found'[r] = found[r]
  BY <1>4 DEF Decides
<1> QED BY <1>1, <1>2, <1>3, <1>4 DEF Claims

LEMMA NextApart ==
  ASSUME TypeOK, Alone, ApartInv, [Next]_vars
  PROVE  ApartInv'
<1> SUFFICES ASSUME NEW r \in Runtimes, NEW s \in Runtimes, r # s
             PROVE  Claims(r)' \cap Numbers(box'[s]) = {}
  BY DEF ApartInv
<1>1. Claims(r) \cap Numbers(box[s]) = {} /\ Numbers(want[s]) \cap Numbers(box[r]) = {}
  BY DEF ApartInv, Claims
<1>2. CASE Makes(s)
  <2>1. pc[r] = "idle"
    BY <1>2 DEF Makes, Alone
  <2>2. KeepsWhatItHas(r) /\ found[r] = {} /\ want[r] = {}
    BY <2>1, NextKinds, RestsEmptyHanded DEF Find, Decides, Makes
  <2>3. Claims(r)' \subseteq Numbers(box[r])
    BY <2>2, ClaimsAfter DEF Claims, Numbers
  <2> QED BY <1>1, <1>2, <2>3, ClaimsAfter
<1>3. CASE ~Makes(s)
  <2>1. Numbers(box'[s]) \subseteq Numbers(box[s])
    BY <1>3, NextKinds, ClaimsAfter
  <2>2. CASE Decides(r)
    BY <1>1, <2>1, <2>2, ClaimsAfter, DecidesApart
  <2>3. CASE ~Decides(r)
    BY <1>1, <2>1, <2>3, NextKinds, ClaimsAfter
  <2> QED BY <2>2, <2>3
<1> QED BY <1>2, <1>3

LEMMA InitApart == Init => ApartInv
<1> SUFFICES ASSUME Init, NEW s \in Runtimes PROVE Numbers(box[s]) = {}
  BY DEF ApartInv
<1>1. \A b \in box[s] : b.ports = NoPorts
  BY DEF Init
<1>2. Publishes(NoPorts) = {}
  BY DEF NoPorts, Publishes, Hosts
<1> QED BY <1>1, <1>2 DEF Numbers

\* RuntimeService.PortsApart (service.go:308-319): two containers never carry the
\* same host port, running or not, whoever is pinned to what, whatever fails and
\* whatever else takes ports on the machine, when one reconcile runs at a time.
THEOREM NumbersStayApart ==
  ASSUME Workers = 1
  PROVE  Spec => []PortsApart
<1>1. ApartInv => PortsApart
  BY DEF ApartInv, Claims, Numbers, PortsApart
<1>2. Spec => []ApartInv
  BY InitApart, NextApart, TypeCorrect, AloneInvariant, PTL DEF Spec
<1> QED BY <1>1, <1>2, PTL

-----------------------------------------------------------------------------
(***************************************************************************)
(* What is asked for.                                                      *)
(***************************************************************************)
\* No name twice on a template's list, and no runtime asks for ports of its own:
\* assignPorts reads the template's list alone, so a runtime's own ports are left
\* without a number.
TemplatePortsOnly ==
  \A s \in Specs : /\ s.extra = {}
                   /\ \A p, q \in s.ports : p.name = q.name => p = q

\* labels and told are what an assignment comes to that serves every name and
\* every pin of the merged list and all the box's own ports.
ServedBy(from, labels, ports) ==
  /\ IsPortMap(ports) /\ \A n \in DOMAIN ports : ports[n] # 0
  /\ Names(from.ports) \cup LocalWanted \subseteq DOMAIN ports
  /\ \A p \in Pinned(from.ports) : ports[p.name] = p.pin
  /\ labels = ApplyHostPorts(Names(from.ports), ports)
  /\ from.told = Advertised(ports)

AllServed(bs) == \A b \in bs : \E ports : ServedBy(b.from, b.ports, ports)

ServedInv ==
  \A r \in Runtimes : AllServed(box[r]) /\ AllServed(found[r]) /\ AllServed(want[r])

LEMMA ServedAsMade ==
  ASSUME NEW bs, NEW cs, Made(bs) \subseteq Made(cs), AllServed(cs)
  PROVE  AllServed(bs)
<1> SUFFICES ASSUME NEW b \in bs
             PROVE  \E c \in cs : b.from = c.from /\ b.ports = c.ports
  BY DEF AllServed
<1>1. <<b.from, b.ports>> \in Made(cs)
  BY DEF Made
<1> QED BY <1>1 DEF Made

LEMMA LocalRunIsWanted ==
  ASSUME NEW ports, LocalWanted \subseteq DOMAIN ports
  PROVE  /\ LocalRun(ports, LocalPortCount) = LocalWanted
         /\ LocalWanted \subseteq LocalRun(ports, Len(LocalNames))
<1>1. LocalPortCount \in Nat /\ Len(LocalNames) \in Nat
      /\ LocalPortCount <= Len(LocalNames)
  BY PortRanges, PortNames
<1>2. \A j \in 1..LocalPortCount : \A k \in 1..j : LocalNames[k] \in DOMAIN ports
  BY <1>1 DEF LocalWanted
<1> QED BY <1>1, <1>2 DEF LocalRun, LocalWanted

\* The labels carry the assignment, for every name that is asked for.
LEMMA LabelsOfServed ==
  ASSUME NEW names, NEW ports, names \cup LocalWanted \subseteq DOMAIN ports,
         NEW labels, labels = ApplyHostPorts(names, ports)
  PROVE  /\ names \cup LocalWanted \subseteq DOMAIN labels
         /\ DOMAIN labels \subseteq DOMAIN ports
         /\ \A n \in DOMAIN labels : labels[n] = ports[n]
<1>1. LocalRun(ports, Len(LocalNames)) \subseteq DOMAIN ports
  BY PortNames DEF LocalRun
<1>2. LocalWanted \subseteq LocalRun(ports, Len(LocalNames))
  BY LocalRunIsWanted
<1> QED BY <1>1, <1>2 DEF ApplyHostPorts

LEMMA ServedLabels ==
  ASSUME NEW found_, AllServed(found_), NEW n \in DOMAIN LabelsOf(found_)
  PROVE  LabelsOf(found_)[n] # 0
<1>1. found_ # {}
  BY DEF LabelsOf, NoPorts
<1>2. PICK b \in found_ : LabelsOf(found_) = b.ports
  BY <1>1 DEF LabelsOf
<1>3. PICK ports : ServedBy(b.from, b.ports, ports)
  BY DEF AllServed
<1> QED BY <1>2, <1>3, LabelsOfServed DEF ServedBy

LEMMA MergedIsTemplate ==
  ASSUME TemplatePortsOnly, NEW s \in Specs
  PROVE  /\ MergePorts(s.ports, s.extra) = s.ports
         /\ s.ports \cup s.extra = s.ports
BY DEF TemplatePortsOnly, MergePorts, Names

\* A plan is served by the assignment it is made with.
LEMMA PlanIsServed ==
  ASSUME TemplatePortsOnly, NEW s \in Specs, NEW r, NEW mounts, NEW existing,
         IsPortMap(existing), \A n \in DOMAIN existing : existing[n] # 0,
         NEW others, NEW busy,
         NEW ports \in Assignments(s.ports, existing, others, busy),
         NEW plan, plan = Planned(r, s, mounts, ports)
  PROVE  plan.from.ports = s.ports /\ ServedBy(plan.from, plan.ports, ports)
<1>1. s.ports \in SUBSET PortSpec
  BY SpecParts
<1>2. /\ plan.from.ports = s.ports
      /\ plan.ports = ApplyHostPorts(Names(s.ports), ports)
      /\ plan.from.told = Advertised(ports)
  BY MergedIsTemplate DEF Planned, Payload
<1>3. IsPortMap(ports)
  BY <1>1, AssignmentIsPortMap
<1>4. \A n \in DOMAIN ports : ports[n] # 0
  BY <1>1, AssignmentNumbers
<1>5. Names(s.ports) \cup LocalWanted \subseteq DOMAIN ports
  <2>1. DOMAIN ports = DOMAIN existing \cup Names(s.ports) \cup LocalWanted
    BY AssignmentNames
  <2> QED BY <2>1
<1>6. \A p \in Pinned(s.ports) : ports[p.name] = p.pin
  BY AssignmentPins DEF TemplatePortsOnly
<1> QED BY <1>2, <1>3, <1>4, <1>5, <1>6 DEF ServedBy

LEMMA DecidesServed ==
  ASSUME TypeOK, ServedInv, TemplatePortsOnly, NEW r \in Runtimes, Decides(r)
  PROVE  AllServed(want'[r])
<1> DEFINE existing == LabelsOf(found[r])
<1>1. PICK s \in seen[r] :
        \E ports \in Assignments(s.ports, existing, OthersHosts(r), Listening) :
          want'[r] = {Planned(r, s, HonouredMounts(r), ports)}
  BY DEF Decides
<1>2. PICK ports \in Assignments(s.ports, existing, OthersHosts(r), Listening) :
        want'[r] = {Planned(r, s, HonouredMounts(r), ports)}
  BY <1>1
<1>3. IsPortMap(existing) /\ s \in Specs
  BY BoxIsTyped DEF TypeOK
<1>4. \A n \in DOMAIN existing : existing[n] # 0
  BY ServedLabels DEF ServedInv
<1>5. ASSUME NEW plan, plan = Planned(r, s, HonouredMounts(r), ports)
      PROVE  ServedBy(plan.from, plan.ports, ports)
  <2> HIDE DEF existing
  <2> QED BY <1>3, <1>4, <1>5, PlanIsServed
<1> QED BY <1>2, <1>5 DEF AllServed

LEMMA NextServed ==
  ASSUME TypeOK, ServedInv, TemplatePortsOnly, [Next]_vars
  PROVE  ServedInv'
<1> SUFFICES ASSUME NEW r \in Runtimes
             PROVE  /\ AllServed(box'[r]) /\ AllServed(found'[r])
                    /\ AllServed(want'[r])
  BY DEF ServedInv, AllServed
<1>1. AllServed(box[r]) /\ AllServed(found[r]) /\ AllServed(want[r])
  BY DEF ServedInv
<1>2. CASE KeepsWhatItHas(r)
  BY <1>1, <1>2, ServedAsMade DEF KeepsWhatItHas
<1>3. CASE Find(r)
  <2>1. box' = box /\ found'[r] = box[r] /\ want' = want
    BY <1>3 DEF Find, engineVars, TypeOK
  <2> QED BY <1>1, <2>1
<1>4. CASE Decides(r)
  <2>1. box'[r] = box[r] /\ found'[r] = found[r]
    BY <1>4 DEF Decides
  <2> QED BY <1>1, <1>4, <2>1, DecidesServed
<1>5. CASE Makes(r)
  <2>1. Made(box'[r]) \subseteq Made(want[r])
    BY <1>5 DEF Makes, Made
  <2>2. found'[r] \subseteq found[r] /\ want'[r] \subseteq want[r]
    BY <1>5 DEF Makes
  <2>3. AllServed(found'[r]) /\ AllServed(want'[r])
    BY <1>1, <2>2 DEF AllServed
  <2> QED BY <1>1, <2>1, <2>3, ServedAsMade
<1> QED BY <1>2, <1>3, <1>4, <1>5, NextKinds

LEMMA ServedInvariant ==
  ASSUME TemplatePortsOnly, Legacy = {}
  PROVE  Spec => []ServedInv
<1>1. Init => ServedInv
  <2> SUFFICES ASSUME Init, NEW r \in Runtimes
               PROVE  box[r] = {} /\ found[r] = {} /\ want[r] = {}
    BY DEF ServedInv, AllServed
  <2>1. spec[r] = {}
    BY DEF Init
  <2> QED BY <2>1 DEF Init
<1> QED BY <1>1, NextServed, TypeCorrect, PTL DEF Spec

\* RuntimeService.PublishesWhatIsAsked (plan.go:257-259, service.go:336-337): every
\* port of the merged list is published, on the number it is pinned to if it is,
\* for runtimes that ask for no ports of their own and boxes this agent has made.
\* With a runtime's own ports it is refuted.
THEOREM WhatIsAskedIsPublished ==
  ASSUME TemplatePortsOnly, Legacy = {}
  PROVE  Spec => []PublishesWhatIsAsked
<1>1. TypeOK /\ ServedInv => PublishesWhatIsAsked
  <2> SUFFICES ASSUME TypeOK, ServedInv, NEW r \in Runtimes, NEW b \in box[r],
                      NEW p \in b.from.ports
               PROVE  b.ports[p.name] # 0 /\ (p.pin > 0 => b.ports[p.name] = p.pin)
    BY DEF PublishesWhatIsAsked
  <2>1. PICK ports : ServedBy(b.from, b.ports, ports)
    BY DEF ServedInv, AllServed
  <2>2. p.name \in Names(b.from.ports)
    BY DEF Names
  <2>3. p.name \in DOMAIN ports /\ b.ports[p.name] = ports[p.name]
    BY <2>1, <2>2, LabelsOfServed DEF ServedBy
  <2>4. p.pin > 0 => p \in Pinned(b.from.ports)
    BY DEF Pinned
  <2> QED BY <2>1, <2>3, <2>4 DEF ServedBy
<1> QED BY <1>1, ServedInvariant, TypeCorrect, PTL

-----------------------------------------------------------------------------
(***************************************************************************)
(* Replaced for a reason.                                                  *)
(***************************************************************************)
HasReason(b, w) == WithoutTold(b.from) # WithoutTold(w.from) \/ StillTold(b)

ReasonInv ==
  \A r \in Runtimes : \A b \in found[r], w \in want[r] : HasReason(b, w)

\* What a box is told of comes from its template's list or is its own: a runtime
\* asks for no port of these names.
ToldByTemplate ==
  \A s \in Specs : /\ Names(s.extra) \cap ({Ssh} \cup LocalWanted) = {}
                   /\ \A p, q \in s.ports : p.name = q.name => p = q

ToldNames(ports) == (Names(ports) \cap {Ssh}) \cup LocalWanted

\* labels and told are what an assignment comes to that serves the names the box
\* is told of; the others, a runtime's own, may have no number.
ToldBy(from, labels, ports) ==
  /\ IsPortMap(ports) /\ ToldNames(from.ports) \subseteq DOMAIN ports
  /\ \A p \in Pinned(from.ports) :
       p.name \in ToldNames(from.ports) => ports[p.name] = p.pin
  /\ labels = ApplyHostPorts(Names(from.ports), ports)
  /\ from.told = Advertised(ports)

AllTold(bs) == \A b \in bs : \E ports : ToldBy(b.from, b.ports, ports)

ToldInv ==
  \A r \in Runtimes : AllTold(box[r]) /\ AllTold(found[r]) /\ AllTold(want[r])

LEMMA ToldAsMade ==
  ASSUME NEW bs, NEW cs, Made(bs) \subseteq Made(cs), AllTold(cs)
  PROVE  AllTold(bs)
<1> SUFFICES ASSUME NEW b \in bs
             PROVE  \E c \in cs : b.from = c.from /\ b.ports = c.ports
  BY DEF AllTold
<1>1. <<b.from, b.ports>> \in Made(cs)
  BY DEF Made
<1> QED BY <1>1 DEF Made

\* On the names the box is told of, template and merged list agree.
AgreeOnTold(template, merged) ==
  /\ ToldNames(merged) = ToldNames(template)
  /\ \A p \in PortSpec : p.name \in ToldNames(merged) =>
       (p \in Pinned(merged) <=> p \in Pinned(template))

LEMMA MergedAgrees ==
  ASSUME NEW template, NEW extra, Names(extra) \cap ({Ssh} \cup LocalWanted) = {}
  PROVE  /\ Names(MergePorts(template, extra)) = Names(template \cup extra)
         /\ AgreeOnTold(template, MergePorts(template, extra))
<1> DEFINE merged == MergePorts(template, extra)
<1>1. Names(merged) = Names(template \cup extra)
  BY DEF MergePorts, Names
<1>2. Names(template \cup extra) = Names(template) \cup Names(extra)
  BY DEF Names
<1>3. ToldNames(merged) = ToldNames(template)
  BY <1>1, <1>2 DEF ToldNames
<1>4. ASSUME NEW p \in PortSpec, p.name \in ToldNames(merged)
      PROVE  p \in Pinned(merged) <=> p \in Pinned(template)
  <2>1. p.name \notin Names(extra)
    BY <1>4 DEF ToldNames
  <2>2. p \notin extra
    BY <2>1 DEF Names
  <2> QED BY <2>1, <2>2 DEF MergePorts, Pinned
<1> QED BY <1>1, <1>3, <1>4 DEF AgreeOnTold

LEMMA PlanIsTold ==
  ASSUME ToldByTemplate, NEW s \in Specs, NEW r, NEW mounts, NEW existing,
         IsPortMap(existing), NEW others, NEW busy,
         NEW ports \in Assignments(s.ports, existing, others, busy),
         NEW plan, plan = Planned(r, s, mounts, ports)
  PROVE  /\ plan.from.ports = MergePorts(s.ports, s.extra)
         /\ ToldBy(plan.from, plan.ports, ports)
<1> DEFINE wanted == MergePorts(s.ports, s.extra)
<1>1. s.ports \in SUBSET PortSpec /\ s.extra \in SUBSET PortSpec
  BY SpecParts
<1>2. /\ plan.from.ports = wanted
      /\ plan.ports = ApplyHostPorts(Names(s.ports \cup s.extra), ports)
      /\ plan.from.told = Advertised(ports)
  BY DEF Planned, Payload
<1>3. IsPortMap(ports)
  BY <1>1, AssignmentIsPortMap
<1>4. wanted \in SUBSET PortSpec
  BY <1>1 DEF MergePorts
<1>5. wanted = MergePorts(s.ports, s.extra)
  OBVIOUS
<1> HIDE DEF wanted
<1>6. Names(wanted) = Names(s.ports \cup s.extra) /\ AgreeOnTold(s.ports, wanted)
  BY <1>5, MergedAgrees DEF ToldByTemplate
<1>7. ToldNames(wanted) \subseteq DOMAIN ports
  <2>1. DOMAIN ports = DOMAIN existing \cup Names(s.ports) \cup LocalWanted
    BY AssignmentNames
  <2> QED BY <1>6, <2>1 DEF ToldNames, AgreeOnTold
<1>8. ASSUME NEW p \in Pinned(wanted), p.name \in ToldNames(wanted)
      PROVE  ports[p.name] = p.pin
  <2>1. p \in PortSpec
    BY <1>4 DEF Pinned
  <2>2. p \in Pinned(s.ports)
    BY <1>6, <1>8, <2>1 DEF AgreeOnTold
  <2> QED BY <2>2, AssignmentPins DEF ToldByTemplate
<1>9. ToldBy(plan.from, plan.ports, ports)
  BY <1>2, <1>3, <1>6, <1>7, <1>8 DEF ToldBy
<1> QED BY <1>2, <1>5, <1>9

LEMMA DecidesTold ==
  ASSUME TypeOK, ToldByTemplate, NEW r \in Runtimes, Decides(r)
  PROVE  AllTold(want'[r])
<1> DEFINE existing == LabelsOf(found[r])
<1>1. PICK s \in seen[r] :
        \E ports \in Assignments(s.ports, existing, OthersHosts(r), Listening) :
          want'[r] = {Planned(r, s, HonouredMounts(r), ports)}
  BY DEF Decides
<1>2. PICK ports \in Assignments(s.ports, existing, OthersHosts(r), Listening) :
        want'[r] = {Planned(r, s, HonouredMounts(r), ports)}
  BY <1>1
<1>3. IsPortMap(existing) /\ s \in Specs
  BY BoxIsTyped DEF TypeOK
<1>4. ASSUME NEW plan, plan = Planned(r, s, HonouredMounts(r), ports)
      PROVE  ToldBy(plan.from, plan.ports, ports)
  <2> HIDE DEF existing
  <2> QED BY <1>3, <1>4, PlanIsTold
<1> QED BY <1>2, <1>4 DEF AllTold

LEMMA NextTold ==
  ASSUME TypeOK, ToldInv, ToldByTemplate, [Next]_vars
  PROVE  ToldInv'
<1> SUFFICES ASSUME NEW r \in Runtimes
             PROVE  AllTold(box'[r]) /\ AllTold(found'[r]) /\ AllTold(want'[r])
  BY DEF ToldInv, AllTold
<1>1. AllTold(box[r]) /\ AllTold(found[r]) /\ AllTold(want[r])
  BY DEF ToldInv
<1>2. CASE KeepsWhatItHas(r)
  BY <1>1, <1>2, ToldAsMade DEF KeepsWhatItHas
<1>3. CASE Find(r)
  <2>1. box' = box /\ found'[r] = box[r] /\ want' = want
    BY <1>3 DEF Find, engineVars, TypeOK
  <2> QED BY <1>1, <2>1
<1>4. CASE Decides(r)
  <2>1. box'[r] = box[r] /\ found'[r] = found[r]
    BY <1>4 DEF Decides
  <2> QED BY <1>1, <1>4, <2>1, DecidesTold
<1>5. CASE Makes(r)
  <2>1. Made(box'[r]) \subseteq Made(want[r])
    BY <1>5 DEF Makes, Made
  <2>2. found'[r] \subseteq found[r] /\ want'[r] \subseteq want[r]
    BY <1>5 DEF Makes
  <2>3. AllTold(found'[r]) /\ AllTold(want'[r])
    BY <1>1, <2>2 DEF AllTold
  <2> QED BY <1>1, <2>1, <2>3, ToldAsMade
<1> QED BY <1>2, <1>3, <1>4, <1>5, NextKinds

LEMMA ToldInvariant ==
  ASSUME ToldByTemplate, Legacy = {}
  PROVE  Spec => []ToldInv
<1>1. Init => ToldInv
  <2> SUFFICES ASSUME Init, NEW r \in Runtimes
               PROVE  box[r] = {} /\ found[r] = {} /\ want[r] = {}
    BY DEF ToldInv, AllTold
  <2>1. spec[r] = {}
    BY DEF Init
  <2> QED BY <2>1 DEF Init
<1> QED BY <1>1, NextTold, TypeCorrect, PTL DEF Spec

\* The labels carry what the box was told, and a number of ssh only if it is on
\* the list or was told.
LEMMA LabelsOfTold ==
  ASSUME NEW from, NEW labels, NEW ports, ToldBy(from, labels, ports)
  PROVE  /\ \A n \in ToldNames(from.ports) :
              n \in DOMAIN labels /\ labels[n] = ports[n]
         /\ Ssh \in DOMAIN labels => Ssh \in Names(from.ports) \cup DOMAIN ports
         /\ LocalWanted \subseteq DOMAIN ports
         /\ LocalRun(ports, LocalPortCount) = LocalWanted
<1>1. LocalWanted \subseteq DOMAIN ports
  BY DEF ToldBy, ToldNames
<1>2. /\ LocalRun(ports, LocalPortCount) = LocalWanted
      /\ LocalWanted \subseteq LocalRun(ports, Len(LocalNames))
  BY <1>1, LocalRunIsWanted
<1>3. LocalRun(ports, Len(LocalNames)) \subseteq DOMAIN ports
  BY PortNames DEF LocalRun
<1>4. \A n \in ToldNames(from.ports) : n \in DOMAIN labels /\ labels[n] = ports[n]
  BY <1>2 DEF ToldBy, ToldNames, ApplyHostPorts
<1>5. Ssh \in DOMAIN labels => Ssh \in Names(from.ports) \cup DOMAIN ports
  BY <1>3 DEF ToldBy, ApplyHostPorts
<1> QED BY <1>1, <1>2, <1>4, <1>5

\* The next assignment for the same merged list gives every name the box is told
\* of the same number.
LEMMA SameNumbers ==
  ASSUME NEW template \in SUBSET PortSpec,
         \A p, q \in template : p.name = q.name => p = q,
         NEW wanted, AgreeOnTold(template, wanted),
         NEW from, NEW labels, NEW before,
         ToldBy(from, labels, before), from.ports = wanted,
         NEW others, NEW busy,
         NEW after \in Assignments(template, labels, others, busy),
         NEW n \in ToldNames(wanted)
  PROVE  n \in DOMAIN after /\ after[n] = before[n]
<1>1. n \in DOMAIN labels /\ labels[n] = before[n]
  BY LabelsOfTold
<1>2. CASE \E p \in Pinned(template) : p.name = n
  <2>1. PICK p \in Pinned(template) : p.name = n
    BY <1>2
  <2>2. p \in PortSpec
    BY DEF Pinned
  <2>3. p \in Pinned(wanted)
    BY <2>1, <2>2 DEF AgreeOnTold
  <2>4. before[n] = p.pin
    BY <2>1, <2>3 DEF ToldBy
  <2>5. n \in DOMAIN after /\ after[n] = p.pin
    BY <2>1, AssignmentPins
  <2> QED BY <2>4, <2>5
<1>3. CASE \A p \in Pinned(template) : p.name # n
  BY <1>1, <1>3, AssignmentKeeps
<1> QED BY <1>2, <1>3

\* So the box would be told the same, unless it was told a number of ssh that
\* nobody asks for any more.
LEMMA SameTold ==
  ASSUME NEW template \in SUBSET PortSpec,
         \A p, q \in template : p.name = q.name => p = q,
         NEW wanted, AgreeOnTold(template, wanted),
         NEW from, NEW labels, NEW before,
         ToldBy(from, labels, before), from.ports = wanted,
         from.told.ssh = NoPort \/ Ssh \in Names(wanted),
         NEW others, NEW busy,
         NEW after \in Assignments(template, labels, others, busy)
  PROVE  Advertised(after) = from.told
<1>1. from.told = Advertised(before) /\ IsPortMap(before)
  BY DEF ToldBy
<1>2. \A n \in ToldNames(wanted) : n \in DOMAIN after /\ after[n] = before[n]
  <2> TAKE n \in ToldNames(wanted)
  <2> QED BY SameNumbers
<1>3. LocalWanted \subseteq ToldNames(wanted)
  BY DEF ToldNames
<1>4. LocalRun(after, LocalPortCount) = LocalWanted
  <2>1. LocalWanted \subseteq DOMAIN after
    BY <1>2, <1>3
  <2> QED BY <2>1, LocalRunIsWanted
<1>5. LocalRun(before, LocalPortCount) = LocalWanted
  BY LabelsOfTold
<1>6. [n \in LocalRun(after, LocalPortCount) |-> after[n]]
        = [n \in LocalRun(before, LocalPortCount) |-> before[n]]
  BY <1>2, <1>3, <1>4, <1>5
<1>7. CASE Ssh \in Names(wanted)
  <2>1. Ssh \in ToldNames(wanted)
    BY <1>7 DEF ToldNames
  <2>2. Ssh \in DOMAIN before
    BY <2>1 DEF ToldBy
  <2> QED BY <1>1, <1>2, <1>6, <2>1, <2>2 DEF Advertised
<1>8. CASE Ssh \notin Names(wanted)
  <2>1. Advertised(before).ssh = NoPort
    BY <1>1, <1>8
  <2>2. Ssh \notin DOMAIN before
    BY <1>1, <2>1 DEF Advertised, NoPort, IsPortMap
  <2>3. DOMAIN after = DOMAIN labels \cup Names(template) \cup LocalWanted
    BY AssignmentNames
  <2>4. Ssh \notin DOMAIN labels
    BY <1>8, <2>2, LabelsOfTold
  <2>5. LocalWanted \subseteq DOMAIN before
    BY LabelsOfTold
  <2>6. Ssh \notin Names(template)
    <3>1. Ssh \in Names(template) => Ssh \in ToldNames(template)
      BY DEF ToldNames
    <3>2. ToldNames(wanted) = ToldNames(template)
      BY DEF AgreeOnTold
    <3>3. Ssh \notin LocalWanted
      BY <2>2, <2>5
    <3> QED BY <1>8, <3>1, <3>2, <3>3 DEF ToldNames
  <2>7. Ssh \notin DOMAIN after
    BY <2>2, <2>3, <2>4, <2>5, <2>6
  <2> QED BY <1>1, <1>6, <2>2, <2>7 DEF Advertised
<1> QED BY <1>7, <1>8

LEMMA DecidesForAReason ==
  ASSUME TypeOK, ToldInv, ToldByTemplate, NEW r \in Runtimes, Decides(r),
         NEW b \in found[r], NEW w \in want'[r]
  PROVE  HasReason(b, w)
<1> SUFFICES ASSUME WithoutTold(b.from) = WithoutTold(w.from), ~StillTold(b)
             PROVE  FALSE
  BY DEF HasReason
<1> DEFINE existing == LabelsOf(found[r])
<1>1. PICK s \in seen[r] :
        \E ports \in Assignments(s.ports, existing, OthersHosts(r), Listening) :
          LET plan == Planned(r, s, HonouredMounts(r), ports)
          IN  want'[r] = {plan} /\ \A c \in found[r] : c.from # plan.from
  BY DEF Decides
<1>2. PICK ports \in Assignments(s.ports, existing, OthersHosts(r), Listening) :
        LET plan == Planned(r, s, HonouredMounts(r), ports)
        IN  want'[r] = {plan} /\ \A c \in found[r] : c.from # plan.from
  BY <1>1
<1>3. w = Planned(r, s, HonouredMounts(r), ports) /\ b.from # w.from
  BY <1>2
<1>4. IsBox(b) /\ found[r] = {b} /\ existing = b.ports
  <2>1. IsBox(b) /\ found[r] = {b}
    BY DEF TypeOK
  <2> QED BY <2>1 DEF LabelsOf
<1>5. s \in Specs /\ IsPayload(b.from) /\ IsPortMap(b.ports)
  BY <1>4 DEF TypeOK, IsBox
<1>6. w.from = Payload(r, s, { Bind(m) : m \in HonouredMounts(r) }, ports)
  BY <1>3 DEF Planned
<1>7. /\ w.from = [image |-> w.from.image, ports |-> w.from.ports,
                   mounts |-> w.from.mounts, binds |-> w.from.binds,
                   told |-> w.from.told]
      /\ w.from.ports = MergePorts(s.ports, s.extra)
      /\ w.from.told = Advertised(ports)
  BY <1>6 DEF Payload
<1>8. /\ b.from.image = w.from.image /\ b.from.ports = w.from.ports
      /\ b.from.mounts = w.from.mounts /\ b.from.binds = w.from.binds
  BY <1>5, <1>7 DEF WithoutTold, IsPayload
<1>9. PICK before : ToldBy(b.from, b.ports, before)
  BY DEF ToldInv, AllTold
<1>10. Advertised(ports) = b.from.told
  <2>1. ports \in Assignments(s.ports, b.ports, OthersHosts(r), Listening)
    BY <1>4
  <2>2. b.from.ports = MergePorts(s.ports, s.extra)
    BY <1>7, <1>8
  <2>3. b.from.told.ssh = NoPort \/ Ssh \in Names(MergePorts(s.ports, s.extra))
    BY <2>2 DEF StillTold
  <2>4. /\ s.ports \in SUBSET PortSpec
        /\ \A p, q \in s.ports : p.name = q.name => p = q
    BY <1>5, SpecParts DEF ToldByTemplate
  <2>5. AgreeOnTold(s.ports, MergePorts(s.ports, s.extra))
    BY <1>5, MergedAgrees DEF ToldByTemplate
  <2> QED BY <1>9, <2>1, <2>2, <2>3, <2>4, <2>5, SameTold
<1>11. b.from = w.from
  BY <1>5, <1>7, <1>8, <1>10 DEF IsPayload
<1> QED BY <1>3, <1>11

LEMMA NextReason ==
  ASSUME TypeOK, ToldInv, ReasonInv, ToldByTemplate, [Next]_vars
  PROVE  ReasonInv'
<1> SUFFICES ASSUME NEW r \in Runtimes, NEW b \in found'[r], NEW w \in want'[r]
             PROVE  HasReason(b, w)
  BY DEF ReasonInv, HasReason, StillTold, WithoutTold
<1>1. ASSUME NEW c \in found[r], NEW v \in want[r], b.from = c.from, w.from = v.from
      PROVE  HasReason(b, w)
  BY <1>1 DEF ReasonInv, HasReason, StillTold
<1>2. CASE KeepsWhatItHas(r)
  <2>1. \E c \in found[r] : b.from = c.from
    <3>1. <<b.from, b.ports>> \in Made(found[r])
      BY <1>2 DEF KeepsWhatItHas, Made
    <3> QED BY <3>1 DEF Made
  <2>2. \E v \in want[r] : w.from = v.from
    <3>1. <<w.from, w.ports>> \in Made(want[r])
      BY <1>2 DEF KeepsWhatItHas, Made
    <3> QED BY <3>1 DEF Made
  <2> QED BY <1>1, <2>1, <2>2
<1>3. CASE Find(r)
  <2>1. want'[r] = want[r] /\ pc[r] = "find"
    BY <1>3 DEF Find
  <2> QED BY <2>1 DEF TypeOK, InScope
<1>4. CASE Decides(r)
  <2>1. found'[r] = found[r]
    BY <1>4 DEF Decides
  <2> QED BY <1>4, <2>1, DecidesForAReason
<1>5. CASE Makes(r)
  BY <1>1, <1>5 DEF Makes
<1> QED BY <1>2, <1>3, <1>4, <1>5, NextKinds

\* RuntimeService.ReplacedForAReason (service.go:301-303): what a container is
\* replaced by differs from it in something that was asked for, never only in the
\* numbers this machine picked, but for the number of an ssh port that was dropped.
\* A runtime may ask for ports of its own as long as the box is not told of them:
\* an ssh port only the Runtime lists is advertised as 0 from the second pass on,
\* and the container recreated for it.
THEOREM ReplacementHasReason ==
  ASSUME ToldByTemplate, Legacy = {}
  PROVE  Spec => []ReplacedForAReason
<1>1. Init => ReasonInv
  BY DEF Init, ReasonInv
<1>2. ReasonInv => ReplacedForAReason
  BY DEF ReasonInv, HasReason, ReplacedForAReason
<1> QED
  BY <1>1, <1>2, NextReason, ToldInvariant, TypeCorrect, PTL DEF Spec

-----------------------------------------------------------------------------
(***************************************************************************)
(* Addresses.                                                              *)
(***************************************************************************)
CameThrough(r) == faults = 0 /\ status[r].phase \in {"Ready", "Initializing"}

\* Two port maps give the same address wherever both give one, but for pins.
SameBut(old, new, specs) ==
  \A n \in DOMAIN Addresses(old) \cap DOMAIN Addresses(new) :
    old[n] = new[n] \/ \E s \in specs : \E p \in Pinned(s.ports) : p.name = n

AddressesOf(r) ==
  /\ CameThrough(r) =>
       /\ \A b \in found[r] : status[r].tcp = Addresses(b.ports)
       /\ pc[r] \notin {"volumes", "run", "inspect"} =>
            \A b \in box[r] : status[r].tcp = Addresses(b.ports)
  /\ pc[r] \in {"plan", "start", "replace"} =>
       \A b \in box[r], c \in found[r] : b.ports = c.ports
  /\ pc[r] = "inspect" =>
       \A b \in box[r], w \in want[r] : b.ports = w.ports
  /\ pc[r] = "start" => found[r] # {}
  /\ \A v, w \in want[r] : v.ports = w.ports
  /\ \A b \in found[r], w \in want[r] : SameBut(b.ports, w.ports, seen[r])

AddressInv == \A r \in Runtimes : AddressesOf(r)

\* A step that makes nothing new, and either leaves the addresses as they are or
\* says that the pass has not come through.
LEMMA QuietAddresses ==
  ASSUME NEW r \in Runtimes, AddressesOf(r), KeepsWhatItHas(r),
         CameThrough(r)' =>
           /\ CameThrough(r) /\ status'[r].tcp = status[r].tcp
           /\ pc[r] \in {"volumes", "run", "inspect"} =>
                pc'[r] \in {"volumes", "run", "inspect"},
         pc'[r] \in {"plan", "start", "replace"} =>
           pc[r] \in {"plan", "start", "replace"},
         pc'[r] = "inspect" => pc[r] = "inspect",
         pc'[r] = "start" => found'[r] # {},
         seen'[r] = seen[r] \/ found'[r] = {}
  PROVE  AddressesOf(r)'
<1>1. /\ \A b \in box'[r]   : \E c \in box[r]   : b.ports = c.ports
      /\ \A b \in found'[r] : \E c \in found[r] : b.ports = c.ports
      /\ \A b \in want'[r]  : \E c \in want[r]  : b.ports = c.ports
  <2>1. /\ Made(box'[r]) \subseteq Made(box[r])
        /\ Made(found'[r]) \subseteq Made(found[r])
        /\ Made(want'[r]) \subseteq Made(want[r])
    BY DEF KeepsWhatItHas
  <2>2. ASSUME NEW b \in box'[r] PROVE \E c \in box[r] : b.ports = c.ports
    <3>1. <<b.from, b.ports>> \in Made(box[r])
      BY <2>1 DEF Made
    <3> QED BY <3>1 DEF Made
  <2>3. ASSUME NEW b \in found'[r] PROVE \E c \in found[r] : b.ports = c.ports
    <3>1. <<b.from, b.ports>> \in Made(found[r])
      BY <2>1 DEF Made
    <3> QED BY <3>1 DEF Made
  <2>4. ASSUME NEW b \in want'[r] PROVE \E c \in want[r] : b.ports = c.ports
    <3>1. <<b.from, b.ports>> \in Made(want[r])
      BY <2>1 DEF Made
    <3> QED BY <3>1 DEF Made
  <2> QED BY <2>2, <2>3, <2>4
<1>2. CameThrough(r)' =>
        /\ \A b \in found'[r] : status'[r].tcp = Addresses(b.ports)
        /\ pc'[r] \notin {"volumes", "run", "inspect"} =>
             \A b \in box'[r] : status'[r].tcp = Addresses(b.ports)
  BY <1>1 DEF AddressesOf
<1>3. pc'[r] \in {"plan", "start", "replace"} =>
        \A b \in box'[r], c \in found'[r] : b.ports = c.ports
  BY <1>1 DEF AddressesOf
<1>4. pc'[r] = "inspect" =>
        \A b \in box'[r], w \in want'[r] : b.ports = w.ports
  BY <1>1 DEF AddressesOf
<1>5. \A b \in found'[r], w \in want'[r] : SameBut(b.ports, w.ports, seen'[r])
  BY <1>1 DEF AddressesOf
<1>6. \A v, w \in want'[r] : v.ports = w.ports
  BY <1>1 DEF AddressesOf
<1> QED BY <1>2, <1>3, <1>4, <1>5, <1>6 DEF AddressesOf, SameBut, Addresses

\* A pass that comes through hands out what the container publishes.
LEMMA DoneAddresses ==
  ASSUME TypeOK, NEW r \in Runtimes, NEW labels, NEW running,
         Done(r, labels, running), \A b \in box'[r] : b.ports = labels
  PROVE  AddressesOf(r)'
<1>1. /\ pc'[r] = "idle" /\ found'[r] = {} /\ want'[r] = {}
      /\ status'[r].tcp = Addresses(labels)
  BY DEF Done, Forget, TypeOK
<1>2. \A b \in box'[r] : status'[r].tcp = Addresses(b.ports)
  BY <1>1
<1> QED BY <1>1, <1>2 DEF AddressesOf, Addresses

LEMMA FailedAddresses ==
  ASSUME TypeOK, NEW r \in Runtimes, Failed(r)
  PROVE  AddressesOf(r)'
<1>1. /\ pc'[r] = "idle" /\ found'[r] = {} /\ want'[r] = {}
      /\ status'[r].phase \in {"Terminating", "Failed"}
  <2>1. IsStatus(status[r]) /\ DOMAIN status = Runtimes
    BY DEF TypeOK
  <2>2. status'[r] = [status[r] EXCEPT !.phase =
                        IF pc[r] \in RemoveSteps THEN "Terminating" ELSE "Failed"]
    BY <2>1 DEF Failed
  <2>3. status'[r].phase = IF pc[r] \in RemoveSteps THEN "Terminating" ELSE "Failed"
    BY <2>1, <2>2 DEF IsStatus
  <2> QED BY <2>3 DEF Failed, Forget, TypeOK
<1>2. ~CameThrough(r)'
  BY <1>1 DEF CameThrough
<1> QED BY <1>1, <1>2 DEF AddressesOf

\* What a step of one reconcile leaves of another runtime.
LEMMA StepsApart ==
  ASSUME TypeOK, NEW s \in Runtimes, Step(s), NEW r \in Runtimes, r # s
  PROVE  /\ box'[r] = box[r] /\ found'[r] = found[r] /\ want'[r] = want[r]
         /\ seen'[r] = seen[r] /\ status'[r] = status[r] /\ pc'[r] = pc[r]
         /\ faults' = faults
<1> USE DEF engineVars, budgets
<1> DEFINE Same == /\ found'[r] = found[r] /\ want'[r] = want[r]
                   /\ seen'[r] = seen[r] /\ status'[r] = status[r] /\ pc'[r] = pc[r]
<1>1. DOMAIN box = Runtimes /\ DOMAIN status = Runtimes /\ DOMAIN pc = Runtimes
      /\ DOMAIN found = Runtimes /\ DOMAIN want = Runtimes /\ DOMAIN seen = Runtimes
  BY DEF TypeOK, EngineTypeOK
<1>2. Failed(s) \/ (\E labels, running : Done(s, labels, running)) => Same
  BY <1>1 DEF Failed, Done, Forget
<1>3. faults' = faults
  BY DEF Step, ReadProvision, WriteProvision, Find, PlanBox, Start, RemoveOld,
         EnsureVolume, Run, Inspect, Collect, Rm, Purge, Unprovision, Release
<1>4. box'[r] = box[r]
  BY <1>1
    DEF Step, ReadProvision, WriteProvision, Find, PlanBox, Start, RemoveOld,
        EnsureVolume, Run, Inspect, Collect, Rm, Purge, Unprovision, Release,
        SetRunning, RemoveBox, RunBox
<1>5. Same
  <2> HIDE DEF Same
  <2>1. CASE \/ ReadProvision(s) \/ Find(s) \/ RemoveOld(s) \/ EnsureVolume(s)
             \/ Collect(s) \/ Rm(s) \/ Unprovision(s)
    BY <1>1, <2>1
      DEF Same, ReadProvision, Find, RemoveOld, EnsureVolume, Collect, Rm,
          Unprovision, Goto
  <2>2. CASE WriteProvision(s) \/ Run(s) \/ Purge(s)
    BY <1>1, <1>2, <2>2 DEF Same, WriteProvision, Run, Purge, Goto
  <2>3. CASE Start(s) \/ Inspect(s)
    BY <1>2, <2>3 DEF Start, Inspect
  <2>4. CASE PlanBox(s)
    <3>1. \/ Failed(s) \/ \E labels, running : Done(s, labels, running)
          \/ Goto(s, "start") /\ UNCHANGED <<status, seen, found, want>>
          \/ /\ \E step : Goto(s, step)
             /\ \E plan : want' = [want EXCEPT ![s] = {plan}]
             /\ UNCHANGED <<status, seen, found>>
      BY <2>4 DEF PlanBox, Compare, Recreate
    <3> QED BY <1>1, <1>2, <3>1 DEF Same, Goto
  <2>5. CASE Release(s)
    BY <1>1, <2>5 DEF Same, Release, Forget
  <2> QED BY <2>1, <2>2, <2>3, <2>4, <2>5 DEF Step
<1> QED BY <1>3, <1>4, <1>5

LEMMA FindAddresses ==
  ASSUME TypeOK, NEW r \in Runtimes, AddressesOf(r), Find(r)
  PROVE  AddressesOf(r)'
<1>1. /\ box' = box /\ found'[r] = box[r] /\ want'[r] = want[r]
      /\ seen'[r] = seen[r] /\ status'[r] = status[r] /\ faults' = faults
      /\ pc[r] = "find" /\ pc'[r] = "plan"
  BY DEF Find, engineVars, budgets, Goto, TypeOK
<1>2. want[r] = {}
  BY <1>1 DEF TypeOK, InScope
<1>3. \A b \in box[r] : box[r] = {b}
  BY DEF TypeOK, EngineTypeOK
<1> QED BY <1>1, <1>2, <1>3 DEF AddressesOf, CameThrough, Addresses

\* The plan gives every name of the container's own labels the number it has.
LEMMA DecidedNumbersStay ==
  ASSUME TypeOK, NEW r \in Runtimes, Decides(r), NEW b \in found[r],
         NEW w \in want'[r]
  PROVE  SameBut(b.ports, w.ports, seen[r])
<1> DEFINE existing == LabelsOf(found[r])
<1>1. PICK s \in seen[r] :
        \E ports \in Assignments(s.ports, existing, OthersHosts(r), Listening) :
          want'[r] = {Planned(r, s, HonouredMounts(r), ports)}
  BY DEF Decides
<1>2. PICK ports \in Assignments(s.ports, existing, OthersHosts(r), Listening) :
        want'[r] = {Planned(r, s, HonouredMounts(r), ports)}
  BY <1>1
<1>3. w.ports = ApplyHostPorts(Names(s.ports \cup s.extra), ports)
  BY <1>2 DEF Planned
<1>4. existing = b.ports
  <2>1. found[r] = {b}
    BY DEF TypeOK
  <2> QED BY <2>1 DEF LabelsOf
<1> SUFFICES ASSUME NEW n \in DOMAIN Addresses(b.ports) \cap DOMAIN Addresses(w.ports),
                    \A p \in Pinned(s.ports) : p.name # n
             PROVE  b.ports[n] = w.ports[n]
  BY DEF SameBut
<1>5. n \in DOMAIN existing /\ n \in DOMAIN w.ports
  BY <1>4 DEF Addresses
<1>6. n \in DOMAIN ports /\ ports[n] = existing[n]
  <2> HIDE DEF existing
  <2> QED BY <1>5, AssignmentKeeps
<1> QED BY <1>3, <1>4, <1>5, <1>6 DEF ApplyHostPorts

LEMMA DecidesAddresses ==
  ASSUME TypeOK, NEW r \in Runtimes, AddressesOf(r), Decides(r), faults' = faults
  PROVE  AddressesOf(r)'
<1>1. /\ box'[r] = box[r] /\ found'[r] = found[r] /\ UNCHANGED <<seen, status>>
      /\ pc[r] = "plan" /\ pc'[r] \in {"replace", "volumes"}
  BY DEF Decides
<1>2. \A b \in found[r], w \in want'[r] : SameBut(b.ports, w.ports, seen[r])
  BY DecidedNumbersStay
<1>3. \A v, w \in want'[r] : v.ports = w.ports
  BY DEF Decides
<1> QED BY <1>1, <1>2, <1>3 DEF AddressesOf, CameThrough, SameBut, Addresses

LEMMA RunAddresses ==
  ASSUME TypeOK, NEW r \in Runtimes, AddressesOf(r), Run(r)
  PROVE  AddressesOf(r)'
<1>1. CASE Failed(r)
  BY <1>1, FailedAddresses
<1>2. CASE Goto(r, "inspect") /\ UNCHANGED <<status, seen, found, want>>
  <2>1. PICK w \in want[r] : RunBox(r, w.from, w.ports)
    BY DEF Run
  <2>2. \A b \in box'[r] : b.ports = w.ports
    BY <2>1 DEF RunBox, TypeOK, EngineTypeOK
  <2>3. pc[r] = "run" /\ pc'[r] = "inspect" /\ faults' = faults
    BY <1>2 DEF Run, Goto, budgets, TypeOK
  <2>4. \A v \in want[r] : v.ports = w.ports
    BY DEF AddressesOf
  <2> QED BY <1>2, <2>2, <2>3, <2>4 DEF AddressesOf, CameThrough, SameBut, Addresses
<1> QED BY <1>1, <1>2 DEF Run

LEMMA OwnStepAddresses ==
  ASSUME TypeOK, NEW r \in Runtimes, AddressesOf(r), Step(r)
  PROVE  AddressesOf(r)'
<1> USE DEF engineVars, budgets
<1>1. CASE ReadProvision(r) \/ RemoveOld(r) \/ EnsureVolume(r) \/ Collect(r)
           \/ Rm(r) \/ Unprovision(r)
  <2>1. /\ UNCHANGED <<status, seen, found, want, faults>>
        /\ box'[r] \subseteq box[r]
    BY <1>1 DEF ReadProvision, RemoveOld, EnsureVolume, Collect, Rm, Unprovision,
                RemoveBox, TypeOK, EngineTypeOK
  <2>2. /\ pc[r] \in {"volumes", "run", "inspect"} =>
             pc'[r] \in {"volumes", "run", "inspect"}
        /\ pc'[r] \notin {"plan", "start", "replace", "inspect"}
    BY <1>1 DEF ReadProvision, RemoveOld, EnsureVolume, Collect, Rm, Unprovision,
                Goto, TypeOK
  <2> QED BY <2>1, <2>2, FewerKeeps, QuietAddresses DEF CameThrough
<1>2. CASE WriteProvision(r)
  <2>1. CASE Goto(r, "find") /\ UNCHANGED <<status, seen, found, want>>
    <3>1. pc[r] = "write" /\ pc'[r] = "find" /\ UNCHANGED <<box, faults>>
      BY <1>2, <2>1 DEF WriteProvision, Goto, TypeOK
    <3> QED BY <2>1, <3>1, FewerKeeps, QuietAddresses DEF CameThrough
  <2> QED BY <1>2, <2>1, FailedAddresses DEF WriteProvision
<1>3. CASE Purge(r)
  <2>1. CASE UNCHANGED <<status, seen, found, want>> /\ (UNCHANGED pc \/ Goto(r, "unprovision"))
    <3>1. pc[r] = "purge" /\ pc'[r] \in {"purge", "unprovision"} /\ UNCHANGED <<box, faults>>
      BY <1>3, <2>1 DEF Purge, Goto, TypeOK
    <3> QED BY <2>1, <3>1, FewerKeeps, QuietAddresses DEF CameThrough
  <2> QED BY <1>3, <2>1, FailedAddresses DEF Purge
<1>4. CASE PlanBox(r)
  <2>1. pc[r] = "plan" /\ UNCHANGED <<box, faults>>
    BY <1>4 DEF PlanBox
  <2>2. CASE \E b \in found[r] : Done(r, b.ports, TRUE)
    <3>1. PICK c \in found[r] : Done(r, c.ports, TRUE)
      BY <2>2
    <3>2. \A b \in box'[r] : b.ports = c.ports
      BY <2>1 DEF AddressesOf
    <3> QED BY <3>1, <3>2, DoneAddresses
  <2>3. CASE /\ Goto(r, "start") /\ found[r] # {}
             /\ UNCHANGED <<status, seen, found, want>>
    <3>1. pc'[r] = "start"
      BY <2>3 DEF Goto, TypeOK
    <3> QED BY <2>1, <2>3, <3>1, FewerKeeps, QuietAddresses DEF CameThrough
  <2>4. CASE \E plan : Recreate(r, plan)
    <3>1. pc'[r] \in {"replace", "volumes"}
      BY <2>4 DEF Recreate, Goto, TypeOK
    <3>2. want'[r] # {}
      BY <2>4 DEF Recreate, TypeOK
    <3>3. want[r] = {}
      BY <2>1 DEF TypeOK, InScope
    <3>4. ~KeepsWhatItHas(r)
      BY <3>2, <3>3 DEF KeepsWhatItHas, Made
    <3>5. Decides(r)
      BY <1>4, <3>4, PlanBoxKinds
    <3> QED BY <2>1, <3>5, DecidesAddresses
  <2>5. \/ Failed(r) \/ \E b \in found[r] : Done(r, b.ports, TRUE)
        \/ /\ Goto(r, "start") /\ found[r] # {}
           /\ UNCHANGED <<status, seen, found, want>>
        \/ \E plan : Recreate(r, plan)
    BY <1>4 DEF PlanBox, Compare
  <2> QED BY <2>2, <2>3, <2>4, <2>5, FailedAddresses
<1>5. CASE Start(r)
  <2>1. CASE SetRunning(r, TRUE) /\ Done(r, LabelsOf(found[r]), TRUE)
    <3>1. PICK c \in found[r] : LabelsOf(found[r]) = c.ports
      BY <1>5 DEF Start, AddressesOf, LabelsOf
    <3>2. \A b \in box[r] : b.ports = c.ports
      BY <1>5 DEF Start, AddressesOf
    <3>3. Made(box'[r]) = Made(box[r])
      BY <2>1, StartStopKeeps
    <3>4. ASSUME NEW b \in box'[r] PROVE b.ports = c.ports
      <4>1. <<b.from, b.ports>> \in Made(box[r])
        BY <3>3 DEF Made
      <4> QED BY <3>2, <4>1 DEF Made
    <3> QED BY <2>1, <3>1, <3>4, DoneAddresses
  <2> QED BY <1>5, <2>1, FailedAddresses DEF Start
<1>6. CASE Inspect(r)
  <2>1. ASSUME NEW b \in box[r], Done(r, b.ports, b.running)
        PROVE  AddressesOf(r)'
    <3>1. box' = box /\ box[r] = {b}
      BY <1>6, <2>1 DEF Inspect, TypeOK, EngineTypeOK
    <3> QED BY <2>1, <3>1, DoneAddresses
  <2> QED BY <1>6, <2>1, FailedAddresses DEF Inspect
<1>7. CASE Release(r)
  <2>1. /\ pc'[r] = "idle" /\ found'[r] = {} /\ want'[r] = {}
        /\ status'[r].phase = ""
    BY <1>7 DEF Release, Forget, NoStatus, TypeOK
  <2>2. ~CameThrough(r)'
    BY <2>1 DEF CameThrough
  <2> QED BY <2>1, <2>2 DEF AddressesOf
<1> QED
  BY <1>1, <1>2, <1>3, <1>4, <1>5, <1>6, <1>7, FindAddresses, RunAddresses DEF Step

LEMMA ElsewhereAddresses ==
  ASSUME TypeOK, NEW r \in Runtimes, AddressesOf(r),
         \/ \E s \in Runtimes : Begin(s) \/ CallFails(s) \/ InnerBeat(s)
         \/ Crash \/ User \/ Machine \/ UNCHANGED vars
  PROVE  AddressesOf(r)'
<1> USE DEF engineVars, locals, budgets
<1>1. CASE \/ (\E s \in Runtimes : InnerBeat(s)) \/ User \/ Machine
           \/ UNCHANGED vars
  <2>1. KeepsWhatItHas(r)
    BY <1>1, ElsewhereKeeps, FewerKeeps DEF vars
  <2>2. UNCHANGED <<status, seen, found, want, pc>>
    BY <1>1 DEF InnerBeat, User, Machine, vars
  <2>3. faults' = faults
    BY <1>1
      DEF InnerBeat, User, Declare, Edit, Delete, AskMount, MoveDirectory, Machine,
          BoxStops, BoxVanishes, VolumePruned, ForeignPort, Happens, vars
  <2> QED BY <2>1, <2>2, <2>3, QuietAddresses DEF AddressesOf, CameThrough
<1>2. ASSUME NEW s \in Runtimes, Begin(s)
      PROVE  AddressesOf(r)'
  <2>1. UNCHANGED <<box, status, found, want, faults>>
    BY <1>2 DEF Begin, AddFinalizer, BeginEnsure, BeginRemove
  <2>2. \/ pc'[r] = pc[r] /\ seen'[r] = seen[r]
        \/ pc[r] = "idle" /\ pc'[r] \in {"provision", "collect"}
    BY <1>2
      DEF Begin, AddFinalizer, BeginEnsure, BeginRemove, MayStart, Goto, TypeOK
  <2>3. pc[r] = "idle" => found'[r] = {}
    BY <2>1, RestsEmptyHanded
  <2>4. KeepsWhatItHas(r)
    BY <2>1, FewerKeeps
  <2> QED BY <2>1, <2>2, <2>3, <2>4, QuietAddresses DEF AddressesOf, CameThrough
<1>3. ASSUME Crash \/ \E s \in Runtimes : CallFails(s)
      PROVE  AddressesOf(r)'
  <2>1. faults' # 0
    BY <1>3 DEF Crash, CallFails, TypeOK
  <2>2. ~CameThrough(r)'
    BY <2>1 DEF CameThrough
  <2>3. KeepsWhatItHas(r)
    BY <1>3, ElsewhereKeeps
  <2>4. \/ pc'[r] = "idle" /\ found'[r] = {}
        \/ pc'[r] = pc[r] /\ seen'[r] = seen[r] /\ found'[r] = found[r]
    BY <1>3 DEF Crash, CallFails, Failed, Forget, TypeOK
  <2> QED BY <2>2, <2>3, <2>4, QuietAddresses DEF AddressesOf
<1> QED BY <1>1, <1>2, <1>3

LEMMA AddressInvariant == Spec => []AddressInv
<1>1. Init => AddressInv
  <2> SUFFICES ASSUME Init, NEW r \in Runtimes PROVE AddressesOf(r)
    BY DEF AddressInv
  <2>1. pc[r] = "idle" /\ found[r] = {} /\ want[r] = {} /\ status[r].phase = ""
    BY DEF Init, NoStatus
  <2>2. ~CameThrough(r)
    BY <2>1 DEF CameThrough
  <2> QED BY <2>1, <2>2 DEF AddressesOf
<1>2. TypeOK /\ AddressInv /\ [Next]_vars => AddressInv'
  <2> SUFFICES ASSUME TypeOK, AddressInv, [Next]_vars, NEW r \in Runtimes
               PROVE  AddressesOf(r)'
    BY DEF AddressInv
  <2>1. AddressesOf(r)
    BY DEF AddressInv
  <2>2. CASE Step(r)
    BY <2>1, <2>2, OwnStepAddresses
  <2>3. ASSUME NEW s \in Runtimes, s # r, Step(s)
        PROVE  AddressesOf(r)'
    <3>1. /\ box'[r] = box[r] /\ found'[r] = found[r] /\ want'[r] = want[r]
          /\ seen'[r] = seen[r] /\ status'[r] = status[r] /\ pc'[r] = pc[r]
          /\ faults' = faults
      BY <2>3, StepsApart
    <3> QED BY <2>1, <3>1, FewerKeeps, QuietAddresses DEF AddressesOf, CameThrough
  <2> QED BY <2>1, <2>2, <2>3, ElsewhereAddresses DEF Next
<1> QED BY <1>1, <1>2, TypeCorrect, PTL DEF Spec

\* Who writes addresses: a pass that comes through, and the end of a removal.
LEMMA WhoMovesAddresses ==
  ASSUME TypeOK, [Next]_vars, NEW r \in Runtimes
  PROVE  \/ status'[r].tcp = status[r].tcp
         \/ status'[r].tcp = NoPorts
         \/ /\ pc[r] = "plan"
            /\ \E b \in found[r] : status'[r].tcp = Addresses(b.ports)
         \/ pc[r] = "start" /\ status'[r].tcp = Addresses(LabelsOf(found[r]))
         \/ /\ pc[r] = "inspect"
            /\ \E b \in box[r] : status'[r].tcp = Addresses(b.ports)
<1>1. DOMAIN status = Runtimes /\ IsStatus(status[r])
  BY DEF TypeOK
<1>2. Failed(r) => status'[r].tcp = status[r].tcp
  BY <1>1 DEF Failed, IsStatus
<1>3. \A labels, running :
        Done(r, labels, running) => status'[r].tcp = Addresses(labels)
  BY <1>1 DEF Done
<1>4. CASE Step(r)
  <2>1. CASE \/ ReadProvision(r) \/ WriteProvision(r) \/ Find(r) \/ RemoveOld(r)
             \/ EnsureVolume(r) \/ Run(r) \/ Collect(r) \/ Rm(r) \/ Purge(r)
             \/ Unprovision(r)
    BY <1>2, <2>1
      DEF ReadProvision, WriteProvision, Find, RemoveOld, EnsureVolume, Run,
          Collect, Rm, Purge, Unprovision
  <2>2. CASE PlanBox(r)
    <3>1. \/ Failed(r) \/ status' = status
          \/ \E b \in found[r] : Done(r, b.ports, TRUE)
      BY <2>2 DEF PlanBox, Compare, Recreate
    <3>2. pc[r] = "plan"
      BY <2>2 DEF PlanBox
    <3>3. ASSUME NEW b \in found[r], Done(r, b.ports, TRUE)
          PROVE  status'[r].tcp = Addresses(b.ports)
      BY <1>3, <3>3
    <3> QED BY <1>2, <3>1, <3>2, <3>3
  <2>3. CASE Start(r)
    BY <1>2, <1>3, <2>3 DEF Start
  <2>4. CASE Inspect(r)
    BY <1>2, <1>3, <2>4 DEF Inspect
  <2>5. CASE Release(r)
    BY <1>1, <2>5 DEF Release, NoStatus
  <2> QED BY <1>4, <2>1, <2>2, <2>3, <2>4, <2>5 DEF Step
<1>5. ASSUME NEW s \in Runtimes, s # r, Step(s)
      PROVE  status'[r].tcp = status[r].tcp
  BY <1>5, StepsApart
<1>6. ASSUME NEW s \in Runtimes, CallFails(s)
      PROVE  status'[r].tcp = status[r].tcp
  <2>1. CASE s = r
    BY <1>2, <1>6, <2>1 DEF CallFails
  <2>2. CASE s # r
    BY <1>1, <1>6, <2>2 DEF CallFails, Failed
  <2> QED BY <2>1, <2>2
<1>7. CASE \/ \E s \in Runtimes : Begin(s) \/ InnerBeat(s)
           \/ Crash \/ User \/ Machine \/ UNCHANGED vars
  BY <1>7
    DEF Begin, AddFinalizer, BeginEnsure, BeginRemove, InnerBeat, Crash, User,
        Machine, vars
<1> QED BY <1>4, <1>5, <1>6, <1>7 DEF Next

\* RuntimeService.AddressesStayUnbroken (service.go:353-354): while no call fails
\* and the agent does not die, an address once handed out is replaced by another
\* number only where the spec pins that port, as long as the last pass came
\* through and there is a container to learn the numbers from.
THEOREM HandedOutStays == Spec => AddressesStayUnbroken
<1>1. TypeOK /\ AddressInv /\ [Next]_vars
        => [faults = 0 =>
              \A r \in Runtimes :
                status[r].phase \in {"Ready", "Initializing"} /\ found[r] # {}
                  => AddressKept(r)]_vars
  <2> SUFFICES ASSUME TypeOK, AddressInv, [Next]_vars, NEW r \in Runtimes,
                      CameThrough(r), found[r] # {}
               PROVE  AddressKept(r)
    BY DEF CameThrough
  <2>1. PICK c \in found[r] : TRUE
    OBVIOUS
  <2>2. status[r].tcp = Addresses(c.ports)
    BY DEF AddressInv, AddressesOf
  <2>3. LabelsOf(found[r]) = c.ports /\ \A b \in found[r] : b = c
    <3>1. found[r] = {c}
      BY DEF TypeOK
    <3> QED BY <3>1 DEF LabelsOf
  <2>4. CASE status'[r].tcp = status[r].tcp
    BY <2>4 DEF AddressKept
  <2>5. CASE status'[r].tcp = NoPorts
    BY <2>5 DEF AddressKept, NoPorts
  <2>6. ASSUME pc[r] = "inspect", NEW b \in box[r],
               status'[r].tcp = Addresses(b.ports)
        PROVE  AddressKept(r)
    <3>1. PICK w \in want[r] : TRUE
      BY <2>6 DEF TypeOK, InScope
    <3>2. b.ports = w.ports /\ SameBut(c.ports, w.ports, seen[r])
      BY <2>6 DEF AddressInv, AddressesOf
    <3>3. SameBut(c.ports, b.ports, seen[r])
      BY <3>2
    <3> QED BY <2>2, <2>6, <3>3 DEF AddressKept, SameBut, Addresses
  <2> QED BY <2>2, <2>3, <2>4, <2>5, <2>6, WhoMovesAddresses
<1> QED
  BY <1>1, AddressInvariant, TypeCorrect, PTL DEF AddressesStayUnbroken, Spec

=============================================================================
