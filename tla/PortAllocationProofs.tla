------------------------ MODULE PortAllocationProofs ------------------------
(***************************************************************************)
(* What an assignment of ports is, whatever the template asks for, the     *)
(* boxes hold and the machine uses.                                        *)
(***************************************************************************)
EXTENDS PortAllocation, FiniteSetTheorems, WellFoundedInduction, TLAPS

LEMMA JoinIsPortMap ==
  ASSUME NEW f, NEW g, IsPortMap(f), IsPortMap(g)
  PROVE  IsPortMap(Join(f, g))
BY DEF IsPortMap, Join

LEMMA NoPortsIsPortMap == IsPortMap(NoPorts)
BY DEF IsPortMap, NoPorts

\* A set of numbers has a least one.
LEMMA LeastNumber ==
  ASSUME NEW T \in SUBSET Nat, T # {}
  PROVE  \E x \in T : \A y \in T : x <= y
<1> DEFINE Upto == { 0..x : x \in T }
<1>1. \A x \in T : 0..x \in FiniteSubsetsOf(Nat)
  <2> TAKE x \in T
  <2>1. IsFiniteSet(0..x)
    BY FS_Interval
  <2>2. 0..x \in SUBSET Nat
    OBVIOUS
  <2> QED BY <2>1, <2>2 DEF FiniteSubsetsOf
<1>2. Upto \subseteq FiniteSubsetsOf(Nat) /\ Upto # {}
  BY <1>1
<1>3. PICK U \in Upto : \A V \in Upto : <<V, U>> \notin StrictSubsetOrdering(Nat)
  <2> HIDE DEF Upto
  <2> QED BY <1>2, FS_StrictSubsetOrderingWellFounded, WFMin
<1>4. PICK x \in T : U = 0..x
  BY <1>3
<1>5. ASSUME NEW y \in T, y < x PROVE FALSE
  <2>1. x \in 0..x /\ x \notin 0..y /\ 0..y \subseteq 0..x
    BY <1>5
  <2>2. 0..y \in SUBSET Nat /\ 0..x \in SUBSET Nat
    OBVIOUS
  <2>3. <<0..y, 0..x>> \notin StrictSubsetOrdering(Nat)
    BY <1>3, <1>4, <1>5
  <2> QED BY <2>1, <2>2, <2>3, ZenonT(30) DEF StrictSubsetOrdering
<1> QED BY <1>5

\* A pin, or the number the container has: never anything else.
LEMMA HeldIsPortMap ==
  ASSUME NEW wanted \in SUBSET PortSpec, NEW existing, IsPortMap(existing)
  PROVE  IsPortMap(Held(wanted, existing))
<1> DEFINE pins == Pinned(wanted)
<1>1. \A p \in pins : p.name \in PortName /\ p.pin \in Nat
  BY DEF Pinned, PortSpec
<1>2. ASSUME NEW n \in Names(pins)
      PROVE  (CHOOSE p \in pins : p.name = n).pin \in Nat
  <2>1. \E p \in pins : p.name = n
    BY DEF Names
  <2> QED BY <1>1, <2>1
<1>3. Names(pins) \subseteq PortName
  BY <1>1 DEF Names
<1> QED BY <1>2, <1>3 DEF Held, IsPortMap

\* Whatever the order, a name that is served gets a number of the range.
LEMMA HandOutServes ==
  ASSUME NEW names, NEW free, NEW order, Room(names, free, order)
  PROVE  /\ HandOut(names, free, order) \in [names -> free]
         /\ \A n \in names :
              Suits(HandOut(names, free, order)[n], n, free, names, order)
BY DEF HandOut, Room

LEMMA FillInShape ==
  ASSUME NEW names, NEW held, NEW order, NEW min \in Nat, NEW max \in Nat,
         NEW others, NEW busy, NEW ports \in FillIn(names, held, order, min, max,
                                                    others, busy)
  PROVE  LET fresh == names \ DOMAIN held
             free  == FreePortsIn(min, max, others \cup Hosts(held), busy)
         IN  /\ Room(fresh, free, order)
             /\ ports = Join(held, HandOut(fresh, free, order))
BY DEF FillIn

LEMMA FillInIsPortMap ==
  ASSUME NEW names \in SUBSET PortName, NEW held, IsPortMap(held), NEW order,
         NEW min \in Nat, NEW max \in Nat, NEW others, NEW busy,
         NEW ports \in FillIn(names, held, order, min, max, others, busy)
  PROVE  IsPortMap(ports)
<1> DEFINE fresh == names \ DOMAIN held
           free  == FreePortsIn(min, max, others \cup Hosts(held), busy)
<1>1. Room(fresh, free, order) /\ ports = Join(held, HandOut(fresh, free, order))
  BY FillInShape
<1>2. HandOut(fresh, free, order) \in [fresh -> free]
  BY <1>1, HandOutServes
<1>3. free \subseteq Nat
  BY DEF FreePortsIn
<1>4. IsPortMap(HandOut(fresh, free, order))
  BY <1>2, <1>3 DEF IsPortMap
<1> QED BY <1>1, <1>4, JoinIsPortMap

LEMMA LocalWantedNames == LocalWanted \subseteq PortName
BY PortRanges, PortNames DEF LocalWanted

LEMMA WantedNames ==
  ASSUME NEW wanted \in SUBSET PortSpec
  PROVE  Names(wanted) \subseteq PortName
BY DEF Names, PortSpec

LEMMA AssignmentSteps ==
  ASSUME NEW wanted, NEW existing, NEW others, NEW busy,
         NEW ports \in Assignments(wanted, existing, others, busy)
  PROVE  /\ PinsGranted(wanted, existing, others, busy)
         /\ \E held \in WithPool(wanted, Held(wanted, existing), others, busy) :
              ports \in WithLocals(held, others, busy)
BY DEF Assignments

LEMMA AssignmentIsPortMap ==
  ASSUME NEW wanted \in SUBSET PortSpec, NEW existing, IsPortMap(existing),
         NEW others, NEW busy,
         NEW ports \in Assignments(wanted, existing, others, busy)
  PROVE  IsPortMap(ports)
<1>1. PICK held \in WithPool(wanted, Held(wanted, existing), others, busy) :
        ports \in WithLocals(held, others, busy)
  BY AssignmentSteps
<1>2. IsPortMap(held)
  BY <1>1, HeldIsPortMap, WantedNames, FillInIsPortMap, PortRanges DEF WithPool
<1>3. LocalPortMin + LocalPortSearchSpan \in Nat /\ LocalPortMin \in Nat
  BY PortRanges
<1> QED
  BY <1>1, <1>2, <1>3, LocalWantedNames, FillInIsPortMap DEF WithLocals

LEMMA LabelsArePortMap ==
  ASSUME NEW names \in SUBSET PortName, NEW ports, IsPortMap(ports)
  PROVE  IsPortMap(ApplyHostPorts(names, ports))
<1>1. LocalRun(ports, Len(LocalNames)) \subseteq PortName
  BY PortNames DEF LocalRun
<1> QED BY <1>1 DEF ApplyHostPorts, IsPortMap

-----------------------------------------------------------------------------
(***************************************************************************)
(* Nobody else's number, and no number twice.                              *)
(***************************************************************************)
\* Of two names of one order, the later one has more names before it.
LEMMA TurnsDiffer ==
  ASSUME NEW names, IsFiniteSet(names), NEW order,
         \A k \in names : order[k] \in Nat,
         \A k, l \in names : order[k] = order[l] => k = l,
         NEW m \in names, NEW n \in names, m # n
  PROVE  Turn(m, names, order) # Turn(n, names, order)
<1> DEFINE Before(k) == { l \in names : order[l] < order[k] }
<1>1. ASSUME NEW k \in names, NEW l \in names, order[k] < order[l]
      PROVE  Turn(k, names, order) # Turn(l, names, order)
  <2>1. IsFiniteSet(Before(l))
    BY FS_Subset
  <2>2. Before(k) \in SUBSET Before(l)
    BY <1>1
  <2>3. k \in Before(l) /\ k \notin Before(k)
    BY <1>1
  <2>4. Cardinality(Before(l)) # Cardinality(Before(k))
    BY <2>1, <2>2, <2>3, FS_Subset
  <2> QED BY <2>4 DEF Turn
<1>2. order[m] < order[n] \/ order[n] < order[m]
  OBVIOUS
<1> QED BY <1>1, <1>2

LEMMA HandOutDistinct ==
  ASSUME NEW names, IsFiniteSet(names), NEW free, NEW order,
         \A k \in names : order[k] \in Nat,
         \A k, l \in names : order[k] = order[l] => k = l,
         Room(names, free, order), NEW m \in names, NEW n \in names, m # n
  PROVE  HandOut(names, free, order)[m] # HandOut(names, free, order)[n]
BY HandOutServes, TurnsDiffer DEF Suits

\* Filling in adds free numbers to what is held.
LEMMA FillInAvoids ==
  ASSUME NEW names, NEW held, NEW order, NEW min \in Nat, NEW max \in Nat,
         NEW others, NEW busy,
         NEW ports \in FillIn(names, held, order, min, max, others, busy),
         Publishes(held) \cap others = {}
  PROVE  Publishes(ports) \cap others = {}
<1> DEFINE fresh == names \ DOMAIN held
           free  == FreePortsIn(min, max, others \cup Hosts(held), busy)
<1>1. Room(fresh, free, order) /\ ports = Join(held, HandOut(fresh, free, order))
  BY FillInShape
<1>2. HandOut(fresh, free, order) \in [fresh -> free]
  BY <1>1, HandOutServes
<1>3. free \cap others = {}
  BY DEF FreePortsIn
<1>4. Hosts(ports) \subseteq Hosts(held) \cup free
  BY <1>1, <1>2 DEF Join, Hosts
<1> QED BY <1>3, <1>4 DEF Publishes

LEMMA FillInDistinct ==
  ASSUME NEW names, IsFiniteSet(names), NEW held, NEW order,
         \A k \in names : order[k] \in Nat,
         \A k, l \in names : order[k] = order[l] => k = l,
         NEW min \in Nat, NEW max \in Nat, NEW others, NEW busy,
         NEW ports \in FillIn(names, held, order, min, max, others, busy)
  PROVE  \A m, n \in DOMAIN ports : m # n /\ ports[m] = ports[n] =>
           /\ {m, n} \subseteq DOMAIN held
           /\ held[m] = ports[m] /\ held[n] = ports[n]
<1> DEFINE fresh == names \ DOMAIN held
           free  == FreePortsIn(min, max, others \cup Hosts(held), busy)
           new   == HandOut(fresh, free, order)
<1>1. Room(fresh, free, order) /\ ports = Join(held, new)
  BY FillInShape
<1>2. new \in [fresh -> free]
  BY <1>1, HandOutServes
<1>3. IsFiniteSet(fresh)
  BY FS_Subset
<1>4. \A m, n \in fresh : m # n => new[m] # new[n]
  BY <1>1, <1>3, HandOutDistinct
<1>5. \A m \in fresh : \A n \in DOMAIN held : new[m] # held[n]
  <2>1. free \cap Hosts(held) = {}
    BY DEF FreePortsIn
  <2>2. \A m \in fresh : new[m] \in free
    <3> HIDE DEF fresh, free, new
    <3> QED BY <1>2
  <2>3. \A n \in DOMAIN held : held[n] \in Hosts(held)
    BY DEF Hosts
  <2> HIDE DEF fresh, free, new
  <2> QED BY <2>1, <2>2, <2>3
<1>6. DOMAIN ports = DOMAIN held \cup fresh
  BY <1>1, <1>2 DEF Join
<1>7. /\ \A m \in DOMAIN held : ports[m] = held[m]
      /\ \A m \in fresh : ports[m] = new[m]
  BY <1>1, <1>2 DEF Join
<1>8. ASSUME NEW m \in DOMAIN ports, NEW n \in DOMAIN ports, m # n,
             ports[m] = ports[n]
      PROVE  /\ {m, n} \subseteq DOMAIN held
             /\ held[m] = ports[m] /\ held[n] = ports[n]
  <2>1. CASE m \in DOMAIN held /\ n \in DOMAIN held
    BY <1>7, <1>8, <2>1
  <2>2. CASE m \in fresh /\ n \in fresh
    BY <1>4, <1>7, <1>8, <2>2
  <2>3. CASE m \in fresh /\ n \in DOMAIN held
    BY <1>5, <1>7, <1>8, <2>3
  <2>4. CASE m \in DOMAIN held /\ n \in fresh
    BY <1>5, <1>7, <1>8, <2>4
  <2> QED BY <1>6, <2>1, <2>2, <2>3, <2>4
<1> QED BY <1>8

\* What the pins and the container bring along, name by name.
LEMMA HeldValues ==
  ASSUME NEW wanted, NEW existing, NEW n \in DOMAIN Held(wanted, existing)
  PROVE  \/ \E p \in Pinned(wanted) :
               p.name = n /\ Held(wanted, existing)[n] = p.pin
         \/ /\ n \in DOMAIN existing
            /\ \A p \in Pinned(wanted) : p.name # n
            /\ Held(wanted, existing)[n] = existing[n]
BY DEF Held, Names

LEMMA HeldAvoids ==
  ASSUME NEW wanted, NEW existing, NEW others, NEW busy,
         PinsGranted(wanted, existing, others, busy),
         Publishes(existing) \cap others = {}
  PROVE  Publishes(Held(wanted, existing)) \cap others = {}
<1> DEFINE held == Held(wanted, existing)
<1> SUFFICES ASSUME NEW n \in DOMAIN held, held[n] # 0, held[n] \in others
             PROVE  FALSE
  BY DEF Publishes, Hosts
<1>1. CASE \E p \in Pinned(wanted) : held[n] = p.pin
  BY <1>1 DEF PinsGranted, CheckPinned, Publishes, Hosts
<1>2. CASE n \in DOMAIN existing /\ held[n] = existing[n]
  BY <1>2 DEF Publishes, Hosts
<1> QED BY <1>1, <1>2, HeldValues

LEMMA HeldDistinct ==
  ASSUME NEW wanted, NEW existing, NEW others, NEW busy,
         PinsGranted(wanted, existing, others, busy)
  PROVE  OncePerName(Held(wanted, existing), wanted, existing)
<1> DEFINE held == Held(wanted, existing)
<1> SUFFICES ASSUME NEW m \in DOMAIN held, NEW n \in DOMAIN held, m # n,
                    held[m] = held[n]
             PROVE  \/ /\ {m, n} \subseteq DOMAIN existing
                       /\ existing[m] = held[m] /\ existing[n] = held[n]
                    \/ \E p \in Pinned(wanted) :
                         /\ p.name \in {m, n} /\ p.pin = held[m]
                         /\ PinnedOver(p, existing)
  BY DEF OncePerName
<1>1. CASE \E p, q \in Pinned(wanted) : /\ p.name = m /\ held[m] = p.pin
                                       /\ q.name = n /\ held[n] = q.pin
  <2>1. PICK p, q \in Pinned(wanted) : /\ p.name = m /\ held[m] = p.pin
                                       /\ q.name = n /\ held[n] = q.pin
    BY <1>1
  <2>2. p.pin \in Hosts(existing)
    BY <2>1 DEF PinsGranted
  <2>3. PICK k \in DOMAIN existing : existing[k] = p.pin
    BY <2>2 DEF Hosts
  <2> QED BY <2>1, <2>3 DEF PinnedOver
<1>2. CASE \E p \in Pinned(wanted) : /\ p.name = m /\ held[m] = p.pin
                                    /\ n \in DOMAIN existing
                                    /\ held[n] = existing[n]
  BY <1>2 DEF PinnedOver
<1>3. CASE \E q \in Pinned(wanted) : /\ q.name = n /\ held[n] = q.pin
                                    /\ m \in DOMAIN existing
                                    /\ held[m] = existing[m]
  BY <1>3 DEF PinnedOver
<1>4. CASE /\ m \in DOMAIN existing /\ held[m] = existing[m]
           /\ n \in DOMAIN existing /\ held[n] = existing[n]
  BY <1>4
<1> QED BY <1>1, <1>2, <1>3, <1>4, HeldValues

\* What is handed out on top of ports that were held once per name.
LEMMA ServedOnce ==
  ASSUME NEW wanted, NEW existing, NEW held, NEW ports,
         OncePerName(held, wanted, existing),
         \A m, n \in DOMAIN ports : m # n /\ ports[m] = ports[n] =>
           /\ {m, n} \subseteq DOMAIN held
           /\ held[m] = ports[m] /\ held[n] = ports[n]
  PROVE  OncePerName(ports, wanted, existing)
BY DEF OncePerName

LEMMA LocalOrdered ==
  /\ IsFiniteSet(LocalWanted)
  /\ \A n \in LocalWanted : LocalOrder[n] \in Nat
  /\ \A m, n \in LocalWanted : LocalOrder[m] = LocalOrder[n] => m = n
<1>1. IsFiniteSet(LocalWanted)
  BY LocalWantedNames, PortNames, FS_Subset
<1>2. ASSUME NEW n \in LocalWanted
      PROVE  LocalOrder[n] \in Nat /\ LocalNames[LocalOrder[n]] = n
  <2>1. \E i \in 1..LocalPortCount : LocalNames[i] = n
    BY DEF LocalWanted
  <2> QED BY <2>1 DEF LocalOrder
<1> QED BY <1>1, <1>2

LEMMA RankOrdered ==
  ASSUME NEW wanted \in SUBSET PortSpec
  PROVE  /\ IsFiniteSet(Names(wanted))
         /\ \A n \in Names(wanted) : Rank[n] \in Nat
         /\ \A m, n \in Names(wanted) : Rank[m] = Rank[n] => m = n
<1>1. Names(wanted) \subseteq PortName
  BY WantedNames
<1> QED BY <1>1, PortNames, FS_Subset

\* service.go:308-319 and 400-438: whatever assignPorts answers, no number of
\* it is on the labels of another box, given that none was before.
THEOREM NobodyElsesNumber ==
  ASSUME NEW wanted \in SUBSET PortSpec, NEW existing, NEW others, NEW busy,
         Publishes(existing) \cap others = {},
         NEW ports \in Assignments(wanted, existing, others, busy)
  PROVE  Publishes(ports) \cap others = {}
<1>1. PICK held \in WithPool(wanted, Held(wanted, existing), others, busy) :
        ports \in WithLocals(held, others, busy)
  BY AssignmentSteps
<1>2. Publishes(Held(wanted, existing)) \cap others = {}
  BY AssignmentSteps, HeldAvoids
<1>3. Publishes(held) \cap others = {}
  BY <1>1, <1>2, FillInAvoids, PortRanges DEF WithPool
<1>4. LocalPortMin + LocalPortSearchSpan \in Nat /\ LocalPortMin \in Nat
  BY PortRanges
<1> QED BY <1>1, <1>3, <1>4, FillInAvoids DEF WithLocals

\* service.go:304-393: assignPorts gives no number to a second name, whatever the
\* labels say: two names of one number had it both before, or a pin asks for a
\* number that the container holds under another name.
THEOREM NoNumberTwice ==
  ASSUME NEW wanted \in SUBSET PortSpec, NEW existing, NEW others, NEW busy,
         NEW ports \in Assignments(wanted, existing, others, busy)
  PROVE  OncePerName(ports, wanted, existing)
<1>1. PICK held \in WithPool(wanted, Held(wanted, existing), others, busy) :
        ports \in WithLocals(held, others, busy)
  BY AssignmentSteps
<1>2. OncePerName(Held(wanted, existing), wanted, existing)
  BY AssignmentSteps, HeldDistinct
<1>3. \A m, n \in DOMAIN held : m # n /\ held[m] = held[n] =>
        /\ {m, n} \subseteq DOMAIN Held(wanted, existing)
        /\ Held(wanted, existing)[m] = held[m]
        /\ Held(wanted, existing)[n] = held[n]
  BY <1>1, RankOrdered, FillInDistinct, PortRanges DEF WithPool
<1>4. LocalPortMin + LocalPortSearchSpan \in Nat /\ LocalPortMin \in Nat
  BY PortRanges
<1>5. \A m, n \in DOMAIN ports : m # n /\ ports[m] = ports[n] =>
        /\ {m, n} \subseteq DOMAIN held
        /\ held[m] = ports[m] /\ held[n] = ports[n]
  BY <1>1, <1>4, LocalOrdered, FillInDistinct DEF WithLocals
<1>6. OncePerName(held, wanted, existing)
  BY <1>2, <1>3, ServedOnce
<1> QED BY <1>5, <1>6, ServedOnce

-----------------------------------------------------------------------------
(***************************************************************************)
(* What an assignment gives to which name.                                 *)
(***************************************************************************)
\* ports is held, with a number for every one of names that has none.
Extends(ports, held, names) ==
  /\ DOMAIN ports = DOMAIN held \cup names
  /\ \A n \in DOMAIN held : ports[n] = held[n]
  /\ \A n \in names : n \in DOMAIN held \/ ports[n] # 0

LEMMA FillInExtends ==
  ASSUME NEW names, NEW held, NEW order, NEW min \in Nat \ {0}, NEW max \in Nat,
         NEW others, NEW busy,
         NEW ports \in FillIn(names, held, order, min, max, others, busy)
  PROVE  Extends(ports, held, names)
<1> DEFINE fresh == names \ DOMAIN held
           free  == FreePortsIn(min, max, others \cup Hosts(held), busy)
<1>1. Room(fresh, free, order) /\ ports = Join(held, HandOut(fresh, free, order))
  BY FillInShape
<1>2. HandOut(fresh, free, order) \in [fresh -> free]
  BY <1>1, HandOutServes
<1>3. 0 \notin free
  BY DEF FreePortsIn
<1> HIDE DEF free
<1> QED BY <1>1, <1>2, <1>3 DEF Join, Extends

\* The pins and what the container has come first; every name asked for and
\* every port of the box's own gets a number.
LEMMA AssignmentExtends ==
  ASSUME NEW wanted, NEW existing, NEW others, NEW busy,
         NEW ports \in Assignments(wanted, existing, others, busy)
  PROVE  Extends(ports, Held(wanted, existing), Names(wanted) \cup LocalWanted)
<1>1. PICK pool \in WithPool(wanted, Held(wanted, existing), others, busy) :
        ports \in WithLocals(pool, others, busy)
  BY AssignmentSteps
<1>2. LocalPortMin + LocalPortSearchSpan \in Nat /\ LocalPortMin \in Nat \ {0}
  BY PortRanges
<1>3. Extends(ports, pool, LocalWanted)
  BY <1>1, <1>2, FillInExtends DEF WithLocals
<1>4. Extends(pool, Held(wanted, existing), Names(wanted))
  BY <1>1, FillInExtends, PortRanges DEF WithPool
<1> QED BY <1>3, <1>4 DEF Extends

LEMMA AssignmentNames ==
  ASSUME NEW wanted, NEW existing, NEW others, NEW busy,
         NEW ports \in Assignments(wanted, existing, others, busy)
  PROVE  DOMAIN ports = DOMAIN existing \cup Names(wanted) \cup LocalWanted
<1>1. DOMAIN Held(wanted, existing) = Names(Pinned(wanted)) \cup DOMAIN existing
  BY DEF Held
<1>2. Names(Pinned(wanted)) \subseteq Names(wanted)
  BY DEF Names, Pinned
<1>3. Extends(ports, Held(wanted, existing), Names(wanted) \cup LocalWanted)
  BY AssignmentExtends
<1> QED BY <1>1, <1>2, <1>3 DEF Extends

\* service.go:353-363: what the container has stays, unless there is a pin.
LEMMA AssignmentKeeps ==
  ASSUME NEW wanted, NEW existing, NEW others, NEW busy,
         NEW ports \in Assignments(wanted, existing, others, busy),
         NEW n \in DOMAIN existing, \A p \in Pinned(wanted) : p.name # n
  PROVE  n \in DOMAIN ports /\ ports[n] = existing[n]
<1>1. n \in DOMAIN Held(wanted, existing) /\ Held(wanted, existing)[n] = existing[n]
  BY DEF Held, Names
<1>2. Extends(ports, Held(wanted, existing), Names(wanted) \cup LocalWanted)
  BY AssignmentExtends
<1> QED BY <1>1, <1>2 DEF Extends

\* service.go:336-351: a pin is honoured.
LEMMA AssignmentPins ==
  ASSUME NEW wanted, NEW existing, NEW others, NEW busy,
         \A p, q \in wanted : p.name = q.name => p = q,
         NEW ports \in Assignments(wanted, existing, others, busy),
         NEW p \in Pinned(wanted)
  PROVE  p.name \in DOMAIN ports /\ ports[p.name] = p.pin
<1>1. p.name \in Names(Pinned(wanted)) /\ p \in wanted
  BY DEF Names, Pinned
<1>2. \A q \in Pinned(wanted) : q.name = p.name => q = p
  BY <1>1 DEF Pinned
<1>3. (CHOOSE q \in Pinned(wanted) : q.name = p.name) = p
  BY <1>2
<1>4. /\ p.name \in DOMAIN Held(wanted, existing)
      /\ Held(wanted, existing)[p.name] = p.pin
  BY <1>1, <1>3 DEF Held
<1>5. Extends(ports, Held(wanted, existing), Names(wanted) \cup LocalWanted)
  BY AssignmentExtends
<1> QED BY <1>4, <1>5 DEF Extends

LEMMA AssignmentNumbers ==
  ASSUME NEW wanted \in SUBSET PortSpec, NEW existing, NEW others, NEW busy,
         \A n \in DOMAIN existing : existing[n] # 0,
         NEW ports \in Assignments(wanted, existing, others, busy),
         NEW n \in DOMAIN ports
  PROVE  ports[n] # 0
<1>1. \A m \in DOMAIN Held(wanted, existing) : Held(wanted, existing)[m] # 0
  <2> TAKE m \in DOMAIN Held(wanted, existing)
  <2>1. \A p \in Pinned(wanted) : p.pin # 0
    BY DEF Pinned, PortSpec
  <2> QED BY <2>1, HeldValues
<1>2. Extends(ports, Held(wanted, existing), Names(wanted) \cup LocalWanted)
  BY AssignmentExtends
<1> QED BY <1>1, <1>2 DEF Extends

=============================================================================
