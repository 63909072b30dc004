------------------------- MODULE PortAllocatorProofs -------------------------
(***************************************************************************)
(* The four loops of assignPorts, for every template, every label map and  *)
(* every range: what they promise on the way, and that they arrive at the  *)
(* closed form the runtime service's model uses in their place.            *)
(***************************************************************************)
EXTENDS PortAllocator, PortAllocationProofs

pins   == Pinned(input.wanted)
mine   == Hosts(input.existing)
target == Held(input.wanted, input.existing)

-----------------------------------------------------------------------------
(***************************************************************************)
(* The invariant, one part per loop.                                       *)
(***************************************************************************)
InputOK ==
  input \in [wanted : PortLists, existing : LabelMaps,
             others : OthersChoices, busy : BusyChoices]

\* The pins looked at so far are granted, against the labels and against one
\* another.
PinsPart ==
  /\ todo \subseteq Names(pins)
  /\ DOMAIN assigned = Names(pins) \ todo
  /\ \A p \in pins : p.name \notin todo =>
       /\ assigned[p.name] = p.pin
       /\ CheckPinned(p.pin, input.others, mine, input.busy)
       /\ \A q \in pins : q.name \notin todo /\ p # q /\ p.pin = q.pin
                            => p.pin \in mine

Granted ==
  PinsGranted(input.wanted, input.existing, input.others, input.busy)

KeepPart ==
  /\ Granted
  /\ todo \subseteq DOMAIN input.existing \ Names(pins)
  /\ DOMAIN assigned = DOMAIN target \ todo
  /\ \A n \in DOMAIN assigned : assigned[n] = target[n]

\* A search loop has served the names that come first, with the numbers that
\* come first.
Serving(fresh, free, order, ports, rest) ==
  LET served == fresh \ rest
      given  == { ports[n] : n \in served }
  IN  /\ rest \subseteq fresh
      /\ \A n \in served : /\ ports[n] \in free
                           /\ Suits(ports[n], n, free, fresh, order)
                           /\ \A m \in rest : order[n] < order[m]
                           /\ \A p \in free \ given : ports[n] < p

Filling(names, held, order, min, max, others, busy, ports, rest) ==
  LET fresh == names \ DOMAIN held
      free  == FreePortsIn(min, max, others \cup Hosts(held), busy)
  IN  /\ DOMAIN ports = DOMAIN held \cup (fresh \ rest)
      /\ \A n \in DOMAIN held : ports[n] = held[n]
      /\ Serving(fresh, free, order, ports, rest)

PoolFilling(held) ==
  Filling(Names(input.wanted), held, Rank, PortMin, PortMax,
          input.others, input.busy, assigned, todo)

LocalFilling(held) ==
  Filling(LocalWanted, held, LocalOrder,
          LocalPortMin, LocalPortMin + LocalPortSearchSpan,
          input.others, input.busy, assigned, todo)

LocalsPart ==
  /\ Granted
  /\ \E held \in WithPool(input.wanted, target, input.others, input.busy) :
       IsPortMap(held) /\ LocalFilling(held)

LoopInv ==
  /\ InputOK
  /\ TypeOK
  /\ loop = "pins" => PinsPart
  /\ loop = "keep" => KeepPart
  /\ loop = "pool" => Granted /\ PoolFilling(target)
  /\ loop = "locals" => LocalsPart
  /\ MatchesReference

-----------------------------------------------------------------------------
(***************************************************************************)
(* One search loop: names in order, numbers in order.                      *)
(***************************************************************************)
Ordered(names, order) ==
  /\ IsFiniteSet(names)
  /\ \A n \in names : order[n] \in Nat
  /\ \A m, n \in names : order[m] = order[n] => m = n

LEMMA ServedApart ==
  ASSUME NEW fresh, NEW free, NEW order, NEW ports, NEW rest,
         Ordered(fresh, order), Serving(fresh, free, order, ports, rest),
         NEW m \in fresh \ rest, NEW n \in fresh \ rest, m # n
  PROVE  ports[m] # ports[n]
<1>1. Turn(m, fresh, order) # Turn(n, fresh, order)
  BY TurnsDiffer DEF Ordered
<1> QED BY <1>1 DEF Serving, Suits

LEMMA AsManyGivenAsServed ==
  ASSUME NEW fresh, NEW free, NEW order, NEW ports, NEW rest,
         Ordered(fresh, order), Serving(fresh, free, order, ports, rest)
  PROVE  Cardinality({ ports[n] : n \in fresh \ rest })
           = Cardinality(fresh \ rest)
<1> DEFINE served == fresh \ rest
           given  == { ports[n] : n \in served }
           f      == [n \in served |-> ports[n]]
<1>1. IsFiniteSet(served)
  BY FS_Subset DEF Ordered
<1>2. \A m, n \in served : ports[m] = ports[n] => m = n
  BY ServedApart
<1>3. f \in Bijection(served, given)
  <2> HIDE DEF served
  <2> QED BY <1>2 DEF Bijection, Injection, Surjection, IsInjective
<1> QED BY <1>1, <1>3, FS_Bijection DEF ExistsBijection

LEMMA PlacesDiffer ==
  ASSUME NEW free \in SUBSET Nat, IsFiniteSet(free),
         NEW p \in free, NEW q \in free, Place(p, free) = Place(q, free)
  PROVE  p = q
<1> DEFINE value == [r \in free |-> r]
<1>1. \A r \in free : Turn(r, free, value) = Place(r, free)
  BY DEF Turn, Place
<1>2. /\ \A r \in free : value[r] \in Nat
      /\ \A r, s \in free : value[r] = value[s] => r = s
  OBVIOUS
<1>3. Turn(p, free, value) = Turn(q, free, value)
  BY <1>1
<1> HIDE DEF value
<1>4. p # q => Turn(p, free, value) # Turn(q, free, value)
  BY <1>2, TurnsDiffer
<1> QED BY <1>3, <1>4

\* The next name gets the next number.
LEMMA ServeNext ==
  ASSUME NEW fresh, NEW free \in SUBSET Nat, NEW order, NEW ports, NEW rest,
         Ordered(fresh, order), Serving(fresh, free, order, ports, rest),
         NEW name \in rest, \A m \in rest : order[name] <= order[m],
         NEW host \in free, \A n \in fresh \ rest : ports[n] # host,
         \A q \in free \ { ports[n] : n \in fresh \ rest } : host <= q,
         NEW new, new[name] = host, \A n \in fresh \ rest : new[n] = ports[n]
  PROVE  Serving(fresh, free, order, new, rest \ {name})
<1> DEFINE served == fresh \ rest
           given  == { ports[n] : n \in served }
<1>1. name \in fresh /\ rest \subseteq fresh
  BY DEF Serving
<1>2. { m \in fresh : order[m] < order[name] } = served
  <2>1. \A m \in served : order[m] < order[name]
    BY DEF Serving
  <2>2. \A m \in rest : ~ (order[m] < order[name])
    BY <1>1 DEF Ordered
  <2> QED BY <2>1, <2>2
<1>3. { q \in free : q < host } = given
  <2>1. \A q \in free \ given : ~ (q < host)
    OBVIOUS
  <2>2. host \in free \ given
    OBVIOUS
  <2>3. \A n \in served : ports[n] \in free /\ ports[n] < host
    BY <2>2 DEF Serving
  <2> QED BY <2>1, <2>3
<1>4. Suits(host, name, free, fresh, order)
  BY <1>2, <1>3, AsManyGivenAsServed DEF Suits, Place, Turn
<1> DEFINE served2 == fresh \ (rest \ {name})
           given2  == { new[n] : n \in served2 }
<1>5. served2 = served \cup {name}
  BY <1>1
<1>6. given2 = given \cup {host}
  BY <1>5
<1>7. ASSUME NEW n \in served2
      PROVE  /\ new[n] \in free
             /\ Suits(new[n], n, free, fresh, order)
             /\ \A m \in rest \ {name} : order[n] < order[m]
             /\ \A p \in free \ given2 : new[n] < p
  <2>1. CASE n = name
    <3>1. \A m \in rest \ {name} : order[name] < order[m]
      BY <1>1 DEF Ordered
    <3>2. \A p \in free \ given2 : host < p
      BY <1>6
    <3> QED BY <2>1, <1>4, <3>1, <3>2
  <2>2. CASE n \in served
    <3>1. /\ ports[n] \in free
          /\ Suits(ports[n], n, free, fresh, order)
          /\ \A m \in rest : order[n] < order[m]
          /\ \A p \in free \ given : ports[n] < p
      BY <2>2 DEF Serving
    <3> QED BY <2>2, <3>1, <1>6
  <2> QED BY <1>5, <2>1, <2>2
<1> QED BY <1>1, <1>7 DEF Serving

\* With no number left for a name the closed form has none either.
LEMMA NoNumberLeft ==
  ASSUME NEW fresh, NEW free, NEW order, NEW ports, NEW rest,
         Ordered(fresh, order), Serving(fresh, free, order, ports, rest),
         NEW name \in rest, free \subseteq { ports[n] : n \in fresh \ rest }
  PROVE  ~ Room(fresh, free, order)
<1> SUFFICES ASSUME Room(fresh, free, order)
             PROVE  FALSE
  OBVIOUS
<1>1. name \in fresh
  BY DEF Serving
<1>2. PICK p \in free : Suits(p, name, free, fresh, order)
  BY <1>1 DEF Room
<1>3. PICK n \in fresh \ rest : p = ports[n]
  BY <1>2
<1>4. Turn(name, fresh, order) = Turn(n, fresh, order)
  BY <1>2, <1>3 DEF Serving, Suits
<1> QED BY <1>1, <1>3, <1>4, TurnsDiffer DEF Ordered

\* With every name served the numbers are those of the closed form.
LEMMA AllServed ==
  ASSUME NEW fresh, NEW free \in SUBSET Nat, IsFiniteSet(free), NEW order,
         NEW ports, Serving(fresh, free, order, ports, {})
  PROVE  /\ Room(fresh, free, order)
         /\ \A n \in fresh : HandOut(fresh, free, order)[n] = ports[n]
<1>1. \A n \in fresh : ports[n] \in free /\ Suits(ports[n], n, free, fresh, order)
  BY DEF Serving
<1>2. Room(fresh, free, order)
  BY <1>1 DEF Room
<1>3. ASSUME NEW n \in fresh
      PROVE  HandOut(fresh, free, order)[n] = ports[n]
  <2>1. /\ HandOut(fresh, free, order)[n] \in free
        /\ Suits(HandOut(fresh, free, order)[n], n, free, fresh, order)
    BY <1>2, HandOutServes
  <2> QED BY <1>1, <2>1, PlacesDiffer DEF Suits
<1> QED BY <1>2, <1>3

\* The code's loop over the sorted list takes the first name that has no number.
LEMMA FirstOfIsFirst ==
  ASSUME NEW names, names # {}, NEW order, \A n \in names : order[n] \in Nat
  PROVE  /\ FirstOf(names, order) \in names
         /\ \A m \in names : order[FirstOf(names, order)] <= order[m]
<1> DEFINE ranks == { order[n] : n \in names }
<1>1. PICK r \in ranks : \A s \in ranks : r <= s
  <2>1. ranks \in SUBSET Nat /\ ranks # {}
    OBVIOUS
  <2> HIDE DEF ranks
  <2> QED BY <2>1, LeastNumber
<1>2. \E n \in names : \A m \in names : order[n] <= order[m]
  BY <1>1
<1> QED BY <1>2 DEF FirstOf

\* freePortIn finds a number whenever there is one.
LEMMA FirstFreeFinds ==
  ASSUME NEW min \in Nat, NEW max \in Nat,
         FreePortsIn(min, max, taken, input.busy) # {}
  PROVE  FirstFree(min, max) # {}
<1> DEFINE free == FreePortsIn(min, max, taken, input.busy)
<1>1. free \in SUBSET Nat /\ free # {}
  BY DEF FreePortsIn
<1>2. PICK p \in free : \A q \in free : p <= q
  <2> HIDE DEF free
  <2> QED BY <1>1, LeastNumber
<1> QED BY <1>2 DEF FirstFree

LEMMA FreePortsFinite ==
  ASSUME NEW min \in Nat, NEW max \in Nat, NEW spoken, NEW busy
  PROVE  /\ FreePortsIn(min, max, spoken, busy) \in SUBSET Nat
         /\ IsFiniteSet(FreePortsIn(min, max, spoken, busy))
<1>1. IsFiniteSet(min..max)
  BY FS_Interval
<1>2. FreePortsIn(min, max, spoken, busy) \in SUBSET (min..max)
  BY DEF FreePortsIn
<1> QED BY <1>1, <1>2, FS_Subset

LEMMA FreshOrdered ==
  ASSUME NEW names, NEW order, Ordered(names, order), NEW held
  PROVE  Ordered(names \ DOMAIN held, order)
BY FS_Subset DEF Ordered

\* What is free while the loop runs: the range without what it has given away.
LEMMA StillFree ==
  ASSUME NEW names, NEW held, NEW order, NEW min, NEW max, NEW others, NEW busy,
         NEW ports, NEW rest,
         Filling(names, held, order, min, max, others, busy, ports, rest)
  PROVE  FreePortsIn(min, max, others \cup Hosts(ports), busy)
           = FreePortsIn(min, max, others \cup Hosts(held), busy)
               \ { ports[n] : n \in (names \ DOMAIN held) \ rest }
<1> DEFINE served == (names \ DOMAIN held) \ rest
<1>1. Hosts(ports) = Hosts(held) \cup { ports[n] : n \in served }
  <2>1. DOMAIN ports = DOMAIN held \cup served
    BY DEF Filling
  <2>2. \A n \in DOMAIN held : ports[n] = held[n]
    BY DEF Filling
  <2> HIDE DEF served
  <2> QED BY <2>1, <2>2 DEF Hosts
<1> QED BY <1>1 DEF FreePortsIn

LEMMA FillingBegins ==
  ASSUME NEW names, NEW held, NEW order, NEW min, NEW max, NEW others, NEW busy
  PROVE  Filling(names, held, order, min, max, others, busy,
                 held, names \ DOMAIN held)
BY DEF Filling, Serving

LEMMA FillingGoesOn ==
  ASSUME NEW names, NEW held, NEW order, Ordered(names, order),
         NEW min \in Nat, NEW max \in Nat, NEW others, NEW busy,
         NEW ports, NEW rest,
         Filling(names, held, order, min, max, others, busy, ports, rest),
         NEW name \in rest, \A m \in rest : order[name] <= order[m],
         NEW host \in FreePortsIn(min, max, others \cup Hosts(ports), busy),
         \A q \in FreePortsIn(min, max, others \cup Hosts(ports), busy) :
           host <= q,
         NEW new, new = Join([n \in {name} |-> host], ports)
  PROVE  Filling(names, held, order, min, max, others, busy,
                 new, rest \ {name})
<1> DEFINE fresh  == names \ DOMAIN held
           free   == FreePortsIn(min, max, others \cup Hosts(held), busy)
           served == fresh \ rest
<1>1. FreePortsIn(min, max, others \cup Hosts(ports), busy)
        = free \ { ports[n] : n \in served }
  BY StillFree
<1>2. Ordered(fresh, order) /\ free \in SUBSET Nat
  BY FreshOrdered, FreePortsFinite
<1>3. /\ DOMAIN ports = DOMAIN held \cup served
      /\ \A n \in DOMAIN held : ports[n] = held[n]
      /\ Serving(fresh, free, order, ports, rest)
  BY DEF Filling
<1>4. name \in fresh /\ rest \subseteq fresh
  BY <1>3 DEF Serving
<1>5. /\ DOMAIN new = DOMAIN ports \cup {name}
      /\ new[name] = host
      /\ \A n \in DOMAIN ports : n # name => new[n] = ports[n]
  BY DEF Join
<1>6. Serving(fresh, free, order, new, rest \ {name})
  <2>1. host \in free /\ \A n \in served : ports[n] # host
    BY <1>1
  <2>2. \A n \in served : new[n] = ports[n]
    BY <1>3, <1>5
  <2>3. \A q \in free \ { ports[n] : n \in served } : host <= q
    BY <1>1
  <2>4. new[name] = host
    BY <1>5
  <2> HIDE DEF free, fresh
  <2> QED BY <1>2, <1>3, <2>1, <2>2, <2>3, <2>4, ServeNext
<1>7. DOMAIN new = DOMAIN held \cup (fresh \ (rest \ {name}))
  BY <1>3, <1>4, <1>5
<1>8. \A n \in DOMAIN held : new[n] = held[n]
  BY <1>3, <1>4, <1>5
<1> QED BY <1>6, <1>7, <1>8 DEF Filling

LEMMA FillingStuck ==
  ASSUME NEW names, NEW held, NEW order, Ordered(names, order),
         NEW min \in Nat, NEW max \in Nat, NEW others, NEW busy,
         NEW ports, NEW rest,
         Filling(names, held, order, min, max, others, busy, ports, rest),
         rest # {}, FreePortsIn(min, max, others \cup Hosts(ports), busy) = {}
  PROVE  FillIn(names, held, order, min, max, others, busy) = {}
<1> DEFINE fresh == names \ DOMAIN held
           free  == FreePortsIn(min, max, others \cup Hosts(held), busy)
<1>1. free \ { ports[n] : n \in fresh \ rest } = {}
  BY StillFree
<1>2. Ordered(fresh, order) /\ Serving(fresh, free, order, ports, rest)
  BY FreshOrdered DEF Filling
<1>3. ~ Room(fresh, free, order)
  BY <1>1, <1>2, NoNumberLeft
<1> QED BY <1>3 DEF FillIn

LEMMA FillingEnds ==
  ASSUME NEW names, NEW held, NEW order, NEW min \in Nat, NEW max \in Nat,
         NEW others, NEW busy, NEW ports, ports = [n \in DOMAIN ports |-> ports[n]],
         Filling(names, held, order, min, max, others, busy, ports, {})
  PROVE  FillIn(names, held, order, min, max, others, busy) = {ports}
<1> DEFINE fresh == names \ DOMAIN held
           free  == FreePortsIn(min, max, others \cup Hosts(held), busy)
           out   == HandOut(fresh, free, order)
<1>1. /\ DOMAIN ports = DOMAIN held \cup fresh
      /\ \A n \in DOMAIN held : ports[n] = held[n]
      /\ Serving(fresh, free, order, ports, {})
  BY DEF Filling
<1>2. Room(fresh, free, order) /\ \A n \in fresh : out[n] = ports[n]
  <2>1. free \in SUBSET Nat /\ IsFiniteSet(free)
    BY FreePortsFinite
  <2> HIDE DEF fresh, free
  <2> QED BY <1>1, <2>1, AllServed
<1>3. DOMAIN out = fresh
  BY DEF HandOut
<1>4. Join(held, out) = [n \in DOMAIN ports |-> ports[n]]
  <2> HIDE DEF out, fresh
  <2> QED BY <1>1, <1>2, <1>3 DEF Join
<1> QED BY <1>2, <1>4 DEF FillIn

-----------------------------------------------------------------------------
(***************************************************************************)
(* The steps of the four loops.                                            *)
(***************************************************************************)
LEMMA InputFacts ==
  ASSUME InputOK
  PROVE  /\ input.wanted \in SUBSET PortSpec
         /\ \A p, q \in input.wanted : p.name = q.name => p = q
         /\ IsPortMap(input.existing)
         /\ IsPortMap(target)
         /\ Names(pins) \subseteq Names(input.wanted)
         /\ Names(input.wanted) \subseteq PortName
         /\ \A p \in pins : p \in input.wanted /\ p.pin \in Nat
<1>1. input.wanted \in PortLists /\ input.existing \in LabelMaps
  BY DEF InputOK
<1>2. /\ input.wanted \in SUBSET PortSpec
      /\ \A p, q \in input.wanted : p.name = q.name => p = q
      /\ IsPortMap(input.existing)
  BY <1>1, AllocatorInputs
<1>3. /\ IsPortMap(target)
      /\ Names(input.wanted) \subseteq PortName
  BY <1>2, HeldIsPortMap, WantedNames DEF target
<1>4. Names(pins) \subseteq Names(input.wanted)
  BY DEF Names, pins, Pinned
<1>5. \A p \in pins : p \in input.wanted /\ p.pin \in Nat
  BY <1>2 DEF pins, Pinned, PortSpec
<1> QED BY <1>2, <1>3, <1>4, <1>5

LEMMA TwoOrders ==
  ASSUME InputOK
  PROVE  /\ Ordered(Names(input.wanted), Rank)
         /\ Ordered(LocalWanted, LocalOrder)
BY InputFacts, RankOrdered, LocalOrdered DEF Ordered

\* Held, name by name: the pin of that name, else the number the box has.
LEMMA TargetValues ==
  ASSUME InputOK
  PROVE  /\ DOMAIN target = Names(pins) \cup DOMAIN input.existing
         /\ \A p \in pins : target[p.name] = p.pin
         /\ \A n \in DOMAIN input.existing \ Names(pins) :
              target[n] = input.existing[n]
<1>1. ASSUME NEW p \in pins
      PROVE  target[p.name] = p.pin
  <2>1. \A q \in pins : q.name = p.name => q = p
    BY InputFacts
  <2>2. (CHOOSE q \in pins : q.name = p.name) = p
    BY <2>1
  <2>3. p.name \in Names(pins)
    BY DEF Names
  <2> QED BY <2>2, <2>3 DEF target, Held, pins
<1> QED BY <1>1 DEF target, Held, pins

LEMMA AssignedNow ==
  ASSUME NEW name, NEW host, name \notin DOMAIN assigned, Assign(name, host)
  PROVE  /\ DOMAIN assigned' = DOMAIN assigned \cup {name}
         /\ assigned'[name] = host
         /\ \A n \in DOMAIN assigned : assigned'[n] = assigned[n]
         /\ Hosts(assigned') = Hosts(assigned) \cup {host}
         /\ taken' = taken \cup {host}
<1>1. /\ DOMAIN assigned' = DOMAIN assigned \cup {name}
      /\ assigned'[name] = host
      /\ \A n \in DOMAIN assigned : assigned'[n] = assigned[n]
  BY DEF Assign, Join
<1> QED BY <1>1 DEF Hosts, Assign

\* assigned and taken stay in step.
LEMMA AssignKeepsTypes ==
  ASSUME TypeOK, NEW name \in PortName, NEW host \in Nat,
         name \notin DOMAIN assigned, Assign(name, host), UNCHANGED input,
         loop' \in {"pins", "keep", "pool", "locals", "done", "failed"},
         todo' \subseteq PortName
  PROVE  TypeOK'
<1>1. IsPortMap([n \in {name} |-> host])
  BY DEF IsPortMap
<1>2. IsPortMap(assigned)'
  BY <1>1, JoinIsPortMap DEF TypeOK, Assign
<1>3. taken' = input'.others \cup Hosts(assigned')
  BY AssignedNow DEF TypeOK
<1> QED BY <1>2, <1>3 DEF TypeOK

LEMMA SameTypes ==
  ASSUME TypeOK, UNCHANGED <<input, assigned, taken>>,
         loop' \in {"pins", "keep", "pool", "locals", "done", "failed"},
         todo' \subseteq PortName
  PROVE  TypeOK'
BY DEF TypeOK

\* The pins: each one granted is granted against labels, machine and the pins
\* before it; one that is not is refused by the closed form too.
LEMMA PinKeeps ==
  ASSUME LoopInv, PinStep
  PROVE  LoopInv'
<1>1. /\ InputOK /\ TypeOK /\ PinsPart /\ loop = "pins" /\ UNCHANGED input
  BY DEF LoopInv, PinStep
<1>2. InputOK'
  BY <1>1 DEF InputOK, mine
<1> DEFINE name == FirstOf(todo, Rank)
           host == (CHOOSE p \in input.wanted : p.name = name).pin
<1>3. ASSUME todo # {}
      PROVE  /\ name \in todo
             /\ \E p \in pins : p.name = name /\ p.pin = host
  <2>1. \A n \in todo : Rank[n] \in Nat
    BY <1>1, PortNames DEF TypeOK
  <2>2. name \in todo
    BY <1>3, <2>1, FirstOfIsFirst
  <2>3. PICK p \in pins : p.name = name
    BY <1>1, <2>2 DEF PinsPart, Names
  <2>4. (CHOOSE q \in input.wanted : q.name = name) = p
    BY <1>1, <2>3, InputFacts
  <2> QED BY <2>2, <2>3, <2>4
<1>4. CASE /\ todo # {} /\ Available(host) /\ Assign(name, host)
           /\ Enter("pins", todo \ {name})
  <2>1. PICK p \in pins : p.name = name /\ p.pin = host
    BY <1>3, <1>4
  <2>2. name \in todo /\ name \in PortName /\ host \in Nat
        /\ name \notin DOMAIN assigned
    BY <1>1, <1>3, <1>4, <2>1, InputFacts DEF PinsPart, TypeOK
  <2>3. loop' = "pins" /\ todo' = todo \ {name}
    BY <1>4 DEF Enter
  <2>4. TypeOK'
    BY <1>1, <1>4, <2>2, <2>3, AssignKeepsTypes DEF TypeOK
  <2>5. /\ DOMAIN assigned' = DOMAIN assigned \cup {name}
        /\ assigned'[name] = host
        /\ \A n \in DOMAIN assigned : assigned'[n] = assigned[n]
    BY <1>4, <2>2, AssignedNow
  <2>6. CheckPinned(host, taken, mine, input.busy)
    BY <1>4 DEF Available, mine
  <2>7. taken = input.others \cup Hosts(assigned)
    BY <1>1 DEF TypeOK
  <2>8. ASSUME NEW q \in pins, q.name \notin todo
        PROVE  /\ assigned[q.name] = q.pin
               /\ q.name \in DOMAIN assigned
               /\ CheckPinned(q.pin, input.others, mine, input.busy)
               /\ q.pin \in Hosts(assigned)
    BY <1>1, <2>8 DEF PinsPart, Names, Hosts
  <2>9. \A q \in pins : q.name = name => q = p
    BY <1>1, <2>1, InputFacts
  <2>10. ASSUME NEW q \in pins, q.name \notin todo'
         PROVE  /\ assigned'[q.name] = q.pin
                /\ CheckPinned(q.pin, input.others, mine, input.busy)
                /\ \A r \in pins : r.name \notin todo' /\ q # r /\ q.pin = r.pin
                                     => q.pin \in mine
    <3>1. CASE q = p
      <4>1. CheckPinned(q.pin, input.others, mine, input.busy)
        BY <2>1, <2>6, <2>7, <3>1 DEF CheckPinned
      <4>2. ASSUME NEW r \in pins, r.name \notin todo', q # r, q.pin = r.pin
            PROVE  q.pin \in mine
        <5>1. r.name \notin todo
          BY <2>3, <2>9, <3>1, <4>2
        <5>2. host \in Hosts(assigned)
          BY <2>1, <2>8, <3>1, <4>2, <5>1
        <5> QED BY <2>1, <2>6, <2>7, <3>1, <5>2 DEF CheckPinned
      <4> QED BY <2>1, <2>5, <3>1, <4>1, <4>2
    <3>2. CASE q # p
      <4>1. q.name # name /\ q.name \notin todo
        BY <2>3, <2>9, <2>10, <3>2
      <4>2. ASSUME NEW r \in pins, r.name \notin todo', q # r, q.pin = r.pin
            PROVE  q.pin \in mine
        <5>1. CASE r = p
          <6>1. host \in Hosts(assigned)
            BY <2>1, <2>8, <4>1, <4>2, <5>1
          <6> QED BY <2>1, <2>6, <2>7, <4>2, <5>1, <6>1 DEF CheckPinned
        <5>2. CASE r # p
          <6>1. r.name \notin todo
            BY <2>3, <2>9, <4>2, <5>2
          <6> QED BY <1>1, <4>1, <4>2, <6>1 DEF PinsPart
        <5> QED BY <5>1, <5>2
      <4> QED BY <2>5, <2>8, <4>1, <4>2
    <3> QED BY <3>1, <3>2
  <2>11. PinsPart'
    <3>1. pins' = pins /\ mine' = mine
      BY <1>1 DEF pins, mine
    <3>2. todo' \subseteq Names(pins) /\ DOMAIN assigned' = Names(pins) \ todo'
      BY <1>1, <2>2, <2>3, <2>5 DEF PinsPart
    <3> HIDE DEF name, host
    <3> QED BY <1>1, <2>10, <3>1, <3>2 DEF PinsPart
  <2> QED BY <1>2, <2>3, <2>4, <2>11 DEF LoopInv, MatchesReference
<1>5. CASE todo # {} /\ ~ Available(host) /\ Fail
  <2>1. PICK p \in pins : p.name = name /\ p.pin = host
    BY <1>3, <1>5
  <2>2. ~ CheckPinned(p.pin, taken, mine, input.busy)
    BY <1>5, <2>1 DEF Available, mine
  <2>3. ~ Granted
    <3>1. CASE p.pin \in Hosts(assigned)
      <4>1. PICK n \in DOMAIN assigned : assigned[n] = p.pin
        BY <3>1 DEF Hosts
      <4>2. PICK q \in pins : q.name = n /\ n \notin todo
        BY <1>1, <4>1 DEF PinsPart, Names
      <4>3. q # p /\ q.pin = p.pin
        BY <1>1, <1>3, <1>5, <2>1, <4>1, <4>2 DEF PinsPart
      <4>4. p.pin \notin mine
        BY <2>2 DEF CheckPinned
      <4> QED BY <4>2, <4>3, <4>4 DEF Granted, PinsGranted, pins, mine
    <3>2. CASE p.pin \notin Hosts(assigned)
      <4>1. ~ CheckPinned(p.pin, input.others, mine, input.busy)
        BY <1>1, <2>2, <3>2 DEF CheckPinned, TypeOK
      <4> QED BY <4>1 DEF Granted, PinsGranted, pins, mine
    <3> QED BY <3>1, <3>2
  <2>4. loop' = "failed" /\ UNCHANGED <<todo, assigned, taken>>
    BY <1>5 DEF Fail
  <2>5. TypeOK'
    BY <1>1, <2>4, SameTypes DEF TypeOK
  <2>6. Reference = {}
    BY <2>3 DEF Reference, Assignments, Granted
  <2>7. Reference' = Reference /\ Answer' = {}
    BY <1>1, <2>4 DEF Reference, Answer
  <2> QED BY <1>2, <2>4, <2>5, <2>6, <2>7 DEF LoopInv, MatchesReference
<1>6. CASE /\ todo = {}
           /\ Enter("keep", DOMAIN input.existing \ DOMAIN assigned)
           /\ UNCHANGED <<assigned, taken>>
  <2>1. loop' = "keep" /\ todo' = DOMAIN input.existing \ DOMAIN assigned
    BY <1>6 DEF Enter
  <2>2. TypeOK'
    BY <1>1, <1>6, <2>1, InputFacts, SameTypes DEF IsPortMap
  <2>3. Granted
    BY <1>1, <1>6 DEF PinsPart, Granted, PinsGranted, pins, mine
  <2>4. DOMAIN assigned = Names(pins)
    BY <1>1, <1>6 DEF PinsPart
  <2>5. \A n \in DOMAIN assigned : assigned[n] = target[n]
    <3>1. \A p \in pins : assigned[p.name] = p.pin
      BY <1>1, <1>6 DEF PinsPart
    <3> QED BY <1>1, <2>4, <3>1, TargetValues DEF Names
  <2>6. KeepPart'
    <3>1. pins' = pins /\ target' = target /\ Granted' = Granted
      BY <1>1 DEF pins, target, Granted
    <3>2. DOMAIN assigned = DOMAIN target \ todo'
      BY <1>1, <2>1, <2>4, TargetValues
    <3> QED BY <1>1, <1>6, <2>1, <2>3, <2>4, <2>5, <3>1, <3>2 DEF KeepPart
  <2> QED BY <1>2, <2>1, <2>2, <2>6 DEF LoopInv, MatchesReference
<1> QED BY <1>4, <1>5, <1>6 DEF PinStep

\* The numbers the container holds, in whatever order the map is walked.
LEMMA KeepKeeps ==
  ASSUME LoopInv, KeepStep
  PROVE  LoopInv'
<1>1. /\ InputOK /\ TypeOK /\ KeepPart /\ loop = "keep" /\ UNCHANGED input
  BY DEF LoopInv, KeepStep
<1>2. /\ InputOK' /\ pins' = pins /\ target' = target /\ Granted' = Granted
  BY <1>1 DEF InputOK, mine, pins, target, Granted
<1>3. CASE \E name \in todo : /\ Assign(name, input.existing[name])
                              /\ Enter("keep", todo \ {name})
  <2>1. PICK name \in todo : /\ Assign(name, input.existing[name])
                             /\ Enter("keep", todo \ {name})
    BY <1>3
  <2>2. loop' = "keep" /\ todo' = todo \ {name}
    BY <2>1 DEF Enter
  <2>3. /\ name \in DOMAIN input.existing \ Names(pins)
        /\ name \notin DOMAIN assigned
    BY <1>1 DEF KeepPart
  <2>4. name \in PortName /\ input.existing[name] \in Nat
    BY <1>1, <2>3, InputFacts DEF IsPortMap
  <2>5. TypeOK'
    BY <1>1, <2>1, <2>2, <2>3, <2>4, AssignKeepsTypes DEF TypeOK
  <2>6. /\ DOMAIN assigned' = DOMAIN assigned \cup {name}
        /\ assigned'[name] = input.existing[name]
        /\ \A n \in DOMAIN assigned : assigned'[n] = assigned[n]
    BY <2>1, <2>3, AssignedNow
  <2>7. target[name] = input.existing[name] /\ name \in DOMAIN target
    BY <1>1, <2>3, TargetValues
  <2>8. KeepPart'
    <3>1. todo' \subseteq DOMAIN input.existing \ Names(pins)
      BY <1>1, <2>2 DEF KeepPart
    <3>2. DOMAIN assigned' = DOMAIN target \ todo'
      BY <1>1, <2>2, <2>6, <2>7 DEF KeepPart
    <3>3. \A n \in DOMAIN assigned' : assigned'[n] = target[n]
      BY <1>1, <2>6, <2>7 DEF KeepPart
    <3> QED BY <1>1, <1>2, <3>1, <3>2, <3>3 DEF KeepPart
  <2> QED BY <1>2, <2>2, <2>5, <2>8 DEF LoopInv, MatchesReference
<1>4. CASE /\ todo = {}
           /\ Enter("pool", Names(input.wanted) \ DOMAIN assigned)
           /\ UNCHANGED <<assigned, taken>>
  <2>1. loop' = "pool" /\ todo' = Names(input.wanted) \ DOMAIN assigned
    BY <1>4 DEF Enter
  <2>2. TypeOK'
    BY <1>1, <1>4, <2>1, InputFacts, SameTypes
  <2>3. assigned = target
    <3>1. DOMAIN assigned = DOMAIN target
      BY <1>1, <1>4 DEF KeepPart
    <3>2. \A n \in DOMAIN target : assigned[n] = target[n]
      BY <1>1, <3>1 DEF KeepPart
    <3>3. assigned \in [DOMAIN assigned -> Nat] /\ target \in [DOMAIN target -> Nat]
      BY <1>1, InputFacts DEF TypeOK, IsPortMap
    <3> QED BY <3>1, <3>2, <3>3
  <2>4. PoolFilling(target)'
    <3>1. PoolFilling(target)'
            = Filling(Names(input.wanted), target, Rank, PortMin, PortMax,
                      input.others, input.busy, target,
                      Names(input.wanted) \ DOMAIN target)
      BY <1>1, <1>2, <1>4, <2>1, <2>3 DEF PoolFilling
    <3> QED BY <3>1, FillingBegins
  <2>5. Granted'
    BY <1>1, <1>2 DEF KeepPart
  <2> QED BY <1>2, <2>1, <2>2, <2>4, <2>5 DEF LoopInv, MatchesReference
<1> QED BY <1>3, <1>4 DEF KeepStep

\* Either search loop: the step that serves a name, or finds nothing for it.
LEMMA SearchStep ==
  ASSUME TypeOK, NEW names \in SUBSET PortName, NEW held, NEW order,
         Ordered(names, order), NEW min \in Nat, NEW max \in Nat,
         Filling(names, held, order, min, max, input.others, input.busy,
                 assigned, todo),
         todo # {}, Search(order, min, max), UNCHANGED input,
         loop \in {"pool", "locals"}
  PROVE  /\ TypeOK'
         /\ \/ /\ loop' = loop
               /\ Filling(names, held, order, min, max, input.others, input.busy,
                          assigned', todo')
            \/ /\ loop' = "failed"
               /\ FillIn(names, held, order, min, max,
                         input.others, input.busy) = {}
<1> DEFINE name == FirstOf(todo, order)
           free == FreePortsIn(min, max, taken, input.busy)
<1>1. taken = input.others \cup Hosts(assigned)
  BY DEF TypeOK
<1>2. todo \subseteq names \ DOMAIN held /\ todo \cap DOMAIN assigned = {}
  BY DEF Filling, Serving
<1>3. name \in todo /\ \A m \in todo : order[name] <= order[m]
  <2>1. \A n \in todo : order[n] \in Nat
    BY <1>2 DEF Ordered
  <2> QED BY <2>1, FirstOfIsFirst
<1>4. CASE \E host \in FirstFree(min, max) :
             Assign(name, host) /\ Enter(loop, todo \ {name})
  <2>1. PICK host \in FirstFree(min, max) :
          Assign(name, host) /\ Enter(loop, todo \ {name})
    BY <1>4
  <2>2. host \in free /\ \A q \in free : host <= q
    BY DEF FirstFree
  <2>3. host \in Nat
    BY <2>2 DEF FreePortsIn
  <2>4. loop' = loop /\ todo' = todo \ {name}
    BY <2>1 DEF Enter
  <2>5. TypeOK'
    <3>1. name \in PortName /\ name \notin DOMAIN assigned
      BY <1>2, <1>3
    <3> HIDE DEF name
    <3> QED BY <2>1, <2>3, <2>4, <3>1, AssignKeepsTypes DEF TypeOK
  <2>6. assigned' = Join([n \in {name} |-> host], assigned)
    BY <2>1 DEF Assign
  <2>7. Filling(names, held, order, min, max, input.others, input.busy,
                assigned', todo')
    <3>1. /\ host \in FreePortsIn(min, max, input.others \cup Hosts(assigned),
                                  input.busy)
          /\ \A q \in FreePortsIn(min, max, input.others \cup Hosts(assigned),
                                  input.busy) : host <= q
      BY <1>1, <2>2
    <3> HIDE DEF name, free
    <3>2. Filling(names, held, order, min, max, input.others, input.busy,
                  assigned', todo \ {name})
      BY <1>3, <2>6, <3>1, FillingGoesOn
    <3> QED BY <2>4, <3>2
  <2> QED BY <2>4, <2>5, <2>7
<1>5. CASE FirstFree(min, max) = {} /\ Fail
  <2>1. free = {}
    BY <1>5, FirstFreeFinds
  <2>2. FillIn(names, held, order, min, max, input.others, input.busy) = {}
    BY <1>1, <2>1, FillingStuck
  <2>3. loop' = "failed" /\ UNCHANGED <<todo, assigned, taken>>
    BY <1>5 DEF Fail
  <2>4. TypeOK'
    BY <2>3, SameTypes DEF TypeOK
  <2> QED BY <2>2, <2>3, <2>4
<1> QED BY <1>4, <1>5 DEF Search

LEMMA PoolKeeps ==
  ASSUME LoopInv, PoolStep
  PROVE  LoopInv'
<1>1. /\ InputOK /\ TypeOK /\ Granted /\ PoolFilling(target) /\ loop = "pool"
      /\ UNCHANGED input
  BY DEF LoopInv, PoolStep
<1>2. /\ InputOK' /\ target' = target /\ Granted' = Granted
      /\ Reference' = Reference
  BY <1>1 DEF InputOK, mine, target, Granted, Reference
<1>3. /\ Names(input.wanted) \in SUBSET PortName
      /\ Ordered(Names(input.wanted), Rank)
      /\ PortMin \in Nat /\ PortMax \in Nat
  BY <1>1, InputFacts, TwoOrders, PortRanges
<1>4. CASE todo # {} /\ Search(Rank, PortMin, PortMax)
  <2>1. /\ TypeOK'
        /\ \/ /\ loop' = loop
              /\ Filling(Names(input.wanted), target, Rank, PortMin, PortMax,
                         input.others, input.busy, assigned', todo')
           \/ /\ loop' = "failed"
              /\ FillIn(Names(input.wanted), target, Rank, PortMin, PortMax,
                        input.others, input.busy) = {}
    BY <1>1, <1>3, <1>4, SearchStep DEF PoolFilling
  <2>2. CASE /\ loop' = loop
             /\ Filling(Names(input.wanted), target, Rank, PortMin, PortMax,
                        input.others, input.busy, assigned', todo')
    <3>1. PoolFilling(target)'
      BY <1>1, <1>2, <2>2 DEF PoolFilling
    <3> QED BY <1>1, <1>2, <2>1, <2>2, <3>1 DEF LoopInv, MatchesReference
  <2>3. CASE /\ loop' = "failed"
             /\ FillIn(Names(input.wanted), target, Rank, PortMin, PortMax,
                       input.others, input.busy) = {}
    <3>1. Reference = {}
      BY <2>3 DEF Reference, Assignments, WithPool, target
    <3>2. Answer' = {}
      BY <2>3 DEF Answer
    <3> QED BY <1>2, <2>1, <2>3, <3>1, <3>2 DEF LoopInv, MatchesReference
  <2> QED BY <2>1, <2>2, <2>3
<1>5. CASE /\ todo = {}
           /\ Enter("locals", LocalWanted \ DOMAIN assigned)
           /\ UNCHANGED <<assigned, taken>>
  <2>1. loop' = "locals" /\ todo' = LocalWanted \ DOMAIN assigned
    BY <1>5 DEF Enter
  <2>2. TypeOK'
    BY <1>1, <1>5, <2>1, LocalWantedNames, SameTypes
  <2>3. assigned \in WithPool(input.wanted, target, input.others, input.busy)
    <3>1. assigned = [n \in DOMAIN assigned |-> assigned[n]]
      BY <1>1 DEF TypeOK, IsPortMap
    <3> QED BY <1>1, <1>3, <1>5, <3>1, FillingEnds DEF PoolFilling, WithPool
  <2>4. LocalsPart'
    <3>1. IsPortMap(assigned)
      BY <1>1 DEF TypeOK
    <3>2. Filling(LocalWanted, assigned, LocalOrder,
                  LocalPortMin, LocalPortMin + LocalPortSearchSpan,
                  input.others, input.busy, assigned',
                  todo')
      BY <1>5, <2>1, FillingBegins
    <3>3. /\ assigned' \in WithPool(input'.wanted, target', input'.others, input'.busy)
          /\ IsPortMap(assigned')
          /\ Filling(LocalWanted, assigned', LocalOrder,
                     LocalPortMin, LocalPortMin + LocalPortSearchSpan,
                     input'.others, input'.busy, assigned', todo')
      BY <1>1, <1>2, <1>5, <2>3, <3>1, <3>2
    <3> QED BY <1>1, <1>2, <3>3 DEF LocalsPart, LocalFilling
  <2> QED BY <1>2, <2>1, <2>2, <2>4 DEF LoopInv, MatchesReference
<1> QED BY <1>4, <1>5 DEF PoolStep

\* The last loop, and what the four arrive at.
LEMMA LocalKeeps ==
  ASSUME LoopInv, LocalStep
  PROVE  LoopInv'
<1>1. /\ InputOK /\ TypeOK /\ LocalsPart /\ loop = "locals" /\ UNCHANGED input
  BY DEF LoopInv, LocalStep
<1>2. /\ InputOK' /\ target' = target /\ Granted' = Granted
      /\ Reference' = Reference
  BY <1>1 DEF InputOK, mine, target, Granted, Reference
<1> DEFINE max == LocalPortMin + LocalPortSearchSpan
<1>3. /\ LocalWanted \in SUBSET PortName /\ Ordered(LocalWanted, LocalOrder)
      /\ LocalPortMin \in Nat /\ max \in Nat
  BY <1>1, LocalWantedNames, TwoOrders, PortRanges
<1>4. PICK held \in WithPool(input.wanted, target, input.others, input.busy) :
        IsPortMap(held) /\ LocalFilling(held)
  BY <1>1 DEF LocalsPart
<1>5. WithPool(input.wanted, target, input.others, input.busy) = {held}
  BY <1>4 DEF WithPool, FillIn
<1>6. Reference = WithLocals(held, input.others, input.busy)
  <2>1. Granted
    BY <1>1 DEF LocalsPart
  <2> QED BY <1>5, <2>1 DEF Reference, Assignments, Granted, target
<1>7. CASE todo # {} /\ Search(LocalOrder, LocalPortMin, max)
  <2>1. /\ TypeOK'
        /\ \/ /\ loop' = loop
              /\ Filling(LocalWanted, held, LocalOrder, LocalPortMin, max,
                         input.others, input.busy, assigned', todo')
           \/ /\ loop' = "failed"
              /\ FillIn(LocalWanted, held, LocalOrder, LocalPortMin, max,
                        input.others, input.busy) = {}
    <3>1. Filling(LocalWanted, held, LocalOrder, LocalPortMin, max,
                  input.others, input.busy, assigned, todo)
      BY <1>4 DEF LocalFilling
    <3> HIDE DEF max
    <3> QED BY <1>1, <1>3, <1>7, <3>1, SearchStep
  <2>2. CASE /\ loop' = loop
             /\ Filling(LocalWanted, held, LocalOrder, LocalPortMin, max,
                        input.others, input.busy, assigned', todo')
    <3>1. /\ held \in WithPool(input'.wanted, target', input'.others, input'.busy)
          /\ IsPortMap(held)
          /\ Filling(LocalWanted, held, LocalOrder, LocalPortMin, max,
                     input'.others, input'.busy, assigned', todo')
      BY <1>1, <1>2, <1>4, <2>2
    <3>2. LocalsPart'
      BY <1>1, <1>2, <3>1 DEF LocalsPart, LocalFilling
    <3> QED BY <1>1, <1>2, <2>1, <2>2, <3>2 DEF LoopInv, MatchesReference
  <2>3. CASE /\ loop' = "failed"
             /\ FillIn(LocalWanted, held, LocalOrder, LocalPortMin, max,
                       input.others, input.busy) = {}
    <3>1. Reference = {}
      BY <1>6, <2>3 DEF WithLocals
    <3>2. Answer' = {}
      BY <2>3 DEF Answer
    <3> QED BY <1>2, <2>1, <2>3, <3>1, <3>2 DEF LoopInv, MatchesReference
  <2> QED BY <2>1, <2>2, <2>3
<1>8. CASE todo = {} /\ Enter("done", {}) /\ UNCHANGED <<assigned, taken>>
  <2>1. loop' = "done" /\ todo' = {}
    BY <1>8 DEF Enter
  <2>2. TypeOK'
    BY <1>1, <1>8, <2>1, SameTypes
  <2>3. Reference = {assigned}
    <3>1. assigned = [n \in DOMAIN assigned |-> assigned[n]]
      BY <1>1 DEF TypeOK, IsPortMap
    <3>2. Filling(LocalWanted, held, LocalOrder, LocalPortMin, max,
                  input.others, input.busy, assigned, {})
      BY <1>4, <1>8 DEF LocalFilling
    <3> HIDE DEF max
    <3>3. FillIn(LocalWanted, held, LocalOrder, LocalPortMin, max,
                 input.others, input.busy) = {assigned}
      BY <1>3, <3>1, <3>2, FillingEnds
    <3> USE DEF max
    <3> QED BY <1>6, <3>3 DEF WithLocals
  <2>4. Answer' = {assigned}
    BY <1>8, <2>1 DEF Answer
  <2> QED BY <1>2, <2>1, <2>2, <2>3, <2>4 DEF LoopInv, MatchesReference
<1> QED BY <1>7, <1>8 DEF LocalStep

LEMMA LoopsBegin ==
  ASSUME Init
  PROVE  LoopInv
<1>1. InputOK
  BY DEF Init, InputOK, mine
<1>2. todo = Names(pins) /\ loop = "pins" /\ assigned = NoPorts
      /\ taken = input.others
  BY DEF Init, pins
<1>3. TypeOK
  <2>1. todo \subseteq PortName
    BY <1>1, <1>2, InputFacts
  <2>2. Hosts(assigned) = {}
    BY <1>2 DEF Hosts, NoPorts
  <2> QED BY <1>2, <2>1, <2>2, NoPortsIsPortMap DEF TypeOK
<1>4. PinsPart
  BY <1>2 DEF PinsPart, NoPorts, Names
<1> QED BY <1>1, <1>2, <1>3, <1>4 DEF LoopInv, MatchesReference

LEMMA LoopsKeep ==
  ASSUME LoopInv, [Next]_vars
  PROVE  LoopInv'
<1>1. CASE UNCHANGED vars
  BY <1>1 DEF vars, LoopInv, InputOK, TypeOK, PinsPart, KeepPart, LocalsPart,
              PoolFilling, LocalFilling, Granted, MatchesReference, Answer,
              Reference, pins, mine, target
<1> QED BY <1>1, PinKeeps, KeepKeeps, PoolKeeps, LocalKeeps DEF Next

THEOREM LoopsCorrect == Spec => []LoopInv
BY LoopsBegin, LoopsKeep, PTL DEF Spec

\* PortAllocator.TypeOK: at every turn of every loop taken is what the labels
\* of the others say and what was handed out, no more and no less
\* (service.go:310-319, 349-350, 360-361, 373-374, 389-390).
THEOREM TypeCorrect == Spec => []TypeOK
<1>1. LoopInv => TypeOK
  BY DEF LoopInv
<1> QED BY <1>1, LoopsCorrect, PTL

\* PortAllocator.MatchesReference: for every template, label map and range the
\* loops of assignPorts (service.go:304-393) end with the one assignment the
\* closed form names, and fail exactly when it names none.
THEOREM LoopsMatchReference == Spec => []MatchesReference
<1>1. LoopInv => MatchesReference
  BY DEF LoopInv
<1> QED BY <1>1, LoopsCorrect, PTL

-----------------------------------------------------------------------------
(***************************************************************************)
(* What the loops promise on the way.                                      *)
(***************************************************************************)
\* A number handed out is the container's own or nobody's; the search loops
\* hand out only the second kind.
LEMMA WhatIsAssigned ==
  ASSUME LoopInv, Next
  PROVE  /\ UNCHANGED input
         /\ \/ UNCHANGED assigned
            \/ \E name \in PortName, host \in Nat :
                 /\ name \notin DOMAIN assigned /\ Assign(name, host)
                 /\ host \in mine \/ host \notin taken
                 /\ loop \in {"pool", "locals"} => host \notin taken
<1>1. InputOK /\ TypeOK
  BY DEF LoopInv
<1>2. CASE PinStep
  <2> DEFINE name == FirstOf(todo, Rank)
             host == (CHOOSE p \in input.wanted : p.name = name).pin
  <2>1. CASE todo # {} /\ Available(host) /\ Assign(name, host)
    <3>1. todo \subseteq Names(pins) /\ DOMAIN assigned = Names(pins) \ todo
          /\ loop = "pins"
      BY <1>2 DEF LoopInv, PinStep, PinsPart
    <3>2. \A n \in todo : Rank[n] \in Nat
      BY <1>1, PortNames DEF TypeOK
    <3>3. name \in todo
      BY <2>1, <3>2, FirstOfIsFirst
    <3>4. PICK p \in pins : p.name = name
      BY <3>1, <3>3 DEF Names
    <3>5. (CHOOSE q \in input.wanted : q.name = name) = p
      BY <1>1, <3>4, InputFacts
    <3>6. host \in Nat /\ name \in PortName /\ name \notin DOMAIN assigned
      BY <1>1, <3>1, <3>3, <3>4, <3>5, InputFacts DEF TypeOK
    <3>7. host \in mine \/ host \notin taken
      BY <2>1 DEF Available, CheckPinned, mine
    <3> HIDE DEF name, host
    <3> QED BY <1>2, <2>1, <3>1, <3>6, <3>7 DEF PinStep
  <2>2. CASE UNCHANGED assigned
    BY <1>2, <2>2 DEF PinStep
  <2> QED BY <1>2, <2>1, <2>2 DEF PinStep, Fail
<1>3. CASE KeepStep
  <2>1. CASE \E name \in todo : Assign(name, input.existing[name])
    <3>1. PICK name \in todo : Assign(name, input.existing[name])
      BY <2>1
    <3>2. loop = "keep" /\ name \in DOMAIN input.existing
          /\ name \notin DOMAIN assigned
      BY <1>3 DEF LoopInv, KeepPart, KeepStep
    <3>3. name \in PortName /\ input.existing[name] \in Nat
      BY <1>1, <3>2, InputFacts DEF IsPortMap
    <3>4. input.existing[name] \in mine
      BY <3>2 DEF mine, Hosts
    <3> QED BY <1>3, <3>1, <3>2, <3>3, <3>4 DEF KeepStep
  <2>2. CASE UNCHANGED assigned
    BY <1>3, <2>2 DEF KeepStep
  <2> QED BY <1>3, <2>1, <2>2 DEF KeepStep
<1>4. ASSUME NEW order, NEW min, NEW max, Search(order, min, max), UNCHANGED input,
             FirstOf(todo, order) \in PortName \ DOMAIN assigned,
             min \in Nat, max \in Nat
      PROVE  \/ UNCHANGED assigned
             \/ \E name \in PortName, host \in Nat :
                  /\ name \notin DOMAIN assigned /\ Assign(name, host)
                  /\ host \notin taken
  <2>1. CASE \E host \in FirstFree(min, max) : Assign(FirstOf(todo, order), host)
    <3>1. PICK host \in FirstFree(min, max) : Assign(FirstOf(todo, order), host)
      BY <2>1
    <3>2. host \in Nat /\ host \notin taken
      BY <1>4 DEF FirstFree, FreePortsIn
    <3> QED BY <1>4, <3>1, <3>2
  <2> QED BY <1>4, <2>1 DEF Search, Fail
<1>5. CASE PoolStep
  <2>1. /\ todo \subseteq Names(input.wanted) /\ todo \cap DOMAIN assigned = {}
        /\ todo \subseteq PortName /\ loop = "pool" /\ UNCHANGED input
    BY <1>1, <1>5 DEF LoopInv, PoolStep, PoolFilling, Filling, Serving, TypeOK
  <2>2. \A n \in todo : Rank[n] \in Nat
    BY <2>1, PortNames
  <2>3. todo # {} => FirstOf(todo, Rank) \in PortName \ DOMAIN assigned
    BY <2>1, <2>2, FirstOfIsFirst
  <2>4. PortMin \in Nat /\ PortMax \in Nat
    BY PortRanges
  <2> QED BY <1>4, <1>5, <2>1, <2>3, <2>4 DEF PoolStep
<1>6. CASE LocalStep
  <2>1. /\ todo \subseteq LocalWanted /\ todo \cap DOMAIN assigned = {}
        /\ todo \subseteq PortName /\ loop = "locals" /\ UNCHANGED input
    BY <1>1, <1>6 DEF LoopInv, LocalStep, LocalsPart, LocalFilling, Filling,
                      Serving, TypeOK
  <2>2. \A n \in todo : LocalOrder[n] \in Nat
    BY <2>1, LocalOrdered
  <2>3. todo # {} => FirstOf(todo, LocalOrder) \in PortName \ DOMAIN assigned
    BY <2>1, <2>2, FirstOfIsFirst
  <2>4. LocalPortMin \in Nat /\ LocalPortMin + LocalPortSearchSpan \in Nat
    BY PortRanges
  <2> QED BY <1>4, <1>6, <2>1, <2>3, <2>4 DEF LocalStep
<1> QED BY <1>2, <1>3, <1>5, <1>6 DEF Next

\* PortAllocator.NeverAnothersNumber (service.go:308-319 and 400-438): a number
\* on another box's labels is handed out by none of the four loops, not even
\* on the way to an error, unless this container's own labels carry it too.
THEOREM NothingOfOthers == Spec => []NeverAnothersNumber
<1>1. Init => NeverAnothersNumber
  BY DEF Init, NeverAnothersNumber, NoPorts
<1>2. ASSUME LoopInv, NeverAnothersNumber, [Next]_vars
      PROVE  NeverAnothersNumber'
  <2>1. CASE Next
    <3>1. taken = input.others \cup Hosts(assigned)
      BY <1>2 DEF LoopInv, TypeOK
    <3>2. UNCHANGED input
      BY <1>2, <2>1, WhatIsAssigned
    <3>3. CASE UNCHANGED assigned
      BY <1>2, <3>2, <3>3 DEF NeverAnothersNumber
    <3>4. CASE \E name \in PortName, host \in Nat :
                 /\ name \notin DOMAIN assigned /\ Assign(name, host)
                 /\ host \in mine \/ host \notin taken
      <4>1. PICK name \in PortName, host \in Nat :
              /\ name \notin DOMAIN assigned /\ Assign(name, host)
              /\ host \in mine \/ host \notin taken
        BY <3>4
      <4>2. /\ DOMAIN assigned' = DOMAIN assigned \cup {name}
            /\ assigned'[name] = host
            /\ \A n \in DOMAIN assigned : assigned'[n] = assigned[n]
        BY <4>1, AssignedNow
      <4> QED BY <1>2, <3>1, <3>2, <4>1, <4>2 DEF NeverAnothersNumber, mine
    <3> QED BY <1>2, <2>1, <3>3, <3>4, WhatIsAssigned
  <2>2. CASE UNCHANGED vars
    BY <1>2, <2>2 DEF vars, NeverAnothersNumber
  <2> QED BY <1>2, <2>1, <2>2
<1> QED BY <1>1, <1>2, LoopsCorrect, PTL DEF Spec

\* In the first two loops every number is a pin's or the container's own.
FirstLoops == loop \in {"pins", "keep"}

LEMMA FirstLoopsDistinct == LoopInv /\ FirstLoops => DistinctNumbers
<1> SUFFICES ASSUME LoopInv, loop \in {"pins", "keep"}
             PROVE  OncePerName(assigned, input.wanted, input.existing)
  BY DEF DistinctNumbers, FirstLoops
<1>1. InputOK
  BY DEF LoopInv
<1>2. CASE loop = "pins"
  <2>1. PinsPart
    BY <1>2 DEF LoopInv
  <2> SUFFICES ASSUME NEW m \in DOMAIN assigned, NEW n \in DOMAIN assigned,
                      m # n, assigned[m] = assigned[n]
               PROVE  \E p \in pins : /\ p.name \in {m, n} /\ p.pin = assigned[m]
                                      /\ PinnedOver(p, input.existing)
    BY DEF OncePerName, pins
  <2>2. PICK p, q \in pins : /\ p.name = m /\ m \notin todo
                             /\ q.name = n /\ n \notin todo
    BY <2>1 DEF PinsPart, Names
  <2>3. assigned[m] = p.pin /\ assigned[n] = q.pin /\ p.pin \in mine
    BY <2>1, <2>2 DEF PinsPart
  <2>4. PICK k \in DOMAIN input.existing : input.existing[k] = p.pin
    BY <2>3 DEF mine, Hosts
  <2> QED BY <2>2, <2>3, <2>4 DEF PinnedOver
<1>3. CASE loop = "keep"
  <2>1. KeepPart
    BY <1>3 DEF LoopInv
  <2>2. OncePerName(target, input.wanted, input.existing)
    BY <1>1, <2>1, HeldDistinct DEF KeepPart, Granted, InputOK, target
  <2>3. /\ DOMAIN assigned \subseteq DOMAIN target
        /\ \A n \in DOMAIN assigned : assigned[n] = target[n]
    BY <2>1 DEF KeepPart
  <2> QED BY <2>2, <2>3 DEF OncePerName
<1> QED BY <1>2, <1>3

\* PortAllocator.DistinctNumbers (service.go:329-393): none of the four loops
\* gives a number to a second name, whatever the labels say, unless the container
\* carried it under both or a pin asks for it over another name.
THEOREM NumbersDistinct == Spec => []DistinctNumbers
<1>1. Init => DistinctNumbers
  BY DEF Init, DistinctNumbers, OncePerName, NoPorts
<1>2. LoopInv' /\ FirstLoops' => DistinctNumbers'
  BY FirstLoopsDistinct, PTL
<1>3. ASSUME LoopInv, LoopInv', DistinctNumbers, [Next]_vars
      PROVE  DistinctNumbers'
  <2>1. CASE UNCHANGED vars
    BY <1>3, <2>1 DEF vars, DistinctNumbers
  <2>2. CASE Next /\ loop \in {"pins", "keep"}
    <3>1. loop' \in {"pins", "keep"} \/ UNCHANGED <<input, assigned>>
      BY <2>2 DEF Next, PinStep, KeepStep, PoolStep, LocalStep, Enter, Fail
    <3> QED BY <1>2, <1>3, <3>1 DEF DistinctNumbers, FirstLoops
  <2>3. CASE Next /\ loop \notin {"pins", "keep"}
    <3>1. taken = input.others \cup Hosts(assigned)
      BY <1>3 DEF LoopInv, TypeOK
    <3>2. loop \in {"pool", "locals"}
      BY <2>3 DEF Next, PinStep, KeepStep, PoolStep, LocalStep
    <3>3. UNCHANGED input
      BY <1>3, <2>3, WhatIsAssigned
    <3>4. CASE UNCHANGED assigned
      BY <1>3, <3>3, <3>4 DEF DistinctNumbers
    <3>5. CASE \E name \in PortName, host \in Nat :
                 /\ name \notin DOMAIN assigned /\ Assign(name, host)
                 /\ host \notin taken
      <4>1. PICK name \in PortName, host \in Nat :
              /\ name \notin DOMAIN assigned /\ Assign(name, host)
              /\ host \notin taken
        BY <3>5
      <4>2. /\ DOMAIN assigned' = DOMAIN assigned \cup {name}
            /\ assigned'[name] = host
            /\ \A n \in DOMAIN assigned : assigned'[n] = assigned[n]
        BY <4>1, AssignedNow
      <4>3. \A n \in DOMAIN assigned : assigned[n] # host
        BY <3>1, <4>1 DEF Hosts
      <4>4. \A m, n \in DOMAIN assigned' : m # n /\ assigned'[m] = assigned'[n] =>
              /\ {m, n} \subseteq DOMAIN assigned
              /\ assigned[m] = assigned'[m] /\ assigned[n] = assigned'[n]
        BY <4>2, <4>3
      <4> QED BY <1>3, <3>3, <4>4, ServedOnce DEF DistinctNumbers
    <3> QED BY <1>3, <2>3, <3>2, <3>4, <3>5, WhatIsAssigned
  <2> QED BY <1>3, <2>1, <2>2, <2>3
<1> QED BY <1>1, <1>3, LoopsCorrect, PTL DEF Spec

=============================================================================
