--------------------------- MODULE PortAllocation ---------------------------
(***************************************************************************)
(* The host ports of a box: which numbers Service.assignPorts picks, what  *)
(* the container is told about them (agentEnv) and what it publishes       *)
(* (applyHostPorts).                                                       *)
(*                                                                         *)
(* A port specification is a record [name, pin]; pin = 0 stands for "any   *)
(* number will do".  A template's list is a set of such records with       *)
(* distinct names: the code sorts it by name, which Rank stands for.  A    *)
(* port map is a function from port names to host numbers, 0 being Go's    *)
(* zero value for a name the allocator never looked at.                    *)
(***************************************************************************)
EXTENDS Integers, FiniteSets, Sequences

CONSTANTS
  PortName,             \* every name a published port can carry
  Rank,                 \* Rank[n]: where name n falls when names are sorted
  Ssh,                  \* the name whose number is advertised to the box
  LocalNames,           \* LocalPortName(0), LocalPortName(1), ... in order
  LocalPortCount,       \* how many of them this machine hands to a box
  PortMin, PortMax,     \* the pool of the platform's own ports
  LocalPortMin,         \* the first number tried for a box's own ports
  LocalPortSearchSpan   \* localPortSearchSpan: how far above it to look

ASSUME PortRanges ==
  /\ PortMin \in Nat \ {0} /\ PortMax \in Nat
  /\ LocalPortMin \in Nat \ {0} /\ LocalPortSearchSpan \in Nat
  /\ LocalPortCount \in Nat

ASSUME PortNames ==
  /\ IsFiniteSet(PortName)
  /\ Rank \in [PortName -> Nat]
  /\ \A m, n \in PortName : Rank[m] = Rank[n] => m = n
  /\ LocalNames \in Seq(PortName)
  /\ LocalPortCount <= Len(LocalNames)
  /\ Ssh \in PortName

NoPort == -1            \* the variable is not in the box's environment

PortSpec == [name : PortName, pin : Nat]
IsPortMap(f) == DOMAIN f \subseteq PortName /\ f \in [DOMAIN f -> Nat]
NoPorts == [n \in {} |-> 0]

Hosts(ports) == { ports[n] : n \in DOMAIN ports }
Names(specs) == { p.name : p \in specs }

(***************************************************************************)
(* A runtime's own entry replaces the template's of the same name.         *)
(***************************************************************************)
MergePorts(fromTemplate, fromRuntime) ==
  fromRuntime \cup { p \in fromTemplate : p.name \notin Names(fromRuntime) }

---------------------------------------------------------------------------
(***************************************************************************)
(* The allocation.  wanted is the template's list, existing what the       *)
(* runtime's container holds now (NoPorts without one), others the numbers *)
(* on the labels of the other boxes, busy the numbers on which a listen    *)
(* fails.                                                                  *)
(***************************************************************************)
Pinned(wanted) == { p \in wanted : p.pin > 0 }

\* Mutant: a pin is only listened on; the labels of stopped boxes are not read.
CheckPinnedByListening(host, taken, mine, busy) ==
  host \in mine \/ host \notin busy

CheckPinned(host, taken, mine, busy) ==
  host \in mine \/ (host \notin taken /\ host \notin busy)

\* The second of two names pinned to one number finds it taken by the first,
\* unless the box's own container already sits on it.
PinsGranted(wanted, existing, others, busy) ==
  \A p \in Pinned(wanted) :
    /\ CheckPinned(p.pin, others, Hosts(existing), busy)
    /\ \A q \in Pinned(wanted) :
         p # q /\ p.pin = q.pin => p.pin \in Hosts(existing)

\* Mutant: what the container already has wins over a pin.
HeldBeforePins(wanted, existing) ==
  LET pins == Pinned(wanted) IN
  [n \in Names(pins) \cup DOMAIN existing |->
     IF n \in DOMAIN existing THEN existing[n]
                              ELSE (CHOOSE p \in pins : p.name = n).pin]

\* Mutant: only the pins are taken over, every other port is picked afresh.
HeldPinsOnly(wanted, existing) ==
  LET pins == Pinned(wanted) IN
  [n \in Names(pins) |-> (CHOOSE p \in pins : p.name = n).pin]

\* Pins first; every other name of the existing container keeps its number.
Held(wanted, existing) ==
  LET pins == Pinned(wanted) IN
  [n \in Names(pins) \cup DOMAIN existing |->
     IF n \in Names(pins) THEN (CHOOSE p \in pins : p.name = n).pin
                          ELSE existing[n]]

FreePortsIn(min, max, taken, busy) == (min..max) \ (taken \cup busy)

\* The k-th name in the given order gets the k-th smallest free number.
Turn(n, names, order) == Cardinality({ m \in names : order[m] < order[n] })
Place(p, free) == Cardinality({ q \in free : q < p })
Suits(p, n, free, names, order) == Place(p, free) = Turn(n, names, order)

Room(names, free, order) ==
  \A n \in names : \E p \in free : Suits(p, n, free, names, order)

HandOut(names, free, order) ==
  [n \in names |-> CHOOSE p \in free : Suits(p, n, free, names, order)]

Join(f, g) ==
  [n \in DOMAIN f \cup DOMAIN g |-> IF n \in DOMAIN f THEN f[n] ELSE g[n]]

\* The box's own ports are asked for by number, not by name: local-2 comes
\* before local-10.
LocalWanted == { LocalNames[i] : i \in 1..LocalPortCount }
LocalOrder  == [n \in LocalWanted |->
                  CHOOSE i \in 1..LocalPortCount : LocalNames[i] = n]

\* held, and a number of its own for every name that has none: {} when the
\* range runs out.
FillIn(names, held, order, min, max, others, busy) ==
  LET fresh == names \ DOMAIN held
      free  == FreePortsIn(min, max, others \cup Hosts(held), busy)
  IN  IF Room(fresh, free, order)
      THEN { Join(held, HandOut(fresh, free, order)) }
      ELSE {}

WithPool(wanted, held, others, busy) ==
  FillIn(Names(wanted), held, Rank, PortMin, PortMax, others, busy)

WithLocals(held, others, busy) ==
  FillIn(LocalWanted, held, LocalOrder,
         LocalPortMin, LocalPortMin + LocalPortSearchSpan, others, busy)

(***************************************************************************)
(* What assignPorts returns: the one assignment, or none when it returns   *)
(* an error.                                                               *)
(***************************************************************************)
Assignments(wanted, existing, others, busy) ==
  IF PinsGranted(wanted, existing, others, busy)
  THEN UNION { WithLocals(held, others, busy) :
                 held \in WithPool(wanted, Held(wanted, existing), others, busy) }
  ELSE {}

\* A pin onto a number the container holds under another name.
PinnedOver(p, existing) ==
  \E n \in DOMAIN existing : n # p.name /\ existing[n] = p.pin

\* No number under two names, but for those the container carries under both
\* already and those a pin asks for over another name.
OncePerName(ports, wanted, existing) ==
  \A m, n \in DOMAIN ports : m # n /\ ports[m] = ports[n] =>
    \/ /\ {m, n} \subseteq DOMAIN existing
       /\ existing[m] = ports[m] /\ existing[n] = ports[n]
    \/ \E p \in Pinned(wanted) :
         p.name \in {m, n} /\ p.pin = ports[m] /\ PinnedOver(p, existing)

---------------------------------------------------------------------------
(***************************************************************************)
(* What becomes of an assignment: the numbers the box is told through its  *)
(* environment, and the labels its container carries.                      *)
(***************************************************************************)
\* The box's own ports from the first one on, up to the first that is missing.
LocalRun(ports, limit) ==
  { LocalNames[i] : i \in { j \in 1..limit :
      \A k \in 1..j : LocalNames[k] \in DOMAIN ports } }

Advertised(ports) ==
  [ssh    |-> IF Ssh \in DOMAIN ports THEN ports[Ssh] ELSE NoPort,
   locals |-> [n \in LocalRun(ports, LocalPortCount) |-> ports[n]]]

ApplyHostPorts(names, ports) ==
  [n \in names \cup LocalRun(ports, Len(LocalNames)) |->
     IF n \in DOMAIN ports THEN ports[n] ELSE 0]

\* Docker publishes what has a number, and one number only once.
Publishes(labels)  == Hosts(labels) \ {0}
Publishable(labels) ==
  \A m, n \in DOMAIN labels : m # n /\ labels[m] = labels[n] => labels[m] = 0

=============================================================================
