---------------------------- MODULE PortAllocator ----------------------------
(***************************************************************************)
(* Service.assignPorts one loop iteration at a time: the pins in name      *)
(* order, the numbers the existing container holds in whatever order Go    *)
(* walks the map, the rest of the template's list from the pool, the box's *)
(* own ports from their own range.  PortAllocation says in one expression  *)
(* what the four loops arrive at.                                          *)
(***************************************************************************)
EXTENDS PortAllocation

CONSTANTS
  PortLists,            \* the lists of port specifications a template may hold
  LabelMaps,            \* what the labels of an existing container may say
  OthersChoices,        \* the numbers other boxes may hold
  BusyChoices           \* the numbers on which a listen may fail

ASSUME AllocatorInputs ==
  /\ \A wanted \in PortLists : /\ wanted \subseteq PortSpec
                               /\ \A p, q \in wanted : p.name = q.name => p = q
  /\ \A existing \in LabelMaps : IsPortMap(existing)

VARIABLES
  input,                \* the arguments and what List and the machine answer
  loop,                 \* the loop being run: "pins", "keep", "pool", "locals",
                        \* then "done" or "failed"
  todo,                 \* what the running loop has not looked at yet
  assigned, taken       \* as in the code

vars == <<input, loop, todo, assigned, taken>>

\* The labels may say anything: a number under two names, a number of another
\* box.
Init ==
  /\ input \in [wanted : PortLists, existing : LabelMaps,
                others : OthersChoices, busy : BusyChoices]
  /\ loop = "pins"
  /\ todo = Names(Pinned(input.wanted))
  /\ assigned = NoPorts
  /\ taken = input.others

Enter(name, work) == loop' = name /\ todo' = work

\* Mutant: the number is handed out and not struck off.
AssignUntaken(name, host) ==
  /\ assigned' = Join([n \in {name} |-> host], assigned)
  /\ UNCHANGED taken

Assign(name, host) ==
  /\ assigned' = Join([n \in {name} |-> host], assigned)
  /\ taken' = taken \cup {host}

Fail == loop' = "failed" /\ UNCHANGED <<todo, assigned, taken>>

FirstOf(names, order) ==
  CHOOSE n \in names : \A m \in names : order[n] <= order[m]

\* checkPinned
Available(host) == CheckPinned(host, taken, Hosts(input.existing), input.busy)

\* Mutant: the last number of the range is never tried.
FirstFreeExclusive(min, max) ==
  { p \in FreePortsIn(min, max - 1, taken, input.busy) :
      \A q \in FreePortsIn(min, max - 1, taken, input.busy) : p <= q }

\* freePortIn: {} when every number in the range is spoken for
FirstFree(min, max) ==
  { p \in FreePortsIn(min, max, taken, input.busy) :
      \A q \in FreePortsIn(min, max, taken, input.busy) : p <= q }

PinStep ==
  /\ loop = "pins"
  /\ \/ /\ todo # {}
        /\ LET name == FirstOf(todo, Rank)
               host == (CHOOSE p \in input.wanted : p.name = name).pin
           IN  \/ /\ Available(host)
                  /\ Assign(name, host)
                  /\ Enter("pins", todo \ {name})
               \/ ~Available(host) /\ Fail
     \/ /\ todo = {}
        /\ Enter("keep", DOMAIN input.existing \ DOMAIN assigned)
        /\ UNCHANGED <<assigned, taken>>
  /\ UNCHANGED input

KeepStep ==
  /\ loop = "keep"
  /\ \/ \E name \in todo :
          /\ Assign(name, input.existing[name])
          /\ Enter("keep", todo \ {name})
     \/ /\ todo = {}
        /\ Enter("pool", Names(input.wanted) \ DOMAIN assigned)
        /\ UNCHANGED <<assigned, taken>>
  /\ UNCHANGED input

\* One turn of a search loop: the first name without a number gets the first
\* free number of the range.
Search(order, min, max) ==
  LET name == FirstOf(todo, order) IN
  \/ \E host \in FirstFree(min, max) :
       Assign(name, host) /\ Enter(loop, todo \ {name})
  \/ FirstFree(min, max) = {} /\ Fail

PoolStep ==
  /\ loop = "pool"
  /\ \/ todo # {} /\ Search(Rank, PortMin, PortMax)
     \/ /\ todo = {}
        /\ Enter("locals", LocalWanted \ DOMAIN assigned)
        /\ UNCHANGED <<assigned, taken>>
  /\ UNCHANGED input

LocalStep ==
  /\ loop = "locals"
  /\ \/ /\ todo # {}
        /\ Search(LocalOrder, LocalPortMin, LocalPortMin + LocalPortSearchSpan)
     \/ /\ todo = {}
        /\ Enter("done", {})
        /\ UNCHANGED <<assigned, taken>>
  /\ UNCHANGED input

Next == PinStep \/ KeepStep \/ PoolStep \/ LocalStep
Spec == Init /\ [][Next]_vars

-----------------------------------------------------------------------------
\* Of its type; and taken is what the labels say and what was handed out, no
\* more and no less.
TypeOK ==
  /\ loop \in {"pins", "keep", "pool", "locals", "done", "failed"}
  /\ todo \subseteq PortName
  /\ IsPortMap(assigned)
  /\ taken = input.others \cup Hosts(assigned)

Answer ==
  CASE loop = "done"   -> {assigned}
    [] loop = "failed" -> {}

Reference ==
  Assignments(input.wanted, input.existing, input.others, input.busy)

\* assignPorts as a whole, its four loops and the order of a map walk
\* included, answers what the closed form PortAllocation states.
MatchesReference == loop \in {"done", "failed"} => Answer = Reference

\* service.go:308-327 and 400-438: a number on another box's labels is handed
\* out by none of the loops, unless this container carries it as well.
NeverAnothersNumber ==
  \A n \in DOMAIN assigned :
    assigned[n] \in input.others => assigned[n] \in Hosts(input.existing)

\* service.go:329-393: no loop gives a number to a second name.  What carries two
\* names carried them before, or was pinned over a name the container holds.
DistinctNumbers == OncePerName(assigned, input.wanted, input.existing)

=============================================================================
