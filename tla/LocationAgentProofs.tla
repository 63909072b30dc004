------------------------- MODULE LocationAgentProofs -------------------------
(***************************************************************************)
(* Any number of agents, started, stopped and killed in any order: one of  *)
(* them serves the location.                                               *)
(***************************************************************************)
EXTENDS LocationAgent, TLAPS

LEMMA InitLocked == Init => TypeOK /\ LockInv
BY NoFileIsNone DEF Init, TypeOK, LockInv, Starting, Serving, Leaving

\* A process that ends, wherever it was, gives back what it had.
LEMMA ExitKeepsLock ==
  ASSUME TypeOK, LockInv, NEW a \in Agents, Exit(a)
  PROVE  LockInv'
<1>1. path' = path
  BY DEF Exit, Release
<1>2. \A b \in Agents \ {a} : /\ main'[b] = main[b] /\ fd'[b] = fd[b]
                              /\ holding'[b] = holding[b]
  BY DEF Exit, Release, Goto, TypeOK
<1>3. main'[a] = "down" /\ fd'[a] = NoFile /\ holding'[a] = FALSE
  BY DEF Exit, Release, Goto, TypeOK
<1> QED BY <1>1, <1>2, <1>3 DEF LockInv, Serving, Leaving

LEMMA ExitTyped ==
  ASSUME TypeOK, NEW a \in Agents, Exit(a),
         location' \in {"new", "beating", "off", "gone"}
  PROVE  TypeOK'
BY DEF TypeOK, Exit, Release, Goto, Starting, Serving, Leaving

\* Whatever leaves the lock alone and takes main no further into it.
LEMMA OthersKeepLock ==
  ASSUME LockInv, UNCHANGED process,
         \A a \in Agents : main'[a] \in {"locked"} \cup Serving =>
                             main[a] \in {"locked"} \cup Serving,
         \A a \in Agents : main[a] = "down" <=> main'[a] = "down"
  PROVE  LockInv'
BY DEF LockInv, process

LEMMA StepLocked ==
  ASSUME TypeOK, LockInv, [Next]_vars
  PROVE  TypeOK' /\ LockInv'
<1> USE DEF process, beat
<1>1. ASSUME NEW a \in Agents, Open(a) PROVE TypeOK' /\ LockInv'
  <2>1. PICK f \in Files :
          /\ path = f \/ (path = NoFile /\ \A b \in Agents : fd[b] # f)
          /\ fd' = [fd EXCEPT ![a] = f] /\ path' = f
    BY <1>1 DEF Open
  <2>2. TypeOK'
    BY <1>1, <2>1 DEF Open, Goto, TypeOK, Starting, Serving, Leaving
  <2>3. \A b \in Agents \ {a} : /\ main'[b] = main[b] /\ fd'[b] = fd[b]
                                /\ holding'[b] = holding[b]
    BY <1>1, <2>1 DEF Open, Goto, TypeOK
  <2>4. main'[a] = "opened" /\ fd'[a] = f /\ holding'[a] = holding[a]
    BY <1>1, <2>1 DEF Open, Goto, TypeOK
  <2>5. ~holding[a]
    BY <1>1 DEF Open, LockInv
  <2>6. \A b \in Agents : fd[b] # NoFile => path = f /\ fd[b] = f
    BY <2>1, NoFileIsNone DEF LockInv
  <2>7. LockInv'
    BY <2>1, <2>3, <2>4, <2>5, <2>6, NoFileIsNone DEF LockInv, Serving, Leaving
  <2> QED BY <2>2, <2>7
<1>2. ASSUME NEW a \in Agents, Flock(a) PROVE TypeOK' /\ LockInv'
  <2>1. CASE Exit(a)
    BY <1>2, <2>1, ExitKeepsLock, ExitTyped DEF Flock, TypeOK
  <2>2. CASE ~Exit(a)
    <3>1. /\ main[a] = "opened"
          /\ \A b \in Agents : ~(holding[b] /\ fd[b] = fd[a])
          /\ holding' = [holding EXCEPT ![a] = TRUE]
          /\ Goto(a, "locked") /\ UNCHANGED <<fd, path, beat, location>>
      BY <1>2, <2>2 DEF Flock
    <3>2. TypeOK'
      BY <3>1 DEF Goto, TypeOK, Starting, Serving, Leaving
    <3>3. \A b \in Agents \ {a} : main'[b] = main[b] /\ holding'[b] = holding[b]
      BY <3>1 DEF Goto, TypeOK
    <3>4. main'[a] = "locked" /\ holding'[a] = TRUE /\ fd' = fd /\ path' = path
      BY <3>1 DEF Goto, TypeOK
    <3>5. fd[a] # NoFile
      BY <3>1 DEF LockInv
    <3>6. LockInv'
      BY <3>1, <3>3, <3>4, <3>5 DEF LockInv, Serving, Leaving
    <3> QED BY <3>2, <3>6
  <2> QED BY <2>1, <2>2
<1>3. ASSUME NEW a \in Agents,
             Serve(a) \/ Signal(a) \/ StoreLeaving(a) \/ FetchLocation(a)
               \/ EraseBeat(a) \/ ShutdownReturns(a) \/ ShutdownFails(a)
               \/ GraceElapses(a) \/ Crash(a)
      PROVE  TypeOK' /\ LockInv'
  <2>1. CASE Exit(a)
    <3>1. location' = location
      BY <1>3, <2>1 DEF Serve, Signal, StoreLeaving, FetchLocation, EraseBeat,
                        ShutdownReturns, ShutdownFails, GraceElapses, Crash, Exit, Goto, TypeOK
    <3> QED BY <2>1, <3>1, ExitKeepsLock, ExitTyped DEF TypeOK
  <2>2. CASE ~Exit(a)
    <3>1. UNCHANGED process
      BY <1>3, <2>2 DEF Serve, Signal, StoreLeaving, FetchLocation, EraseBeat,
                        ShutdownReturns, ShutdownFails, GraceElapses, Crash
    <3>2. \A b \in Agents : main'[b] \in {"locked"} \cup Serving =>
                             main[b] \in {"locked"} \cup Serving
      BY <1>3, <2>2
        DEF Serve, Signal, StoreLeaving, FetchLocation, EraseBeat,
            ShutdownReturns, ShutdownFails, GraceElapses, Crash, Goto, TypeOK, Serving, Leaving
    <3>3. \A b \in Agents : main[b] = "down" <=> main'[b] = "down"
      BY <1>3, <2>2
        DEF Serve, Signal, StoreLeaving, FetchLocation, EraseBeat,
            ShutdownReturns, ShutdownFails, GraceElapses, Crash, Goto, TypeOK
    <3>4. TypeOK'
      <4> USE DEF Goto, TypeOK, Starting, Serving, Leaving
      <4>1. CASE Serve(a)
        BY <2>2, <4>1 DEF Serve
      <4>2. CASE Signal(a)
        BY <4>2 DEF Signal
      <4>3. CASE StoreLeaving(a)
        BY <4>3 DEF StoreLeaving
      <4>4. CASE FetchLocation(a)
        BY <4>4 DEF FetchLocation
      <4>5. CASE EraseBeat(a)
        BY <4>5 DEF EraseBeat
      <4> QED
        BY <1>3, <2>2, <4>1, <4>2, <4>3, <4>4, <4>5
          DEF ShutdownReturns, ShutdownFails, GraceElapses, Crash
    <3> QED BY <3>1, <3>2, <3>3, <3>4, OthersKeepLock
  <2> QED BY <2>1, <2>2
<1>4. ASSUME NEW a \in Agents, Loop(a) PROVE TypeOK' /\ LockInv'
  <2>1. TypeOK'
    BY <1>4 DEF Loop, Turn, Stamp, Write, TypeOK, Starting, Serving, Leaving
  <2>2. LockInv'
    BY <1>4, OthersKeepLock DEF Loop, Turn, Stamp, Write
  <2> QED BY <2>1, <2>2
<1>5. CASE LocationDeleted
  <2>1. TypeOK'
    BY <1>5 DEF LocationDeleted, TypeOK
  <2> QED BY <1>5, <2>1, OthersKeepLock DEF LocationDeleted
<1>6. CASE UNCHANGED vars
  BY <1>6 DEF vars, TypeOK, LockInv
<1> QED
  BY <1>1, <1>2, <1>3, <1>4, <1>5, <1>6 DEF Next, Main

\* Every state is of the type the module declares.
THEOREM AgentTypeCorrect == Spec => []TypeOK
<1>1. TypeOK /\ LockInv /\ [Next]_vars => (TypeOK /\ LockInv)'
  BY StepLocked
<1> QED BY <1>1, InitLocked, PTL DEF Spec

\* Whoever is past Acquire holds a lock, on the one file there is, and on one
\* file nobody else does (lock.go:33-50).
THEOREM LockCorrect == Spec => []LockInv
<1>1. TypeOK /\ LockInv /\ [Next]_vars => (TypeOK /\ LockInv)'
  BY StepLocked
<1> QED BY <1>1, InitLocked, PTL DEF Spec

\* Two agents never serve one location at once (lock.go:11-17), in whatever
\* order any number of them start, stop, fail and crash.
THEOREM OneAgentServes == Spec => []OneServes
<1>1. TypeOK /\ LockInv => OneServes
  <2> SUFFICES ASSUME LockInv, NEW a \in Agents, NEW b \in Agents,
                      main[a] \in Serving, main[b] \in Serving
               PROVE  a = b
    BY DEF OneServes
  <2>1. holding[a] /\ holding[b] /\ fd[a] = path /\ fd[b] = path
    BY DEF LockInv
  <2> QED BY <2>1 DEF LockInv
<1> QED BY <1>1, AgentTypeCorrect, LockCorrect, PTL

-----------------------------------------------------------------------------
(***************************************************************************)
(* The goodbye.  It stays because nobody is left who could write a beat:   *)
(* the agent's own loop finds leaving set and carries no beat, and no      *)
(* other agent has a loop while this one holds the lock.                   *)
(***************************************************************************)

\* Only the agent that serves has a turn under way, or is past its start.
LEMMA OneActs ==
  ASSUME TypeOK, LockInv, NEW a \in Agents, main[a] = "closing",
         NEW b \in Agents, b # a
  PROVE  main[b] \notin Serving /\ loop[b] = "idle"
<1>1. main[a] \in Serving
  BY DEF Serving, Leaving
<1>2. main[b] \notin Serving
  <2> SUFFICES ASSUME main[b] \in Serving PROVE FALSE
    OBVIOUS
  <2>1. holding[a] /\ holding[b] /\ fd[a] = path /\ fd[b] = path
    BY <1>1 DEF LockInv
  <2> QED BY <2>1 DEF LockInv
<1> QED BY <1>2 DEF TypeOK

\* A step that is no turn of the loop's leaves the goodbye, ends the process or
\* deletes the Location.
LEMMA MainKeepsGoodbye ==
  ASSUME TypeOK, LockInv, NEW a \in Agents, SaidGoodbye(a),
         NEW b \in Agents, Main(b) \/ ShutdownFails(b) \/ Signal(b) \/ Crash(b)
  PROVE  SaidGoodbye(a)' \/ main'[a] = "down"
<1>1. main[a] = "closing" /\ location \in {"new", "off"} /\ copy[a] # "beating"
  BY DEF SaidGoodbye, TypeOK
<1>2. location' \in {"new", "off"}
  <2>1. CASE EraseBeat(b)
    BY <1>1, <2>1 DEF EraseBeat
  <2> QED
    BY <1>1, <2>1 DEF Main, Signal, Crash, Open, Flock, Serve, StoreLeaving,
                      FetchLocation, ShutdownReturns, ShutdownFails, GraceElapses
<1>3. CASE b = a
  <2>1. ShutdownReturns(a) \/ ShutdownFails(a) \/ GraceElapses(a) \/ Crash(a)
    BY <1>1, <1>3 DEF Main, Signal, Open, Flock, Serve, StoreLeaving,
                      FetchLocation, EraseBeat
  <2>2. Exit(a)
    BY <2>1 DEF ShutdownReturns, ShutdownFails, GraceElapses, Crash
  <2> QED BY <2>2 DEF Exit, Goto, TypeOK
<1>4. CASE b # a
  <2>1. main'[a] = main[a] /\ copy'[a] = copy[a]
    <3> USE DEF Exit, Goto, TypeOK, beat
    <3>1. CASE Exit(b)
      BY <1>4, <3>1
    <3>2. CASE ~Exit(b)
      BY <1>4, <3>2 DEF Main, Signal, Crash, Open, Flock, Serve, StoreLeaving,
                        FetchLocation, EraseBeat, ShutdownReturns, ShutdownFails, GraceElapses
    <3> QED BY <3>1, <3>2
  <2> QED BY <1>1, <1>2, <2>1 DEF SaidGoodbye
<1> QED BY <1>3, <1>4

LEMMA LoopKeepsGoodbye ==
  ASSUME TypeOK, LockInv, NEW a \in Agents, SaidGoodbye(a),
         NEW b \in Agents, Loop(b)
  PROVE  SaidGoodbye(a)'
<1>1. main[a] = "closing" /\ location \in {"new", "off"} /\ copy[a] # "beating"
  BY DEF SaidGoodbye, TypeOK
<1>2. b = a
  <2> SUFFICES ASSUME b # a PROVE FALSE
    OBVIOUS
  <2>1. main[b] \notin Serving /\ loop[b] = "idle"
    BY <1>1, OneActs
  <2> QED BY <2>1 DEF Loop, Turn, Stamp, Write
<1>3. leaving[a]
  BY <1>1 DEF TypeOK, Leaving
<1>4. main' = main
  BY DEF Loop, Turn, Stamp, Write
<1>5. copy'[a] # "beating" /\ location' \in {"new", "off"}
  <2>1. CASE Turn(a)
    BY <1>1, <2>1 DEF Turn, TypeOK
  <2>2. CASE Stamp(a)
    BY <1>1, <1>3, <2>2 DEF Stamp, TypeOK
  <2>3. CASE Write(a)
    BY <1>1, <2>3 DEF Write, TypeOK
  <2> QED BY <1>2, <2>1, <2>2, <2>3 DEF Loop
<1> QED BY <1>1, <1>4, <1>5 DEF SaidGoodbye

\* Once the goodbye is written and the loop carries no older copy of the
\* Location, no turn of anybody's puts the beat back while the process lasts
\* (location_controller.go:42-46), however many agents there are.
THEOREM GoodbyeIsKept == Spec => GoodbyeStays
<1>1. ASSUME TypeOK, LockInv, [Next]_vars, NEW a \in Agents, SaidGoodbye(a)
      PROVE  SaidGoodbye(a)' \/ main'[a] = "down" \/ location' = "gone"
  <2>1. ASSUME NEW b \in Agents,
             Main(b) \/ ShutdownFails(b) \/ Signal(b) \/ Loop(b) \/ Crash(b)
        PROVE  SaidGoodbye(a)' \/ main'[a] = "down"
    BY <1>1, <2>1, MainKeepsGoodbye, LoopKeepsGoodbye
  <2>2. CASE LocationDeleted
    BY <2>2 DEF LocationDeleted
  <2>3. CASE UNCHANGED vars
    BY <1>1, <2>3 DEF vars, SaidGoodbye
  <2> QED BY <1>1, <2>1, <2>2, <2>3 DEF Next
<1>2. TypeOK /\ LockInv /\ [Next]_vars =>
        [\A a \in Agents :
           SaidGoodbye(a) => \/ SaidGoodbye(a)' \/ main'[a] = "down"
                             \/ location' = "gone"]_vars
  BY <1>1
<1> QED BY <1>2, AgentTypeCorrect, LockCorrect, PTL DEF GoodbyeStays, Spec

=============================================================================
