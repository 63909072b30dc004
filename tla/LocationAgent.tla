---------------------------- MODULE LocationAgent ----------------------------
(***************************************************************************)
(* The agent as a process: the lock it takes on its location, the beat its *)
(* control loop writes on the Location, the goodbye main says on the way   *)
(* out, and what happens to all of it when the process dies instead.       *)
(*                                                                         *)
(* Agents are the processes anybody may start for one location, launchd    *)
(* after a crash included.  The lock belongs to the open file, so it is    *)
(* fd and holding that matter; path is the file the name leads to.  A      *)
(* write to the Location replaces what is there, whatever its author read: *)
(* location_controller.go:42-46 counts on that.                            *)
(***************************************************************************)
EXTENDS Naturals

CONSTANTS
  Agents,               \* processes started for the location
  Files,                \* what may be found under the name of the lock file
  NoFile                \* nothing is, or the process has none open

ASSUME NoFileIsNone == NoFile \notin Files

VARIABLES
  main,                 \* main[a]: where main is, "down" when not running
  fd, holding,          \* the lock file a has open, whether flock was granted
  path,                 \* the file under the lock file's name
  leaving,              \* leaving[a]: the reconciler's flag
  loop, copy,           \* a's reconcile of the Location: where it is, and
                        \* the object it was handed, as it has it by now
  location              \* "new" (no beat yet), "beating", "off" (the beat
                        \* taken away again) or "gone" (deleted)

process == <<fd, holding, path>>
beat    == <<leaving, loop, copy>>
vars == <<main, fd, holding, path, leaving, loop, copy, location>>

Starting == {"opened", "locked"}
Leaving  == {"signalled", "fetch", "erase", "closing"}
Serving  == {"running"} \cup Leaving

Init ==
  /\ main    = [a \in Agents |-> "down"]
  /\ fd      = [a \in Agents |-> NoFile]
  /\ holding = [a \in Agents |-> FALSE]
  /\ path    = NoFile
  /\ leaving = [a \in Agents |-> FALSE]
  /\ loop    = [a \in Agents |-> "idle"]
  /\ copy    = [a \in Agents |-> "none"]
  /\ location = "new"

Goto(a, step) == main' = [main EXCEPT ![a] = step]

\* Mutant: the lock file is removed on the way out.
ReleaseUnlinking(a) ==
  /\ fd'      = [fd EXCEPT ![a] = NoFile]
  /\ holding' = [holding EXCEPT ![a] = FALSE]
  /\ path'    = NoFile

\* Closing the file gives the lock back; the file stays where it is.
Release(a) ==
  /\ fd'      = [fd EXCEPT ![a] = NoFile]
  /\ holding' = [holding EXCEPT ![a] = FALSE]
  /\ UNCHANGED path

\* Everything the process had in memory goes with it.
Exit(a) ==
  /\ Goto(a, "down")
  /\ Release(a)
  /\ leaving' = [leaving EXCEPT ![a] = FALSE]
  /\ loop'    = [loop EXCEPT ![a] = "idle"]
  /\ copy'    = [copy EXCEPT ![a] = "none"]

-----------------------------------------------------------------------------
(***************************************************************************)
(* Acquire and the start of main.                                          *)
(***************************************************************************)
Open(a) ==
  /\ main[a] = "down" /\ Goto(a, "opened")
  /\ \E f \in Files :
       /\ path = f \/ (path = NoFile /\ \A b \in Agents : fd[b] # f)
       /\ fd' = [fd EXCEPT ![a] = f] /\ path' = f
  /\ UNCHANGED <<holding, beat, location>>

Flock(a) ==
  /\ main[a] = "opened"
  /\ \/ /\ \A b \in Agents : ~(holding[b] /\ fd[b] = fd[a])
        /\ holding' = [holding EXCEPT ![a] = TRUE]
        /\ Goto(a, "locked") /\ UNCHANGED <<fd, path, beat>>
     \/ /\ \E b \in Agents : holding[b] /\ fd[b] = fd[a]
        /\ Exit(a)
  /\ UNCHANGED location

\* The pid is written and the manager is run; either may fail, and then main
\* exits.
Serve(a) ==
  /\ main[a] = "locked"
  /\ \/ Goto(a, "running") /\ UNCHANGED <<process, beat>>
     \/ Exit(a)
  /\ UNCHANGED location

-----------------------------------------------------------------------------
(***************************************************************************)
(* The end of main: Farewell, then Shutdown within the grace.              *)
(***************************************************************************)
Signal(a) ==
  /\ main[a] = "running" /\ Goto(a, "signalled")
  /\ UNCHANGED <<process, beat, location>>

\* Mutant: the flag is not set before the Location is fetched.
StoreLeavingLater(a) ==
  /\ main[a] = "signalled" /\ Goto(a, "fetch")
  /\ UNCHANGED <<process, leaving, loop, copy, location>>

StoreLeaving(a) ==
  /\ main[a] = "signalled" /\ Goto(a, "fetch")
  /\ leaving' = [leaving EXCEPT ![a] = TRUE]
  /\ UNCHANGED <<process, loop, copy, location>>

\* Nothing to erase, or the Get fails and main carries on.
FetchLocation(a) ==
  /\ main[a] = "fetch"
  /\ \/ location = "beating" /\ Goto(a, "erase")
     \/ Goto(a, "closing")
  /\ UNCHANGED <<process, beat, location>>

EraseBeat(a) ==
  /\ main[a] = "erase" /\ Goto(a, "closing")
  /\ \/ location # "gone" /\ location' = "off"
     \/ UNCHANGED location
  /\ UNCHANGED <<process, beat>>

ShutdownReturns(a) ==
  /\ main[a] = "closing" /\ loop[a] = "idle"
  /\ Exit(a) /\ UNCHANGED location

\* With an error, whatever the loops are doing.
ShutdownFails(a) ==
  /\ main[a] = "closing"
  /\ Exit(a) /\ UNCHANGED location

\* Mutant: main waits for the manager however long it takes.
GraceNeverElapses(a) ==
  /\ main[a] = "closing" /\ loop[a] = "idle"
  /\ Exit(a) /\ UNCHANGED location

GraceElapses(a) ==
  /\ main[a] = "closing"
  /\ Exit(a) /\ UNCHANGED location

Main(a) ==
  \/ Open(a) \/ Flock(a) \/ Serve(a)
  \/ StoreLeaving(a) \/ FetchLocation(a) \/ EraseBeat(a)
  \/ ShutdownReturns(a) \/ GraceElapses(a)

-----------------------------------------------------------------------------
(***************************************************************************)
(* The control loop: it is handed the Location, stamps it, and the deferred *)
(* UpdateStatus writes it, stamped or not.  It goes on while main closes.  *)
(***************************************************************************)
Turn(a) ==
  /\ main[a] \in Serving /\ loop[a] = "idle" /\ location # "gone"
  /\ loop' = [loop EXCEPT ![a] = "stamp"]
  /\ copy' = [copy EXCEPT ![a] = location]
  /\ UNCHANGED <<main, process, leaving, location>>

\* Mutant: the beat is stamped on the way out as well.
StampAlways(a) ==
  /\ loop[a] = "stamp"
  /\ loop' = [loop EXCEPT ![a] = "write"]
  /\ copy' = [copy EXCEPT ![a] = "beating"]
  /\ UNCHANGED <<main, process, leaving, location>>

Stamp(a) ==
  /\ loop[a] = "stamp"
  /\ loop' = [loop EXCEPT ![a] = "write"]
  /\ copy' = [copy EXCEPT ![a] = IF leaving[a] THEN @ ELSE "beating"]
  /\ UNCHANGED <<main, process, leaving, location>>

Write(a) ==
  /\ loop[a] = "write"
  /\ loop' = [loop EXCEPT ![a] = "idle"]
  /\ copy' = [copy EXCEPT ![a] = "none"]
  /\ \/ location # "gone" /\ location' = copy[a]
     \/ UNCHANGED location
  /\ UNCHANGED <<main, process, leaving>>

Loop(a) == Turn(a) \/ Stamp(a) \/ Write(a)

-----------------------------------------------------------------------------
Crash(a) == main[a] # "down" /\ Exit(a) /\ UNCHANGED location

LocationDeleted ==
  /\ location # "gone" /\ location' = "gone"
  /\ UNCHANGED <<main, process, beat>>

Next ==
  \/ \E a \in Agents :
       Main(a) \/ ShutdownFails(a) \/ Signal(a) \/ Loop(a) \/ Crash(a)
  \/ LocationDeleted

Spec == Init /\ [][Next]_vars

\* main runs on by itself, its timer included; the manager's loops may hang.
FairSpec == Spec /\ \A a \in Agents : WF_vars(Main(a))

-----------------------------------------------------------------------------
TypeOK ==
  /\ main \in [Agents -> {"down"} \cup Starting \cup Serving]
  /\ fd \in [Agents -> Files \cup {NoFile}] /\ path \in Files \cup {NoFile}
  /\ holding \in [Agents -> BOOLEAN] /\ leaving \in [Agents -> BOOLEAN]
  /\ loop \in [Agents -> {"idle", "stamp", "write"}]
  /\ copy \in [Agents -> {"none", "new", "beating", "off"}]
  /\ location \in {"new", "beating", "off", "gone"}
  /\ \A a \in Agents :
       /\ loop[a] # "idle" => main[a] \in Serving
       /\ loop[a] = "idle" <=> copy[a] = "none"
       /\ leaving[a] <=> main[a] \in Leaving \ {"signalled"}

\* lock.go:11-17: two agents never serve one location at once, in whatever
\* order they start, stop, fail and crash.
OneServes ==
  \A a, b \in Agents : main[a] \in Serving /\ main[b] \in Serving => a = b

\* Why: whoever is past Acquire holds a lock, on the one file there is.
LockInv ==
  /\ \A a \in Agents :
       /\ main[a] \in {"locked"} \cup Serving => holding[a]
       /\ holding[a] => fd[a] # NoFile
       /\ main[a] = "down" <=> fd[a] = NoFile
       /\ fd[a] # NoFile => fd[a] = path
  /\ \A a, b \in Agents : holding[a] /\ holding[b] /\ fd[a] = fd[b] => a = b

\* location_controller.go:42-46: once the goodbye is said and the loop carries no
\* older copy of the Location with a beat on it, no turn it still gets, the one
\* made as the queue is drained included, puts the beat back while the process
\* lasts.
SaidGoodbye(a) ==
  main[a] = "closing" /\ location \in {"new", "off"} /\ copy[a] # "beating"

GoodbyeStays ==
  [][\A a \in Agents :
       SaidGoodbye(a) => \/ SaidGoodbye(a)' \/ main'[a] = "down"
                         \/ location' = "gone"]_vars

\* location_controller.go:116-117: "whatever the loop does from here on, it must
\* not put the beat back": a beat that Farewell has taken away stays away until
\* the process is gone.
BeatNotPutBack ==
  [][\A a \in Agents :
       main[a] = "closing" /\ location = "off" => location' # "beating"]_vars

\* main.go:86-89: an agent told to stop dies, whatever its control loops are
\* doing, and with it the lock that would block its replacement.
SignalledDies ==
  \A a \in Agents : main[a] = "signalled" ~> main[a] = "down"

=============================================================================
