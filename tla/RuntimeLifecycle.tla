-------------------------- MODULE RuntimeLifecycle --------------------------
(***************************************************************************)
(* What the agent promises of a Runtime, whatever passes, failures and     *)
(* people come between: what is made for it is made in one order, only     *)
(* while it is wanted; from the moment the last pass that could make       *)
(* anything is over, it only goes; and the Runtime is dismissed when       *)
(* nothing is left.                                                        *)
(***************************************************************************)
CONSTANT Owners         \* the Runtimes

VARIABLES
  stage,                \* stage[r]: "absent", "new", "held", then "leaving"
                        \* while a pass from before the deletion is under way,
                        \* and "closing" after it
  here                  \* here[r]: what there is for r, of these:

Things == {"provision", "disks", "box"}

vars == <<stage, here>>

\* A box may be there already: the agent may have been restarted.
Init ==
  /\ stage \in [Owners -> {"absent", "held"}]
  /\ here \in [Owners -> { {}, {"provision", "box"} }]
  /\ \A r \in Owners : stage[r] = "absent" => here[r] = {}

Turn(r, from, to) == stage[r] = from /\ stage' = [stage EXCEPT ![r] = to]

Declare(r) == Turn(r, "absent", "new") /\ UNCHANGED here
Abandon(r) == Turn(r, "new", "absent") /\ UNCHANGED here
Hold(r)    == Turn(r, "new", "held") /\ UNCHANGED here
Leave(r)   == \E to \in {"leaving", "closing"} :
                Turn(r, "held", to) /\ UNCHANGED here

\* Passes end; a crash ends all of them.
Close(R) ==
  /\ \A r \in R : stage[r] = "leaving"
  /\ stage' = [r \in Owners |-> IF r \in R THEN "closing" ELSE stage[r]]
  /\ UNCHANGED here

\* The agent inside finds its Provision as soon as there is a container.
Inform(r) ==
  /\ stage[r] \in {"held", "leaving"}
  /\ here' = [here EXCEPT ![r] = @ \cup {"provision"}]
  /\ UNCHANGED stage

\* A container that cannot start is there all the same, and its pass is over.
Build(r, thing) ==
  /\ stage[r] \in {"held", "leaving"} /\ "provision" \in here[r]
  /\ here' = [here EXCEPT ![r] = @ \cup {thing}]
  /\ UNCHANGED stage \/ Turn(r, "leaving", "closing")

\* By the agent, or by hand.
Lose(r, thing) ==
  /\ here' = [here EXCEPT ![r] = @ \ {thing}]
  /\ UNCHANGED stage

Withdraw(r) ==
  /\ stage[r] = "closing" /\ here[r] \subseteq {"provision"}
  /\ here' = [here EXCEPT ![r] = {}]
  /\ UNCHANGED stage

Dismiss(r) == here[r] = {} /\ Turn(r, "closing", "absent") /\ UNCHANGED here

Next ==
  \/ \E r \in Owners :
       \/ Declare(r) \/ Abandon(r) \/ Hold(r) \/ Leave(r)
       \/ Inform(r) \/ Withdraw(r) \/ Dismiss(r)
       \/ \E thing \in {"disks", "box"} : Build(r, thing) \/ Lose(r, thing)
  \/ \E R \in SUBSET Owners : Close(R)

Spec == Init /\ [][Next]_vars

=============================================================================
