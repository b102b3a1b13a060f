--------------------------- MODULE ActionPromise ---------------------------
(***************************************************************************)
(* What the console promises of a change its assistant proposes: it runs   *)
(* only after the operator clicked, at most once, and not at all once it   *)
(* was closed.                                                             *)
(***************************************************************************)
EXTENDS Naturals

CONSTANTS
  Items,     \* the changes proposed
  Retried    \* those that may be tried again after an attempt failed

VARIABLES
  phase,     \* phase[a]: not yet made, open to the operator, being run, or closed
  clicked,   \* clicked[a]: the operator has clicked
  ran        \* ran[a]: how often Kong was changed by a

vars == <<phase, clicked, ran>>

TypeOK ==
  /\ phase \in [Items -> {"unmade", "open", "running", "closed"}]
  /\ clicked \in [Items -> BOOLEAN]
  /\ ran \in [Items -> 0 .. 1]

Init ==
  /\ phase = [a \in Items |-> "unmade"]
  /\ clicked = [a \in Items |-> FALSE]
  /\ ran = [a \in Items |-> 0]

Move(a, from, to) == phase[a] = from /\ phase' = [phase EXCEPT ![a] = to]

Make(a) == Move(a, "unmade", "open") /\ UNCHANGED <<clicked, ran>>

Click(a) ==
  /\ phase[a] # "unmade"
  /\ clicked' = [clicked EXCEPT ![a] = TRUE]
  /\ UNCHANGED <<phase, ran>>

Start(a) == clicked[a] /\ Move(a, "open", "running") /\ UNCHANGED <<clicked, ran>>

TakeEffect(a) ==
  /\ phase[a] = "running" /\ ran[a] = 0
  /\ ran' = [ran EXCEPT ![a] = 1]
  /\ UNCHANGED clicked
  /\ \/ UNCHANGED phase
     \/ a \in Retried /\ Move(a, "running", "open")
     \/ Move(a, "running", "closed")

\* A restart ends everything that was running.
Stop(S) ==
  /\ S # {} /\ \A a \in S : phase[a] = "running"
  /\ phase' = [a \in Items |-> IF a \in S THEN "closed" ELSE phase[a]]
  /\ UNCHANGED <<clicked, ran>>

Reopen(a) == a \in Retried /\ Move(a, "running", "open") /\ UNCHANGED <<clicked, ran>>

\* Rejected, expired, deleted, or left behind by the next message.
Close(S) ==
  /\ S # {} /\ \A a \in S : phase[a] = "open"
  /\ phase' = [a \in Items |-> IF a \in S THEN "closed" ELSE phase[a]]
  /\ UNCHANGED <<clicked, ran>>

Next ==
  \/ \E a \in Items : Make(a) \/ Click(a) \/ Start(a) \/ TakeEffect(a) \/ Reopen(a)
  \/ \E S \in SUBSET Items : Stop(S) \/ Close(S)

Spec == Init /\ [][Next]_vars
=============================================================================
