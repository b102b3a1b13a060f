---------------------------- MODULE FeedPromise ----------------------------
(***************************************************************************)
(* What an operator may rely on about what the console shows of Kong's     *)
(* configuration: it may be late, or say that Kong cannot be reached, but  *)
(* it never goes back, and nothing is shown that Kong did not hold.        *)
(***************************************************************************)
EXTENDS Integers

CONSTANTS
  Pages,        \* browser tabs with the dashboard open
  KongMayFail   \* pages may find Kong unreachable

VARIABLES
  last,    \* how many configurations Kong has held; the last one is in force
  shown,   \* shown[p]: the one page p renders; 0: none yet
  seen     \* seen[p]: the latest one p has rendered

vars == <<last, shown, seen>>

Down == -1      \* rendered when the console could not read Kong

TypeOK ==
  /\ last \in Nat \ {0}
  /\ shown \in [Pages -> {Down} \cup 0 .. last]
  /\ seen \in [Pages -> 0 .. last]

Init ==
  /\ last = 1
  /\ shown = [p \in Pages |-> 0]
  /\ seen = [p \in Pages |-> 0]

Write == last' = last + 1 /\ UNCHANGED <<shown, seen>>

Show(p) ==
  /\ \E v \in (IF KongMayFail THEN {Down} ELSE {}) \cup (seen[p] .. last) :
       /\ v # 0
       /\ shown' = [shown EXCEPT ![p] = v]
       /\ seen' = IF v = Down THEN seen ELSE [seen EXCEPT ![p] = v]
  /\ UNCHANGED last

Next == Write \/ \E p \in Pages : Show(p)

Spec == Init /\ [][Next]_vars
=============================================================================
