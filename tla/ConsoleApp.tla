----------------------------- MODULE ConsoleApp -----------------------------
(***************************************************************************)
(* One browser tab of the console as a whole: the session and its gate,    *)
(* the steps of the setup, the settings, the lists and the dialogs, each   *)
(* with the requests under way when the operator, a poll that was refused  *)
(* or a late answer takes the tab somewhere else.                          *)
(***************************************************************************)
EXTENDS ConsoleTargets, ConsoleProfiles, ConsoleRuleForm, ConsoleServices

vars == <<place, session, asks, targets, profiles, lists, ruleForm, services>>

TypeOK ==
  /\ SessionTypeOK /\ TargetsTypeOK /\ ProfilesTypeOK
  /\ ListsTypeOK /\ RuleFormTypeOK /\ ServicesTypeOK

Init ==
  /\ SessionInit /\ TargetsInit /\ ProfilesInit /\ ListsInit /\ RuleFormInit /\ ServicesInit

\* Whatever moves the tab, its forms go and its calls lose their listeners.
Navigate ==
  /\ Moves
  /\ place = "kong" /\ place' = "ai" => MayContinue
  /\ place = "ai" /\ place' = "done" => MaySkip
  /\ TargetsLeft(place') /\ ProfilesLeft(place')
  /\ ListsLeft(place') /\ RuleFormLeft(place') /\ ServicesLeft(place')
  /\ UNCHANGED <<saved, active, profile, data, rule, conf>>

\* The palette and an event's draft take the tab to a view themselves.
Palette(v, i) ==
  /\ PaletteTo(v, i)
  /\ TargetsLeft(v) /\ ProfilesLeft(v) /\ RuleFormLeft(v) /\ ServicesLeft(v)
  /\ UNCHANGED <<saved, active, profile, rule, conf>>

Draft(i) ==
  /\ DraftFromEvent(i)
  /\ TargetsLeft(place') /\ ProfilesLeft(place') /\ ServicesLeft(place')
  /\ UNCHANGED <<saved, active, profile, conf>>

\* Saving in the setup's AI step goes on to the last one.
AiStepSaved ==
  /\ AiSaved
  /\ TargetsLeft(place') /\ ListsLeft(place') /\ RuleFormLeft(place') /\ ServicesLeft(place')
  /\ UNCHANGED <<saved, active, data, rule, conf>>

Next ==
  \/ Navigate
  \/ \E v \in Views, i \in Items \cup {None} : Palette(v, i)
  \/ \E i \in Items : Draft(i)
  \/ AiStepSaved
  \/ Stays /\ UNCHANGED <<targets, profiles, lists, ruleForm, services>>
  \/ TargetsNext /\ UNCHANGED <<profiles, lists, ruleForm, services>>
  \/ ProfilesNext /\ UNCHANGED <<targets, lists, ruleForm, services>>
  \/ ListsNext /\ UNCHANGED <<targets, profiles, ruleForm, services>>
  \/ RuleFormNext /\ UNCHANGED <<targets, profiles, services>>
  \/ ServicesNext /\ UNCHANGED <<targets, profiles, lists, ruleForm>>

Spec == Init /\ [][Next]_vars
=============================================================================
