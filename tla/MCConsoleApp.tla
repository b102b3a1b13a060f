--------------------------- MODULE MCConsoleApp ---------------------------
(***************************************************************************)
(* An instance of ConsoleApp for TLC: rules that others may have         *)
(* written, those the exclusion builder can show and those it must not.    *)
(***************************************************************************)
EXTENDS ConsoleApp

CONSTANTS ruleA, ruleB, fieldQ, fieldN, upperN

\* upperN is fieldN as its owner writes it.
LowerCase == [n \in Names |-> IF n = upperN THEN fieldN ELSE n]

Out(kind, id, what) == [on |-> kind, sel |-> id, target |-> what]
Header(name) == [type |-> "header", name |-> name]
Parameter(name) == [type |-> "parameter", name |-> name]
Exclusion(cs) == [action |-> "none", detail |-> "plain", controls |-> cs]

SomeRules ==
  {SecLang, [action |-> "rate_limit", detail |-> "more", controls |-> {}]}
    \cup {Exclusion(cs) : cs \in {
       {Out("rule", ruleA, Whole), Out("tag", "crs", Whole)},
       {Out("rule", ruleA, Parameter(fieldQ)), Out("tag", "crs", Parameter(fieldQ))},
       {Out("rule", ruleA, Parameter(fieldQ)), Out("rule", ruleB, Parameter(fieldN))},
       {Out("rule", ruleA, Whole), Out("rule", ruleB, Parameter(fieldQ))},
       {Out("rule", ruleA, Header(upperN)), Out("rule", Several, Header(upperN))},
       {Out("rule", ruleA, Header(upperN)), Out("tag", "crs", Header(fieldN))},
       {Out("tag", "crs", Parameter(Comma))},
       {Out("rule", ruleA, Other)}}}
=============================================================================
