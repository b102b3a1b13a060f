------------------------ MODULE AccessPipelineProofs ------------------------
(***************************************************************************)
(* Proofs about AccessPipeline, for any number of rules, whatever they     *)
(* declare and whichever channels they arrive on.                          *)
(***************************************************************************)
EXTENDS AccessPipeline, SequenceTheorems, TLAPS

-----------------------------------------------------------------------------
(***************************************************************************)
(* What a step leaves alone and what it may change                         *)
(***************************************************************************)
\* Entry, gates and ends of lists: no rule is evaluated and no control applied.
Moves ==
  /\ UNCHANGED <<setup, pending, rc, ghosts>>
  /\ Advance \/ \E how \in Outcomes \ {"open"} : Leave(how)

Terminates(r) ==
  /\ MatchTerminal(r)
  /\ Advance \/ Leave("rule")
  /\ acted' \in {acted, acted \cup {r}}

LEMMA ReadsBool ==
  TypeOK => BodyVisible \in BOOLEAN
BY DEF TypeOK, BodyVisible

\* Every step is of one of six kinds.
LEMMA StepKinds ==
  ASSUME TypeOK, [Next]_vars
  PROVE  \/ UNCHANGED vars
         \/ outcome = "open" /\ Moves
         \/ \E r \in Rules :
              \/ \E matched \in BOOLEAN : Collect(r, matched)
              \/ ApplyCollected(r)
              \/ NoMatch(r)
              \/ Helper(r)
              \/ Terminates(r)
<1>1. CASE Enter
  BY <1>1 DEF Enter, Moves, Leave, Advance, Outcomes, ghosts
<1>2. ASSUME NEW g \in HeaderGates, HeaderGate(g) PROVE outcome = "open" /\ Moves
  BY <1>2 DEF HeaderGate, At, Pass, Moves, Leave, Advance, Outcomes, ghosts
<1>3. CASE ContentTypeGate
  BY <1>3 DEF ContentTypeGate, At, Pass, Moves, Leave, Advance, Outcomes, ghosts
<1>4. CASE BodyLimitGate
  BY <1>4 DEF BodyLimitGate, At, Pass, Moves, Leave, Advance, Outcomes, ghosts
<1>5. CASE BodyParserGate
  BY <1>5 DEF BodyParserGate, At, Pass, Moves, Leave, Advance, Outcomes, ghosts
<1>6. CASE ArgCountGate
  BY <1>6 DEF ArgCountGate, At, Pass, Moves, Leave, Advance, Outcomes, ghosts
<1>7. CASE EndList
  BY <1>7 DEF EndList, In, Moves, ghosts
<1>8. ASSUME NEW r \in Rules, Sanitize(r) PROVE Terminates(r)
  BY <1>8 DEF Sanitize, Terminates
<1>9. ASSUME NEW r \in Rules, NEW over \in BOOLEAN, Throttle(r, over) PROVE Terminates(r)
  BY <1>9 DEF Throttle, Terminates, Refuse, LetThrough
<1>10. ASSUME NEW r \in Rules, Respond(r) PROVE Terminates(r)
  BY <1>10 DEF Respond, Terminates, Refuse, LetThrough
<1> QED
  BY <1>1, <1>2, <1>3, <1>4, <1>5, <1>6, <1>7, <1>8, <1>9, <1>10 DEF Next

-----------------------------------------------------------------------------
(***************************************************************************)
(* Type correctness                                                        *)
(***************************************************************************)
LEMMA AppliedType ==
  ASSUME NEW c \in RuleControls, NEW r \in Rules, rule \in [Rules -> Shapes]
  PROVE  Applied(c, r) \in RuleControls
BY PipelineAssumption DEF Applied, RuleControls, AllShapes

LEMMA RulesInType == \A k : RulesIn(k) \subseteq Rules
BY DEF RulesIn

LEMMA AdvanceType ==
  ASSUME TypeOK, outcome = "open", Advance
  PROVE  /\ stage' \in 0 .. LastStage + 1 /\ todo' \subseteq Rules /\ outcome' \in Outcomes
         /\ outcome' = "open" => stage' <= LastStage
BY RulesInType DEF TypeOK, Advance, LastStage, Outcomes

LEMMA LeaveType ==
  ASSUME TypeOK, NEW how \in Outcomes \ {"open"}, Leave(how)
  PROVE  /\ stage' \in 0 .. LastStage + 1 /\ todo' \subseteq Rules /\ outcome' \in Outcomes
         /\ outcome' = "open" => stage' <= LastStage
BY DEF TypeOK, Leave

\* The body flags are only ever assigned truth values.
LEMMA BodyFlags ==
  ASSUME TypeOK, [Next]_vars
  PROVE  inspected' \in BOOLEAN /\ uninspected' \in BOOLEAN
<1> inspected \in BOOLEAN /\ uninspected \in BOOLEAN BY DEF TypeOK
<1>1. CASE Enter BY <1>1 DEF Enter
<1>2. ASSUME NEW g \in HeaderGates, HeaderGate(g) PROVE inspected' \in BOOLEAN /\ uninspected' \in BOOLEAN
  BY <1>2 DEF HeaderGate
<1>3. CASE ContentTypeGate BY <1>3 DEF ContentTypeGate
<1>4. CASE BodyLimitGate BY <1>4 DEF BodyLimitGate
<1>5. CASE BodyParserGate BY <1>5 DEF BodyParserGate
<1>6. CASE ArgCountGate BY <1>6 DEF ArgCountGate
<1>7. CASE EndList BY <1>7 DEF EndList
<1>8. ASSUME NEW r \in Rules,
             \/ \E matched \in BOOLEAN : Collect(r, matched)
             \/ ApplyCollected(r) \/ NoMatch(r) \/ Helper(r) \/ MatchTerminal(r)
      PROVE  inspected' \in BOOLEAN /\ uninspected' \in BOOLEAN
  BY <1>8 DEF Collect, ApplyCollected, NoMatch, Helper, MatchTerminal, Evaluate
<1>9. CASE UNCHANGED vars BY <1>9 DEF vars
<1> QED
  BY <1>1, <1>2, <1>3, <1>4, <1>5, <1>6, <1>7, <1>8, <1>9
     DEF Next, Sanitize, Throttle, Respond

LEMMA TypeStep ==
  ASSUME TypeOK, [Next]_vars
  PROVE  TypeOK'
<1> USE DEF TypeOK
<1>1. inspected' \in BOOLEAN /\ uninspected' \in BOOLEAN BY BodyFlags
<1>2. CASE UNCHANGED vars BY <1>2 DEF vars
<1>3. CASE outcome = "open" /\ Moves
  <2>1. UNCHANGED <<setup, pending, rc, ghosts>> BY <1>3 DEF Moves
  <2>2. /\ stage' \in 0 .. LastStage + 1 /\ todo' \subseteq Rules /\ outcome' \in Outcomes
        /\ outcome' = "open" => stage' <= LastStage
    BY <1>3, AdvanceType, LeaveType DEF Moves
  <2> QED BY <1>1, <2>1, <2>2 DEF setup, ghosts
<1>4. ASSUME NEW r \in Rules, NEW matched \in BOOLEAN, Collect(r, matched) PROVE TypeOK'
  BY <1>1, <1>4 DEF Collect, Evaluate, setup
<1>5. ASSUME NEW r \in Rules, ApplyCollected(r) PROVE TypeOK'
  <2>1. rc' \in RuleControls /\ applied' \in Seq(Rules)
    BY <1>5, AppliedType DEF ApplyCollected, Apply
  <2> QED BY <1>1, <1>5, <2>1 DEF ApplyCollected, setup
<1>6. ASSUME NEW r \in Rules, NoMatch(r) PROVE TypeOK'
  BY <1>1, <1>6 DEF NoMatch, Evaluate, setup
<1>7. ASSUME NEW r \in Rules, Helper(r) PROVE TypeOK'
  <2>1. rc' \in RuleControls /\ applied' \in Seq(Rules)
    BY <1>7, AppliedType DEF Helper, Apply
  <2> QED BY <1>1, <1>7, <2>1 DEF Helper, Evaluate, setup
<1>8. ASSUME NEW r \in Rules, Terminates(r) PROVE TypeOK'
  <2>1. rc' \in RuleControls /\ applied' \in Seq(Rules)
    BY <1>8, AppliedType DEF Terminates, MatchTerminal, Apply
  <2>2. outcome = "open" BY <1>8 DEF Terminates, MatchTerminal, In
  <2>3. /\ stage' \in 0 .. LastStage + 1 /\ todo' \subseteq Rules /\ outcome' \in Outcomes
        /\ outcome' = "open" => stage' <= LastStage
    BY <1>8, <2>2, AdvanceType, LeaveType DEF Terminates, Outcomes
  <2>4. evaluated' \subseteq Rules /\ acted' \subseteq Rules
    BY <1>8 DEF Terminates, MatchTerminal, Evaluate
  <2>5. UNCHANGED <<setup, pending>> BY <1>8 DEF Terminates, MatchTerminal
  <2> QED BY <1>1, <2>1, <2>3, <2>4, <2>5 DEF setup
<1> QED BY <1>2, <1>3, <1>4, <1>5, <1>6, <1>7, <1>8, StepKinds

LEMMA TypeInit == Init => TypeOK
<1> SUFFICES ASSUME Init PROVE TypeOK
  OBVIOUS
<1>1. rc \in RuleControls BY DEF Init, NoControls, RuleControls
<1>2. applied = <<>> BY DEF Init
<1>3. applied \in Seq(Rules) BY <1>2, EmptySeq
<1>4. stage \in 0 .. LastStage + 1 /\ stage <= LastStage
  BY DEF Init, LastStage
<1>5. /\ rule \in [Rules -> Shapes] /\ channel \in [Rules -> Channels]
      /\ blocking \in BOOLEAN /\ body \in Bodies /\ failing \in Failures
      /\ uninspected \in BOOLEAN /\ inspected \in BOOLEAN /\ outcome \in Outcomes
      /\ todo \subseteq Rules /\ pending \subseteq Rules
      /\ evaluated \subseteq Rules /\ acted \subseteq Rules
  BY DEF Init, Outcomes
<1> QED BY <1>1, <1>3, <1>4, <1>5 DEF TypeOK

\* The request state is well formed at every step of the access phase.
THEOREM TypeCorrect == Spec => []TypeOK
BY TypeInit, TypeStep, PTL DEF Spec

-----------------------------------------------------------------------------
(***************************************************************************)
(* The engine switch                                                       *)
(***************************************************************************)
\* A step either leaves the controls and their history alone, or appends one
\* rule to the history and applies its controls.
LEMMA ControlSteps ==
  ASSUME TypeOK, [Next]_vars
  PROVE  /\ UNCHANGED <<rule, channel, blocking, body, failing>>
         /\ UNCHANGED <<rc, applied>> \/ \E r \in Rules : Apply(r)
<1>1. CASE UNCHANGED vars BY <1>1 DEF vars
<1>2. CASE Moves BY <1>2 DEF Moves, setup, ghosts
<1>3. ASSUME NEW r \in Rules,
             \/ \E matched \in BOOLEAN : Collect(r, matched)
             \/ ApplyCollected(r) \/ NoMatch(r) \/ Helper(r) \/ Terminates(r)
      PROVE  /\ UNCHANGED <<rule, channel, blocking, body, failing>>
             /\ UNCHANGED <<rc, applied>> \/ Apply(r)
  BY <1>3 DEF Collect, ApplyCollected, NoMatch, Helper, Terminates, MatchTerminal, setup
<1> QED BY <1>1, <1>2, <1>3, StepKinds

\* The last declaration of a directive, after one more rule.
LEMMA LastsAppend ==
  ASSUME NEW a, NEW b, NEW r \in Rules,
         applied \in Seq(Rules), applied' = Append(applied, r), rule' = rule
  PROVE  Lasts(a, b)' <=>
           (a \in rule[r].controls \/ (Lasts(a, b) /\ b \notin rule[r].controls))
<1> DEFINE n == Len(applied)
           Old(i, d) == d \in rule[applied[i]].controls
           New(i, d) == d \in rule[applied'[i]].controls
<1>1. n \in Nat /\ DOMAIN applied = 1 .. n /\ DOMAIN applied' = 1 .. n + 1
  OBVIOUS
<1>2. applied'[n + 1] = r /\ \A i \in 1 .. n : applied'[i] = applied[i]
  OBVIOUS
<1>3. Lasts(a, b)' <=>
        \E i \in 1 .. n + 1 : New(i, a) /\ \A j \in 1 .. n + 1 : j > i => ~New(j, b)
  BY <1>1 DEF Lasts, Declares
<1>4. Lasts(a, b) <=>
        \E i \in 1 .. n : Old(i, a) /\ \A j \in 1 .. n : j > i => ~Old(j, b)
  BY <1>1 DEF Lasts, Declares
<1>5. \A d : (New(n + 1, d) <=> d \in rule[r].controls)
              /\ \A i \in 1 .. n : New(i, d) <=> Old(i, d)
  BY <1>2
<1>6. n + 1 \in 1 .. n + 1 /\ \A i \in 1 .. n + 1 : i = n + 1 \/ (i \in 1 .. n /\ n + 1 > i)
  BY <1>1
<1>7. \A i \in 1 .. n : i \in 1 .. n + 1 /\ n + 1 > i
  BY <1>1
<1>8. \A j \in 1 .. n + 1 : ~(j > n + 1)
  BY <1>1
<1> HIDE DEF n, Old, New
<1>9. ASSUME a \in rule[r].controls PROVE Lasts(a, b)'
  BY <1>3, <1>5, <1>6, <1>8, <1>9
<1>10. ASSUME Lasts(a, b), b \notin rule[r].controls PROVE Lasts(a, b)'
  <2>1. PICK i \in 1 .. n : Old(i, a) /\ \A j \in 1 .. n : j > i => ~Old(j, b)
    BY <1>4, <1>10
  <2>2. i \in 1 .. n + 1 /\ New(i, a) BY <1>5, <1>7, <2>1
  <2>3. ASSUME NEW j \in 1 .. n + 1, j > i PROVE ~New(j, b)
    <3>1. CASE j = n + 1 BY <1>5, <1>10, <3>1
    <3>2. CASE j \in 1 .. n BY <1>5, <2>1, <2>3, <3>2
    <3> QED BY <1>6, <3>1, <3>2
  <2> QED BY <1>3, <2>2, <2>3
<1>11. ASSUME Lasts(a, b)', a \notin rule[r].controls
       PROVE  Lasts(a, b) /\ b \notin rule[r].controls
  <2>1. PICK i \in 1 .. n + 1 : New(i, a) /\ \A j \in 1 .. n + 1 : j > i => ~New(j, b)
    BY <1>3, <1>11
  <2>2. i \in 1 .. n /\ n + 1 > i BY <1>5, <1>6, <1>11, <2>1
  <2>3. b \notin rule[r].controls BY <1>5, <1>6, <2>1, <2>2
  <2>4. Old(i, a) BY <1>5, <2>1, <2>2
  <2>5. ASSUME NEW j \in 1 .. n, j > i PROVE ~Old(j, b)
    BY <1>5, <1>7, <2>1, <2>5
  <2> QED BY <1>4, <2>2, <2>3, <2>4, <2>5
<1> QED BY <1>9, <1>10, <1>11

LEMMA TurnedOffAppend ==
  ASSUME NEW r \in Rules,
         applied \in Seq(Rules), applied' = Append(applied, r), rule' = rule
  PROVE  TurnedOff' <=> TurnedOff \/ "engine_off" \in rule[r].controls
<1> DEFINE n == Len(applied)
<1>1. n \in Nat /\ DOMAIN applied = 1 .. n /\ DOMAIN applied' = 1 .. n + 1
  OBVIOUS
<1>2. applied'[n + 1] = r /\ \A i \in 1 .. n : applied'[i] = applied[i]
  OBVIOUS
<1>3. TurnedOff' <=> \E i \in 1 .. n + 1 : "engine_off" \in rule[applied'[i]].controls
  BY <1>1 DEF TurnedOff, Declares
<1>4. TurnedOff <=> \E i \in 1 .. n : "engine_off" \in rule[applied[i]].controls
  BY <1>1 DEF TurnedOff, Declares
<1>5. \A i \in 1 .. n + 1 : i \in 1 .. n \/ i = n + 1
  BY <1>1
<1> QED BY <1>1, <1>2, <1>3, <1>4, <1>5

\* A rule may not carry both sides of the switch.
LEMMA OneSide ==
  ASSUME TypeOK, NEW r \in Rules
  PROVE  ~ ("engine_on" \in rule[r].controls /\ "detection_only" \in rule[r].controls)
BY PipelineAssumption DEF TypeOK

LEMMA SwitchApplied ==
  ASSUME TypeOK, EngineSwitch, NEW r \in Rules, Apply(r), rule' = rule
  PROVE  EngineSwitch'
<1> DEFINE ctl == rule[r].controls
<1>1. applied \in Seq(Rules) /\ applied' = Append(applied, r)
  BY DEF TypeOK, Apply
<1>2. /\ rc'.off <=> rc.off \/ "engine_off" \in ctl
      /\ rc'.observe <=> "detection_only" \in ctl \/ (rc.observe /\ "engine_on" \notin ctl)
      /\ rc'.forced <=> ~rc'.off /\ ("engine_on" \in ctl
                                       \/ (rc.forced /\ "detection_only" \notin ctl))
  BY DEF Apply, Applied
<1>3. TurnedOff' <=> TurnedOff \/ "engine_off" \in ctl
  BY <1>1, TurnedOffAppend
<1>4. DetectionOnly' <=>
        "detection_only" \in ctl \/ (DetectionOnly /\ "engine_on" \notin ctl)
  BY <1>1, LastsAppend DEF DetectionOnly
<1>5. ForcedOn' <=>
        /\ "engine_on" \in ctl
             \/ (Lasts("engine_on", "detection_only") /\ "detection_only" \notin ctl)
        /\ ~TurnedOff'
  BY <1>1, LastsAppend DEF ForcedOn
<1>6. rc.forced <=> Lasts("engine_on", "detection_only") /\ ~TurnedOff
  BY DEF EngineSwitch, ForcedOn
<1> HIDE DEF ctl
<1> QED BY <1>2, <1>3, <1>4, <1>5, <1>6 DEF EngineSwitch

LEMMA SwitchStep ==
  ASSUME TypeOK, EngineSwitch, [Next]_vars
  PROVE  EngineSwitch'
<1>1. CASE UNCHANGED <<rc, applied>>
  BY <1>1, ControlSteps
     DEF EngineSwitch, TurnedOff, DetectionOnly, ForcedOn, Lasts, Declares
<1>2. ASSUME NEW r \in Rules, Apply(r) PROVE EngineSwitch'
  BY <1>2, ControlSteps, SwitchApplied
<1> QED BY <1>1, <1>2, ControlSteps

LEMMA SwitchInit == Init => EngineSwitch
BY DEF Init, NoControls, EngineSwitch, TurnedOff, DetectionOnly, ForcedOn, Lasts

\* The three engine flags always say what the controls applied so far come to:
\* the last of detection_only and engine_on wins, engine_off over both.
THEOREM SwitchCorrect == Spec => []EngineSwitch
<1>1. TypeOK /\ EngineSwitch /\ [Next]_vars => (TypeOK /\ EngineSwitch)'
  BY TypeStep, SwitchStep
<1> QED BY TypeInit, SwitchInit, <1>1, PTL DEF Spec

\* Once an engine_off was applied, no step evaluates a rule or carries out an action.
LEMMA OffStep ==
  ASSUME TypeOK, EngineSwitch, [Next]_vars
  PROVE  TurnedOff => evaluated' = evaluated /\ acted' = acted
<1> SUFFICES ASSUME TurnedOff PROVE evaluated' = evaluated /\ acted' = acted
  OBVIOUS
<1>1. Stopped BY DEF EngineSwitch, Stopped
<1>2. CASE UNCHANGED vars BY <1>2 DEF vars
<1>3. CASE Moves BY <1>3 DEF Moves, ghosts
<1>4. ASSUME NEW r \in Rules, ApplyCollected(r) PROVE evaluated' = evaluated /\ acted' = acted
  BY <1>4 DEF ApplyCollected
<1>5. ASSUME NEW r \in Rules,
             \/ \E matched \in BOOLEAN : Collect(r, matched)
             \/ NoMatch(r) \/ Helper(r) \/ Terminates(r)
      PROVE  FALSE
  BY <1>1, <1>5 DEF Collect, NoMatch, Helper, Terminates, MatchTerminal
<1> QED BY <1>2, <1>3, <1>4, <1>5, StepKinds

\* engine_off is final for every list after the pass that applied it.
THEOREM OffHolds == Spec => OffIsFinal
<1>1. TypeOK /\ EngineSwitch /\ [Next]_vars =>
        [TurnedOff => evaluated' = evaluated /\ acted' = acted]_vars
  BY OffStep
<1> QED BY TypeCorrect, SwitchCorrect, <1>1, PTL DEF Spec, OffIsFinal

-----------------------------------------------------------------------------
(***************************************************************************)
(* What a rule's action answers to                                         *)
(***************************************************************************)
\* remove_rule controls add up.
Removals == \A i \in DOMAIN applied : rule[applied[i]].removes \subseteq rc.removed

LEMMA RemovalsStep ==
  ASSUME TypeOK, Removals, [Next]_vars
  PROVE  Removals'
<1>1. CASE UNCHANGED <<rc, applied>>
  BY <1>1, ControlSteps DEF Removals
<1>2. ASSUME NEW r \in Rules, Apply(r) PROVE Removals'
  <2>1. applied \in Seq(Rules) /\ applied' = Append(applied, r) /\ rule' = rule
    BY <1>2, ControlSteps DEF TypeOK, Apply
  <2>2. rc'.removed = rc.removed \cup rule[r].removes
    BY <1>2 DEF Apply, Applied
  <2>3. \A i \in DOMAIN applied' : applied'[i] = r \/ (i \in DOMAIN applied /\ applied'[i] = applied[i])
    BY <2>1
  <2> QED BY <2>1, <2>2, <2>3 DEF Removals
<1> QED BY <1>1, <1>2, ControlSteps

\* On and DetectionOnly are never both set.
Exclusive == ~(rc.forced /\ rc.observe)

LEMMA ExclusiveStep ==
  ASSUME TypeOK, Exclusive, [Next]_vars
  PROVE  Exclusive'
<1>1. CASE UNCHANGED <<rc, applied>>
  BY <1>1 DEF Exclusive
<1>2. ASSUME NEW r \in Rules, Apply(r) PROVE Exclusive'
  <2> DEFINE ctl == rule[r].controls
  <2>1. ~ ("engine_on" \in ctl /\ "detection_only" \in ctl) BY OneSide
  <2>2. /\ rc'.observe <=> "detection_only" \in ctl \/ (rc.observe /\ "engine_on" \notin ctl)
        /\ rc'.forced => "engine_on" \in ctl \/ (rc.forced /\ "detection_only" \notin ctl)
    BY <1>2 DEF Apply, Applied
  <2> HIDE DEF ctl
  <2> QED BY <2>1, <2>2 DEF Exclusive
<1> QED BY <1>1, <1>2, ControlSteps

LEMMA ActStep ==
  ASSUME TypeOK, EngineSwitch, Removals, Exclusive, [Next]_vars,
         NEW r \in acted' \ acted
  PROVE  /\ ~DetectionOnly'
         /\ outcome' = "rule" => (blocking \/ ForcedOn')
         /\ \A i \in DOMAIN applied : r \notin rule[applied[i]].removes
<1> EngineSwitch' BY SwitchStep
<1>1. ASSUME NEW s \in Rules, MatchTerminal(s), acted' = acted \cup {s}
      PROVE  r = s /\ CanMatch(s) /\ rc' = InForce(s)
  BY <1>1 DEF MatchTerminal, Apply, InForce
<1>2. ASSUME NEW s \in Rules, Sanitize(s)
      PROVE  acted' = acted \cup {s} /\ ~InForce(s).observe /\ outcome' # "rule"
  BY <1>2 DEF Sanitize, Advance
<1>3. ASSUME NEW s \in Rules, \/ \E over \in BOOLEAN : Throttle(s, over)
                              \/ Respond(s)
      PROVE  acted' = acted \cup {s} /\ Enforced(InForce(s))
  BY <1>3 DEF Throttle, Respond, Refuse, LetThrough
<1>4. \E s \in Rules :
        \/ Sanitize(s) \/ \E over \in BOOLEAN : Throttle(s, over)
        \/ Respond(s)
  BY DEF Next, Enter, HeaderGate, ContentTypeGate, BodyLimitGate, BodyParserGate,
         ArgCountGate, EndList, Collect, ApplyCollected, NoMatch, Helper, ghosts, vars
<1>5. PICK s \in Rules :
        \/ Sanitize(s) \/ \E over \in BOOLEAN : Throttle(s, over)
        \/ Respond(s)
  BY <1>4
<1>6. MatchTerminal(s) BY <1>5 DEF Sanitize, Throttle, Respond
<1>7. r = s /\ CanMatch(s) /\ rc' = InForce(s) BY <1>1, <1>2, <1>3, <1>5, <1>6
<1>8. r \notin rc.removed BY <1>7 DEF CanMatch
<1>9. ~InForce(r).observe /\ (outcome' = "rule" => Enforced(InForce(r)))
  <2>1. CASE Sanitize(s) BY <1>2, <1>7, <2>1
  <2>2. CASE ~Sanitize(s)
    <3>1. Enforced(InForce(r)) BY <1>3, <1>5, <1>7, <2>2
    <3>2. ~(rc'.forced /\ rc'.observe) BY ExclusiveStep DEF Exclusive
    <3> QED BY <1>7, <3>1, <3>2 DEF Enforced
  <2> QED BY <2>1, <2>2
<1>10. ~DetectionOnly' BY <1>7, <1>9 DEF EngineSwitch
<1>11. outcome' = "rule" => (blocking \/ ForcedOn')
  BY <1>7, <1>9 DEF EngineSwitch, Enforced
<1>12. \A i \in DOMAIN applied : r \notin rule[applied[i]].removes
  BY <1>8 DEF Removals
<1> QED BY <1>10, <1>11, <1>12

\* No action goes against the controls in force, its own rule's included, and an
\* excluded rule never acts.
THEOREM ActsCorrect == Spec => ActsAsRuled
<1> DEFINE Inv == TypeOK /\ EngineSwitch /\ Removals /\ Exclusive
<1>1. Init => Inv
  BY TypeInit, SwitchInit DEF Init, Removals, Exclusive, NoControls
<1>2. Inv /\ [Next]_vars => Inv'
  BY TypeStep, SwitchStep, RemovalsStep, ExclusiveStep
<1>3. Inv /\ [Next]_vars =>
        [\A r \in acted' \ acted :
           /\ ~DetectionOnly'
           /\ outcome' = "rule" => (blocking \/ ForcedOn')
           /\ \A i \in DOMAIN applied : r \notin rule[applied[i]].removes]_vars
  BY ActStep
<1> HIDE DEF Inv
<1> QED BY <1>1, <1>2, <1>3, PTL DEF Spec, ActsAsRuled

-----------------------------------------------------------------------------
(***************************************************************************)
(* The order of the lists                                                  *)
(***************************************************************************)
LEMMA PipelineOrder ==
  /\ Pipeline[1] = "method" /\ Pipeline[2] = "path" /\ Pipeline[3] = "headers"
  /\ Pipeline[4] = "charset"
  /\ Pipeline[5] = "custom_prebody" /\ Pipeline[6] = "global_prebody"
  /\ Pipeline[7] = "local_prebody"
  /\ Pipeline[8] = "content_type" /\ Pipeline[9] = "body_limit"
  /\ Pipeline[10] = "body_parser" /\ Pipeline[11] = "arg_count"
  /\ Pipeline[12] = "custom_controls" /\ Pipeline[13] = "custom_detection"
  /\ Pipeline[14] = "global_controls" /\ Pipeline[15] = "global_detection"
  /\ Pipeline[16] = "local" /\ Pipeline[17] = "crs"
BY DEF Pipeline

LEMMA SeventeenStages ==
  \A k \in 1 .. LastStage : k \in {1, 2, 3, 4, 5, 6, 7, 8, 9, 10, 11, 12, 13, 14, 15, 16, 17}
BY DEF LastStage

\* Where each list and each gate is.
LEMMA Places ==
  ASSUME NEW k \in 1 .. LastStage
  PROVE  /\ Pipeline[k] \in HeaderGates => k \in 1 .. 4
         /\ Pipeline[k] = "custom_prebody" <=> k = 5
         /\ Pipeline[k] = "global_prebody" <=> k = 6
         /\ Pipeline[k] = "local_prebody" <=> k = 7
         /\ Pipeline[k] = "content_type" <=> k = 8
         /\ Pipeline[k] = "body_limit" <=> k = 9
         /\ Pipeline[k] = "body_parser" <=> k = 10
         /\ Pipeline[k] = "arg_count" <=> k = 11
         /\ Pipeline[k] = "custom_controls" <=> k = 12
         /\ Pipeline[k] = "custom_detection" <=> k = 13
         /\ Pipeline[k] = "global_controls" <=> k = 14
         /\ Pipeline[k] = "global_detection" <=> k = 15
         /\ Pipeline[k] = "local" <=> k = 16
         /\ Pipeline[k] = "crs" <=> k = 17
         /\ Pipeline[k] \in Passes <=> k \in {5, 6, 7, 12, 14}
         /\ Pipeline[k] \in Loops <=> k \in {13, 15, 16, 17}
BY PipelineOrder, SeventeenStages DEF HeaderGates, Passes, Prebody, Loops

\* A rule is filed in one list.
LEMMA FiledOnce ==
  ASSUME NEW r \in Rules, NEW j, NEW k, r \in RulesIn(j), r \in RulesIn(k)
  PROVE  j = k
<1>1. /\ j \in 1 .. LastStage /\ Pipeline[j] \in Lists(r)
      /\ k \in 1 .. LastStage /\ Pipeline[k] \in Lists(r)
  BY DEF RulesIn
<1>2. Pipeline[j] = Pipeline[k]
  BY <1>1 DEF Lists
<1>3. PICK n \in {"custom_prebody", "custom_controls", "custom_detection", "global_prebody",
                  "global_controls", "global_detection", "local_prebody", "local", "crs"} :
        Pipeline[j] = n
  BY <1>1 DEF Lists
<1>4. j \in 1 .. LastStage /\ k \in 1 .. LastStage BY <1>1
<1>5. /\ n = "custom_prebody" => j = 5 /\ k = 5
      /\ n = "global_prebody" => j = 6 /\ k = 6
      /\ n = "local_prebody" => j = 7 /\ k = 7
      /\ n = "custom_controls" => j = 12 /\ k = 12
      /\ n = "custom_detection" => j = 13 /\ k = 13
      /\ n = "global_controls" => j = 14 /\ k = 14
      /\ n = "global_detection" => j = 15 /\ k = 15
      /\ n = "local" => j = 16 /\ k = 16
      /\ n = "crs" => j = 17 /\ k = 17
  BY <1>2, <1>3, <1>4, Places
<1> QED BY <1>3, <1>5

\* The lists do not change while the request is evaluated.
LEMMA SameLists ==
  ASSUME UNCHANGED setup
  PROVE  \A k : RulesIn(k)' = RulesIn(k)
BY DEF setup, RulesIn, Lists, IsPrebodyControl, IsControlOnly, HasControls

LEMMA NextList ==
  ASSUME UNCHANGED setup
  PROVE  RulesIn(stage)' = {r \in Rules : stage' \in 1 .. LastStage /\ Pipeline[stage'] \in Lists(r)}
BY DEF setup, RulesIn, Lists, IsPrebodyControl, IsControlOnly, HasControls

LEMMA NoListOutside ==
  \A k : k \notin 1 .. LastStage => RulesIn(k) = {}
BY DEF RulesIn

-----------------------------------------------------------------------------
(***************************************************************************)
(* Each rule once, exclusions first                                        *)
(***************************************************************************)
\* What waits is of the current list, what was evaluated of a list reached, and
\* matches are only collected in a pass.
Filing ==
  /\ todo \subseteq RulesIn(stage)
  /\ pending \subseteq RulesIn(stage)
  /\ pending # {} => stage \in 1 .. LastStage /\ Pipeline[stage] \in Passes
  /\ \A r \in evaluated : \E k \in 1 .. LastStage : k <= stage /\ r \in RulesIn(k)

\* A pass is left, without engine_off, once all its rules are evaluated.
PassesDone ==
  ~rc.off =>
    \A k \in 1 .. LastStage : k <= stage /\ Pipeline[k] \in Passes =>
      \A s \in RulesIn(k) : s \in evaluated \/ (k = stage /\ s \in todo)

\* A list is left with nothing pending, a pass with nothing to do.
LEMMA Leaves ==
  ASSUME TypeOK, Filing, [Next]_vars, stage' # stage
  PROVE  /\ pending = {}
         /\ stage \in 1 .. LastStage /\ Pipeline[stage] \in Passes => todo = {} \/ rc.off
<1>1. CASE stage = 0
  BY <1>1, NoListOutside DEF Filing, LastStage
<1>2. CASE stage \in 1 .. LastStage /\ Pipeline[stage] \notin Passes
  BY <1>2 DEF Filing
<1>3. CASE EndList
  BY <1>3 DEF EndList, Stopped
<1>4. ASSUME stage \in 1 .. LastStage, Pipeline[stage] \in Passes PROVE EndList
  <2>1. /\ Pipeline[stage] \notin HeaderGates \cup BodyGates
        /\ Pipeline[stage] \notin Loops
    BY <1>4 DEF Passes, Prebody, Loops, HeaderGates, BodyGates
  <2>2. ~ \E g \in HeaderGates : HeaderGate(g)
    BY <2>1 DEF HeaderGate, At
  <2>3. ~ContentTypeGate /\ ~BodyLimitGate /\ ~BodyParserGate /\ ~ArgCountGate
    BY <2>1 DEF ContentTypeGate, BodyLimitGate, BodyParserGate, ArgCountGate, At, BodyGates
  <2>4. ~Enter /\ ~UNCHANGED vars
    BY <1>4 DEF Enter, vars, LastStage
  <2>5. ASSUME NEW r \in Rules PROVE ~NoMatch(r) /\ ~Helper(r) /\ ~MatchTerminal(r)
    BY <2>1 DEF NoMatch, Helper, MatchTerminal, In
  <2>6. ASSUME NEW r \in Rules
        PROVE  ~ApplyCollected(r) /\ \A matched \in BOOLEAN : ~Collect(r, matched)
    BY DEF ApplyCollected, Collect
  <2> QED
    BY <2>2, <2>3, <2>4, <2>5, <2>6 DEF Next, Sanitize, Throttle, Respond
<1>5. outcome = "open"
  BY DEF Next, vars, Enter, HeaderGate, ContentTypeGate, BodyLimitGate, BodyParserGate,
         ArgCountGate, EndList, Collect, ApplyCollected, NoMatch, Helper, Sanitize, Throttle,
         Respond, MatchTerminal, At, In
<1>6. stage = 0 \/ stage \in 1 .. LastStage
  BY <1>5 DEF TypeOK, LastStage
<1> QED BY <1>1, <1>2, <1>3, <1>4, <1>6

\* How a step moves through the lists: it leaves everything where it is, it goes on to
\* the next list, or it takes one rule out of the current one.
LEMMA ListSteps ==
  ASSUME TypeOK, [Next]_vars
  PROVE  /\ UNCHANGED setup
         /\ \/ /\ UNCHANGED <<stage, todo>>
               /\ pending' \subseteq pending
               /\ \/ evaluated' = evaluated
                  \/ \E r \in todo : evaluated' = evaluated \cup {r} /\ outcome' # "open"
            \/ /\ stage' = stage + 1 /\ stage \in 0 .. LastStage
               /\ todo' = RulesIn(stage + 1) /\ pending' = pending
               /\ outcome = "open"
               /\ \/ evaluated' = evaluated
                  \/ \E r \in todo : evaluated' = evaluated \cup {r}
            \/ /\ stage' = stage /\ outcome = "open"
               /\ \E r \in todo :
                    /\ todo' = todo \ {r}
                    /\ evaluated' = evaluated \cup {r}
                    /\ \/ pending' = pending
                       \/ /\ pending' = pending \cup {r} /\ stage \in 1 .. LastStage
                          /\ Pipeline[stage] \in Passes
<1>1. CASE UNCHANGED vars BY <1>1 DEF vars, setup
<1>2. CASE outcome = "open" /\ Moves
  BY <1>2 DEF Moves, Leave, Advance, ghosts, TypeOK, setup, LastStage
<1>3. ASSUME NEW r \in Rules, NEW matched \in BOOLEAN, Collect(r, matched)
      PROVE  /\ UNCHANGED setup /\ stage' = stage /\ outcome = "open"
             /\ r \in todo /\ todo' = todo \ {r} /\ evaluated' = evaluated \cup {r}
             /\ \/ pending' = pending
                \/ /\ pending' = pending \cup {r} /\ stage \in 1 .. LastStage
                   /\ Pipeline[stage] \in Passes
  BY <1>3 DEF Collect, Evaluate, IsFirst, In
<1>4. ASSUME NEW r \in Rules, ApplyCollected(r)
      PROVE  /\ UNCHANGED <<stage, todo, evaluated>> /\ UNCHANGED setup
             /\ pending' \subseteq pending
  BY <1>4 DEF ApplyCollected, setup
<1>5. ASSUME NEW r \in Rules, NoMatch(r) \/ Helper(r)
      PROVE  /\ UNCHANGED setup /\ stage' = stage /\ outcome = "open" /\ pending' = pending
             /\ r \in todo /\ todo' = todo \ {r} /\ evaluated' = evaluated \cup {r}
  BY <1>5 DEF NoMatch, Helper, Evaluate, IsFirst, In
<1>6. ASSUME NEW r \in Rules, Terminates(r)
      PROVE  /\ UNCHANGED setup /\ pending' = pending
             /\ r \in todo /\ evaluated' = evaluated \cup {r}
             /\ \/ /\ stage' = stage + 1 /\ stage \in 0 .. LastStage
                   /\ todo' = RulesIn(stage + 1) /\ outcome = "open"
                \/ UNCHANGED <<stage, todo>> /\ outcome' # "open"
  BY <1>6 DEF Terminates, MatchTerminal, Evaluate, IsFirst, In, Advance, Leave, LastStage
<1> QED BY <1>1, <1>2, <1>3, <1>4, <1>5, <1>6, StepKinds

LEMMA FilingStep ==
  ASSUME TypeOK, Filing, [Next]_vars
  PROVE  Filing'
<1>1. UNCHANGED setup BY ListSteps
<1>2. \A k : RulesIn(k)' = RulesIn(k) BY <1>1, SameLists
<1>3. stage \in Nat BY DEF TypeOK
<1>4. CASE UNCHANGED <<stage, todo>> /\ pending' \subseteq pending
  <2>1. \A r \in evaluated' : r \in evaluated \/ r \in todo
    BY <1>3, <1>4, ListSteps
  <2>2. todo # {} => stage \in 1 .. LastStage
    BY NoListOutside DEF Filing
  <2> QED BY <1>2, <1>3, <1>4, <2>1, <2>2 DEF Filing
<1>5. CASE /\ stage' = stage + 1 /\ stage \in 0 .. LastStage
           /\ todo' = RulesIn(stage + 1) /\ pending' = pending
  <2>1. pending' = {} BY <1>3, <1>5, Leaves
  <2>2. todo' \subseteq RulesIn(stage)'
    BY <1>1, <1>5, NextList DEF RulesIn
  <2>3. \A r \in evaluated' : r \in evaluated \/ r \in todo
    BY <1>3, <1>5, ListSteps
  <2>4. \A r \in todo : stage \in 1 .. LastStage /\ r \in RulesIn(stage)
    BY NoListOutside DEF Filing
  <2>5. \A r \in evaluated' : \E k \in 1 .. LastStage : k <= stage' /\ r \in RulesIn(k)
    BY <1>3, <1>5, <2>3, <2>4 DEF Filing
  <2> QED BY <1>2, <2>1, <2>2, <2>5 DEF Filing
<1>6. ASSUME NEW r \in todo, stage' = stage, todo' = todo \ {r}, evaluated' = evaluated \cup {r},
             \/ pending' = pending
             \/ /\ pending' = pending \cup {r} /\ stage \in 1 .. LastStage
                /\ Pipeline[stage] \in Passes
      PROVE  Filing'
  <2>1. stage \in 1 .. LastStage /\ r \in RulesIn(stage)
    BY NoListOutside DEF Filing
  <2> QED BY <1>2, <1>3, <1>6, <2>1 DEF Filing
<1> QED BY <1>3, <1>4, <1>5, <1>6, ListSteps

LEMMA OnceStep ==
  ASSUME TypeOK, Filing, EachRuleOnce, [Next]_vars
  PROVE  EachRuleOnce'
<1>1. \A k : RulesIn(k)' = RulesIn(k) BY ListSteps, SameLists
<1>2. stage \in Nat /\ todo \subseteq Rules BY DEF TypeOK
<1>3. ASSUME NEW r \in todo, NEW k, k > stage PROVE r \notin RulesIn(k)
  <2>1. r \in RulesIn(stage) BY DEF Filing
  <2> QED BY <1>2, <1>3, <2>1, FiledOnce
<1>4. ASSUME NEW k \in 1 .. LastStage, k > stage PROVE RulesIn(k) \cap evaluated' = {}
  BY <1>3, <1>4, ListSteps DEF EachRuleOnce
<1>5. stage' \in Nat /\ stage' >= stage BY <1>2, ListSteps
<1>6. \A k \in 1 .. LastStage : k > stage' => RulesIn(k)' \cap evaluated' = {}
  BY <1>1, <1>2, <1>4, <1>5
<1>7. outcome' = "open" => todo' \cap evaluated' = {}
  <2>1. CASE UNCHANGED <<stage, todo>> /\ evaluated' = evaluated /\ outcome = "open"
    BY <2>1 DEF EachRuleOnce
  <2>2. CASE /\ stage' = stage + 1 /\ stage \in 0 .. LastStage
             /\ todo' = RulesIn(stage + 1)
    <3>1. stage + 1 \in 1 .. LastStage \/ todo' = {} BY <1>2, <2>2, NoListOutside
    <3> QED BY <1>2, <1>4, <2>2, <3>1
  <2>3. ASSUME NEW r \in todo, todo' = todo \ {r}, evaluated' = evaluated \cup {r}, outcome = "open"
        PROVE  todo' \cap evaluated' = {}
    BY <2>3 DEF EachRuleOnce
  <2>4. outcome # "open" => UNCHANGED vars
    BY DEF Next, vars, Enter, HeaderGate, ContentTypeGate, BodyLimitGate, BodyParserGate,
           ArgCountGate, EndList, Collect, ApplyCollected, NoMatch, Helper, Sanitize, Throttle,
           Respond, MatchTerminal, At, In
  <2>5. outcome # "open" => outcome' # "open" BY <2>4 DEF vars
  <2> QED BY <2>1, <2>2, <2>3, <2>5, ListSteps
<1> QED BY <1>6, <1>7 DEF EachRuleOnce

LEMMA FilingInit == Init => Filing /\ PassesDone /\ EachRuleOnce /\ ExclusionsFirst
<1> SUFFICES ASSUME Init PROVE Filing /\ PassesDone /\ EachRuleOnce /\ ExclusionsFirst
  OBVIOUS
<1>1. stage = 0 /\ todo = {} /\ pending = {} /\ evaluated = {} BY DEF Init
<1>2. \A k \in 1 .. LastStage : ~(k <= 0) BY DEF LastStage
<1> QED BY <1>1, <1>2 DEF Filing, PassesDone, EachRuleOnce, ExclusionsFirst

\* However the lists are split and rules moved between them, no rule is evaluated twice
\* for one request.
THEOREM RulesRunOnce == Spec => []EachRuleOnce
<1>1. TypeOK /\ Filing /\ EachRuleOnce /\ [Next]_vars => (TypeOK /\ Filing /\ EachRuleOnce)'
  BY TypeStep, FilingStep, OnceStep
<1> QED BY TypeInit, FilingInit, <1>1, PTL DEF Spec

\* engine_off, once set, stays.
LEMMA OffStays ==
  ASSUME TypeOK, [Next]_vars, rc.off
  PROVE  rc'.off
<1>1. CASE UNCHANGED <<rc, applied>> BY <1>1
<1>2. ASSUME NEW r \in Rules, Apply(r) PROVE rc'.off
  BY <1>2 DEF Apply, Applied
<1> QED BY <1>1, <1>2, ControlSteps

LEMMA PassesDoneStep ==
  ASSUME TypeOK, Filing, PassesDone, [Next]_vars
  PROVE  PassesDone'
<1> SUFFICES ASSUME ~rc'.off, NEW k \in 1 .. LastStage, k <= stage', Pipeline[k] \in Passes,
                    NEW s \in RulesIn(k)'
             PROVE  s \in evaluated' \/ (k = stage' /\ s \in todo')
  BY DEF PassesDone
<1>1. s \in RulesIn(k) BY ListSteps, SameLists
<1>2. ~rc.off BY OffStays
<1>3. stage \in Nat BY DEF TypeOK
<1>4. ASSUME k <= stage PROVE s \in evaluated \/ (k = stage /\ s \in todo)
  BY <1>1, <1>2, <1>4 DEF PassesDone
<1>5. evaluated \subseteq evaluated' BY ListSteps
<1>6. CASE UNCHANGED <<stage, todo>> BY <1>4, <1>5, <1>6
<1>7. CASE stage' = stage + 1 /\ todo' = RulesIn(stage + 1)
  <2>1. CASE k = stage + 1 BY <1>1, <1>7, <2>1
  <2>2. CASE k = stage
    <3>1. todo = {} BY <1>2, <1>3, <1>7, <2>2, Leaves
    <3> QED BY <1>3, <1>4, <1>5, <2>2, <3>1
  <2>3. CASE k < stage BY <1>3, <1>4, <1>5, <2>3
  <2> QED BY <1>3, <1>7, <2>1, <2>2, <2>3
<1>8. ASSUME NEW r \in todo, stage' = stage, todo' = todo \ {r}, evaluated' = evaluated \cup {r}
      PROVE  s \in evaluated' \/ (k = stage' /\ s \in todo')
  BY <1>4, <1>8
<1> QED BY <1>6, <1>7, <1>8, ListSteps

\* Where the custom and global channels file a detection and an exclusion.
LEMMA Filed ==
  ASSUME NEW r \in Rules, channel[r] \in {"custom", "global"}
  PROVE  /\ rule[r].actions # {} =>
              Lists(r) = {IF channel[r] = "custom" THEN "custom_detection" ELSE "global_detection"}
         /\ HasControls(r) /\ rule[r].actions = {} =>
              IF channel[r] = "custom"
              THEN Lists(r) \in {{"custom_prebody"}, {"custom_controls"}}
              ELSE Lists(r) \in {{"global_prebody"}, {"global_controls"}}
BY DEF Lists, IsPrebodyControl, IsControlOnly

LEMMA ExclusionsFirstStep ==
  ASSUME TypeOK, Filing, PassesDone, EachRuleOnce, ExclusionsFirst, [Next]_vars
  PROVE  ExclusionsFirst'
<1> SUFFICES ASSUME NEW r \in Rules, NEW s \in Rules,
                    r \in evaluated', rule[r].actions # {},
                    channel[r] \in {"custom", "global"}, channel[s] = channel[r],
                    HasControls(s), rule[s].actions = {}
             PROVE  s \in evaluated' \ pending'
  BY ListSteps DEF ExclusionsFirst, setup, HasControls
<1>1. evaluated \subseteq evaluated' BY ListSteps
<1>2. stage \in Nat BY DEF TypeOK
<1>3. ASSUME NEW q \in pending', q \notin pending PROVE q \notin evaluated
  <2>1. q \in todo /\ outcome = "open" BY <1>3, ListSteps
  <2> QED BY <2>1 DEF EachRuleOnce
<1>4. CASE r \in evaluated
  <2>1. s \in evaluated \ pending BY <1>4 DEF ExclusionsFirst
  <2> QED BY <1>1, <1>3, <2>1
<1>5. CASE r \notin evaluated
  <2>1. r \in todo BY <1>5, ListSteps
  <2>2. stage \in 1 .. LastStage /\ Pipeline[stage] \in Lists(r)
    BY <2>1 DEF Filing, RulesIn
  <2>3. Pipeline[stage] = IF channel[r] = "custom" THEN "custom_detection" ELSE "global_detection"
    BY <2>2, Filed
  <2>4. stage = IF channel[r] = "custom" THEN 13 ELSE 15
    BY <2>2, <2>3, Places
  <2>5. \E k \in 1 .. LastStage : k < stage /\ Pipeline[k] \in Passes /\ Pipeline[k] \in Lists(s)
    <3>1. /\ 5 \in 1 .. LastStage /\ 6 \in 1 .. LastStage
          /\ 12 \in 1 .. LastStage /\ 14 \in 1 .. LastStage
      BY DEF LastStage
    <3>2. CASE channel[r] = "custom"
      <4>1. Lists(s) \in {{"custom_prebody"}, {"custom_controls"}} BY <3>2, Filed
      <4> QED BY <2>4, <3>1, <3>2, <4>1, PipelineOrder DEF Passes, Prebody
    <3>3. CASE channel[r] # "custom"
      <4>1. Lists(s) \in {{"global_prebody"}, {"global_controls"}} BY <3>3, Filed
      <4> QED BY <2>4, <3>1, <3>3, <4>1, PipelineOrder DEF Passes, Prebody
    <3> QED BY <3>2, <3>3
  <2>6. PICK k \in 1 .. LastStage : k < stage /\ Pipeline[k] \in Passes /\ s \in RulesIn(k)
    BY <2>5 DEF RulesIn
  <2>7. ~rc.off
    <3>1. ASSUME rc.off PROVE evaluated' = evaluated
      <4>1. Stopped BY <3>1 DEF Stopped
      <4>2. CASE UNCHANGED vars BY <4>2 DEF vars
      <4>3. CASE Moves BY <4>3 DEF Moves, ghosts
      <4>4. ASSUME NEW q \in Rules, ApplyCollected(q) PROVE evaluated' = evaluated
        BY <4>4 DEF ApplyCollected
      <4>5. ASSUME NEW q \in Rules,
                   \/ \E matched \in BOOLEAN : Collect(q, matched)
                   \/ NoMatch(q) \/ Helper(q) \/ Terminates(q)
            PROVE  FALSE
        BY <4>1, <4>5 DEF Collect, NoMatch, Helper, Terminates, MatchTerminal
      <4> QED BY <4>2, <4>3, <4>4, <4>5, StepKinds
    <3> QED BY <1>5, <3>1
  <2>8. s \in evaluated BY <1>2, <2>6, <2>7 DEF PassesDone
  <2>9. Pipeline[stage] \notin Passes BY <2>3 DEF Passes, Prebody
  <2>10. pending = {} BY <2>9 DEF Filing
  <2> QED BY <1>1, <1>3, <2>8, <2>10
<1> QED BY <1>4, <1>5

\* A blocking rule of the custom or global channel never runs before an exclusion of its
\* channel, wherever the two stand in the pack.
THEOREM ExclusionsRunFirst == Spec => []ExclusionsFirst
<1> DEFINE Inv == TypeOK /\ Filing /\ PassesDone /\ EachRuleOnce /\ ExclusionsFirst
<1>1. Init => Inv BY TypeInit, FilingInit
<1>2. Inv /\ [Next]_vars => Inv'
  BY TypeStep, FilingStep, PassesDoneStep, OnceStep, ExclusionsFirstStep
<1>3. Inv => ExclusionsFirst OBVIOUS
<1> HIDE DEF Inv
<1> QED BY <1>1, <1>2, <1>3, PTL DEF Spec

-----------------------------------------------------------------------------
(***************************************************************************)
(* The body: who may read it, and the gates on it                          *)
(***************************************************************************)
\* The flag that switches the body off says what the applied controls say.
BodyOffSaid ==
  rc.noBody <=> \E i \in DOMAIN applied : "body_access_off" \in rule[applied[i]].controls

\* Before its limit is checked nobody has read the body, and up to its parser only the
\* count of a multipart body's fields has.
ReadInOrder ==
  outcome = "open" =>
    /\ stage <= 9 => ~inspected /\ ~uninspected
    /\ stage = 10 /\ inspected => body = "multipart" /\ "body_limit" \in failing

\* GatesHold in terms of the flag.
GatesSaid ==
  \A g \in failing \cap Gates, k \in 1 .. LastStage :
    (blocking /\ Pipeline[k] = g /\ stage > k /\ Bound(g)) => g \in BodyGates /\ rc.noBody

LEMMA BodyOffSaidStep ==
  ASSUME TypeOK, BodyOffSaid, [Next]_vars
  PROVE  BodyOffSaid'
<1>1. CASE UNCHANGED <<rc, applied>>
  BY <1>1, ControlSteps DEF BodyOffSaid
<1>2. ASSUME NEW r \in Rules, Apply(r) PROVE BodyOffSaid'
  <2>1. applied \in Seq(Rules) /\ applied' = Append(applied, r) /\ rule' = rule
    BY <1>2, ControlSteps DEF TypeOK, Apply
  <2>2. rc'.noBody <=> rc.noBody \/ "body_access_off" \in rule[r].controls
    BY <1>2 DEF Apply, Applied
  <2>3. DOMAIN applied' = 1 .. Len(applied) + 1 /\ DOMAIN applied = 1 .. Len(applied)
    BY <2>1
  <2>4. /\ applied'[Len(applied) + 1] = r
        /\ \A i \in DOMAIN applied : i \in DOMAIN applied' /\ applied'[i] = applied[i]
    BY <2>1
  <2>5. \A i \in DOMAIN applied' : i \in DOMAIN applied \/ i = Len(applied) + 1
    BY <2>1
  <2>6. Len(applied) + 1 \in DOMAIN applied' BY <2>1
  <2> QED BY <2>1, <2>2, <2>4, <2>5, <2>6 DEF BodyOffSaid
<1> QED BY <1>1, <1>2, ControlSteps

\* A body switched off stays switched off, and an uninspected one stays uninspected.
LEMMA BodyFlagsStay ==
  ASSUME TypeOK, [Next]_vars
  PROVE  (rc.noBody => rc'.noBody) /\ (uninspected => uninspected')
<1>1. rc.noBody => rc'.noBody
  <2>1. CASE UNCHANGED <<rc, applied>> BY <2>1
  <2>2. ASSUME NEW r \in Rules, Apply(r) PROVE rc.noBody => rc'.noBody
    BY <2>2 DEF Apply, Applied
  <2> QED BY <2>1, <2>2, ControlSteps
<1>2. uninspected => uninspected'
  BY DEF Next, vars, Enter, HeaderGate, ContentTypeGate, BodyLimitGate, BodyParserGate,
         ArgCountGate, EndList, Collect, ApplyCollected, NoMatch, Helper, Sanitize, Throttle,
         Respond, MatchTerminal
<1> QED BY <1>1, <1>2

\* Where an action is taken, and what it does to the body flags there.
InPlace ==
  /\ outcome = "open"
  /\ UNCHANGED setup
  /\ \/ stage = 0 /\ Enter
     \/ stage \in 1 .. 4 /\ \E g \in HeaderGates : HeaderGate(g)
     \/ stage = 8 /\ ContentTypeGate
     \/ stage = 9 /\ BodyLimitGate
     \/ stage = 10 /\ BodyParserGate
     \/ stage = 11 /\ ArgCountGate
     \/ stage \in {5, 6, 7, 12, 13, 14, 15, 16, 17} /\ EndList
     \/ /\ stage \in {5, 6, 7} /\ UNCHANGED <<stage, inspected, uninspected, outcome>>
        /\ UNCHANGED <<rc, applied>> \/ \E r \in pending : Apply(r)
     \/ /\ stage \in 12 .. 17 /\ uninspected' = uninspected
        /\ stage' \in {stage, stage + 1} /\ outcome' # "gate"
        /\ inspected' # inspected => BodyVisible
        /\ UNCHANGED <<rc, applied>> \/ \E r \in todo \cup pending : Apply(r)

LEMMA Where ==
  ASSUME TypeOK, Filing, Next
  PROVE  InPlace
<1> USE DEF InPlace
<1>0. UNCHANGED setup BY ListSteps
<1>1. ASSUME Enter PROVE InPlace BY <1>0, <1>1 DEF Enter
<1>2. ASSUME NEW g \in HeaderGates, HeaderGate(g) PROVE InPlace
  <2>1. stage \in 1 .. LastStage /\ Pipeline[stage] \in HeaderGates /\ outcome = "open"
    BY <1>2 DEF HeaderGate, At
  <2> QED BY <1>0, <1>2, <2>1, Places
<1>3. ASSUME ContentTypeGate PROVE InPlace
  <2>1. stage \in 1 .. LastStage /\ Pipeline[stage] = "content_type" /\ outcome = "open"
    BY <1>3 DEF ContentTypeGate, At
  <2> QED BY <1>0, <1>3, <2>1, Places
<1>4. ASSUME BodyLimitGate PROVE InPlace
  <2>1. stage \in 1 .. LastStage /\ Pipeline[stage] = "body_limit" /\ outcome = "open"
    BY <1>4 DEF BodyLimitGate, At
  <2> QED BY <1>0, <1>4, <2>1, Places
<1>5. ASSUME BodyParserGate PROVE InPlace
  <2>1. stage \in 1 .. LastStage /\ Pipeline[stage] = "body_parser" /\ outcome = "open"
    BY <1>5 DEF BodyParserGate, At
  <2> QED BY <1>0, <1>5, <2>1, Places
<1>6. ASSUME ArgCountGate PROVE InPlace
  <2>1. stage \in 1 .. LastStage /\ Pipeline[stage] = "arg_count" /\ outcome = "open"
    BY <1>6 DEF ArgCountGate, At
  <2> QED BY <1>0, <1>6, <2>1, Places
<1>7. ASSUME EndList PROVE InPlace
  <2>1. /\ stage \in 1 .. LastStage /\ Pipeline[stage] \in Passes \cup Loops
        /\ outcome = "open"
    BY <1>7 DEF EndList, In
  <2> QED BY <1>0, <1>7, <2>1, Places
<1>8. ASSUME NEW r \in Rules, NEW matched \in BOOLEAN, Collect(r, matched) PROVE InPlace
  <2>1. /\ stage \in 1 .. LastStage /\ Pipeline[stage] \in Passes
        /\ outcome = "open"
    BY <1>8 DEF Collect, In
  <2>2. stage \in {5, 6, 7, 12, 14} BY <2>1, Places
  <2>3. /\ UNCHANGED <<stage, rc, uninspected, outcome, applied>> /\ r \in todo
        /\ inspected' = (inspected \/ (BodyVisible /\ rule[r].reads # "head" /\ r \notin rc.removed))
    BY <1>8 DEF Collect, Evaluate, IsFirst
  <2>4. CASE stage \in {5, 6, 7}
    <3>1. Pipeline[stage] \in Lists(r) BY <2>3 DEF Filing, RulesIn
    <3>2. Pipeline[stage] \in Prebody BY <2>1, <2>4, Places DEF Prebody
    <3>3. rule[r].reads = "head" BY <3>1, <3>2 DEF Lists, Prebody, IsPrebodyControl
    <3> QED BY <1>0, <1>8, <2>1, <2>3, <2>4, <3>3 DEF TypeOK
  <2>5. CASE stage \in {12, 14}
    BY <1>0, <2>1, <2>3, <2>5, ReadsBool DEF TypeOK
  <2> QED BY <2>2, <2>4, <2>5
<1>9. ASSUME NEW r \in Rules, ApplyCollected(r) PROVE InPlace
  <2>1. /\ stage \in 1 .. LastStage /\ Pipeline[stage] \in Passes
        /\ outcome = "open"
    BY <1>9 DEF ApplyCollected, In
  <2>2. stage \in {5, 6, 7, 12, 14} BY <2>1, Places
  <2>3. UNCHANGED <<stage, uninspected, inspected, outcome>> /\ r \in pending /\ Apply(r)
    BY <1>9 DEF ApplyCollected, IsFirst
  <2> QED BY <1>0, <1>9, <2>1, <2>2, <2>3
<1>10. ASSUME NEW r \in Rules, NoMatch(r) \/ Helper(r) \/ Terminates(r) PROVE InPlace
  <2>1. /\ stage \in 1 .. LastStage /\ Pipeline[stage] \in Loops
        /\ outcome = "open"
    BY <1>10 DEF NoMatch, Helper, Terminates, MatchTerminal, In
  <2>2. stage \in {13, 15, 16, 17} BY <2>1, Places
  <2>3. /\ stage' \in {stage, stage + 1} /\ outcome' # "gate" /\ uninspected' = uninspected
        /\ UNCHANGED <<rc, applied>> \/ Apply(r)
        /\ r \in todo
        /\ inspected' = (inspected \/ (BodyVisible /\ rule[r].reads # "head" /\ r \notin rc.removed))
    BY <1>10, <2>1 DEF NoMatch, Helper, Terminates, MatchTerminal, Evaluate, IsFirst, Advance, Leave
  <2> QED BY <1>0, <2>1, <2>2, <2>3, ReadsBool DEF TypeOK
<1>11. ASSUME NEW r \in Rules, Sanitize(r) PROVE Terminates(r)
  BY <1>11 DEF Sanitize, Terminates
<1>12. ASSUME NEW r \in Rules, NEW over \in BOOLEAN, Throttle(r, over) PROVE Terminates(r)
  BY <1>12 DEF Throttle, Terminates, Refuse, LetThrough
<1>13. ASSUME NEW r \in Rules, Respond(r) PROVE Terminates(r)
  BY <1>13 DEF Respond, Terminates, Refuse, LetThrough
<1> HIDE DEF InPlace
<1> QED
  BY <1>1, <1>2, <1>3, <1>4, <1>5, <1>6, <1>7, <1>8, <1>9, <1>10, <1>11, <1>12, <1>13 DEF Next

LEMMA ReadInOrderStep ==
  ASSUME TypeOK, Filing, ReadInOrder, [Next]_vars
  PROVE  ReadInOrder'
<1>1. CASE UNCHANGED vars BY <1>1 DEF vars, ReadInOrder
<1>2. CASE Next
  <2>1. outcome = "open" /\ UNCHANGED setup /\ InPlace BY <1>2, Where DEF InPlace
  <2>2. /\ stage <= 9 => ~inspected /\ ~uninspected
        /\ stage = 10 /\ inspected => body = "multipart" /\ "body_limit" \in failing
    BY <2>1 DEF ReadInOrder
  <2>3. stage \in Nat /\ inspected \in BOOLEAN /\ uninspected \in BOOLEAN /\ stage' \in {stage, stage + 1}
    BY ListSteps DEF TypeOK
  <2>4. CASE UNCHANGED <<inspected, uninspected>>
    BY <2>1, <2>2, <2>3, <2>4 DEF ReadInOrder, setup
  <2>5. CASE stage = 9 /\ BodyLimitGate
    <3>1. inspected' => body = "multipart" /\ "body_limit" \in failing
      <4>1. ~inspected BY <2>2, <2>5
      <4>2. inspected' = (inspected \/ ((BodyVisible /\ "body_limit" \in failing) /\ body = "multipart"))
        BY <2>5 DEF BodyLimitGate
      <4> QED BY <4>1, <4>2
    <3>2. outcome' = "open" => stage' = 10
      BY <2>5 DEF BodyLimitGate, Pass, Advance, Leave
    <3> QED BY <2>1, <3>1, <3>2 DEF ReadInOrder, setup
  <2>6. CASE stage = 10 /\ BodyParserGate
    <3>1. outcome' = "open" => stage' = 11
      BY <2>6 DEF BodyParserGate, Pass, Advance, Leave
    <3> QED BY <3>1 DEF ReadInOrder
  <2>7. CASE stage >= 11 BY <2>3, <2>7 DEF ReadInOrder
  <2>8. Enter \/ (\E g \in HeaderGates : HeaderGate(g)) \/ ContentTypeGate \/ EndList =>
          UNCHANGED <<inspected, uninspected>>
    BY DEF Enter, HeaderGate, ContentTypeGate, EndList
  <2> QED BY <2>1, <2>3, <2>4, <2>5, <2>6, <2>7, <2>8 DEF InPlace
<1> QED BY <1>1, <1>2

\* The stages at which gates stand.
LEMMA GatePlaces ==
  ASSUME NEW k \in 1 .. LastStage, Pipeline[k] \in Gates
  PROVE  /\ k \in {1, 2, 3, 4, 8, 9, 10, 11}
         /\ k \in 1 .. 4 <=> Pipeline[k] \in HeaderGates
BY PipelineOrder, SeventeenStages DEF Gates, HeaderGates, BodyGates

LEMMA GatesSaidStep ==
  ASSUME TypeOK, Filing, ReadInOrder, GatesSaid, [Next]_vars
  PROVE  GatesSaid'
<1> SUFFICES ASSUME NEW k \in 1 .. LastStage, Pipeline[k] \in failing \cap Gates,
                    blocking, stage' > k, Bound(Pipeline[k])'
             PROVE  Pipeline[k] \in BodyGates /\ rc'.noBody
  BY ListSteps DEF GatesSaid, setup
<1>1. UNCHANGED setup /\ stage \in Nat /\ stage' \in {stage, stage + 1}
  BY ListSteps DEF TypeOK
<1>2. Bound(Pipeline[k])
  BY <1>1, BodyFlagsStay DEF Bound, setup
<1>3. CASE stage > k
  BY <1>2, <1>3, BodyFlagsStay DEF GatesSaid
<1>4. CASE ~(stage > k)
  <2>1. stage = k /\ stage' = stage + 1 BY <1>1, <1>4
  <2>2. Next /\ InPlace 
    <3>1. stage' # stage BY <1>1, <2>1
    <3>2. UNCHANGED vars => stage' = stage BY DEF vars
    <3> QED BY <3>1, <3>2, Where
  <2>3. outcome = "open" BY <2>2 DEF InPlace
  <2>4. stage \in {1, 2, 3, 4, 8, 9, 10, 11} /\ (stage \in 1 .. 4 <=> Pipeline[k] \in HeaderGates)
    BY <2>1, GatePlaces
  <2>5. CASE stage \in 1 .. 4
    <3>1. PICK g \in HeaderGates : HeaderGate(g) BY <2>2, <2>5 DEF InPlace
    <3>2. Pipeline[stage] = g /\ Pass(g, g \in failing) BY <3>1 DEF HeaderGate, At
    <3> QED BY <1>1, <2>1, <3>2 DEF Pass, Advance, Leave, GateBlocks
  <2>6. ~uninspected /\ body # "none" => BodyVisible \/ rc.noBody
    BY DEF BodyVisible
  <2>7. rc'.noBody \/ ~rc.noBody BY BodyFlagsStay
  <2>8. stage \in 8 .. 11 => Pipeline[k] \in BodyGates /\ body # "none"
    BY <1>2, <2>1, PipelineOrder DEF BodyGates, Bound
  <2>9. CASE stage = 8
    <3>1. Pass("content_type", "content_type" \in failing /\ BodyVisible) BY <2>2, <2>9 DEF InPlace, ContentTypeGate
    <3>2. ~BodyVisible BY <1>1, <2>1, <2>9, <3>1, PipelineOrder DEF Pass, Advance, Leave, GateBlocks
    <3>3. ~uninspected BY <2>3, <2>9 DEF ReadInOrder
    <3> QED BY <2>6, <2>7, <2>8, <2>9, <3>2, <3>3
  <2>10. CASE stage = 9
    <3>1. BodyLimitGate /\ Pipeline[k] = "body_limit" BY <2>1, <2>2, <2>10, PipelineOrder DEF InPlace
    <3>2. body # "stream" /\ (body = "multipart" => "fields_limit" \in failing)
      BY <1>2, <3>1 DEF Bound
    <3>3. Pass("body_limit", BodyVisible /\ "body_limit" \in failing
                 /\ (body = "multipart" => "fields_limit" \in failing) /\ body # "stream")
      BY <3>1 DEF BodyLimitGate
    <3>4. ~BodyVisible BY <1>1, <2>1, <3>1, <3>2, <3>3 DEF Pass, Advance, Leave, GateBlocks
    <3>5. ~uninspected BY <2>3, <2>10 DEF ReadInOrder
    <3> QED BY <2>6, <2>7, <2>8, <2>10, <3>4, <3>5
  <2>11. CASE stage = 10
    <3>1. BodyParserGate /\ Pipeline[k] = "body_parser" BY <2>1, <2>2, <2>11, PipelineOrder DEF InPlace
    <3>2. /\ body = "json" \/ (body = "multipart" /\ "body_limit" \notin failing)
          /\ ~uninspected
      BY <1>2, <3>1 DEF Bound
    <3>3. Pass("body_parser", BodyVisible /\ body \in {"json", "multipart"}
                 /\ "body_parser" \in failing /\ ~(body = "multipart" /\ inspected))
      BY <3>1 DEF BodyParserGate
    <3>4. ~(body = "multipart" /\ inspected)
      BY <2>3, <2>11, <3>2 DEF ReadInOrder
    <3>5. ~BodyVisible BY <1>1, <2>1, <3>1, <3>2, <3>3, <3>4 DEF Pass, Advance, Leave, GateBlocks
    <3> QED BY <2>6, <2>7, <2>8, <2>11, <3>2, <3>5
  <2>12. CASE stage = 11
    <3>1. ArgCountGate /\ Pipeline[k] = "arg_count" BY <2>1, <2>2, <2>12, PipelineOrder DEF InPlace
    <3>2. ~uninspected BY <1>2, <3>1 DEF Bound
    <3>3. Pass("arg_count", "query_args" \in failing
            \/ (BodyVisible /\ "query_args" \notin failing /\ "arg_count" \in failing))
      BY <3>1 DEF ArgCountGate
    <3>4. ~BodyVisible BY <1>1, <2>1, <3>1, <3>3 DEF Pass, Advance, Leave, GateBlocks
    <3> QED BY <2>6, <2>7, <2>8, <2>12, <3>2, <3>4
  <2> QED BY <2>4, <2>5, <2>9, <2>10, <2>11, <2>12
<1> QED BY <1>3, <1>4

LEMMA BodyInit == Init => BodyOffSaid /\ ReadInOrder /\ GatesSaid /\ SwitchedOffBodyUnread
<1> SUFFICES ASSUME Init PROVE BodyOffSaid /\ ReadInOrder /\ GatesSaid /\ SwitchedOffBodyUnread
  OBVIOUS
<1>1. DOMAIN applied = {} /\ ~rc.noBody /\ stage = 0 /\ ~inspected /\ ~uninspected
  BY DEF Init, NoControls
<1>2. \A k \in 1 .. LastStage : ~(0 > k) BY DEF LastStage
<1> QED
  BY <1>1, <1>2 DEF BodyOffSaid, ReadInOrder, GatesSaid, SwitchedOffBodyUnread, AppliedRules

\* On a blocking service no request gets past a limit it breaks, whatever the rules
\* declare, unless one of them switched the body off and the limit is on the body.
THEOREM GatesNeverSkipped == Spec => []GatesHold
<1> DEFINE Inv == TypeOK /\ Filing /\ BodyOffSaid /\ ReadInOrder /\ GatesSaid
<1>1. Init => Inv BY TypeInit, FilingInit, BodyInit
<1>2. Inv /\ [Next]_vars => Inv'
  BY TypeStep, FilingStep, BodyOffSaidStep, ReadInOrderStep, GatesSaidStep
<1>3. Inv => GatesHold
  BY DEF GatesSaid, BodyOffSaid, GatesHold, AppliedRules
<1> HIDE DEF Inv
<1> QED BY <1>1, <1>2, <1>3, PTL DEF Spec

\* A rule that switches the body off without reading it is filed before the body gates.
LEMMA OffBeforeBody ==
  ASSUME TypeOK, Filing, NEW r \in RulesIn(stage), SwitchesBodyOff(r)
  PROVE  stage \in {5, 6, 7}
<1>1. channel[r] \in AllChannels BY PipelineAssumption DEF TypeOK, RulesIn
<1>2. stage \in 1 .. LastStage /\ Pipeline[stage] \in Lists(r) BY DEF RulesIn
<1>3. IsPrebodyControl(r) BY DEF SwitchesBodyOff, IsPrebodyControl, IsControlOnly, HasControls
<1>4. Pipeline[stage] \in Prebody
  BY <1>1, <1>2, <1>3 DEF Lists, SwitchesBodyOff, AllChannels, Prebody
<1> QED BY <1>2, <1>4, Places DEF Prebody

LEMMA UnreadStep ==
  ASSUME TypeOK, Filing, BodyOffSaid, ReadInOrder, SwitchedOffBodyUnread, [Next]_vars
  PROVE  SwitchedOffBodyUnread'
<1>1. CASE UNCHANGED vars
  BY <1>1 DEF vars, SwitchedOffBodyUnread, AppliedRules, SwitchesBodyOff, HeaderGates
<1>2. CASE Next
  <2>1. InPlace /\ outcome = "open" /\ UNCHANGED setup BY <1>2, Where DEF InPlace
  <2>2. SUFFICES ASSUME NEW r \in AppliedRules', SwitchesBodyOff(r)
                 PROVE  /\ ~inspected'
                        /\ outcome' = "gate" =>
                             failing \cap (HeaderGates \cup {"query_args"}) # {}
    BY <2>1 DEF SwitchedOffBodyUnread, SwitchesBodyOff, setup
  <2>3. CASE r \in AppliedRules
    <3>1. rc.noBody BY <2>2, <2>3 DEF BodyOffSaid, AppliedRules, SwitchesBodyOff
    <3>2. ~BodyVisible BY <3>1 DEF BodyVisible
    <3>3. ~inspected BY <2>2, <2>3 DEF SwitchedOffBodyUnread
    <3>4. CASE \E g \in HeaderGates : HeaderGate(g)
      <4>1. PICK g \in HeaderGates : HeaderGate(g) BY <3>4
      <4>2. Pass(g, g \in failing) /\ inspected' = inspected BY <4>1 DEF HeaderGate
      <4> QED BY <3>3, <4>2 DEF Pass, Advance, Leave
    <3>5. CASE ContentTypeGate
      <4>1. Pass("content_type", "content_type" \in failing /\ BodyVisible) /\ inspected' = inspected
        BY <3>5 DEF ContentTypeGate
      <4> QED BY <3>2, <3>3, <4>1 DEF Pass, Advance, Leave
    <3>6. CASE BodyLimitGate
      <4>1. \E fields : Pass("body_limit", BodyVisible /\ "body_limit" \in failing /\ fields /\ body # "stream")
        BY <3>6 DEF BodyLimitGate
      <4>2. ~inspected' BY <3>2, <3>3, <3>6 DEF BodyLimitGate
      <4> QED BY <3>2, <4>1, <4>2 DEF Pass, Advance, Leave
    <3>7. CASE BodyParserGate
      <4>1. \E fails : Pass("body_parser", (BodyVisible /\ body \in {"json", "multipart"}) /\ fails)
        BY <3>7 DEF BodyParserGate
      <4>2. ~inspected' BY <3>2, <3>3, <3>7 DEF BodyParserGate
      <4> QED BY <3>2, <4>1, <4>2 DEF Pass, Advance, Leave
    <3>8. CASE ArgCountGate
      <4>1. Pass("arg_count", "query_args" \in failing
              \/ ((BodyVisible /\ "query_args" \notin failing) /\ "arg_count" \in failing))
        BY <3>8 DEF ArgCountGate
      <4>2. ~inspected' BY <3>2, <3>3, <3>8 DEF ArgCountGate
      <4> QED BY <3>2, <4>1, <4>2 DEF Pass, Advance, Leave
    <3>9. CASE Enter \/ EndList
      BY <3>3, <3>9 DEF Enter, EndList, Advance, Leave
    <3> QED BY <2>1, <3>2, <3>3, <3>4, <3>5, <3>6, <3>7, <3>8, <3>9 DEF InPlace, TypeOK
  <2>4. CASE r \notin AppliedRules
    <3>1. PICK s \in Rules : Apply(s)
      BY <2>2, <2>4, ControlSteps DEF AppliedRules
    <3>2. applied \in Seq(Rules) BY DEF TypeOK
    <3>3. r \in todo \cup pending
      <4>1. ~UNCHANGED <<rc, applied>> BY <2>2, <2>4 DEF AppliedRules
      <4>2. ~Enter /\ ~(\E g \in HeaderGates : HeaderGate(g)) /\ ~ContentTypeGate /\ ~BodyLimitGate
            /\ ~BodyParserGate /\ ~ArgCountGate /\ ~EndList
        BY <4>1 DEF Enter, HeaderGate, ContentTypeGate, BodyLimitGate, BodyParserGate, ArgCountGate,
                    EndList, ghosts
      <4>3. PICK q \in todo \cup pending : Apply(q) BY <2>1, <4>1, <4>2 DEF InPlace
      <4>4. applied' = Append(applied, q) BY <4>3 DEF Apply
      <4>5. \A i \in DOMAIN applied' : applied'[i] = q \/ (i \in DOMAIN applied /\ applied'[i] = applied[i])
        BY <3>2, <4>3, <4>4 DEF TypeOK
      <4> QED BY <2>2, <2>4, <4>3, <4>5 DEF AppliedRules
    <3>4. r \in RulesIn(stage) BY <3>3 DEF Filing
    <3>5. stage \in {5, 6, 7} BY <2>2, <3>4, OffBeforeBody
    <3>6. ~inspected BY <2>1, <3>5 DEF ReadInOrder
    <3>7. CASE EndList BY <3>6, <3>7 DEF EndList, Advance
    <3> QED BY <2>1, <3>5, <3>6, <3>7 DEF InPlace
  <2> QED BY <2>3, <2>4
<1> QED BY <1>1, <1>2

\* Once an exclusion that reads no body switched the body off, nothing reads it and no
\* limit on it refuses the request.
THEOREM SwitchedOffIsUnread == Spec => []SwitchedOffBodyUnread
<1> DEFINE Inv == TypeOK /\ Filing /\ BodyOffSaid /\ ReadInOrder /\ SwitchedOffBodyUnread
<1>1. Init => Inv BY TypeInit, FilingInit, BodyInit
<1>2. Inv /\ [Next]_vars => Inv'
  BY TypeStep, FilingStep, BodyOffSaidStep, ReadInOrderStep, UnreadStep
<1>3. Inv => SwitchedOffBodyUnread OBVIOUS
<1> HIDE DEF Inv
<1> QED BY <1>1, <1>2, <1>3, PTL DEF Spec

=============================================================================
