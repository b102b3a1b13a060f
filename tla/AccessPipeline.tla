--------------------------- MODULE AccessPipeline ---------------------------
(***************************************************************************)
(* The evaluation of one request in Kong's access phase (handler.lua,      *)
(* plugin:access): the always-on gates, the passes that collect rule       *)
(* controls, the loops that stop at a terminal match, and the controls     *)
(* (ctl:* directives) through which a matched rule changes how the rest of *)
(* the request is treated.                                                 *)
(*                                                                         *)
(* A request owns its state (kong.ctx.plugin), so there is one of them and *)
(* its steps are sequential; what varies is the rules, the channel each    *)
(* arrives on, which of them match, the body and the gates the request     *)
(* fails.  A rule matches or not by choice: its operators, and the         *)
(* variables earlier rules set for it, are not modelled, so a list that a  *)
(* configuration switch turns off is one where nothing matches.            *)
(***************************************************************************)
EXTENDS Naturals, Sequences, FiniteSets

CONSTANTS
  Rules,       \* ids of access-phase rules
  Position,    \* the place of each rule in the order of its channel
  Shapes,      \* what a rule may declare
  Channels,    \* the channels rules arrive on
  Bodies,      \* request bodies
  Failures     \* sets of limits a request may break

AllChannels == {"custom", "global", "local", "crs"}

\* "stream" is an application/octet-stream body that does not look like JSON.
AllBodies == {"none", "urlencoded", "json", "multipart", "stream"}

HeaderGates == {"method", "path", "headers", "charset"}
BodyGates == {"content_type", "body_limit", "body_parser", "arg_count"}
Gates == HeaderGates \cup BodyGates

\* A request breaks a gate's limit; fields_limit is the body limit counted on a
\* multipart body's fields alone, query_args the argument limit on the query alone.
Faults == Gates \cup {"fields_limit", "query_args"}

Controls == {"engine_off", "engine_on", "detection_only", "body_access_off"}

\* The terminal actions fixed_response, fix_matched_parts and rate_limit, and
\* the others (log_only, setvar).
Terminal == {"block", "fix", "limit"}
Actions == Terminal \cup {"log"}

AllShapes ==
  [controls : SUBSET Controls,      \* its rule_control directives
   removes  : SUBSET Rules,         \* rules its remove_rule(s_by_tag) names
   actions  : SUBSET Actions,
   reads    : {"head", "args", "body"},  \* head: `_prebody`; args: query or body
   override : {"none", "fix", "passthrough", "block"},  \* rule_action_overrides
   restyled : BOOLEAN]              \* rule_response_overrides

ASSUME PipelineAssumption ==
  /\ Position \in [Rules -> Nat]
  /\ \A r, s \in Rules : Position[r] = Position[s] => r = s
  /\ Shapes \subseteq AllShapes
  \* The last of the two applied wins; one rule carrying both is not modelled.
  /\ \A shape \in Shapes : ~ ({"engine_on", "detection_only"} \subseteq shape.controls)
  /\ Channels \subseteq AllChannels
  /\ Bodies \subseteq AllBodies
  /\ Failures \subseteq SUBSET Faults

VARIABLES
  rule,        \* what each rule declares
  channel,     \* the channel it arrived on
  blocking,    \* engine_blocking_mode of the service
  body,        \* the request's body
  failing,     \* the limits the request breaks
  stage,       \* the step of Pipeline reached; 0 is the entry of plugin:access
  todo,        \* rules of the current list not evaluated yet
  pending,     \* matched rules of a pass whose controls are not applied yet
  rc,          \* kong.ctx.plugin.rule_controls
  uninspected, \* ka_body_uninspected
  inspected,   \* the body was parsed, or a body getter returned it
  outcome,     \* what became of the request
  evaluated,   \* ghost: rules whose conditions were evaluated
  applied,     \* ghost: the rules whose controls were applied, in that order
  acted        \* ghost: rules whose terminal action was carried out

setup == <<rule, channel, blocking, body, failing>>
ghosts == <<evaluated, applied, acted>>
vars == <<rule, channel, blocking, body, failing, stage, todo, pending, rc,
          uninspected, inspected, outcome, evaluated, applied, acted>>

Outcomes == {"open", "banned", "answered", "unseen", "gate", "rule", "upstream"}

-----------------------------------------------------------------------------
(***************************************************************************)
(* The order of the access phase and the list each rule is filed in        *)
(***************************************************************************)
Pipeline_BodyGatesFirst ==
  <<"method", "path", "headers", "charset",
    "content_type", "body_limit", "body_parser", "arg_count",
    "custom_prebody", "global_prebody", "local_prebody",
    "custom_controls", "custom_detection", "global_controls", "global_detection",
    "local", "crs">>

Pipeline ==
  <<"method", "path", "headers", "charset",
    "custom_prebody", "global_prebody", "local_prebody",
    "content_type", "body_limit", "body_parser", "arg_count",
    "custom_controls", "custom_detection", "global_controls", "global_detection",
    "local", "crs">>

LastStage == 17

Prebody == {"custom_prebody", "global_prebody", "local_prebody"}
Passes == Prebody \cup {"custom_controls", "global_controls"}
Loops == {"custom_detection", "global_detection", "local", "crs"}

HasControls(r) == rule[r].controls # {} \/ rule[r].removes # {}

IsControlOnly_Never(r) == FALSE

IsControlOnly(r) == HasControls(r) /\ rule[r].actions = {}

IsPrebodyControl(r) == IsControlOnly(r) /\ rule[r].reads = "head"

\* The lists are disjoint: a pre-body control is moved, not copied.
Lists(r) ==
  CASE channel[r] = "custom" ->
         {IF IsPrebodyControl(r) THEN "custom_prebody"
          ELSE IF IsControlOnly(r) THEN "custom_controls" ELSE "custom_detection"}
    [] channel[r] = "global" ->
         {IF IsPrebodyControl(r) THEN "global_prebody"
          ELSE IF IsControlOnly(r) THEN "global_controls" ELSE "global_detection"}
    [] channel[r] = "local" -> {IF IsPrebodyControl(r) THEN "local_prebody" ELSE "local"}
    [] OTHER -> {"crs"}

\* get_local_request_rules keeping the pre-body controls in the full list.
RulesIn_LocalWhole(k) ==
  {r \in Rules : k \in 1 .. LastStage /\
     (Pipeline[k] \in Lists(r) \/ (Pipeline[k] = "local" /\ channel[r] = "local"))}

RulesIn(k) == {r \in Rules : k \in 1 .. LastStage /\ Pipeline[k] \in Lists(r)}

IsFirst(r, rules) == r \in rules /\ \A s \in rules : Position[r] <= Position[s]

-----------------------------------------------------------------------------
(***************************************************************************)
(* The per-request rule controls                                           *)
(***************************************************************************)
NoControls ==
  [off |-> FALSE, observe |-> FALSE, forced |-> FALSE, noBody |-> FALSE, removed |-> {}]

\* engine_on survives a later detection_only.
Applied_OnSticks(c, r) ==
  LET ctl == rule[r].controls
      off == c.off \/ "engine_off" \in ctl
  IN [off |-> off,
      observe |-> "detection_only" \in ctl \/ (c.observe /\ "engine_on" \notin ctl),
      forced |-> ~off /\ ("engine_on" \in ctl \/ c.forced),
      noBody |-> c.noBody \/ "body_access_off" \in ctl,
      removed |-> c.removed \cup rule[r].removes]

\* The controls c after those of r: On and DetectionOnly are two states of one
\* switch, Off is the stronger state.
Applied(c, r) ==
  LET ctl == rule[r].controls
      off == c.off \/ "engine_off" \in ctl
  IN [off |-> off,
      observe |-> "detection_only" \in ctl \/ (c.observe /\ "engine_on" \notin ctl),
      forced |-> ~off /\ ("engine_on" \in ctl
                            \/ (c.forced /\ "detection_only" \notin ctl)),
      noBody |-> c.noBody \/ "body_access_off" \in ctl,
      removed |-> c.removed \cup rule[r].removes]

\* rule_blocking_enabled
Enforced(c) == c.forced \/ (blocking /\ ~c.observe)

\* The controls in force when the action of r is dispatched.
InForce_Before(r) == rc

InForce(r) == Applied(rc, r)

\* The body getters return something: the body is there and not switched off.
BodyVisible == body # "none" /\ ~uninspected /\ ~rc.noBody

-----------------------------------------------------------------------------
Init ==
  /\ rule \in [Rules -> Shapes]
  /\ channel \in [Rules -> Channels]
  /\ blocking \in BOOLEAN
  /\ body \in Bodies
  /\ failing \in Failures
  /\ stage = 0 /\ todo = {} /\ pending = {}
  /\ rc = NoControls
  /\ uninspected = FALSE /\ inspected = FALSE
  /\ outcome = "open"
  /\ evaluated = {} /\ applied = <<>> /\ acted = {}

Advance_NoEnd ==
  /\ stage' = stage + 1
  /\ todo' = RulesIn(stage + 1)
  /\ outcome' = "open"

\* The next step of the pipeline; past the last one the request is proxied.
Advance ==
  /\ stage' = stage + 1
  /\ todo' = RulesIn(stage + 1)
  /\ outcome' = IF stage = LastStage THEN "upstream" ELSE "open"

Leave(how) ==
  /\ outcome' = how
  /\ UNCHANGED <<stage, todo>>

\* A ban refuses the request, or it is answered by Karna's own endpoint, or it
\* goes on without inspection (cached response, local address), or it is inspected.
Enter ==
  /\ outcome = "open" /\ stage = 0
  /\ Advance \/ \E how \in {"banned", "answered", "unseen"} : Leave(how)
  /\ UNCHANGED <<setup, pending, rc, uninspected, inspected, ghosts>>

-----------------------------------------------------------------------------
(***************************************************************************)
(* Gates                                                                   *)
(***************************************************************************)
\* The gates read the service's setting, never the rule controls.
GateBlocks_AsRules == Enforced(rc)

GateBlocks == blocking

At(name) == outcome = "open" /\ stage \in 1 .. LastStage /\ Pipeline[stage] = name

\* Over the limit on a service that only detects, nothing more is evaluated.
Skips(g) == g \in {"body_limit", "arg_count"}

Pass(g, broken) ==
  IF broken /\ (GateBlocks \/ Skips(g))
  THEN Leave(IF GateBlocks THEN "gate" ELSE "upstream")
  ELSE Advance

HeaderGate(g) ==
  /\ At(g)
  /\ Pass(g, g \in failing)
  /\ UNCHANGED <<setup, pending, rc, uninspected, inspected, ghosts>>

ContentTypeGate ==
  /\ At("content_type")
  /\ Pass("content_type", "content_type" \in failing /\ BodyVisible)
  /\ UNCHANGED <<setup, pending, rc, uninspected, inspected, ghosts>>

\* A multipart body over the limit is parsed to count its fields alone; a stream
\* over the limit is let through and no getter returns it from then on.
BodyLimitGate ==
  LET over == BodyVisible /\ "body_limit" \in failing
      fields == body = "multipart" => "fields_limit" \in failing
  IN /\ At("body_limit")
     /\ Pass("body_limit", over /\ fields /\ body # "stream")
     /\ inspected' = (inspected \/ (over /\ body = "multipart"))
     /\ uninspected' = (uninspected \/ (over /\ body = "stream"))
     /\ UNCHANGED <<setup, pending, rc, ghosts>>

\* The getter keeps the values of a multipart body and not the parser's error,
\* so a second read finds it well formed; a json body that fails is parsed again.
BodyParserGate ==
  LET parses == BodyVisible /\ body \in {"json", "multipart"}
      fails == "body_parser" \in failing /\ ~(body = "multipart" /\ inspected)
  IN /\ At("body_parser")
     /\ Pass("body_parser", parses /\ fails)
     /\ inspected' = (inspected \/ parses)
     /\ UNCHANGED <<setup, pending, rc, uninspected, ghosts>>

\* The query is counted first.
ArgCountGate ==
  LET counted == BodyVisible /\ "query_args" \notin failing
  IN /\ At("arg_count")
     /\ Pass("arg_count", "query_args" \in failing \/ (counted /\ "arg_count" \in failing))
     /\ inspected' = (inspected \/ counted)
     /\ UNCHANGED <<setup, pending, rc, uninspected, ghosts>>

-----------------------------------------------------------------------------
(***************************************************************************)
(* Rule lists                                                              *)
(***************************************************************************)
In(names) == outcome = "open" /\ stage \in 1 .. LastStage /\ Pipeline[stage] \in names

CanMatch(r) == r \notin rc.removed /\ (rule[r].reads = "body" => BodyVisible)

\* Evaluating the conditions of r reads the body when they name it.
Evaluate(r) ==
  /\ IsFirst(r, todo)
  /\ evaluated' = evaluated \cup {r}
  /\ inspected' =
       (inspected \/ (BodyVisible /\ rule[r].reads # "head" /\ r \notin rc.removed))

Apply(r) ==
  /\ rc' = Applied(rc, r)
  /\ applied' = Append(applied, r)

\* loop_rules and loop_rule_controls_pass look at engine_off before every rule.
Stopped_AtEntry == rc.off /\ todo = RulesIn(stage)

Stopped == rc.off

EndList ==
  /\ In(Passes \cup Loops)
  /\ todo = {} \/ Stopped
  /\ pending = {}
  /\ Advance
  /\ UNCHANGED <<setup, pending, rc, uninspected, inspected, ghosts>>

\* loop_rule_controls_pass: matches are collected over the whole list ...
Collect(r, matched) ==
  /\ In(Passes) /\ ~Stopped
  /\ Evaluate(r)
  /\ matched => CanMatch(r)
  /\ pending' = IF matched THEN pending \cup {r} ELSE pending
  /\ todo' = todo \ {r}
  /\ UNCHANGED <<setup, stage, rc, uninspected, outcome, applied, acted>>

\* ... and apply_pass_rule_controls applies their controls afterwards.
ApplyCollected(r) ==
  /\ In(Passes) /\ todo = {}
  /\ IsFirst(r, pending)
  /\ Apply(r)
  /\ pending' = pending \ {r}
  /\ UNCHANGED <<setup, stage, todo, uninspected, inspected, outcome, evaluated, acted>>

IsTerminal(r) == rule[r].actions \cap Terminal # {}

\* loop_rules: a rule that does not match, and one without a terminal action,
\* whose controls are in force for the next.
NoMatch(r) ==
  /\ In(Loops) /\ ~Stopped
  /\ Evaluate(r)
  /\ todo' = todo \ {r}
  /\ UNCHANGED <<setup, stage, pending, rc, uninspected, outcome, applied, acted>>

Helper(r) ==
  /\ In(Loops) /\ ~Stopped
  /\ Evaluate(r) /\ CanMatch(r) /\ ~IsTerminal(r)
  /\ Apply(r)
  /\ todo' = todo \ {r}
  /\ UNCHANGED <<setup, stage, pending, uninspected, outcome, acted>>

\* apply_action_and_response_overrides
Overridden(r) ==
  CASE rule[r].override = "fix" -> {"fix"}
    [] rule[r].override = "passthrough" -> {}
    [] rule[r].override = "block" -> {"block"}
    [] OTHER -> rule[r].actions

Effective(r) ==
  IF rule[r].restyled /\ "block" \in Overridden(r)
  THEN {"block"} \cup (rule[r].actions \cap {"fix"})
  ELSE Overridden(r)

\* A terminal match ends its list whatever becomes of its action; its controls
\* are applied before the action is dispatched.
MatchTerminal(r) ==
  /\ In(Loops) /\ ~Stopped
  /\ Evaluate(r) /\ CanMatch(r) /\ IsTerminal(r)
  /\ Apply(r)
  /\ UNCHANGED <<setup, pending, uninspected>>

Refuse(r) == Leave("rule") /\ acted' = acted \cup {r}

LetThrough == Advance /\ UNCHANGED acted

\* fix_matched_parts wins over the others, and is skipped in detection only.
Sanitize(r) ==
  /\ MatchTerminal(r)
  /\ "fix" \in Effective(r)
  /\ Advance
  /\ acted' = IF InForce(r).observe THEN acted ELSE acted \cup {r}

\* over: the counter or the ban of module RateLimit refuses this match.
Throttle(r, over) ==
  /\ MatchTerminal(r)
  /\ "fix" \notin Effective(r) /\ "limit" \in Effective(r)
  /\ IF over /\ Enforced(InForce(r)) THEN Refuse(r) ELSE LetThrough

Respond(r) ==
  /\ MatchTerminal(r)
  /\ Effective(r) \cap {"fix", "limit"} = {}
  /\ IF "block" \in Effective(r) /\ Enforced(InForce(r)) THEN Refuse(r) ELSE LetThrough

Next ==
  \/ Enter
  \/ \E g \in HeaderGates : HeaderGate(g)
  \/ ContentTypeGate
  \/ BodyLimitGate
  \/ BodyParserGate
  \/ ArgCountGate
  \/ EndList
  \/ \E r \in Rules :
       \/ \E matched \in BOOLEAN : Collect(r, matched)
       \/ ApplyCollected(r)
       \/ NoMatch(r)
       \/ Helper(r)
       \/ Sanitize(r)
       \/ \E over \in BOOLEAN : Throttle(r, over)
       \/ Respond(r)

Spec == Init /\ [][Next]_vars

-----------------------------------------------------------------------------
(***************************************************************************)
(* Properties                                                              *)
(***************************************************************************)
RuleControls ==
  [off : BOOLEAN, observe : BOOLEAN, forced : BOOLEAN, noBody : BOOLEAN,
   removed : SUBSET Rules]

TypeOK ==
  /\ rule \in [Rules -> Shapes] /\ channel \in [Rules -> Channels]
  /\ blocking \in BOOLEAN /\ body \in Bodies /\ failing \in Failures
  /\ stage \in 0 .. LastStage + 1
  /\ outcome = "open" => stage <= LastStage
  /\ todo \subseteq Rules /\ pending \subseteq Rules
  /\ rc \in RuleControls
  /\ uninspected \in BOOLEAN /\ inspected \in BOOLEAN
  /\ outcome \in Outcomes
  /\ evaluated \subseteq Rules /\ acted \subseteq Rules
  /\ applied \in Seq(Rules)

AppliedRules == {applied[i] : i \in DOMAIN applied}

Declares(i, directive) == directive \in rule[applied[i]].controls

\* Some applied rule declared a, and none after it declared b.
Lasts(a, b) ==
  \E i \in DOMAIN applied :
    Declares(i, a) /\ \A j \in DOMAIN applied : j > i => ~Declares(j, b)

TurnedOff == \E i \in DOMAIN applied : Declares(i, "engine_off")
DetectionOnly == Lasts("detection_only", "engine_on")
ForcedOn == Lasts("engine_on", "detection_only") /\ ~TurnedOff

\* "between detection_only and engine_on the last applied wins", "engine_off still
\* wins": the three flags always say what the controls applied so far, read as a
\* history, come to.
EngineSwitch ==
  /\ rc.off <=> TurnedOff
  /\ rc.observe <=> DetectionOnly
  /\ rc.forced <=> ForcedOn

\* "ctl:* is non-disruptive and runs first, then the disruptive action is checked
\* against the engine state it just set": no action of any rule alters a request
\* that ends in detection only, and none refuses a request on a detecting service
\* that no rule forced on, the controls of the acting rule included; a rule that
\* an applied control removes never acts.
ActsAsRuled ==
  [][\A r \in acted' \ acted :
       /\ ~DetectionOnly'
       /\ outcome' = "rule" => (blocking \/ ForcedOn')
       /\ \A i \in DOMAIN applied : r \notin rule[applied[i]].removes]_vars

\* "skip all remaining rule evaluation for this request": from the moment an
\* engine_off is applied no rule is evaluated, in the same list or a later one.
OffIsFinal ==
  [][TurnedOff => evaluated' = evaluated /\ acted' = acted]_vars

\* "rule order inside a pack is irrelevant: a blocking rule matching early can no
\* longer swallow an exclusion declared after it": when a detection rule of the
\* custom or global channel is evaluated, every exclusion of its channel has been
\* evaluated and, if it matched, is in force.
ExclusionsFirst ==
  \A r, s \in Rules :
    (/\ r \in evaluated /\ rule[r].actions # {}
     /\ channel[r] \in {"custom", "global"} /\ channel[s] = channel[r]
     /\ HasControls(s) /\ rule[s].actions = {}) =>
       s \in evaluated \ pending

\* "each rule runs exactly once": a rule waiting in the current or a later list
\* was not evaluated before, whichever list it was moved from.
EachRuleOnce ==
  /\ outcome = "open" => todo \cap evaluated = {}
  /\ \A k \in 1 .. LastStage : k > stage => RulesIn(k) \cap evaluated = {}

\* A rule of the pre-body pass, read off its declaration.
SwitchesBodyOff(r) ==
  /\ "body_access_off" \in rule[r].controls
  /\ rule[r].actions = {} /\ rule[r].reads = "head" /\ channel[r] # "crs"

\* "the body is then never parsed for that request", "nothing is counted, nothing
\* is blocked": once an exclusion that reads no body switched the body off, no
\* body gate and no rule reads it, and no limit on the body refuses the request.
SwitchedOffBodyUnread ==
  (\E r \in AppliedRules : SwitchesBodyOff(r)) =>
    ~inspected /\ (outcome = "gate" => failing \cap (HeaderGates \cup {"query_args"}) # {})

\* The gates whose limit on this body counts.
Bound(g) ==
  /\ g \in BodyGates => body # "none"
  /\ g = "body_limit" => body # "stream" /\ (body = "multipart" => "fields_limit" \in failing)
  /\ g = "body_parser" => body = "json" \/ (body = "multipart" /\ "body_limit" \notin failing)
  /\ g = "arg_count" => ~uninspected
  /\ g = "body_parser" => ~uninspected

\* "nothing can switch them off", "the one control a gate honours is
\* body_access_off": on a blocking service a request that breaks a gate's limit
\* never gets past it, whatever the rule controls, but for a body switched off.
GatesHold ==
  \A g \in failing \cap Gates, k \in 1 .. LastStage :
    (blocking /\ Pipeline[k] = g /\ stage > k /\ Bound(g)) =>
      g \in BodyGates /\ \E r \in AppliedRules : "body_access_off" \in rule[r].controls

(***************************************************************************)
(* What the documentation says and the code does not do                    *)
(***************************************************************************)
\* "when a body declared as multipart, JSON or XML fails to parse, block it".
UnparsableRefused ==
  \A k \in 1 .. LastStage :
    (/\ blocking /\ Pipeline[k] = "body_parser" /\ stage > k
     /\ "body_parser" \in failing /\ body \in {"json", "multipart"}) =>
      \E r \in AppliedRules : "body_access_off" \in rule[r].controls
=============================================================================
