-------------------------- MODULE ConsoleRuleForm --------------------------
(***************************************************************************)
(* The rule dialog: a guided form and a raw editor over the same rule, and *)
(* the exclusion builder, whose scopes and request fields become the       *)
(* rule_control entries of a rule and are read back from them when it is   *)
(* edited.  Writing the rule into a plugin's list is ConsoleEdits'; here   *)
(* one rule is followed, one save at a time, and its condition is taken to *)
(* be filled in.                                                           *)
(*                                                                         *)
(* A control takes one scope, a rule or a tag, out of play: wholly, or for *)
(* one target of the request.  Texts are as long as the form lets them be. *)
(***************************************************************************)
EXTENDS ConsoleLists, Sequences

CONSTANTS
  RuleIds, Tags,        \* the tag of all of CRS is one of them
  Several,              \* a text with all the ids, or all the tags, and commas between
  Names, Lower,         \* what a field may be called, and each name in lower case
  First, Comma,         \* Comma: the names in one text, First first, with commas between
  OthersRules           \* bound: the rules others write or a raw editor holds

VARIABLES
  rule,      \* the rule as the plugin has it
  dialog,    \* what it was opened with, the tab shown, whether the form was touched
  builder,   \* the guided form
  raw,       \* the native and the SecLang text of the raw tab, and the one shown
  ruleJob    \* the save under way: the form and the rule it was made of

ruleForm == <<rule, dialog, builder, raw, ruleJob>>
ruleDialog == <<dialog, builder, raw>>

Scopes == [on : {"rule"}, sel : RuleIds] \cup [on : {"tag"}, sel : Tags]
Selectors == Scopes \cup [on : {"rule", "tag"}, sel : {Several}]
Types == {"parameter", "header", "body"}
Fields == [type : Types, name : Names \cup {Comma, ""}]
MaxFields == 2   \* bound
BlankField == [type |-> "parameter", name |-> ""]

\* RequestTargets of a control; the dialog has no name for those of type "other".
Whole == [type |-> "whole", name |-> ""]
Other == [type |-> "other", name |-> ""]
NoRequestField == {Whole, Other}
RequestTargets == NoRequestField \cup [type : {"parameter", "header"}, name : Names \cup {Comma}]
            \cup {[type |-> "body", name |-> ""]}
Controls == {[on |-> s.on, sel |-> s.sel, target |-> t] : s \in Selectors, t \in RequestTargets}

\* `detail': what of its conditions and action the form does not show; "many"
\* conditions are not for the form at all.
Actions == {"none", "block", "sanitize", "rate_limit"}
NativeRules == [action : Actions, detail : {"plain", "more", "many"}, controls : SUBSET Controls]
SecLang == [action |-> "seclang", detail |-> "many", controls |-> {}]
Scaffold == [action |-> "block", detail |-> "plain", controls |-> {}]

ASSUME RuleFormAssumption ==
  /\ IsFiniteSet(RuleIds) /\ IsFiniteSet(Tags) /\ Several \notin RuleIds \cup Tags
  /\ IsFiniteSet(Names) /\ "" \notin Names
  /\ Lower \in [Names -> Names]
  /\ First \in Names /\ Names # {First} /\ Comma \notin Names \cup {""}
  /\ OthersRules \subseteq NativeRules \cup {SecLang}

NoBuilder == [action |-> "block", kind |-> "fields", picked |-> {}, typed |-> {},
              fields |-> <<BlankField>>]
NoDialog == [mode |-> "none", source |-> None, tab |-> "guided", target |-> FALSE, touched |-> FALSE]
NoRaw == [native |-> Scaffold, seclang |-> FALSE, format |-> "native"]
NoRuleJob == [stage |-> "none", guided |-> FALSE, form |-> NoBuilder, rule |-> None, source |-> None,
              heard |-> FALSE]

RuleFormTypeOK ==
  /\ rule = SecLang \/ rule \in NativeRules
  /\ dialog.mode \in {"none", "create", "edit"} /\ dialog.tab \in {"guided", "raw"}
  /\ dialog.mode = "edit" <=> dialog.source # None
  /\ builder.action \in (Actions \ {"none"}) \cup {"exclusion"}
  /\ builder.kind \in {"fields", "detections"}
  /\ builder.picked \subseteq Scopes /\ builder.typed \subseteq Scopes
  /\ builder.fields \in Seq(Fields)
  /\ raw.format \in {"native", "seclang"}
  /\ ruleJob.stage \in {"none", "sent", "ok", "failed"}

RuleFormInit ==
  /\ rule = Scaffold
  /\ dialog = NoDialog /\ builder = NoBuilder /\ raw = NoRaw /\ ruleJob = NoRuleJob

\* Whatever is opened next fills what it shows.
Closed == dialog' = NoDialog /\ builder' = NoBuilder /\ raw' = NoRaw

\* The dialog is the rules view's: another view has none.
RuleFormLeft(p) ==
  IF p = place THEN UNCHANGED <<ruleDialog, ruleJob>>
  ELSE /\ Closed
       /\ ruleJob' = [ruleJob EXCEPT !.heard = FALSE]

-----------------------------------------------------------------------------
(* From the builder to the controls and back.                              *)

\* The name of a header is put in lower case, all of the text it was typed as.
Spelt(type, n) == IF type = "header" THEN Lower[n] ELSE n

\* A list of values is cut at commas; a value that does not start with "request."
\* is taken for a parameter.
TargetsOf(f) ==
  IF f.type = "body" THEN {[type |-> "body", name |-> ""]}
  ELSE IF f.name = "" THEN {}
  ELSE IF f.name = Comma
       THEN {[type |-> f.type, name |-> Spelt(f.type, First)]}
              \cup {[type |-> "parameter", name |-> Spelt(f.type, n)] : n \in Names \ {First}}
  ELSE {[type |-> f.type, name |-> Spelt(f.type, f.name)]}

FieldsOf(b) == {b.fields[i] : i \in DOMAIN b.fields}
ScopesOf(b) == b.picked \cup b.typed

Cross(scopes, targets) == {[on |-> s.on, sel |-> s.sel, target |-> t] : s \in scopes, t \in targets}

ControlsOf(b) ==
  IF b.kind = "detections" THEN Cross(ScopesOf(b), {Whole})
  ELSE Cross(ScopesOf(b), UNION {TargetsOf(f) : f \in FieldsOf(b)})

\* Something is excluded, and every row of the form has its part in it.
BuilderValid(b) ==
  /\ ControlsOf(b) # {}
  /\ b.kind = "fields" => \A f \in FieldsOf(b) : TargetsOf(f) # {}

Scope(c) == [on |-> c.on, sel |-> c.sel]
TargetsFor(cs, s) == {c.target : c \in {d \in cs : Scope(d) = s}}

SameTargets_Any(cs) == TRUE
\* One list of fields can only stand for controls that give every scope the same.
SameTargets(cs) == \A c, d \in cs : TargetsFor(cs, Scope(c)) = TargetsFor(cs, Scope(d))

InSomeOrder(S) == CHOOSE q \in [1 .. Cardinality(S) -> S] : \A x \in S : \E i \in DOMAIN q : q[i] = x

\* What is read back is cut at commas as well: a target to pieces that are none.
HasField(t) == t \notin NoRequestField /\ t.name # Comma

\* The builder for a set of controls, if they are all of one kind and alike.
Buildable(cs) ==
  /\ cs # {}
  /\ \/ \A c \in cs : c.target = Whole
     \/ (\A c \in cs : HasField(c.target)) /\ SameTargets(cs)

\* The scopes an id or a tag is cut into.
Cut(s) == IF s.sel = Several THEN {t \in Scopes : t.on = s.on} ELSE {s}

BuilderFor(cs) ==
  [action |-> "exclusion", typed |-> {}, picked |-> UNION {Cut(Scope(c)) : c \in cs},
   kind |-> IF \E c \in cs : c.target = Whole THEN "detections" ELSE "fields",
   fields |-> InSomeOrder({c.target : c \in cs} \ {Whole})]

\* A rule is edited in the form if it has one condition, and an action of the form
\* or none and controls of the builder.
HasForm(r) ==
  r.detail # "many" /\ (r.action # "none" \/ Buildable(r.controls))

GuidedForm(r) == IF r.action = "none" THEN BuilderFor(r.controls) ELSE [NoBuilder EXCEPT !.action = r.action]

\* The form's action replaces whatever the rule did, its controls included.
BuildNativeRule(b) ==
  IF b.action = "exclusion"
  THEN [action |-> "none", detail |-> "plain", controls |-> ControlsOf(b)]
  ELSE [action |-> b.action, detail |-> "plain", controls |-> {}]

-----------------------------------------------------------------------------
(* Opening the dialog.                                                     *)

Covered == dialog.mode # "none"

NewRule ==
  /\ place = "rules" /\ ~Covered
  /\ dialog' = [NoDialog EXCEPT !.mode = "create"]
  /\ builder' = NoBuilder /\ raw' = NoRaw
  /\ UNCHANGED <<session, asks, place, lists, rule, ruleJob>>

EditRule ==
  /\ place = "rules" /\ ~Covered
  /\ dialog' = [NoDialog EXCEPT !.mode = "edit", !.source = rule, !.target = TRUE,
                  !.tab = IF HasForm(rule) THEN "guided" ELSE "raw"]
  /\ builder' = IF HasForm(rule) THEN GuidedForm(rule) ELSE builder
  /\ raw' = IF rule = SecLang THEN [raw EXCEPT !.seclang = TRUE, !.format = "seclang"]
            ELSE [raw EXCEPT !.native = rule, !.format = "native"]
  /\ UNCHANGED <<session, asks, place, lists, rule, ruleJob>>

\* "Create exclusion" in an event's dialog goes to the rules with a draft: the rule
\* that matched, and where, if the builder has a name for it.
DraftFromEvent(i) ==
  /\ Shows(i)
  /\ place' = "rules" /\ filter' = NoFilter /\ page' = 0 /\ opened' = None
  /\ dialog' = [NoDialog EXCEPT !.mode = "create", !.target = TRUE]
  /\ builder' \in [action : {"exclusion"}, kind : {"fields"}, picked : {{s} : s \in {t \in Scopes : t.on = "rule"}},
                   typed : {{}}, fields : {<<>>, <<[type |-> "header", name |-> Lower[First]]>>}]
  /\ raw' = NoRaw
  /\ UNCHANGED <<session, asks, data, rule, ruleJob>>

CloseRule ==
  /\ Covered
  /\ Closed
  /\ UNCHANGED <<session, asks, place, lists, rule, ruleJob>>

-----------------------------------------------------------------------------
(* The form.                                                               *)

Guided == Covered /\ dialog.tab = "guided"
Touched == dialog' = [dialog EXCEPT !.touched = TRUE]

Build(b) ==
  /\ Guided /\ b # builder /\ Ask
  /\ builder' = b /\ Touched
  /\ UNCHANGED <<session, place, lists, rule, raw, ruleJob>>

ChooseAction(a) == Build([builder EXCEPT !.action = a])

InBuilder == builder.action = "exclusion"

\* Choosing "Request fields" makes sure that there is a row.
ChooseKind(k) ==
  /\ InBuilder
  /\ Build([builder EXCEPT !.kind = k,
              !.fields = IF k = "fields" /\ @ = <<>> THEN <<BlankField>> ELSE @])

Toggle(S, x) == IF x \in S THEN S \ {x} ELSE S \cup {x}
Pick(s) == InBuilder /\ Build([builder EXCEPT !.picked = Toggle(@, s)])
TypeScope(s) == InBuilder /\ Build([builder EXCEPT !.typed = Toggle(@, s)])

InFields == InBuilder /\ builder.kind = "fields"
FieldRow(i) == InFields /\ i \in DOMAIN builder.fields
ChangeType(i, t) ==
  /\ FieldRow(i)
  /\ Build([builder EXCEPT !.fields[i] = [type |-> t, name |-> IF t = "body" THEN "" ELSE @.name]])
ChangeName(i, n) ==
  /\ FieldRow(i) /\ builder.fields[i].type # "body"
  /\ Build([builder EXCEPT !.fields[i].name = n])
AddField == InFields /\ Len(builder.fields) < MaxFields /\ Build([builder EXCEPT !.fields = Append(@, BlankField)])
RemoveField(i) ==
  /\ FieldRow(i) /\ Len(builder.fields) # 1
  /\ Build([builder EXCEPT !.fields = SubSeq(@, 1, i - 1) \o SubSeq(@, i + 1, Len(@))])

\* The service a new rule is for is searched for and chosen, and lost with any typing.
ChooseService ==
  /\ Covered /\ dialog.mode = "create" /\ Ask
  /\ dialog' = [dialog EXCEPT !.target = ~@]
  /\ UNCHANGED <<session, place, lists, rule, builder, raw, ruleJob>>

\* Both tabs are there for a new rule and for one that has a form.
ShowTab(t) ==
  /\ Covered /\ t # dialog.tab
  /\ dialog.mode = "edit" => HasForm(dialog.source)
  /\ dialog' = [dialog EXCEPT !.tab = t]
  /\ UNCHANGED <<session, asks, place, lists, rule, builder, raw, ruleJob>>

ContinueInRaw ==
  /\ Guided
  /\ dialog' = [dialog EXCEPT !.tab = "raw"]
  /\ raw' = [raw EXCEPT !.native = BuildNativeRule(builder), !.format = "native"]
  /\ UNCHANGED <<session, asks, place, lists, rule, builder, ruleJob>>

\* In the raw tab the formats keep their texts apart; any of them can be typed.
TypeRaw(r) ==
  /\ Covered /\ dialog.tab = "raw" /\ Ask
  /\ r.format = raw.format \/ dialog.mode = "create"
  /\ raw' = r /\ r # raw /\ Touched
  /\ UNCHANGED <<session, place, lists, rule, builder, ruleJob>>

-----------------------------------------------------------------------------
(* Saving.                                                                 *)

CanSave ==
  /\ Covered /\ dialog.target /\ ruleJob = NoRuleJob
  /\ Guided /\ InBuilder => BuilderValid(builder)
  /\ ~Guided /\ raw.format = "seclang" => raw.seclang

RuleToSave ==
  IF Guided THEN BuildNativeRule(builder) ELSE IF raw.format = "native" THEN raw.native ELSE SecLang

\* (The confirmation is ConsoleEdits'.)  The form stays open to changes.
SaveRule ==
  /\ CanSave /\ Ask
  /\ ruleJob' = [stage |-> "sent", guided |-> Guided, form |-> builder,
                 rule |-> RuleToSave, source |-> dialog.source, heard |-> TRUE]
  /\ UNCHANGED <<session, place, lists, rule, ruleDialog>>

\* A changed rule is only replaced if it is as it was when the dialog was opened.
ServeRule ==
  /\ ruleJob.stage = "sent"
  /\ \/ /\ Valid /\ ruleJob.source \in {None, rule}
        /\ rule' = ruleJob.rule
        /\ ruleJob' = [ruleJob EXCEPT !.stage = "ok"]
     \/ ruleJob' = [ruleJob EXCEPT !.stage = "failed"] /\ UNCHANGED rule
  /\ UNCHANGED <<session, asks, place, lists, ruleDialog>>

\* Success closes the dialog that is open by now, a failure is shown in it.
RuleAnswered ==
  /\ ruleJob.stage \in {"ok", "failed"}
  /\ ruleJob' = NoRuleJob
  /\ IF ruleJob.stage = "ok" /\ ruleJob.heard THEN Closed ELSE UNCHANGED ruleDialog
  /\ UNCHANGED <<session, asks, place, lists, rule>>

OthersWrite(r) ==
  /\ r # rule /\ Ask
  /\ rule' = r
  /\ UNCHANGED <<session, place, lists, ruleDialog, ruleJob>>

RuleFormNext ==
  \/ NewRule \/ EditRule \/ CloseRule \/ AddField \/ ChooseService \/ ContinueInRaw
  \/ \E a \in (Actions \ {"none"}) \cup {"exclusion"} : ChooseAction(a)
  \/ \E k \in {"fields", "detections"} : ChooseKind(k)
  \/ \E s \in Scopes : Pick(s) \/ TypeScope(s)
  \/ \E i \in 1 .. MaxFields :
       RemoveField(i) \/ (\E t \in Types : ChangeType(i, t)) \/ (\E n \in Names \cup {Comma, ""} : ChangeName(i, n))
  \/ \E t \in {"guided", "raw"} : ShowTab(t)
  \/ \E r \in [native : {Scaffold, raw.native} , seclang : BOOLEAN, format : {"native", "seclang"}] : TypeRaw(r)
  \/ SaveRule \/ ServeRule \/ RuleAnswered
  \/ \E r \in OthersRules : OthersWrite(r)

-----------------------------------------------------------------------------
\* The controls with one scope each, where an id or a tag is cut, and every header in
\* lower case.
LowerHeader(t) == IF t.type = "header" THEN [t EXCEPT !.name = Lower[@]] ELSE t
Normal(cs) == UNION {Cross(Cut(Scope(c)), {LowerHeader(c.target)}) : c \in cs}

\* An exclusion that the guided form shows says what the rule does: saved untouched it
\* has the controls of the rule it was opened on and no others, whoever wrote that one,
\* but for two things the form does not keep: the capitals of a header, and the commas
\* of an id or a tag, which comes to stand for those between them (exclusions.js,
\* "round-trips supported controls into guided fields").
ReopensTheSame ==
  dialog.mode = "edit" /\ Guided /\ InBuilder /\ ~dialog.touched =>
    BuildNativeRule(builder).controls = Normal(dialog.source.controls)
=============================================================================
