--------------------------- MODULE ConsoleTargets ---------------------------
(***************************************************************************)
(* Which Kong the console manages: the saved targets and the active one in *)
(* the API, whose test and activate handlers wait for a probe of Kong in   *)
(* between, and the two places that call them: the Kong step of the setup  *)
(* and the connections card of the settings.                               *)
(*                                                                         *)
(* A target's text stands for its name and endpoint; no two saved targets  *)
(* have the same name.                                                     *)
(***************************************************************************)
EXTENDS ConsoleSession

CONSTANTS Targets, Texts, Invalid   \* Invalid: form content that cannot be sent

ASSUME TargetsAssumption ==
  /\ Targets # {} /\ None \notin Targets /\ None \notin Texts /\ Invalid \notin Texts
  /\ \E s \in [Targets -> Texts] : \A k, l \in Targets : s[k] = s[l] => k = l

VARIABLES
  saved,      \* _KONG_CONNECTIONS_KEY: the text of each saved target, None: not saved
  active,     \* _KONG_ACTIVE_KEY
  job,        \* the calls under way: two of this tab, one of another browser
  kong,       \* Setup: the Kong its step shows as the one in use
  rows,       \* the card's list: saved and active as last read
  form,       \* the form of either place
  removing    \* the row whose removal is being confirmed

targets == <<saved, active, job, kong, rows, form, removing>>
card == <<rows, form, removing>>

Jobs == {"check", "form", "other"}   \* the check or first load, the buttons, the other browser
NoJob == [op |-> "none", stage |-> "none", id |-> None, text |-> None, snap |-> None, heard |-> FALSE]
NoRows == [saved |-> [k \in Targets |-> None], active |-> None]
NoForm == [id |-> None, text |-> Invalid]

Records == [Targets -> Texts \cup {None}]

TargetsTypeOK ==
  /\ saved \in Records /\ active \in Targets
  /\ \A j \in Jobs :
       /\ job[j].op \in {"none", "check", "load", "save", "test", "activate", "remove"}
       /\ job[j].stage \in {"none", "sent", "probing", "answered", "failed", "list", "listed"}
       /\ job[j].id \in Targets \cup {None} /\ job[j].text \in Texts \cup {None}
       /\ job[j].snap \in Records \cup {None} \cup [saved : Records, active : Targets]
  /\ kong \in {None} \cup [connected : BOOLEAN, id : Targets \cup {None}]
  /\ rows \in [saved : Records, active : Targets \cup {None}]
  /\ form \in [id : Targets \cup {None}, text : Texts \cup {Invalid}]
  /\ removing \in Targets \cup {None}

TargetsInit ==
  /\ saved = CHOOSE s \in [Targets -> Texts] : \A k, l \in Targets : s[k] = s[l] => k = l
  /\ active = CHOOSE k \in Targets : TRUE
  /\ job = [j \in Jobs |-> NoJob]
  /\ kong = None /\ rows = NoRows /\ form = NoForm /\ removing = None

\* What goes with the place: the wizard keeps its Kong from step to step.  Calls
\* under way go on, but nothing on the screen hears of them.
TargetsLeft(p) ==
  IF p = place THEN UNCHANGED <<job, kong, card>>
  ELSE /\ kong' = IF p \in Steps THEN kong ELSE None
       /\ rows' = NoRows /\ form' = NoForm /\ removing' = None
       /\ job' = [j \in Jobs |-> [job[j] EXCEPT !.heard = @ /\ {place, p} \subseteq Steps]]

Free(j) == job[j] = NoJob

Becomes(j, q) == job' = [job EXCEPT ![j] = q]

Start(j, op, id, text) ==
  Becomes(j, [op |-> op, stage |-> IF op \in {"check", "load"} THEN "list" ELSE "sent",
          id |-> id, text |-> text, snap |-> None, heard |-> j # "other"])

-----------------------------------------------------------------------------
(* The step of the setup.                                                  *)

\* As soon as the step shows nothing, or again on a click unless a test runs: the
\* active target is read, then activated.
Check ==
  /\ place = "kong" /\ Free("check")
  /\ IF kong = None THEN UNCHANGED asks ELSE Free("form") /\ Ask
  /\ Start("check", "check", None, None)
  /\ UNCHANGED <<session, place, saved, active, kong, card>>

\* A different Kong can be tested while the check runs.
TestOther ==
  /\ place = "kong" /\ Free("form") /\ form.text # Invalid /\ Ask
  /\ Start("form", "test", None, form.text)
  /\ UNCHANGED <<session, place, saved, active, kong, card>>

\* Going on waits for the check unless Kong is known to be connected.
MayContinue ==
  \/ Free("check") \/ ~job["check"].heard
  \/ kong # None /\ kong.connected

Type(t) ==
  /\ place \in {"kong", "settings"} /\ t # form.text /\ Ask
  /\ form' = [form EXCEPT !.text = t]
  /\ UNCHANGED <<session, place, saved, active, job, kong, rows, removing>>

-----------------------------------------------------------------------------
(* The card of the settings.                                               *)

Load ==
  /\ place = "settings" /\ rows = NoRows /\ Free("check")
  /\ Start("check", "load", None, None)
  /\ UNCHANGED <<session, asks, place, saved, active, kong, card>>

Row(k) == [id |-> k, text |-> rows.saved[k]]
Listed(k) == place = "settings" /\ rows.saved[k] # None
Idle == place = "settings" /\ Free("form")

\* Neither the form's inputs nor "Add Kong" are disabled while a call is under way.
EditRow(k) ==
  /\ Idle /\ Listed(k) /\ form' = Row(k)
  /\ UNCHANGED <<session, asks, place, saved, active, job, kong, rows, removing>>

AddKong ==
  /\ place = "settings" /\ form' = NoForm
  /\ UNCHANGED <<session, asks, place, saved, active, job, kong, rows, removing>>

SendForm(op) ==
  /\ Idle /\ form.text # Invalid /\ Ask
  /\ Start("form", op, form.id, form.text)
  /\ UNCHANGED <<session, place, saved, active, kong, card>>

ActivateRow(k) ==
  /\ Idle /\ Listed(k) /\ Ask
  /\ Start("form", "activate", k, None)
  /\ UNCHANGED <<session, place, saved, active, kong, card>>

\* Rows other than the active one have a button that asks first.
AskRemoval(k) ==
  /\ Idle /\ Listed(k) /\ k # rows.active /\ Ask
  /\ removing' = k
  /\ UNCHANGED <<session, place, saved, active, job, kong, rows, form>>

Remove ==
  /\ Idle /\ removing # None
  /\ Start("form", "remove", removing, None)
  /\ UNCHANGED <<session, asks, place, saved, active, kong, card>>

KeepRow ==
  /\ removing # None /\ removing' = None
  /\ UNCHANGED <<session, asks, place, saved, active, job, kong, rows, form>>

-----------------------------------------------------------------------------
(* The API.                                                                *)

Stage(j, stage) == Becomes(j, [job[j] EXCEPT !.stage = stage])
Persist(records, id) == saved' = records /\ active' = id

ServeList(j) ==
  /\ job[j].stage = "list"
  /\ Becomes(j, [job[j] EXCEPT !.stage = "listed", !.snap = [saved |-> saved, active |-> active]])
  /\ UNCHANGED <<saved, active>>

\* _upsert_kong_connection: the targets are read anew; a new one needs room and a
\* name of its own.
Slot(id) == IF id # None THEN {id} \ {k \in Targets : saved[k] = None} ELSE {k \in Targets : saved[k] = None}
NameTaken(id, text) == \E k \in Targets \ {id} : saved[k] = text

Upsert(j, switch) ==
  LET q == job[j]
  IN  IF Slot(q.id) = {} \/ NameTaken(q.id, q.text)
      THEN Stage(j, "failed") /\ UNCHANGED <<saved, active>>
      ELSE \E k \in Slot(q.id) :
             /\ Persist([saved EXCEPT ![k] = q.text], IF switch THEN k ELSE active)
             /\ Becomes(j, [job[j] EXCEPT !.stage = "answered", !.id = k])

ServeSave(j) == job[j].op = "save" /\ job[j].stage = "sent" /\ Upsert(j, FALSE)

Removable_Always(k) == saved[k] # None
Removable(k) == saved[k] # None /\ k # active

ServeRemove(j) ==
  /\ job[j].op = "remove" /\ job[j].stage = "sent"
  /\ IF Removable(job[j].id)
     THEN Persist([saved EXCEPT ![job[j].id] = None], active) /\ Stage(j, "answered")
     ELSE Stage(j, "failed") /\ UNCHANGED <<saved, active>>

\* A test probes what it was sent; an activation reads the target and all the others,
\* and probes the target.
Probe(j) ==
  /\ job[j].op \in {"test", "activate", "check"} /\ job[j].stage = "sent"
  /\ IF job[j].op = "test" THEN Stage(j, "probing")
     ELSE IF saved[job[j].id] = None THEN Stage(j, "failed")
     ELSE Becomes(j, [job[j] EXCEPT !.stage = "probing", !.text = saved[job[j].id], !.snap = saved])
  /\ UNCHANGED <<saved, active>>

ReadBefore_Anew(j) == saved
ReadBefore(j) == job[j].snap

\* Kong answered: the target is made the active one, by an activation in the list
\* it read before the probe.
Reached(j) ==
  /\ job[j].stage = "probing"
  /\ IF job[j].op = "test" THEN Upsert(j, TRUE)
     ELSE Persist(ReadBefore(j), job[j].id) /\ Stage(j, "answered")

NotReached(j) ==
  /\ job[j].stage = "probing" /\ Stage(j, "failed") /\ UNCHANGED <<saved, active>>

\* Another browser saves, removes or activates.
OthersStart(op, k, t) ==
  /\ Free("other") /\ Ask
  /\ \/ op \in {"activate", "remove"} /\ Start("other", op, k, None)
     \/ op \in {"save", "test"} /\ Start("other", op, k, t)
  /\ UNCHANGED <<session, place, saved, active, kong, card>>

TargetsApi(j) ==
  /\ ServeList(j) \/ ServeSave(j) \/ ServeRemove(j) \/ Probe(j) \/ Reached(j) \/ NotReached(j)
  /\ UNCHANGED <<session, asks, place, kong, card>>

-----------------------------------------------------------------------------
(* The answers.                                                            *)

Ended(j) == Becomes(j, NoJob)

Summary(j) == [connected |-> job[j].stage = "answered", id |-> job[j].id]

\* The check goes on with the active target it read.
CheckListed ==
  /\ job["check"].op = "check" /\ job["check"].stage = "listed"
  /\ Becomes("check", [job["check"] EXCEPT !.stage = "sent", !.id = job["check"].snap.active])
  /\ UNCHANGED <<kong, card>>

\* Both set the same Kong, in the order they are answered; a failed test only says so.
KongAnswered(j) ==
  /\ job[j].op = "check" \/ (j = "form" /\ place \in Steps)
  /\ job[j].stage \in {"answered", "failed"}
  /\ kong' = IF job[j].heard /\ (job[j].op = "check" \/ job[j].stage = "answered")
             THEN Summary(j) ELSE kong
  /\ Ended(j)
  /\ UNCHANGED card

\* A change that worked reads the list again; the form then shows what was saved or
\* what is active, whatever was typed meanwhile.  A removal empties the form if it
\* was of the row removed when the button was pressed.
CardAnswered(j) ==
  /\ j = "form" /\ place = "settings" /\ job[j].stage \in {"answered", "failed"}
  /\ IF job[j].stage = "failed" \/ ~job[j].heard THEN Ended(j) /\ UNCHANGED <<kong, card>>
     ELSE /\ Stage(j, "list")
          /\ IF job[j].op = "remove"
             THEN removing' = None /\ form' = IF form.id = job[j].id THEN NoForm ELSE form
             ELSE UNCHANGED <<removing, form>>
          /\ UNCHANGED <<kong, rows>>

ListAnswered(j) ==
  /\ job[j].op # "check" /\ job[j].stage = "listed"
  /\ Ended(j)
  /\ IF ~job[j].heard THEN UNCHANGED <<kong, card>>
     ELSE LET q == job[j].snap
              k == IF job[j].op = "save" THEN job[j].id ELSE q.active
          IN  /\ rows' = q
              /\ form' = IF job[j].op = "remove" THEN form
                         ELSE [id |-> k, text |-> IF job[j].op = "save" THEN job[j].text ELSE q.saved[k]]
              /\ UNCHANGED <<kong, removing>>

\* Answers nobody waits for.
Unheard(j) ==
  /\ job[j].stage \in {"answered", "failed"}
  /\ j = "other" \/ (j = "form" /\ place \notin Steps \cup {"settings"})
  /\ Ended(j) /\ UNCHANGED <<kong, card>>

TargetsAnswers ==
  /\ CheckListed \/ \E j \in Jobs : KongAnswered(j) \/ CardAnswered(j) \/ ListAnswered(j) \/ Unheard(j)
  /\ UNCHANGED <<session, asks, place, saved, active>>

TargetsNext ==
  \/ Check \/ TestOther \/ Load \/ AddKong \/ Remove \/ KeepRow
  \/ \E t \in Texts : Type(t)
  \/ \E k \in Targets : EditRow(k) \/ ActivateRow(k) \/ AskRemoval(k)
  \/ SendForm("save") \/ SendForm("test")
  \/ \E op \in {"save", "test", "activate", "remove"}, k \in Targets, t \in Texts : OthersStart(op, k, t)
  \/ \E j \in Jobs : TargetsApi(j)
  \/ TargetsAnswers

-----------------------------------------------------------------------------
\* The active target is a saved one: a removal, a test and an activation that wrote
\* back the list it read before its probe never leave the console without (app.py,
\* delete_kong_connection and activate_kong_connection).
ActiveIsSaved == saved[active] # None

\* The console only switches to a target as it was when it answered the probe, even
\* if somebody edited or removed it while the probe was under way.
SwitchesToWhatAnswered ==
  [][active' # active =>
       \E j \in Jobs : job[j].stage = "probing" /\ saved'[active'] = job[j].text]_<<saved, active, job>>
=============================================================================
