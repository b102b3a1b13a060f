--------------------------- MODULE ConsoleServices ---------------------------
(***************************************************************************)
(* The dialog that edits a service's Karna policy: one form for the mode   *)
(* and the coverage, which are always sent, for the advanced settings, of  *)
(* which the changed ones are, and for the Redis password, which the API   *)
(* never returns.  Overlapping writes are ConsoleEdits'; here what one     *)
(* form is filled with and what leaves it.                                 *)
(***************************************************************************)
EXTENDS ConsoleSession

CONSTANTS
  Services, NoPlugin,    \* NoPlugin: a service Karna is not attached to itself
  Plugins, Installed,    \* of the CoreRuleSet; a configured one may be missing
  Outdated               \* services configured with one that is

ASSUME ServicesAssumption ==
  /\ NoPlugin \in Services /\ None \notin Services
  /\ Installed \subseteq Plugins /\ Outdated \subseteq Services

VARIABLES
  conf,       \* the plugin of each service in Kong
  policy,     \* the dialog: its service, what the form was filled with, the form
  policyJob   \* the update under way

services == <<conf, policy, policyJob>>

Modes == {"detect", "block"}
Settings == [mode : Modes, plugins : SUBSET Plugins,
             reply : {"builtin", "own"},                     \* a default_*_response_body
             password : {"none"} \cup Services]              \* by whom it was meant for

\* What the form holds: an empty reply stands for none, a password is typed or not;
\* of the stored one it knows only that there is one.
Form(s) == [mode |-> conf[s].mode, plugins |-> conf[s].plugins, reply |-> conf[s].reply,
            stored |-> conf[s].password # "none", typed |-> None, clear |-> FALSE]
EmptyPolicy == [mode |-> "detect", plugins |-> {}, reply |-> "builtin",
                stored |-> FALSE, typed |-> None, clear |-> FALSE]
NoPolicy == [service |-> None, base |-> EmptyPolicy, form |-> EmptyPolicy]
NoPolicyJob == [stage |-> "none", service |-> None, body |-> EmptyPolicy, heard |-> FALSE]

ServicesTypeOK ==
  /\ conf \in [Services -> Settings]
  /\ policy.service \in Services \cup {None}
  /\ policy.form.plugins \subseteq Plugins
  /\ policyJob.stage \in {"none", "sent", "ok", "failed"}

ServicesInit ==
  /\ conf = [s \in Services |->
               [mode |-> "detect", plugins |-> IF s \in Outdated THEN Plugins ELSE Installed,
                reply |-> "builtin", password |-> "none"]]
  /\ policy = NoPolicy /\ policyJob = NoPolicyJob

ServicesLeft(p) ==
  IF p = place THEN UNCHANGED <<policy, policyJob>>
  ELSE policy' = NoPolicy /\ policyJob' = [policyJob EXCEPT !.heard = FALSE]

\* A row, a block of the map or the hash opens it, and fills in every field.
Refill_KeepsTyped(s) == [Form(s) EXCEPT !.typed = policy.form.typed]
Refill(s) == Form(s)

OpenPolicy(s) ==
  /\ place = "services" /\ policy.service = None
  /\ policy' = [service |-> s, base |-> Form(s), form |-> Refill(s)]
  /\ UNCHANGED <<session, asks, place, conf, policyJob>>

\* What was typed stays in the form until a service fills it again.
ClosePolicy ==
  /\ policy.service # None
  /\ policy' = [policy EXCEPT !.service = None]
  /\ UNCHANGED <<session, asks, place, conf, policyJob>>

Editable == policy.service \notin {None, NoPlugin}

Change(f) ==
  /\ Editable /\ f # policy.form /\ Ask
  /\ policy' = [policy EXCEPT !.form = f]
  /\ UNCHANGED <<session, place, conf, policyJob>>

\* The mode stands for what is always sent: paranoia levels and coverage as well.
ChooseMode(m) == Change([policy.form EXCEPT !.mode = m])

\* A plugin that is missing from the filesystem can only be switched off; the flags of
\* the engine are toggled, and always sent, in the same way.
TogglePlugin(p) ==
  /\ p \in policy.form.plugins \cup Installed
  /\ Change([policy.form EXCEPT !.plugins = IF p \in @ THEN @ \ {p} ELSE @ \cup {p}])

\* The reply stands for every advanced setting: filled in on opening, compared on saving.
TypeReply(r) == Change([policy.form EXCEPT !.reply = r])

\* The password's own field is closed while the stored one is to be cleared.
TypePassword == ~policy.form.clear /\ Change([policy.form EXCEPT !.typed = policy.service])
ClearPassword == policy.form.stored /\ Change([policy.form EXCEPT !.clear = ~@])

SavePolicy ==
  /\ Editable /\ policyJob = NoPolicyJob /\ Ask
  /\ policyJob' = [stage |-> "sent", service |-> policy.service, heard |-> TRUE,
                   body |-> [policy.form EXCEPT !.reply = IF @ = policy.base.reply THEN None ELSE @]]
  /\ UNCHANGED <<session, place, conf, policy>>

Or(new, old) == IF new = None THEN old ELSE new

Patched(c, b) ==
  [mode |-> b.mode, plugins |-> b.plugins, reply |-> Or(b.reply, c.reply),
   password |-> IF b.clear THEN "none" ELSE Or(b.typed, c.password)]

\* The plugins are always sent, and with the path left alone the API refuses a
\* missing one: such a service takes no update until it is switched off.
ServePolicy ==
  /\ policyJob.stage = "sent"
  /\ \/ /\ Valid /\ policyJob.body.plugins \subseteq Installed
        /\ conf' = [conf EXCEPT ![policyJob.service] = Patched(@, policyJob.body)]
        /\ policyJob' = [policyJob EXCEPT !.stage = "ok"]
     \/ policyJob' = [policyJob EXCEPT !.stage = "failed"] /\ UNCHANGED conf
  /\ UNCHANGED <<session, asks, place, policy>>

PolicyAnswered ==
  /\ policyJob.stage \in {"ok", "failed"}
  /\ policyJob' = NoPolicyJob
  /\ policy' = IF policyJob.stage = "ok" /\ policyJob.heard THEN [policy EXCEPT !.service = None] ELSE policy
  /\ UNCHANGED <<session, asks, place, conf>>

\* Somebody else updates the plugin.
OthersPatch(s, r) ==
  /\ s # NoPlugin /\ conf[s].reply # r /\ Ask
  /\ conf' = [conf EXCEPT ![s] = [@ EXCEPT !.reply = r, !.password = s]]
  /\ UNCHANGED <<session, place, policy, policyJob>>

ServicesNext ==
  \/ \E s \in Services : OpenPolicy(s) \/ \E r \in {"builtin", "own"} : OthersPatch(s, r)
  \/ (\E m \in Modes : ChooseMode(m)) \/ (\E p \in Plugins : TogglePlugin(p))
  \/ (\E r \in {"builtin", "own"} : TypeReply(r)) \/ TypePassword \/ ClearPassword
  \/ ClosePolicy \/ SavePolicy \/ ServePolicy \/ PolicyAnswered

-----------------------------------------------------------------------------
\* A password typed for one service is never stored for another, whichever dialogs
\* are opened and closed in between (ServiceModal fills every field on opening).
PasswordStaysHome == \A s \in Services : conf[s].password \in {"none", s}
=============================================================================
