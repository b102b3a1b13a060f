---------------------------- MODULE ConsoleEdits ----------------------------
(***************************************************************************)
(* Operators edit one plugin's configuration through the console.  Every   *)
(* write of the API is a GET of the plugin, a change of the copy, and a    *)
(* PATCH of the whole configuration; rules and overrides are addressed by  *)
(* position, with a content tag.  How a page comes to show a configuration *)
(* is ConsoleFeed; here a page shows what FeedPromise allows.              *)
(*                                                                         *)
(* A configuration is named by its place in `hist', the sequence of all    *)
(* the configurations Kong has held.                                       *)
(***************************************************************************)
EXTENDS Integers, Sequences

CONSTANTS
  Consoles,      \* browser tabs with the dashboard open
  Kinds,         \* which entry lists are edited: "rule", "override"
  Texts,         \* what an entry can say; its tag is a digest of it
  InitialLists,  \* the entries of each list at the start
  Limits,        \* values of the advanced settings
  MaxCalls,      \* bound: writes the operators ask for
  MaxFaults,     \* bound: writes Kong refuses or that fail after they landed
  None

ASSUME EditsAssumption ==
  /\ Kinds \subseteq {"rule", "override"}
  /\ InitialLists \in [Kinds -> Seq(Texts)]
  /\ MaxCalls \in Nat /\ MaxFaults \in Nat
  /\ Limits # {}
  /\ None \notin Texts \cup Limits

Modes == {"detect", "block"}
Slots == {"row", "dialog"}     \* a table of entries and the dialog over it write separately

VARIABLES
  hist,        \* the configurations of the plugin in Kong, the last one in force
  shown, seen, \* what each page renders, and has rendered (FeedPromise)
  modal,       \* modal[c]: the dialog open in c
  confirm,     \* confirm[c]: the confirmation being asked in c
  calls,       \* calls[c][slot]: the write c has sent
  started, faults  \* how much of MaxCalls and MaxFaults is used

page == <<shown, seen>>
vars == <<hist, page, modal, confirm, calls, started, faults>>

Last == Len(hist)
Kong == hist[Last]

Feed == INSTANCE FeedPromise WITH Pages <- Consoles, last <- Last, KongMayFail <- FALSE

Configs == [list : [Kinds -> Seq(Texts)], mode : Modes, limit : Limits]

\* Bodies of the write calls: one entry added, replaced or removed; the mode
\* switch of the services table; the form of the service dialog.
Bodies ==
  [op : {"add", "edit", "delete"}, kind : Kinds, index : Nat,
   tag : Texts \cup {None}, saw : Texts \cup {None}, text : Texts \cup {None}]
    \cup [op : {"mode"}, mode : Modes]
    \cup [op : {"service"}, mode : Modes, limit : Limits \cup {None}, touched : BOOLEAN]

Dialogs ==
  [op : {"add", "edit"}, kind : Kinds, index : Nat, saw : Texts \cup {None}]
    \cup [op : {"service"}, opened : Nat]

\* A write past the check replaces or removes an entry that is in the list it read.
PastCheck(call) ==
  call.stage \in {"checked", "ok"} /\ call.body.op \in {"edit", "delete"} =>
    call.body.index \in DOMAIN hist[call.base].list[call.body.kind]

TypeOK ==
  /\ hist \in Seq(Configs)
  /\ Feed!TypeOK
  /\ \A c \in Consoles :
       /\ \A s \in Slots : calls[c][s] # None => PastCheck(calls[c][s])
       /\ modal[c] \in {None} \cup Dialogs
       /\ confirm[c] \in {None} \cup [slot : Slots, body : Bodies]
       /\ \A s \in Slots : calls[c][s] \in {None} \cup
            [body : Bodies, stage : {"sent", "checked", "ok", "failed"},
             base : 0 .. Last, asked : BOOLEAN]
  /\ started \in 0 .. MaxCalls
  /\ faults \in 0 .. MaxFaults

Init ==
  /\ hist = <<[list |-> InitialLists, mode |-> "detect",
               limit |-> CHOOSE l \in Limits : TRUE]>>
  /\ shown = [c \in Consoles |-> 1]
  /\ seen = [c \in Consoles |-> 1]
  /\ modal = [c \in Consoles |-> None]
  /\ confirm = [c \in Consoles |-> None]
  /\ calls = [c \in Consoles |-> [s \in Slots |-> None]]
  /\ started = 0
  /\ faults = 0

\* The page renders a later configuration.  (One that finds Kong unreachable lists
\* no service and offers nothing to edit.)
Render(c) == UNCHANGED <<hist, modal, confirm, calls, started, faults>> /\ Feed!Show(c)

-----------------------------------------------------------------------------
(* The operator: rows, dialogs, the confirmation.                          *)

\* Nothing covers the page.  (Operators who have used up their calls stop.)
Free(c) == modal[c] = None /\ confirm[c] = None /\ started < MaxCalls

Shows(c) == hist[shown[c]]
Rows(c, k) == DOMAIN Shows(c).list[k]
Pending(c, s) == calls[c][s] # None /\ calls[c][s].asked

OpenNew(c, k) ==
  /\ Free(c)
  /\ modal' = [modal EXCEPT ![c] = [op |-> "add", kind |-> k, index |-> 0, saw |-> None]]
  /\ UNCHANGED <<hist, page, confirm, calls, started, faults>>

\* The dialog keeps the place and the tag the row had when it was opened.
OpenEdit(c, k, i) ==
  /\ Free(c) /\ ~Pending(c, "row")
  /\ modal' = [modal EXCEPT ![c] =
       [op |-> "edit", kind |-> k, index |-> i, saw |-> Shows(c).list[k][i]]]
  /\ UNCHANGED <<hist, page, confirm, calls, started, faults>>

OpenService(c) ==
  /\ Free(c)
  /\ modal' = [modal EXCEPT ![c] = [op |-> "service", opened |-> shown[c]]]
  /\ UNCHANGED <<hist, page, confirm, calls, started, faults>>

CloseDialog(c) ==
  /\ modal[c] # None /\ confirm[c] = None
  /\ modal' = [modal EXCEPT ![c] = None]
  /\ UNCHANGED <<hist, page, confirm, calls, started, faults>>

Ask(c, s, body) ==
  /\ started < MaxCalls
  /\ started' = started + 1
  /\ confirm' = [confirm EXCEPT ![c] = [slot |-> s, body |-> body]]

\* `asked': the operator has agreed; only then does the dialog wait for the outcome.
Sent(body, asked) == [body |-> body, stage |-> "sent", base |-> 0, asked |-> asked]

DeleteRow(c, k, i) ==
  /\ Free(c) /\ calls[c]["row"] = None
  /\ LET t == Shows(c).list[k][i]
     IN  Ask(c, "row", [op |-> "delete", kind |-> k, index |-> i, tag |-> t, saw |-> t,
                        text |-> None])
  /\ UNCHANGED <<hist, page, modal, calls, faults>>

SwitchMode(c) ==
  /\ Free(c) /\ calls[c]["row"] = None
  /\ \E m \in Modes \ {Shows(c).mode} : Ask(c, "row", [op |-> "mode", mode |-> m])
  /\ UNCHANGED <<hist, page, modal, calls, faults>>

EntryBody(m, t) ==
  [op |-> m.op, kind |-> m.kind, index |-> m.index, tag |-> m.saw, saw |-> m.saw, text |-> t]

\* The rule dialog asks first and sends when the operator agrees.
SaveRule(c, t) ==
  /\ modal[c] # None /\ modal[c].op # "service" /\ modal[c].kind = "rule"
  /\ confirm[c] = None /\ calls[c]["dialog"] = None
  /\ Ask(c, "dialog", EntryBody(modal[c], t))
  /\ UNCHANGED <<hist, page, modal, calls, faults>>

\* The override dialog evaluates the API call before it hands it to `run': the
\* request leaves with the click, whatever the operator then answers.
SaveOverride(c, t) ==
  /\ modal[c] # None /\ modal[c].op # "service" /\ modal[c].kind = "override"
  /\ confirm[c] = None /\ calls[c]["dialog"] = None
  /\ calls' = [calls EXCEPT ![c]["dialog"] = Sent(EntryBody(modal[c], t), FALSE)]
  /\ Ask(c, "dialog", EntryBody(modal[c], t))
  /\ UNCHANGED <<hist, page, modal, faults>>

\* An advanced setting is sent only if it differs from what the form started with;
\* the mode always is.
Changed(opened, l) == IF l = hist[opened].limit THEN None ELSE l

SaveService(c, m, l) ==
  /\ modal[c] # None /\ modal[c].op = "service"
  /\ confirm[c] = None /\ calls[c]["dialog"] = None
  /\ Ask(c, "dialog", [op |-> "service", mode |-> m, limit |-> Changed(modal[c].opened, l),
                       touched |-> l # hist[modal[c].opened].limit])
  /\ UNCHANGED <<hist, page, modal, calls, faults>>

\* A call that has already left is only waited for from here on.
Agree(c) ==
  /\ confirm[c] # None
  /\ LET s == confirm[c].slot
     IN  calls' = IF calls[c][s] = None
                  THEN [calls EXCEPT ![c][s] = Sent(confirm[c].body, TRUE)]
                  ELSE [calls EXCEPT ![c][s].asked = TRUE]
  /\ confirm' = [confirm EXCEPT ![c] = None]
  /\ UNCHANGED <<hist, page, modal, started, faults>>

Decline(c) ==
  /\ confirm[c] # None
  /\ confirm' = [confirm EXCEPT ![c] = None]
  /\ UNCHANGED <<hist, page, modal, calls, started, faults>>

-----------------------------------------------------------------------------
(* The write handlers of the API.                                          *)

Stage(c, s, stage) == calls' = [calls EXCEPT ![c][s].stage = stage]

CheckEntry_NoTag(list, q) == q.index \in DOMAIN list

\* Index in range, and the entry there still has the tag the caller saw.
CheckEntry(list, q) == q.index \in DOMAIN list /\ list[q.index] = q.tag

Accepts(cfg, q) == q.op \in {"edit", "delete"} => CheckEntry(cfg.list[q.kind], q)

GetPlugin(c, s) ==
  /\ calls[c][s] # None /\ calls[c][s].stage = "sent"
  /\ calls' = [calls EXCEPT ![c][s].base = Last,
       ![c][s].stage = IF Accepts(Kong, calls[c][s].body) THEN "checked" ELSE "failed"]
  /\ UNCHANGED <<hist, page, modal, confirm, started, faults>>

Without(list, i) == SubSeq(list, 1, i - 1) \o SubSeq(list, i + 1, Len(list))

Apply(cfg, q) ==
  CASE q.op = "add"     -> [cfg EXCEPT !.list[q.kind] = Append(@, q.text)]
    [] q.op = "edit"    -> [cfg EXCEPT !.list[q.kind][q.index] = q.text]
    [] q.op = "delete"  -> [cfg EXCEPT !.list[q.kind] = Without(@, q.index)]
    [] q.op = "mode"    -> [cfg EXCEPT !.mode = q.mode]
    [] q.op = "service" -> [cfg EXCEPT !.mode = q.mode,
                              !.limit = IF q.limit = None THEN @ ELSE q.limit]

\* Kong takes the whole configuration as the handler read and changed it.
Land(c, s) == hist' = Append(hist, Apply(hist[calls[c][s].base], calls[c][s].body))

Checked(c, s) == calls[c][s] # None /\ calls[c][s].stage = "checked"

PatchPlugin(c, s) ==
  /\ Checked(c, s)
  /\ Land(c, s)
  /\ Stage(c, s, "ok")
  /\ UNCHANGED <<page, modal, confirm, started, faults>>

\* Kong refuses, or takes the write and the handler fails before it cleared the
\* caches: the operator sees an error either way.
PatchFails(c, s) ==
  /\ Checked(c, s) /\ faults < MaxFaults
  /\ faults' = faults + 1
  /\ Stage(c, s, "failed")
  /\ UNCHANGED hist \/ Land(c, s)
  /\ UNCHANGED <<page, modal, confirm, started>>

Component(d) == IF d.op \in {"mode", "service"} THEN "service" ELSE d.kind

\* The end of `run': on success the page fetches again and the dialog closes, even
\* if it was closed and opened anew meanwhile; on an error it stays as it is.
Settle(c, s) ==
  /\ calls[c][s] # None /\ calls[c][s].asked
  /\ \/ calls[c][s].stage = "ok"
        /\ modal' = IF /\ s = "dialog" /\ modal[c] # None
                       /\ Component(modal[c]) = Component(calls[c][s].body)
                    THEN [modal EXCEPT ![c] = None] ELSE modal
     \/ calls[c][s].stage = "failed" /\ UNCHANGED modal
  /\ calls' = [calls EXCEPT ![c][s] = None]
  /\ UNCHANGED <<hist, page, confirm, started, faults>>

\* A call nobody waits for (its confirmation was declined) ends unnoticed.
Unnoticed(c, s) ==
  /\ calls[c][s] # None /\ ~calls[c][s].asked
  /\ calls[c][s].stage \in {"ok", "failed"}
  /\ confirm[c] = None
  /\ calls' = [calls EXCEPT ![c][s] = None]
  /\ UNCHANGED <<hist, page, modal, confirm, started, faults>>

-----------------------------------------------------------------------------
Api(c, s) == GetPlugin(c, s) \/ PatchPlugin(c, s) \/ PatchFails(c, s)

Operator(c) ==
  \/ \E k \in Kinds : OpenNew(c, k) \/ \E i \in Rows(c, k) : OpenEdit(c, k, i) \/ DeleteRow(c, k, i)
  \/ OpenService(c) \/ SwitchMode(c) \/ CloseDialog(c)
  \/ \E t \in Texts : SaveRule(c, t) \/ SaveOverride(c, t)
  \/ \E m \in Modes, l \in Limits : SaveService(c, m, l)
  \/ Agree(c) \/ Decline(c)

Next ==
  \E c \in Consoles :
    \/ Render(c) \/ Operator(c)
    \/ \E s \in Slots : Api(c, s) \/ Settle(c, s) \/ Unnoticed(c, s)

Spec == Init /\ [][Next]_vars

-----------------------------------------------------------------------------
(* Properties.                                                             *)

Writing(c, s) == PatchPlugin(c, s) \/ (PatchFails(c, s) /\ hist' # hist)

\* What a write may do to the configuration in force: change the entry its operator
\* saw, at the place it was seen; of the advanced settings, those that were touched.
AsSeen(c, s) ==
  LET q == calls[c][s].body
      new == hist'[Len(hist')]
  IN  /\ q.op \in {"edit", "delete"} =>
           /\ q.index \in DOMAIN Kong.list[q.kind]
           /\ Kong.list[q.kind][q.index] = q.saw
           /\ new = Apply(Kong, q)
      /\ q.op = "service" /\ ~q.touched => new.limit = Kong.limit

\* A write whose handler no other write overlaps changes what its operator saw,
\* whatever others did to the plugin between the fetch, the click and the request: an
\* edit or a delete the entry that was opened (app.py, _check_entry with the tag the
\* page carries), the service dialog only the advanced settings that were touched.
SoloWriteIsAsSeen ==
  [][\A c \in Consoles, s \in Slots :
       Writing(c, s) /\ calls[c][s].base = Last => AsSeen(c, s)]_vars
=============================================================================
