-------------------------- MODULE AssistantActions --------------------------
(***************************************************************************)
(* The assistant's changes, from the card in the chat to Kong.  A run of   *)
(* the agent stores a change as pending; the operator authorizes or        *)
(* rejects it in the assistant view; the API claims it, checks that the    *)
(* entity is still the one that was reviewed, and runs it.                 *)
(*                                                                         *)
(* One browser tab is followed in full (Assistant.jsx); a second operator  *)
(* appears as the requests that reach the API.  Changes are actions (models *)
(* with tools) or proposals (models without).                              *)
(***************************************************************************)
EXTENDS Integers, FiniteSets

CONSTANTS
  Convs,        \* conversations that may come to exist
  Actions, Proposals,
  Runs,         \* runs of the agent that may be under way together
  None,
  MaxAsks,     \* bound: what the operators do: messages, clicks, conversations opened or deleted
  MaxChanges,   \* bound: changes proposed
  MaxFaults     \* bound: lost answers, writes that fail, restarts of the API

Items == Actions \cup Proposals

ASSUME ActionsAssumption ==
  Actions \cap Proposals = {} /\ None \notin Convs \cup Items \cup Runs
    /\ MaxAsks \in Nat /\ MaxChanges \in Nat /\ MaxFaults \in Nat

VARIABLES
  store,          \* the rows of the API's database
  conversations,
  handler,        \* handler[a]: how far the authorize or apply handler of a is
  note,           \* note[a]: what the transcript tells the model about action a
  ran, clicked,   \* ghosts (ActionPromise)
  run,            \* the agent's runs and the streams that carry their events
  param, conv, cards,        \* the tab: route, conversation and cards shown
  load, call, busy,          \* its GET of a conversation, its one write, busyId
  running, controller,       \* whether it says "Working", and what Stop aborts
  stranded,       \* ghost: the reload after a failed click failed as well
  asks, faults

server == <<store, conversations, handler, note, ran, run>>
shown == <<param, conv, cards, load>>
writing == <<call, busy, stranded>>
working == <<running, controller>>
vars == <<server, clicked, shown, writing, working, asks, faults>>

Statuses == {"none", "pending", "claimed", "done", "failed", "rejected", "expired", "gone"}
Blank == [a \in Items |-> "none"]
NoLoad == [stage |-> "idle", conv |-> None, cards |-> Blank]
NoCall == [op |-> "none", item |-> None, conv |-> None, stage |-> "none", orphan |-> FALSE]
NoRun == [stage |-> "idle", conv |-> None, message |-> FALSE, heard |-> FALSE,
          routed |-> FALSE, waiting |-> FALSE]

\* The tab is busy with the change it has written about, and with no other; while it
\* says "Working" there is a stream to stop.
TypeOK ==
  /\ store \in [Items -> [status : Statuses, conv : Convs \cup {None}]]
  /\ conversations \in [Convs -> {"unborn", "alive", "deleted"}]
  /\ handler \in [Items -> {"none", "check", "write", "landed"}]
  /\ note \in [Items -> {"none", "ran", "failed", "did not run"}]
  /\ clicked \in [Items -> SUBSET {"tab", "other"}]
  /\ ran \in [Items -> 0 .. 1]
  /\ run \in [Runs -> [stage : {"idle", "sent", "streaming"}, conv : Convs \cup {None},
                       message : BOOLEAN, heard : BOOLEAN, routed : BOOLEAN, waiting : BOOLEAN]]
  /\ param \in Convs \cup {None} /\ conv \in Convs \cup {None}
  /\ cards \in [Items -> Statuses]
  /\ load \in [stage : {"idle", "sent", "answered", "missing"}, conv : Convs \cup {None},
               cards : [Items -> Statuses]]
  /\ call.op \in {"none", "authorize", "reject"}
  /\ call.stage \in {"none", "sent", "served", "answered", "refused", "reloading", "reloaded"}
  /\ busy \in Items \cup {None}
  /\ busy # None => stranded \/ (call.item = busy /\ ~call.orphan)
  /\ controller \in Runs \cup {None} /\ running = (controller # None)
  /\ stranded \in BOOLEAN
  /\ asks \in 0 .. MaxAsks /\ faults \in 0 .. MaxFaults

Init ==
  /\ store = [a \in Items |-> [status |-> "none", conv |-> None]]
  /\ conversations = [c \in Convs |-> "unborn"]
  /\ handler = [a \in Items |-> "none"]
  /\ note = [a \in Items |-> "none"]
  /\ clicked = [a \in Items |-> {}]
  /\ ran = [a \in Items |-> 0]
  /\ run = [r \in Runs |-> NoRun]
  /\ param = None /\ conv = None /\ cards = Blank
  /\ load = NoLoad
  /\ call = NoCall /\ busy = None /\ stranded = FALSE
  /\ running = FALSE /\ controller = None
  /\ asks = 0 /\ faults = 0

Status(a) == store[a].status
Becomes(a, s) == store' = [store EXCEPT ![a].status = s]
Noted(a, n) == note' = IF a \in Actions THEN [note EXCEPT ![a] = n] ELSE note

-----------------------------------------------------------------------------
(* The view: which conversation is shown.                                  *)

Asks == asks < MaxAsks /\ asks' = asks + 1

\* One GET is followed: of the last conversation gone to.
Get(c) == [NoLoad EXCEPT !.stage = "sent", !.conv = c]

\* The route changes: without a conversation everything is cleared, with one it is
\* loaded and what was shown stays meanwhile.
Route(c) ==
  /\ param' = c
  /\ IF c = None
     THEN conv' = None /\ cards' = Blank /\ UNCHANGED load
     ELSE load' = Get(c) /\ UNCHANGED <<conv, cards>>

Nav(c) ==
  /\ c # param /\ (c # None => conversations[c] = "alive")
  /\ Route(c) /\ Asks
  /\ UNCHANGED <<server, clicked, writing, working, faults>>

Snapshot(c) ==
  [a \in Items |-> IF store[a].conv = c /\ Status(a) # "gone" THEN Status(a) ELSE "none"]

ServeLoad ==
  /\ load.stage = "sent"
  /\ load' = IF conversations[load.conv] = "alive"
             THEN [load EXCEPT !.stage = "answered", !.cards = Snapshot(load.conv)]
             ELSE [load EXCEPT !.stage = "missing"]
  /\ UNCHANGED <<server, clicked, param, conv, cards, writing, working, asks, faults>>

\* Whatever the route is by now, the answer is what is shown.
Loaded ==
  /\ load.stage = "answered"
  /\ conv' = load.conv /\ cards' = load.cards
  /\ load' = NoLoad
  /\ UNCHANGED <<server, clicked, param, writing, working, asks, faults>>

LoadFailed ==
  /\ \/ load.stage = "missing" /\ UNCHANGED faults
     \/ load.stage = "sent" /\ faults < MaxFaults /\ faults' = faults + 1
  /\ param' = None
  /\ conv' = IF param = None THEN conv ELSE None
  /\ cards' = IF param = None THEN cards ELSE Blank
  /\ load' = NoLoad
  /\ UNCHANGED <<server, clicked, writing, working, asks>>

\* The view is left and opened again.  Its streams and its write go on unheard.
Remount ==
  /\ Asks
  /\ param' = None /\ conv' = None /\ cards' = Blank
  /\ load' = NoLoad
  /\ busy' = None /\ stranded' = FALSE /\ running' = FALSE /\ controller' = None
  /\ call' = IF call.op = "none" THEN call ELSE [call EXCEPT !.orphan = TRUE]
  /\ run' = [r \in Runs |-> [run[r] EXCEPT !.heard = FALSE]]
  /\ UNCHANGED <<store, conversations, handler, note, ran, clicked, faults>>

DeleteConversation(c) ==
  /\ conversations[c] = "alive" /\ Asks
  /\ conversations' = [conversations EXCEPT ![c] = "deleted"]
  /\ store' = [a \in Items |-> IF store[a].conv = c THEN [store[a] EXCEPT !.status = "gone"]
                               ELSE store[a]]
  /\ IF conv = c /\ param # None THEN Route(None) ELSE UNCHANGED shown
  /\ UNCHANGED <<handler, note, ran, run, clicked, writing, working, faults>>

-----------------------------------------------------------------------------
(* Messages and runs.                                                      *)

\* runStream: nothing keeps a second stream from starting while one is read.
Stream(c, message) ==
  \E r \in Runs :
    /\ run[r].stage = "idle"
    /\ run' = [run EXCEPT ![r] = [NoRun EXCEPT !.stage = "sent", !.conv = c,
                 !.message = message, !.heard = TRUE, !.routed = param # None]]
    /\ running' = TRUE /\ controller' = r

\* Pending cards are taken back at once; the API does the same when it hears of it.
Send ==
  /\ ~running /\ Asks
  /\ cards' = [a \in Items |-> IF a \in Actions /\ cards[a] = "pending" THEN "expired" ELSE cards[a]]
  /\ Stream(conv, TRUE)
  /\ UNCHANGED <<store, conversations, handler, note, ran, clicked, param, conv, load,
                 writing, faults>>

\* A message closes what is pending in its conversation; a resumed run does not.
Superseded(c) == {a \in Actions : store[a].conv = c /\ Status(a) = "pending"}

Supersede(S) ==
  /\ store' = [a \in Items |-> IF a \in S THEN [store[a] EXCEPT !.status = "expired"] ELSE store[a]]
  /\ note' = [a \in Items |-> IF a \in S THEN "did not run" ELSE note[a]]

Finally(r) == IF run[r].heard THEN running' = FALSE /\ controller' = None ELSE UNCHANGED working

\* POST /api/assistant/chat up to run.started: a message without a conversation
\* opens one, and the view goes there unless it was routed when it sent it.
Chat(r) ==
  /\ run[r].stage = "sent"
  /\ run[r].conv # None => conversations[run[r].conv] = "alive"
  /\ \E c \in IF run[r].conv # None THEN {run[r].conv} ELSE {x \in Convs : conversations[x] = "unborn"} :
       /\ conversations' = [conversations EXCEPT ![c] = "alive"]
       /\ run' = [run EXCEPT ![r].stage = "streaming", ![r].conv = c]
       /\ Supersede(IF run[r].message THEN Superseded(c) ELSE {})
       /\ IF ~run[r].heard THEN UNCHANGED shown
          ELSE /\ conv' = IF run[r].message /\ conv = None THEN c ELSE conv
               /\ IF ~run[r].routed /\ param # c
                  THEN /\ param' = c
                       /\ load' = Get(c)
                  ELSE UNCHANGED <<param, load>>
               /\ UNCHANGED cards
  /\ UNCHANGED <<handler, ran, clicked, writing, working, asks, faults>>

ChatRefused(r) ==
  /\ run[r].stage = "sent" /\ run[r].conv # None /\ conversations[run[r].conv] = "deleted"
  /\ run' = [run EXCEPT ![r] = NoRun]
  /\ Finally(r)
  /\ UNCHANGED <<store, conversations, handler, note, ran, clicked, shown, writing, asks, faults>>

\* The agent proposes a change, at most one of a run is left waiting.  The card goes
\* to whatever conversation the view shows by now.
Propose(r, a) ==
  /\ run[r].stage = "streaming" /\ ~run[r].waiting /\ Status(a) = "none"
  /\ Cardinality({b \in Items : Status(b) # "none"}) < MaxChanges
  /\ store' = [store EXCEPT ![a].status = "pending", ![a].conv = run[r].conv]
  /\ run' = [run EXCEPT ![r].waiting = TRUE]
  /\ cards' = IF run[r].heard THEN [cards EXCEPT ![a] = "pending"] ELSE cards
  /\ UNCHANGED <<conversations, handler, note, ran, clicked, param, conv, load,
                 writing, working, asks, faults>>

\* The stream ends, whichever way: "Working" goes out, also for a stream begun since.
RunEnds(r) ==
  /\ run[r].stage = "streaming"
  /\ run' = [run EXCEPT ![r] = NoRun]
  /\ Finally(r)
  /\ UNCHANGED <<store, conversations, handler, note, ran, clicked, shown, writing, asks, faults>>

\* The API notices when it next waits, and may have proposed something by then.
StopRun ==
  /\ running /\ controller # None /\ Asks
  /\ run' = [run EXCEPT ![controller].heard = FALSE]
  /\ running' = FALSE /\ controller' = None
  /\ UNCHANGED <<store, conversations, handler, note, ran, clicked, shown, writing, faults>>

-----------------------------------------------------------------------------
(* The operator's decision.                                                *)

\* The card's countdown (by the tab's own clock) takes the buttons away, and so does
\* a write under way; a risky change has its confirmation typed.
CanClick(a) ==
  cards[a] = "pending" /\ call.op = "none" /\ conv # None /\ busy = None

Click(a, op) ==
  /\ CanClick(a) /\ Asks
  /\ call' = [op |-> op, item |-> a, conv |-> conv, stage |-> "sent", orphan |-> FALSE]
  /\ busy' = a
  /\ clicked' = IF op = "authorize" THEN [clicked EXCEPT ![a] = @ \cup {"tab"}] ELSE clicked
  /\ UNCHANGED <<server, shown, stranded, working, faults>>

Answer(a, stage) ==
  call' = IF call.item = a /\ call.op = "authorize" /\ call.stage = "served"
          THEN [call EXCEPT !.stage = stage] ELSE call

Released_Never == busy
Released == IF call.orphan THEN busy ELSE None

\* An error, or an answer that is lost, has the view reload the cards; of a reject it
\* only shows the error.
Refused ==
  /\ call.stage = "refused"
  /\ IF call.op = "authorize" /\ conv # None /\ ~call.orphan
     THEN call' = [call EXCEPT !.stage = "reloading"] /\ UNCHANGED busy
     ELSE /\ call' = NoCall
          /\ busy' = Released
  /\ UNCHANGED <<server, clicked, shown, stranded, working, asks, faults>>

Sort(a) == IF a \in Actions THEN Actions ELSE Proposals

Reloaded ==
  /\ call.stage = "reloading" /\ (call.conv \notin Convs \/ conversations[call.conv] = "alive")
  /\ cards' = IF call.orphan THEN cards
              ELSE [b \in Items |-> IF b \in Sort(call.item) THEN Snapshot(call.conv)[b] ELSE cards[b]]
  /\ busy' = Released
  /\ call' = NoCall
  /\ UNCHANGED <<server, clicked, param, conv, load, stranded, working, asks, faults>>

\* The reload fails too: authorizeAction leaves without clearing busyId, and every
\* button of every card stays disabled; applyProposal clears it.
ReloadFailed ==
  /\ call.stage = "reloading"
  /\ \/ call.conv \in Convs /\ conversations[call.conv] = "deleted" /\ UNCHANGED faults
     \/ faults < MaxFaults /\ faults' = faults + 1
  /\ IF call.item \in Actions /\ ~call.orphan
     THEN stranded' = TRUE /\ UNCHANGED busy
     ELSE busy' = Released /\ UNCHANGED stranded
  /\ call' = NoCall
  /\ UNCHANGED <<server, clicked, shown, working, asks>>

\* The answer: the card shows the row as it is then, and after an authorization the
\* assistant is told to carry on, even by a view that was left.
Answered ==
  LET a == call.item
  IN  /\ call.stage = "answered"
      /\ cards' = IF call.orphan \/ Status(a) = "gone" \/ cards[a] = "none" THEN cards
                  ELSE [cards EXCEPT ![a] = Status(a)]
      /\ busy' = Released
      /\ call' = NoCall
      /\ IF call.op = "authorize" /\ a \in Actions
         THEN /\ \E r \in Runs :
                   /\ run[r].stage = "idle"
                   /\ run' = [run EXCEPT ![r] = [NoRun EXCEPT !.stage = "sent", !.conv = call.conv,
                                !.heard = ~call.orphan, !.routed = param # None]]
                   /\ IF call.orphan THEN UNCHANGED working
                      ELSE running' = TRUE /\ controller' = r
         ELSE UNCHANGED <<run, working>>
      /\ UNCHANGED <<store, conversations, handler, note, ran, clicked, param, conv, load,
                     stranded, asks, faults>>

-----------------------------------------------------------------------------
(* The API's handlers of the decision.                                     *)

\* The claim is one conditional UPDATE: pending rows only.
Claimable(a) == Status(a) = "pending"

Claim(a) == Becomes(a, "claimed") /\ handler' = [handler EXCEPT ![a] = "check"] /\ UNCHANGED note

\* What is older than ten minutes is closed when somebody tries.
Expire(a) == Status(a) = "pending" /\ Becomes(a, "expired") /\ Noted(a, "did not run")

Authorize ==
  LET a == call.item
  IN  /\ call.op = "authorize" /\ call.stage = "sent"
      /\ \/ Claimable(a) /\ Claim(a) /\ call' = [call EXCEPT !.stage = "served"]
         \/ /\ Expire(a) \/ (~Claimable(a) /\ UNCHANGED <<store, note>>)
            /\ call' = [call EXCEPT !.stage = "refused"] /\ UNCHANGED handler
      /\ UNCHANGED <<conversations, ran, run, clicked, shown, busy, stranded, working, asks, faults>>

Rejectable_Claimed(a) == Status(a) \in {"pending", "claimed"}
Rejectable(a) == Status(a) = "pending"

RejectRow(a) == Becomes(a, "rejected") /\ Noted(a, "did not run")

Reject ==
  LET a == call.item
  IN  /\ call.op = "reject" /\ call.stage = "sent"
      /\ \/ Rejectable(a) /\ RejectRow(a) /\ call' = [call EXCEPT !.stage = "answered"]
         \/ ~Rejectable(a) /\ call' = [call EXCEPT !.stage = "refused"] /\ UNCHANGED <<store, note>>
      /\ UNCHANGED <<conversations, handler, ran, run, clicked, shown, busy, stranded, working, asks, faults>>

Fails(a) == IF a \in Proposals THEN "pending" ELSE "failed"

\* transition(claimed -> s): a row deleted meanwhile stays so.
Ends(a, s) ==
  /\ store' = IF Status(a) = "claimed" THEN [store EXCEPT ![a].status = s] ELSE store
  /\ handler' = [handler EXCEPT ![a] = "none"]

\* The entity is read again and compared with the one that was reviewed: others may
\* have changed it by now, and this change has if it landed before.
StillReviewed_Unread(a) == TRUE
StillReviewed(a) == ran[a] = 0

Check(a) ==
  /\ handler[a] = "check"
  /\ \/ /\ StillReviewed(a)
        /\ handler' = [handler EXCEPT ![a] = "write"]
        /\ UNCHANGED <<store, note, call>>
     \/ /\ Ends(a, IF a \in Proposals THEN "expired" ELSE "failed")
        /\ Noted(a, "failed")
        /\ Answer(a, IF a \in Proposals THEN "refused" ELSE "answered")
  /\ UNCHANGED <<conversations, ran, run, clicked, shown, busy, stranded, working, asks, faults>>

Land(a) == ran' = [ran EXCEPT ![a] = @ + 1]

Write(a) ==
  /\ handler[a] = "write"
  /\ Land(a)
  /\ handler' = [handler EXCEPT ![a] = "landed"]
  /\ UNCHANGED <<store, conversations, note, run, clicked, shown, writing, working, asks, faults>>

\* Kong cannot be read, or the write fails, before or after Kong took it.
WriteFails(a) ==
  /\ handler[a] \in {"check", "write"} /\ faults < MaxFaults
  /\ faults' = faults + 1
  /\ UNCHANGED ran \/ (handler[a] = "write" /\ Land(a))
  /\ Ends(a, Fails(a)) /\ Noted(a, "failed")
  /\ Answer(a, IF a \in Proposals THEN "refused" ELSE "answered")
  /\ UNCHANGED <<conversations, run, clicked, shown, busy, stranded, working, asks>>

Finish(a) ==
  /\ handler[a] = "landed"
  /\ Ends(a, "done") /\ Noted(a, "ran") /\ Answer(a, "answered")
  /\ UNCHANGED <<conversations, ran, run, clicked, shown, busy, stranded, working, asks, faults>>

\* The request or its answer does not arrive; the handler knows nothing of it.
CallLost ==
  /\ call.stage \in {"sent", "served"} /\ faults < MaxFaults
  /\ faults' = faults + 1
  /\ call' = [call EXCEPT !.stage = "refused"]
  /\ UNCHANGED <<server, clicked, shown, busy, stranded, working, asks>>

\* The API stops and starts: a claimed row stays claimed for ever.
Restart ==
  /\ faults < MaxFaults /\ \E a \in Items : handler[a] # "none"
  /\ faults' = faults + 1
  /\ handler' = [a \in Items |-> "none"]
  /\ run' = [r \in Runs |-> [run[r] EXCEPT !.waiting = TRUE]]
  /\ call' = IF call.stage \in {"sent", "served", "reloading"} THEN [call EXCEPT !.stage = "refused"] ELSE call
  /\ UNCHANGED <<store, conversations, note, ran, clicked, shown, busy, stranded, working, asks>>

-----------------------------------------------------------------------------
(* Others: the second operator, time, other changes of the entity.         *)

OthersClick(a) ==
  /\ Status(a) = "pending" /\ "other" \notin clicked[a] /\ Asks
  /\ clicked' = [clicked EXCEPT ![a] = @ \cup {"other"}]
  /\ UNCHANGED <<server, shown, writing, working, faults>>

OthersAuthorize(a) ==
  /\ "other" \in clicked[a] /\ Claimable(a) /\ Claim(a)
  /\ UNCHANGED <<conversations, ran, run, clicked, shown, writing, working, asks, faults>>

OthersReject(a) ==
  /\ Rejectable(a) /\ RejectRow(a) /\ Asks
  /\ UNCHANGED <<conversations, handler, ran, run, clicked, shown, writing, working, faults>>

OthersSend(c) ==
  /\ conversations[c] = "alive" /\ Asks
  /\ \E r \in Runs : run[r].stage = "idle" /\
       run' = [run EXCEPT ![r] = [NoRun EXCEPT !.stage = "sent", !.conv = c, !.message = TRUE]]
  /\ UNCHANGED <<store, conversations, handler, note, ran, clicked, shown, writing, working, faults>>

\* Reading a conversation closes its proposals that are too old.
ProposalExpires(a) ==
  /\ a \in Proposals /\ Expire(a)
  /\ UNCHANGED <<conversations, handler, ran, run, clicked, shown, writing, working, asks, faults>>

-----------------------------------------------------------------------------
View ==
  \/ \E c \in Convs \cup {None} : Nav(c)
  \/ \E c \in Convs : DeleteConversation(c)
  \/ Loaded \/ LoadFailed
  \/ Remount \/ Send \/ StopRun
  \/ \E a \in Items : Click(a, "authorize") \/ Click(a, "reject")
  \/ Refused \/ Reloaded \/ ReloadFailed \/ Answered

Api ==
  \/ ServeLoad
  \/ \E r \in Runs : Chat(r) \/ ChatRefused(r) \/ RunEnds(r) \/ \E a \in Items : Propose(r, a)
  \/ Authorize \/ Reject
  \/ \E a \in Items : Check(a) \/ Write(a) \/ WriteFails(a) \/ Finish(a)
  \/ CallLost \/ Restart

Others ==
  \/ \E a \in Items : OthersClick(a) \/ OthersAuthorize(a) \/ OthersReject(a) \/ ProposalExpires(a)
  \/ \E c \in Convs : OthersSend(c)

Next == View \/ Api \/ Others

Spec == Init /\ [][Next]_vars

\* Requests are answered, handlers run on, runs end (MAX_AGENT_STEPS) and the view
\* takes what it is sent; nobody has to click or send anything.
Fairness ==
  /\ WF_vars(Authorize) /\ WF_vars(Reject)
  /\ \A a \in Items : WF_vars(Check(a) \/ Write(a) \/ Finish(a))
  /\ \A r \in Runs : WF_vars(Chat(r) \/ ChatRefused(r) \/ RunEnds(r))
  /\ WF_vars(Refused) /\ WF_vars(Reloaded \/ ReloadFailed) /\ WF_vars(Answered)

FairSpec == Spec /\ Fairness

-----------------------------------------------------------------------------
(* Properties.                                                             *)

Phase(a) ==
  CASE handler[a] # "none"      -> "running"
    [] handler[a] = "none" /\ Status(a) = "none"    -> "unmade"
    [] handler[a] = "none" /\ Status(a) = "pending" -> "open"
    [] OTHER                    -> "closed"

Promise == INSTANCE ActionPromise WITH
  phase <- [a \in Items |-> Phase(a)],
  clicked <- [a \in Items |-> clicked[a] # {}],
  Retried <- Proposals

\* The promise of ActionPromise: whatever two operators, the agent's runs, a restart
\* and failed attempts do, a change runs at most once, only after a click, and never
\* once it was rejected, expired, deleted or left behind by a message.
KeepsThePromise == Promise!Spec

\* What the operator and the model are told is so: a card that says "done" ran, the
\* card of an action that says "rejected" never did, and the transcript's notes
\* likewise.  (A proposal whose apply failed after it landed can still be rejected.)
TellsTheTruth ==
  /\ \A a \in Items : cards[a] = "done" \/ note[a] = "ran" => ran[a] = 1
  /\ \A a \in Actions : cards[a] = "rejected" \/ note[a] = "did not run" => ran[a] = 0

\* The buttons come back after every click, unless the answer was an error and the
\* reload after it failed too.
ButtonsComeBack == busy # None ~> busy = None \/ stranded
=============================================================================
