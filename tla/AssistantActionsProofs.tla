----------------------- MODULE AssistantActionsProofs -----------------------
(***************************************************************************)
(* Proofs about AssistantActions, for any number of conversations, changes *)
(* and runs, and whatever the bounds.                                      *)
(***************************************************************************)
EXTENDS AssistantActions, TLAPS

-----------------------------------------------------------------------------
(***************************************************************************)
(* The types the proofs need                                               *)
(***************************************************************************)
Rows == [status : Statuses, conv : Convs \cup {None}]

Calls ==
  [op : {"none", "authorize", "reject"}, item : Items \cup {None}, conv : Convs \cup {None},
   stage : {"none", "sent", "served", "answered", "refused", "reloading", "reloaded"},
   orphan : BOOLEAN]

Loads ==
  [stage : {"idle", "sent", "answered", "missing"}, conv : Convs \cup {None},
   cards : [Items -> Statuses]]

Notes == {"none", "ran", "failed", "did not run"}

HandlerStages == {"none", "check", "write", "landed"}

RunStates ==
  [stage : {"idle", "sent", "streaming"}, conv : Convs \cup {None},
   message : BOOLEAN, heard : BOOLEAN, routed : BOOLEAN, waiting : BOOLEAN]

\* TypeOK, with the whole of the call.
Typed ==
  /\ store \in [Items -> Rows]
  /\ conversations \in [Convs -> {"unborn", "alive", "deleted"}]
  /\ handler \in [Items -> HandlerStages]
  /\ note \in [Items -> Notes]
  /\ clicked \in [Items -> SUBSET {"tab", "other"}]
  /\ ran \in [Items -> {0, 1}]
  /\ \A a \in Items : handler[a] = "write" => ran[a] = 0
  /\ run \in [Runs -> RunStates]
  /\ param \in Convs \cup {None} /\ conv \in Convs \cup {None}
  /\ cards \in [Items -> Statuses]
  /\ load \in Loads
  /\ load.stage # "idle" => load.conv \in Convs
  /\ call \in Calls
  /\ call.op # "none" => call.item \in Items
  /\ call.stage # "none" => call.op # "none"
  /\ busy \in Items \cup {None}
  /\ busy # None => stranded \/ (call.item = busy /\ ~call.orphan)
  /\ controller \in Runs \cup {None} /\ running = (controller # None)
  /\ stranded \in BOOLEAN
  /\ asks \in 0 .. MaxAsks /\ faults \in 0 .. MaxFaults

rows == <<store, handler, note, ran>>

LEMMA NewStatus ==
  ASSUME store \in [Items -> Rows], NEW a \in Items, NEW s \in Statuses,
         store' = [store EXCEPT ![a].status = s]
  PROVE  /\ store' \in [Items -> Rows]
         /\ \A b \in Items : b # a => store'[b] = store[b]
         /\ store'[a] = [status |-> s, conv |-> store[a].conv]
<1>1. store[a] \in Rows OBVIOUS
<1>2. [store[a] EXCEPT !.status = s] = [status |-> s, conv |-> store[a].conv]
  BY <1>1 DEF Rows
<1>3. [status |-> s, conv |-> store[a].conv] \in Rows BY <1>1 DEF Rows
<1> QED BY <1>2, <1>3

LEMMA NewRow ==
  ASSUME store \in [Items -> Rows], NEW a \in Items, NEW s \in Statuses, NEW c \in Convs \cup {None},
         store' = [store EXCEPT ![a].status = s, ![a].conv = c]
  PROVE  /\ store' \in [Items -> Rows]
         /\ \A b \in Items : b # a => store'[b] = store[b]
         /\ store'[a] = [status |-> s, conv |-> c]
<1> DEFINE x == [store[a] EXCEPT !.status = s]
           y == [x EXCEPT !.conv = c]
           z == [store EXCEPT ![a] = x]
<1>1. store[a] \in Rows OBVIOUS
<1>2. x = [status |-> s, conv |-> store[a].conv] BY <1>1 DEF Rows
<1> \A w : [[status |-> s, conv |-> w] EXCEPT !.conv = c] = [status |-> s, conv |-> c] OBVIOUS
<1>3. y = [status |-> s, conv |-> c] BY <1>2
<1>4. z[a] = x BY <1>1
<1>5. store' = [z EXCEPT ![a] = y] BY <1>4
<1>6. x \in Rows /\ y \in Rows BY <1>1, <1>2, <1>3 DEF Rows
<1> HIDE DEF x, y
<1>7. /\ z \in [Items -> Rows]
      /\ \A b \in Items : b # a => z[b] = store[b]
  BY <1>6
<1> HIDE DEF z
<1> QED BY <1>3, <1>5, <1>6, <1>7

\* Some rows of the table take one status.
LEMMA SomeRows ==
  ASSUME store \in [Items -> Rows], NEW S, NEW s \in Statuses,
         store' = [a \in Items |-> IF a \in S THEN [store[a] EXCEPT !.status = s] ELSE store[a]]
  PROVE  /\ store' \in [Items -> Rows]
         /\ \A a \in Items : store'[a] = IF a \in S THEN [status |-> s, conv |-> store[a].conv]
                                         ELSE store[a]
<1>1. ASSUME NEW a \in Items
      PROVE  /\ [store[a] EXCEPT !.status = s] = [status |-> s, conv |-> store[a].conv]
             /\ [status |-> s, conv |-> store[a].conv] \in Rows
  <2>1. store[a] \in Rows OBVIOUS
  <2> QED BY <2>1 DEF Rows
<1> QED BY <1>1

LEMMA CallStage ==
  ASSUME call \in Calls, call.op # "none" => call.item \in Items,
         NEW s \in {"sent", "served", "answered", "refused", "reloading"},
         call' = [call EXCEPT !.stage = s]
  PROVE  call' \in Calls /\ call'.op = call.op /\ call'.item = call.item /\ call'.stage = s
BY DEF Calls

-----------------------------------------------------------------------------
(***************************************************************************)
(* What a step does to the rows                                            *)
(***************************************************************************)
Deletes(c) ==
  /\ UNCHANGED <<handler, note, ran, clicked>>
  /\ store' = [a \in Items |-> IF store[a].conv = c THEN [store[a] EXCEPT !.status = "gone"]
                               ELSE store[a]]

Supersedes(S) ==
  /\ UNCHANGED <<handler, ran, clicked>>
  /\ \A a \in S : Status(a) = "pending"
  /\ Supersede(S)

Makes(a) ==
  /\ UNCHANGED <<handler, note, ran, clicked>>
  /\ Status(a) = "none"
  /\ \E c \in Convs \cup {None} : store' = [store EXCEPT ![a].status = "pending", ![a].conv = c]

Claims(a) ==
  /\ UNCHANGED <<ran, clicked>>
  /\ Status(a) = "pending" /\ Claim(a)
  /\ "other" \in clicked[a] \/ (call.op = "authorize" /\ call.item = a)

Closes(a) ==
  /\ UNCHANGED <<handler, ran, clicked>>
  /\ Status(a) = "pending" /\ \E s \in {"rejected", "expired"} : Becomes(a, s)
  /\ Noted(a, "did not run")

Passes(a) ==
  /\ UNCHANGED <<store, note, ran, clicked>>
  /\ handler[a] = "check" /\ ran[a] = 0
  /\ handler' = [handler EXCEPT ![a] = "write"]

Lands(a) ==
  /\ UNCHANGED <<store, note, clicked>>
  /\ handler[a] = "write" /\ Land(a)
  /\ handler' = [handler EXCEPT ![a] = "landed"]

Finishes(a) ==
  /\ UNCHANGED <<ran, clicked>>
  /\ handler[a] = "landed" /\ Ends(a, "done") /\ Noted(a, "ran")

\* An attempt is given up, before or after it landed; a proposal may be open again.
GivesUp(a) ==
  /\ UNCHANGED clicked
  /\ handler[a] \in {"check", "write"} /\ Noted(a, "failed")
  /\ ran' = ran \/ (handler[a] = "write" /\ Land(a))
  /\ \E s \in IF a \in Actions THEN {"failed"} ELSE {"pending", "expired"} :
       Ends(a, s) /\ (s = "expired" => ran' = ran)

Stops ==
  /\ UNCHANGED <<store, note, ran, clicked>>
  /\ \E a \in Items : handler[a] # "none"
  /\ handler' = [a \in Items |-> "none"]

LEMMA RowSteps ==
  ASSUME Typed, [Next]_vars
  PROVE  \/ UNCHANGED rows
         \/ \E c \in Convs : Deletes(c)
         \/ \E S \in SUBSET Actions : Supersedes(S)
         \/ \E a \in Items : \/ Makes(a) \/ Claims(a) \/ Closes(a) \/ Passes(a) \/ Lands(a)
                             \/ Finishes(a) \/ GivesUp(a)
         \/ Stops
<1>1. CASE UNCHANGED vars BY <1>1 DEF vars, server, rows
<1>2. ASSUME NEW c \in Convs, DeleteConversation(c) PROVE Deletes(c)
  BY <1>2 DEF DeleteConversation, Deletes
<1>3. ASSUME View, ~ \E c \in Convs : DeleteConversation(c) PROVE UNCHANGED rows
  BY <1>3 DEF View, Nav, Loaded, LoadFailed, Remount, Send, StopRun, Click, Refused, Reloaded,
              ReloadFailed, Answered, server, rows
<1>4. ASSUME NEW r \in Runs, Chat(r) PROVE \E S \in SUBSET Actions : Supersedes(S)
  <2>1. UNCHANGED <<handler, ran, clicked>> BY <1>4 DEF Chat
  <2>2. PICK c : Supersede(IF run[r].message THEN Superseded(c) ELSE {}) BY <1>4 DEF Chat
  <2>3. (IF run[r].message THEN Superseded(c) ELSE {}) \in SUBSET Actions
        /\ \A a \in (IF run[r].message THEN Superseded(c) ELSE {}) : Status(a) = "pending"
    BY DEF Superseded
  <2> QED BY <2>1, <2>2, <2>3 DEF Supersedes
<1>5. ASSUME NEW r \in Runs, NEW a \in Items, Propose(r, a) PROVE Makes(a)
  BY <1>5 DEF Propose, Makes, Typed, RunStates
<1>6. ASSUME NEW r \in Runs, ChatRefused(r) \/ RunEnds(r) PROVE UNCHANGED rows
  BY <1>6 DEF ChatRefused, RunEnds, rows
<1>7. ASSUME Authorize PROVE UNCHANGED rows \/ \E a \in Items : Claims(a) \/ Closes(a)
  <2>1. call.item \in Items BY <1>7 DEF Authorize, Typed
  <2> QED BY <1>7, <2>1 DEF Authorize, Claims, Closes, Claimable, Expire, rows
<1>8. ASSUME Reject PROVE UNCHANGED rows \/ \E a \in Items : Closes(a)
  <2>1. call.item \in Items BY <1>8 DEF Reject, Typed
  <2> QED BY <1>8, <2>1 DEF Reject, RejectRow, Rejectable, Closes, rows
<1>9. ASSUME NEW a \in Items, OthersAuthorize(a) PROVE Claims(a)
  BY <1>9 DEF OthersAuthorize, Claimable, Claims
<1>10. ASSUME NEW a \in Items, OthersReject(a) \/ ProposalExpires(a) PROVE Closes(a)
  BY <1>10 DEF OthersReject, ProposalExpires, RejectRow, Rejectable, Expire, Closes
<1>11. ASSUME NEW a \in Items, Check(a) PROVE Passes(a) \/ GivesUp(a)
  BY <1>11, ActionsAssumption DEF Check, StillReviewed, Passes, GivesUp, Items
<1>12. ASSUME NEW a \in Items, Write(a) PROVE Lands(a)
  BY <1>12 DEF Write, Lands
<1>13. ASSUME NEW a \in Items, WriteFails(a) PROVE GivesUp(a)
  BY <1>13, ActionsAssumption DEF WriteFails, GivesUp, Fails, Items
<1>14. ASSUME NEW a \in Items, Finish(a) PROVE Finishes(a)
  BY <1>14 DEF Finish, Finishes
<1>15. ASSUME Restart PROVE Stops
  BY <1>15 DEF Restart, Stops
<1>16. ASSUME \/ ServeLoad \/ CallLost \/ (\E a \in Items : OthersClick(a)) \/ (\E c \in Convs : OthersSend(c))
       PROVE  UNCHANGED rows
  BY <1>16 DEF ServeLoad, CallLost, OthersClick, OthersSend, server, rows
<1> QED
  BY <1>1, <1>2, <1>3, <1>4, <1>5, <1>6, <1>7, <1>8, <1>9, <1>10, <1>11, <1>12, <1>13, <1>14,
     <1>15, <1>16 DEF Next, Api, Others

-----------------------------------------------------------------------------
(***************************************************************************)
(* Types                                                                   *)
(***************************************************************************)

TypedRows ==
  /\ store \in [Items -> Rows]
  /\ handler \in [Items -> HandlerStages]
  /\ note \in [Items -> Notes]
  /\ ran \in [Items -> {0, 1}]
  /\ \A a \in Items : handler[a] = "write" => ran[a] = 0

LEMMA EndsRow ==
  ASSUME TypedRows, NEW a \in Items, NEW s \in Statuses, Ends(a, s)
  PROVE  /\ store' \in [Items -> Rows]
         /\ \A b \in Items : b # a => store'[b] = store[b]
         /\ store'[a] = IF Status(a) = "claimed" THEN [status |-> s, conv |-> store[a].conv]
                        ELSE store[a]
         /\ handler' = [handler EXCEPT ![a] = "none"]
BY NewStatus DEF Ends, TypedRows

LEMMA NotedType ==
  ASSUME TypedRows, NEW a \in Items, NEW n \in Notes, Noted(a, n)
  PROVE  note' \in [Items -> Notes] /\ \A b \in Items : b # a => note'[b] = note[b]
BY DEF Noted, TypedRows

LEMMA TypedRowsStep ==
  ASSUME Typed, [Next]_vars
  PROVE  TypedRows'
<1>0. TypedRows BY DEF Typed, TypedRows
<1>1. ASSUME UNCHANGED rows PROVE TypedRows'
  BY <1>0, <1>1 DEF rows, TypedRows
<1>2. ASSUME NEW c \in Convs, Deletes(c) PROVE TypedRows'
  <2> DEFINE S == {a \in Items : store[a].conv = c}
  <2>1. store' = [a \in Items |-> IF a \in S THEN [store[a] EXCEPT !.status = "gone"] ELSE store[a]]
    BY <1>2 DEF Deletes
  <2>2. store' \in [Items -> Rows]
    <3> HIDE DEF S
    <3> QED BY <1>0, <2>1, SomeRows DEF TypedRows, Statuses
  <2> QED BY <1>0, <1>2, <2>2 DEF Deletes, TypedRows
<1>3. ASSUME NEW S \in SUBSET Actions, Supersedes(S) PROVE TypedRows'
  <2>1. store' \in [Items -> Rows]
    BY <1>0, <1>3, SomeRows DEF Supersedes, Supersede, TypedRows, Statuses
  <2> QED BY <1>0, <1>3, <2>1 DEF Supersedes, Supersede, TypedRows, Notes
<1>4. ASSUME NEW a \in Items, Makes(a) PROVE TypedRows'
  <2>1. store' \in [Items -> Rows]
    BY <1>0, <1>4, NewRow DEF Makes, TypedRows, Statuses
  <2> QED BY <1>0, <1>4, <2>1 DEF Makes, TypedRows
<1>5. ASSUME NEW a \in Items, Claims(a) PROVE TypedRows'
  <2>1. store' \in [Items -> Rows]
    BY <1>0, <1>5, NewStatus DEF Claims, Claim, Becomes, TypedRows, Statuses
  <2> QED BY <1>0, <1>5, <2>1 DEF Claims, Claim, TypedRows, HandlerStages
<1>6. ASSUME NEW a \in Items, Closes(a) PROVE TypedRows'
  <2>1. store' \in [Items -> Rows]
    BY <1>0, <1>6, NewStatus DEF Closes, Becomes, TypedRows, Statuses
  <2>2. note' \in [Items -> Notes] BY <1>0, <1>6, NotedType DEF Closes, Notes
  <2> QED BY <1>0, <1>6, <2>1, <2>2 DEF Closes, TypedRows
<1>7. ASSUME NEW a \in Items, Passes(a) \/ Lands(a) PROVE TypedRows'
  BY <1>0, <1>7 DEF Passes, Lands, Land, TypedRows, HandlerStages
<1>8. ASSUME NEW a \in Items, Finishes(a) PROVE TypedRows'
  <2>1. store' \in [Items -> Rows] /\ handler' = [handler EXCEPT ![a] = "none"]
    BY <1>0, <1>8, EndsRow DEF Finishes, Statuses
  <2>2. note' \in [Items -> Notes] BY <1>0, <1>8, NotedType DEF Finishes, Notes
  <2> QED BY <1>0, <1>8, <2>1, <2>2 DEF Finishes, TypedRows, HandlerStages
<1>9. ASSUME NEW a \in Items, GivesUp(a) PROVE TypedRows'
  <2>1. store' \in [Items -> Rows] /\ handler' = [handler EXCEPT ![a] = "none"]
    BY <1>0, <1>9, EndsRow DEF GivesUp, Statuses
  <2>2. note' \in [Items -> Notes] BY <1>0, <1>9, NotedType DEF GivesUp, Notes
  <2>3. ran' = ran \/ (ran[a] = 0 /\ ran' = [ran EXCEPT ![a] = ran[a] + 1])
    BY <1>0, <1>9 DEF GivesUp, Land, TypedRows
  <2>4. ran' \in [Items -> {0, 1}] /\ \A b \in Items : b # a => ran'[b] = ran[b]
    BY <1>0, <2>3 DEF TypedRows
  <2> QED BY <1>0, <2>1, <2>2, <2>4 DEF TypedRows, HandlerStages
<1>10. ASSUME Stops PROVE TypedRows'
  BY <1>0, <1>10 DEF Stops, TypedRows, HandlerStages
<1> QED
  BY RowSteps, <1>1, <1>2, <1>3, <1>4, <1>5, <1>6, <1>7, <1>8, <1>9, <1>10

\* The runs and the streams.
LEMMA RunFields ==
  ASSUME NEW c \in Convs \cup {None}, NEW b1 \in BOOLEAN, NEW b2 \in BOOLEAN, NEW b3 \in BOOLEAN
  PROVE  /\ [NoRun EXCEPT !.stage = "sent", !.conv = c, !.message = b1, !.heard = b2, !.routed = b3]
              \in RunStates
         /\ [NoRun EXCEPT !.stage = "sent", !.conv = c, !.heard = b2, !.routed = b3] \in RunStates
         /\ [NoRun EXCEPT !.stage = "sent", !.conv = c, !.message = b1] \in RunStates
<1>1. [NoRun EXCEPT !.stage = "sent", !.conv = c, !.message = b1, !.heard = b2, !.routed = b3]
              \in RunStates
  BY DEF NoRun, RunStates
<1>2. [NoRun EXCEPT !.stage = "sent", !.conv = c, !.heard = b2, !.routed = b3] \in RunStates
  BY DEF NoRun, RunStates
<1>3. [NoRun EXCEPT !.stage = "sent", !.conv = c, !.message = b1] \in RunStates
  BY DEF NoRun, RunStates
<1> QED BY <1>1, <1>2, <1>3

LEMMA TypedRuns ==
  ASSUME Typed, [Next]_vars
  PROVE  /\ run' \in [Runs -> RunStates]
         /\ controller' \in Runs \cup {None} /\ running' = (controller' # None)
<1> DEFINE Good == /\ run' \in [Runs -> RunStates]
                   /\ controller' \in Runs \cup {None} /\ running' = (controller' # None)
<1>0. NoRun \in RunStates BY DEF NoRun, RunStates
<1> USE DEF Typed
<1>1. ASSUME UNCHANGED <<run, running, controller>> PROVE Good BY <1>1
<1>2. ASSUME Remount PROVE Good BY <1>2 DEF Remount, RunStates
<1>3. ASSUME NEW c \in Convs \cup {None}, Stream(c, TRUE) PROVE Good
  <2> DEFINE x == [NoRun EXCEPT !.stage = "sent", !.conv = c, !.message = TRUE, !.heard = TRUE,
                    !.routed = param # None]
  <2>1. x \in RunStates BY RunFields
  <2>2. PICK r \in Runs : run' = [run EXCEPT ![r] = x] /\ running' = TRUE /\ controller' = r
    BY <1>3 DEF Stream
  <2> HIDE DEF x
  <2>3. controller' # None BY <2>2, ActionsAssumption
  <2> QED BY <2>1, <2>2, <2>3
<1>4. ASSUME NEW r \in Runs, Chat(r) PROVE Good
  <2>1. PICK c \in Convs : run' = [run EXCEPT ![r].stage = "streaming", ![r].conv = c]
    <3>1. run[r].conv \in Convs \cup {None} BY DEF RunStates
    <3> QED BY <1>4, <3>1 DEF Chat
  <2> DEFINE x == [run[r] EXCEPT !.stage = "streaming"]
             y == [x EXCEPT !.conv = c]
             z == [run EXCEPT ![r] = x]
  <2>2. x \in RunStates BY DEF RunStates
  <2>3. y \in RunStates
    <3> HIDE DEF x
    <3> QED BY <2>2 DEF RunStates
  <2>4. z[r] = x OBVIOUS
  <2>5. run' = [z EXCEPT ![r] = y] BY <2>1, <2>4
  <2> HIDE DEF x, y
  <2>6. run' \in [Runs -> RunStates] BY <2>2, <2>3, <2>5
  <2> QED BY <1>4, <2>6 DEF Chat, working
<1>5. ASSUME NEW r \in Runs, ChatRefused(r) \/ RunEnds(r) PROVE Good
  BY <1>0, <1>5 DEF ChatRefused, RunEnds, Finally, working
<1>6. ASSUME NEW r \in Runs, NEW a \in Items, Propose(r, a) PROVE Good
  BY <1>6 DEF Propose, RunStates, working
<1>7. ASSUME StopRun PROVE Good
  BY <1>7 DEF StopRun, RunStates
<1>8. ASSUME Answered PROVE Good
  <2>1. CASE UNCHANGED <<run, running, controller>> BY <2>1, <1>1
  <2>2. CASE ~UNCHANGED <<run, running, controller>>
    <3> DEFINE x == [NoRun EXCEPT !.stage = "sent", !.conv = call.conv, !.heard = ~call.orphan,
                      !.routed = param # None]
    <3>1. x \in RunStates
      <4>1. call.conv \in Convs \cup {None} /\ (~call.orphan) \in BOOLEAN /\ (param # None) \in BOOLEAN
        BY DEF Calls
      <4> QED BY <4>1, RunFields
    <3>2. PICK r \in Runs : /\ run' = [run EXCEPT ![r] = x]
                            /\ IF call.orphan THEN UNCHANGED working ELSE running' = TRUE /\ controller' = r
      BY <1>8, <2>2 DEF Answered, working
    <3> HIDE DEF x
    <3>3. run' \in [Runs -> RunStates] BY <3>1, <3>2
    <3>4. r # None BY ActionsAssumption
    <3> QED BY <3>2, <3>3, <3>4 DEF working
  <2> QED BY <2>1, <2>2
<1>9. ASSUME Restart PROVE Good
  BY <1>9 DEF Restart, RunStates, working
<1>10. ASSUME NEW c \in Convs, OthersSend(c) PROVE Good
  <2> DEFINE x == [NoRun EXCEPT !.stage = "sent", !.conv = c, !.message = TRUE]
  <2>1. x \in RunStates BY RunFields
  <2>2. PICK r \in Runs : run' = [run EXCEPT ![r] = x]
    BY <1>10 DEF OthersSend
  <2> HIDE DEF x
  <2> QED BY <1>10, <2>1, <2>2 DEF OthersSend, working
<1>11. ASSUME Send PROVE Good
  BY <1>3, <1>11 DEF Send
<1> HIDE DEF Good, Typed
<1>12. ASSUME View PROVE Good
  BY <1>12, <1>1, <1>2, <1>11, <1>7, <1>8
     DEF View, Nav, DeleteConversation, Loaded, LoadFailed, Click, Refused, Reloaded,
         ReloadFailed, server, working
<1>13. ASSUME Api PROVE Good
  BY <1>13, <1>1, <1>4, <1>5, <1>6, <1>9
     DEF Api, ServeLoad, Authorize, Reject, Check, Write, WriteFails, Finish, CallLost,
         server, working
<1>14. ASSUME Others PROVE Good
  BY <1>14, <1>1, <1>10
     DEF Others, OthersClick, OthersAuthorize, OthersReject, ProposalExpires, server, working
<1>15. ASSUME UNCHANGED vars PROVE Good BY <1>1, <1>15 DEF vars, server, working
<1>16. Good BY <1>12, <1>13, <1>14, <1>15 DEF Next
<1> QED BY <1>16 DEF Good

\* The tab.
TypedShown ==
  /\ param \in Convs \cup {None} /\ conv \in Convs \cup {None}
  /\ cards \in [Items -> Statuses]
  /\ load \in Loads
  /\ load.stage # "idle" => load.conv \in Convs

LEMMA Gets ==
  /\ Blank \in [Items -> Statuses] /\ NoLoad \in Loads /\ NoLoad.stage = "idle"
  /\ \A c \in Convs : Get(c) \in Loads /\ Get(c).conv = c
BY DEF Blank, Statuses, NoLoad, Loads, Get

LEMMA Snapshots ==
  ASSUME Typed, NEW c
  PROVE  Snapshot(c) \in [Items -> Statuses]
BY DEF Snapshot, Status, Typed, Rows, Statuses

LEMMA Routes ==
  ASSUME TypedShown, NEW c \in Convs \cup {None}, Route(c)
  PROVE  TypedShown'
BY Gets, ActionsAssumption DEF Route, TypedShown

LEMMA TypedShownStep ==
  ASSUME Typed, [Next]_vars
  PROVE  TypedShown'
<1>0. TypedShown BY DEF Typed, TypedShown
<1>1. ASSUME UNCHANGED shown PROVE TypedShown' BY <1>0, <1>1 DEF shown, TypedShown
<1>2. ASSUME NEW c \in Convs \cup {None}, Nav(c) PROVE TypedShown'
  BY <1>0, <1>2, Routes DEF Nav
<1>3. ASSUME NEW c \in Convs, DeleteConversation(c) PROVE TypedShown'
  BY <1>0, <1>1, <1>3, Routes DEF DeleteConversation
<1>4. ASSUME ServeLoad PROVE TypedShown'
  <2>1. Snapshot(load.conv) \in [Items -> Statuses] BY Snapshots
  <2>2. ASSUME NEW s \in [Items -> Statuses]
        PROVE  /\ [load EXCEPT !.stage = "answered", !.cards = s] \in Loads
               /\ [load EXCEPT !.stage = "answered", !.cards = s].conv = load.conv
    BY <1>0 DEF TypedShown, Loads
  <2>3. /\ [load EXCEPT !.stage = "missing"] \in Loads
        /\ [load EXCEPT !.stage = "missing"].conv = load.conv
    BY <1>0 DEF TypedShown, Loads
  <2>4. load' \in Loads /\ load'.conv = load.conv BY <1>4, <2>1, <2>2, <2>3 DEF ServeLoad
  <2> QED BY <1>0, <1>4, <2>4 DEF ServeLoad, TypedShown
<1>5. ASSUME Loaded PROVE TypedShown' BY <1>0, <1>5, Gets DEF Loaded, TypedShown, Loads
<1>6. ASSUME LoadFailed PROVE TypedShown' BY <1>0, <1>6, Gets DEF LoadFailed, TypedShown
<1>7. ASSUME Remount PROVE TypedShown' BY <1>0, <1>7, Gets DEF Remount, TypedShown
<1>8. ASSUME Send PROVE TypedShown' BY <1>0, <1>8 DEF Send, TypedShown, Statuses
<1>9. ASSUME NEW r \in Runs, Chat(r) PROVE TypedShown'
  <2>1. PICK c \in Convs :
          IF ~run[r].heard THEN UNCHANGED shown
          ELSE /\ conv' = IF run[r].message /\ conv = None THEN c ELSE conv
               /\ IF ~run[r].routed /\ param # c
                  THEN /\ param' = c
                       /\ load' = Get(c)
                  ELSE UNCHANGED <<param, load>>
               /\ UNCHANGED cards
    <3>1. run[r].conv \in Convs \cup {None} BY DEF Typed, RunStates
    <3> QED BY <1>9, <3>1 DEF Chat
  <2> QED BY <1>0, <1>1, <2>1, Gets DEF TypedShown
<1>10. ASSUME NEW r \in Runs, NEW a \in Items, Propose(r, a) PROVE TypedShown'
  BY <1>0, <1>10 DEF Propose, TypedShown, Statuses
<1>11. ASSUME Reloaded PROVE TypedShown'
  <2>1. Snapshot(call.conv) \in [Items -> Statuses] BY Snapshots
  <2> QED BY <1>0, <1>11, <2>1 DEF Reloaded, TypedShown
<1>12. ASSUME Answered PROVE TypedShown'
  <2>1. ASSUME NEW a \in Items PROVE Status(a) \in Statuses BY DEF Typed, Rows, Status
  <2> QED BY <1>0, <1>12, <2>1 DEF Answered, TypedShown
<1>13. ASSUME View PROVE TypedShown'
  BY <1>13, <1>1, <1>2, <1>3, <1>5, <1>6, <1>7, <1>8, <1>11, <1>12
     DEF View, StopRun, Click, Refused, ReloadFailed
<1>14. ASSUME Api PROVE TypedShown'
  BY <1>14, <1>1, <1>4, <1>9, <1>10
     DEF Api, ChatRefused, RunEnds, Authorize, Reject, Check, Write, WriteFails, Finish,
         CallLost, Restart
<1>15. ASSUME Others PROVE TypedShown'
  BY <1>15, <1>1 DEF Others, OthersClick, OthersAuthorize, OthersReject, ProposalExpires, OthersSend
<1> QED BY <1>1, <1>13, <1>14, <1>15 DEF Next, vars

\* The tab's write, and the clicks.
TypedWriting ==
  /\ call \in Calls
  /\ call.op # "none" => call.item \in Items
  /\ call.stage # "none" => call.op # "none"
  /\ busy \in Items \cup {None}
  /\ busy # None => stranded \/ (call.item = busy /\ ~call.orphan)
  /\ stranded \in BOOLEAN

LEMMA NoCalls == NoCall \in Calls /\ NoCall.op = "none" /\ NoCall.stage = "none"
BY DEF NoCall, Calls

LEMMA OtherStage ==
  ASSUME TypedWriting, NEW s, s \in {"sent", "served", "answered", "refused", "reloading"},
         call' = call \/ (call.stage # "none" /\ call' = [call EXCEPT !.stage = s]),
         UNCHANGED <<busy, stranded>>
  PROVE  TypedWriting'
BY DEF TypedWriting, Calls

LEMMA TypedWritingStep ==
  ASSUME Typed, [Next]_vars
  PROVE  TypedWriting'
<1>0. TypedWriting BY DEF Typed, TypedWriting
<1>1. ASSUME UNCHANGED writing PROVE TypedWriting' BY <1>0, <1>1 DEF writing, TypedWriting
<1>2. ASSUME Remount PROVE TypedWriting' BY <1>0, <1>2 DEF Remount, TypedWriting, Calls
<1>3. ASSUME NEW a \in Items, Click(a, "authorize") \/ Click(a, "reject") PROVE TypedWriting'
  <2>1. PICK op \in {"authorize", "reject"} :
          call' = [op |-> op, item |-> a, conv |-> conv, stage |-> "sent", orphan |-> FALSE]
    BY <1>3 DEF Click
  <2>2. conv \in Convs \cup {None} BY DEF Typed
  <2>3. call' \in Calls BY <2>1, <2>2 DEF Calls
  <2>4. busy' = a /\ stranded' = stranded BY <1>3 DEF Click
  <2>5. call'.item = a /\ call'.op # "none" /\ ~call'.orphan BY <2>1
  <2> QED BY <1>0, <2>3, <2>4, <2>5 DEF TypedWriting
<1>4. ASSUME Refused PROVE TypedWriting'
  <2>1. CASE call.op = "authorize" /\ conv # None /\ ~call.orphan
    BY <1>0, <1>4, <2>1, OtherStage DEF Refused
  <2>2. CASE ~(call.op = "authorize" /\ conv # None /\ ~call.orphan)
    BY <1>0, <1>4, <2>2, NoCalls DEF Refused, Released, TypedWriting
  <2> QED BY <1>4, <2>1, <2>2 DEF Refused
<1>5. ASSUME Reloaded PROVE TypedWriting'
  BY <1>0, <1>5, NoCalls DEF Reloaded, Released, TypedWriting
<1>6. ASSUME ReloadFailed PROVE TypedWriting'
  BY <1>0, <1>6, NoCalls DEF ReloadFailed, Released, TypedWriting
<1>7. ASSUME Answered PROVE TypedWriting'
  BY <1>0, <1>7, NoCalls DEF Answered, Released, TypedWriting
<1>8. ASSUME Authorize \/ Reject PROVE TypedWriting'
  BY <1>0, <1>8, OtherStage DEF Authorize, Reject
<1>9. ASSUME NEW a \in Items, Check(a) \/ Write(a) \/ WriteFails(a) \/ Finish(a) PROVE TypedWriting'
  BY <1>0, <1>9, <1>1, OtherStage DEF Check, Write, WriteFails, Finish, Answer
<1>10. ASSUME CallLost \/ Restart PROVE TypedWriting'
  BY <1>0, <1>10, OtherStage DEF CallLost, Restart
<1>11. ASSUME View PROVE TypedWriting'
  BY <1>11, <1>1, <1>2, <1>3, <1>4, <1>5, <1>6, <1>7
     DEF View, Nav, DeleteConversation, Loaded, LoadFailed, Send, StopRun
<1>12. ASSUME Api PROVE TypedWriting'
  BY <1>12, <1>1, <1>8, <1>9, <1>10
     DEF Api, ServeLoad, Chat, ChatRefused, RunEnds, Propose
<1>13. ASSUME Others PROVE TypedWriting'
  BY <1>13, <1>1 DEF Others, OthersClick, OthersAuthorize, OthersReject, ProposalExpires, OthersSend
<1> QED BY <1>1, <1>11, <1>12, <1>13 DEF Next, vars

\* The rest.
LEMMA TypedRestStep ==
  ASSUME Typed, [Next]_vars
  PROVE  /\ conversations' \in [Convs -> {"unborn", "alive", "deleted"}]
         /\ clicked' \in [Items -> SUBSET {"tab", "other"}]
         /\ asks' \in 0 .. MaxAsks /\ faults' \in 0 .. MaxFaults
<1> USE DEF Typed
<1>1. conversations' \in [Convs -> {"unborn", "alive", "deleted"}]
  <2>1. ASSUME UNCHANGED conversations
        PROVE  conversations' \in [Convs -> {"unborn", "alive", "deleted"}]
    BY <2>1
  <2>2. ASSUME NEW c \in Convs, DeleteConversation(c)
        PROVE  conversations' \in [Convs -> {"unborn", "alive", "deleted"}]
    BY <2>2 DEF DeleteConversation
  <2>3. ASSUME NEW r \in Runs, Chat(r)
        PROVE  conversations' \in [Convs -> {"unborn", "alive", "deleted"}]
    <3>1. run[r].conv \in Convs \cup {None} BY DEF RunStates
    <3>2. PICK c \in Convs : conversations' = [conversations EXCEPT ![c] = "alive"]
      BY <2>3, <3>1 DEF Chat
    <3> QED BY <3>2
  <2> HIDE DEF Typed
  <2>4. ASSUME View PROVE conversations' \in [Convs -> {"unborn", "alive", "deleted"}]
    BY <2>1, <2>2, <2>4
       DEF View, Nav, Loaded, LoadFailed, Remount, Send, StopRun, Click, Refused, Reloaded,
           ReloadFailed, Answered, server
  <2>5. ASSUME Api PROVE conversations' \in [Convs -> {"unborn", "alive", "deleted"}]
    BY <2>1, <2>3, <2>5
       DEF Api, ServeLoad, ChatRefused, RunEnds, Propose, Authorize, Reject, Check, Write,
           WriteFails, Finish, CallLost, Restart, server
  <2>6. ASSUME Others PROVE conversations' \in [Convs -> {"unborn", "alive", "deleted"}]
    BY <2>1, <2>6
       DEF Others, OthersClick, OthersAuthorize, OthersReject, ProposalExpires, OthersSend, server
  <2> QED BY <2>1, <2>4, <2>5, <2>6 DEF Next, vars, server
<1>2. clicked' \in [Items -> SUBSET {"tab", "other"}]
  <2>1. ASSUME NEW a \in Items, NEW w \in {"tab", "other"}, clicked' = [clicked EXCEPT ![a] = @ \cup {w}]
        PROVE  clicked' \in [Items -> SUBSET {"tab", "other"}]
    BY <2>1
  <2> HIDE DEF Typed
  <2>2. ASSUME UNCHANGED clicked PROVE clicked' \in [Items -> SUBSET {"tab", "other"}]
    BY <2>2 DEF Typed
  <2>3. ASSUME NEW a \in Items, Click(a, "authorize") \/ Click(a, "reject")
        PROVE  clicked' \in [Items -> SUBSET {"tab", "other"}]
    BY <2>1, <2>2, <2>3 DEF Click
  <2>4. ASSUME View PROVE clicked' \in [Items -> SUBSET {"tab", "other"}]
    BY <2>2, <2>3, <2>4
       DEF View, Nav, DeleteConversation, Loaded, LoadFailed, Remount, Send, StopRun, Refused,
           Reloaded, ReloadFailed, Answered
  <2>5. ASSUME Api PROVE clicked' \in [Items -> SUBSET {"tab", "other"}]
    BY <2>2, <2>5
       DEF Api, ServeLoad, Chat, ChatRefused, RunEnds, Propose, Authorize, Reject, Check, Write,
           WriteFails, Finish, CallLost, Restart
  <2>6. ASSUME NEW a \in Items, OthersClick(a)
        PROVE  clicked' \in [Items -> SUBSET {"tab", "other"}]
    BY <2>1, <2>6 DEF OthersClick
  <2>7. ASSUME Others PROVE clicked' \in [Items -> SUBSET {"tab", "other"}]
    BY <2>2, <2>6, <2>7
       DEF Others, OthersAuthorize, OthersReject, ProposalExpires, OthersSend
  <2> QED BY <2>2, <2>4, <2>5, <2>7 DEF Next, vars
<1>3. asks' \in 0 .. MaxAsks
  <2>1. ASSUME asks' = asks \/ Asks PROVE asks' \in 0 .. MaxAsks
    BY <2>1, ActionsAssumption DEF Asks
  <2> HIDE DEF Typed
  <2>2. View => asks' = asks \/ Asks
    BY DEF View, Nav, DeleteConversation, Loaded, LoadFailed, Remount, Send, StopRun, Click,
           Refused, Reloaded, ReloadFailed, Answered
  <2>3. Api => asks' = asks
    BY DEF Api, ServeLoad, Chat, ChatRefused, RunEnds, Propose, Authorize, Reject, Check, Write,
           WriteFails, Finish, CallLost, Restart
  <2>4. Others => asks' = asks \/ Asks
    BY DEF Others, OthersClick, OthersAuthorize, OthersReject, ProposalExpires, OthersSend
  <2> QED BY <2>1, <2>2, <2>3, <2>4 DEF Next, vars
<1>4. faults' \in 0 .. MaxFaults
  <2>1. ASSUME faults' = faults \/ (faults < MaxFaults /\ faults' = faults + 1)
        PROVE  faults' \in 0 .. MaxFaults
    BY <2>1, ActionsAssumption
  <2> HIDE DEF Typed
  <2>2. View => faults' = faults \/ (faults < MaxFaults /\ faults' = faults + 1)
    BY DEF View, Nav, DeleteConversation, Loaded, LoadFailed, Remount, Send, StopRun, Click,
           Refused, Reloaded, ReloadFailed, Answered
  <2>3. Api => faults' = faults \/ (faults < MaxFaults /\ faults' = faults + 1)
    BY DEF Api, ServeLoad, Chat, ChatRefused, RunEnds, Propose, Authorize, Reject, Check, Write,
           WriteFails, Finish, CallLost, Restart
  <2>4. Others => faults' = faults
    BY DEF Others, OthersClick, OthersAuthorize, OthersReject, ProposalExpires, OthersSend
  <2> QED BY <2>1, <2>2, <2>3, <2>4 DEF Next, vars
<1> QED BY <1>1, <1>2, <1>3, <1>4

LEMMA TypedStep ==
  ASSUME Typed, [Next]_vars
  PROVE  Typed'
BY TypedRowsStep, TypedRuns, TypedShownStep, TypedWritingStep, TypedRestStep
   DEF Typed, TypedRows, TypedShown, TypedWriting

LEMMA TypedInit == Init => Typed
<1> SUFFICES ASSUME Init PROVE Typed OBVIOUS
<1>1. TypedShown BY Gets DEF Init, TypedShown
<1>2. TypedWriting BY NoCalls DEF Init, TypedWriting
<1>3. TypedRows
  <2>1. [status |-> "none", conv |-> None] \in Rows BY DEF Rows, Statuses
  <2> QED BY <2>1 DEF Init, TypedRows, Notes, HandlerStages
<1>4. run \in [Runs -> RunStates] BY DEF Init, NoRun, RunStates
<1>5. clicked \in [Items -> SUBSET {"tab", "other"}]
      /\ conversations \in [Convs -> {"unborn", "alive", "deleted"}]
  BY DEF Init
<1>6. asks \in 0 .. MaxAsks /\ faults \in 0 .. MaxFaults BY ActionsAssumption DEF Init
<1>7. controller \in Runs \cup {None} /\ running = (controller # None) BY DEF Init
<1> HIDE DEF Init
<1> QED BY <1>1, <1>2, <1>3, <1>4, <1>5, <1>6, <1>7
        DEF Typed, TypedShown, TypedWriting, TypedRows

\* TypeOK: the tab is busy with the change it has written about and with no other, and
\* while it says "Working" there is a stream to stop.
THEOREM TypeCorrect == Spec => []TypeOK
<1>1. Typed => TypeOK
  <2>1. 0 .. 1 = {0, 1} OBVIOUS
  <2>2. ASSUME Typed
        PROVE  /\ call.op \in {"none", "authorize", "reject"}
               /\ call.stage \in {"none", "sent", "served", "answered", "refused", "reloading", "reloaded"}
    BY <2>2 DEF Typed, Calls
  <2> QED BY <2>1, <2>2 DEF Typed, TypeOK, Rows, Loads, RunStates, Notes, HandlerStages
<1> QED BY <1>1, TypedInit, TypedStep, PTL DEF Spec

-----------------------------------------------------------------------------
(***************************************************************************)
(* What a step does to one row                                             *)
(***************************************************************************)
Same(a) == store'[a] = store[a] /\ handler'[a] = handler[a] /\ note'[a] = note[a] /\ ran'[a] = ran[a]

RowGone(a) ==
  /\ store[a].conv \in Convs
  /\ Status(a)' = "gone" /\ store'[a].conv = store[a].conv
  /\ handler'[a] = handler[a] /\ note'[a] = note[a] /\ ran'[a] = ran[a]

RowClosed(a) ==
  /\ Status(a) = "pending" /\ Status(a)' \in {"rejected", "expired"}
  /\ store'[a].conv = store[a].conv
  /\ handler'[a] = handler[a] /\ ran'[a] = ran[a]
  /\ note'[a] = IF a \in Actions THEN "did not run" ELSE note[a]

RowMade(a) ==
  /\ Status(a) = "none" /\ Status(a)' = "pending"
  /\ handler'[a] = handler[a] /\ note'[a] = note[a] /\ ran'[a] = ran[a]

RowClaimed(a) ==
  /\ Status(a) = "pending" /\ Status(a)' = "claimed" /\ store'[a].conv = store[a].conv
  /\ handler'[a] = "check" /\ note'[a] = note[a] /\ ran'[a] = ran[a]

RowPassed(a) ==
  /\ store'[a] = store[a] /\ note'[a] = note[a] /\ ran'[a] = ran[a]
  /\ ran[a] = 0 /\ handler[a] = "check" /\ handler'[a] = "write"

RowLanded(a) ==
  /\ store'[a] = store[a] /\ note'[a] = note[a] /\ ran[a] = 0 /\ ran'[a] = 1
  /\ handler[a] = "write" /\ handler'[a] = "landed"

RowEnded(a, s) ==
  /\ Status(a)' = IF Status(a) = "claimed" THEN s ELSE Status(a)
  /\ store'[a].conv = store[a].conv
  /\ handler'[a] = "none"

RowFinished(a) ==
  /\ handler[a] = "landed" /\ RowEnded(a, "done") /\ ran'[a] = ran[a]
  /\ note'[a] = IF a \in Actions THEN "ran" ELSE note[a]

RowGivenUp(a) ==
  /\ handler[a] \in {"check", "write"}
  /\ ran'[a] = ran[a] \/ (handler[a] = "write" /\ ran[a] = 0 /\ ran'[a] = 1)
  /\ \E s \in IF a \in Actions THEN {"failed"} ELSE {"pending", "expired"} :
       RowEnded(a, s) /\ (s = "expired" => ran'[a] = ran[a])
  /\ note'[a] = IF a \in Actions THEN "failed" ELSE note[a]

RowStopped(a) ==
  /\ store'[a] = store[a] /\ note'[a] = note[a] /\ ran'[a] = ran[a]
  /\ handler'[a] = "none"

OneRow(a) ==
  \/ RowMade(a) \/ RowClaimed(a) \/ RowPassed(a) \/ RowLanded(a) \/ RowFinished(a) \/ RowGivenUp(a)

\* The change whose row a step touches; the rows a conversation's end or a message closes.
Alone(a) == OneRow(a) /\ \A b \in Items : b # a => Same(b)

Several(S) ==
  \/ \A b \in Items : IF b \in S THEN RowGone(b) ELSE Same(b)
  \/ \A b \in Items : IF b \in S THEN RowClosed(b) ELSE Same(b)

LEMMA RowByRow ==
  ASSUME Typed, [Next]_vars
  PROVE  \/ \A a \in Items : Same(a)
         \/ \E S \in SUBSET Items : Several(S)
         \/ \E a \in Items : Alone(a)
         \/ (\A a \in Items : RowStopped(a)) /\ \E a \in Items : handler[a] # "none"
<1> DEFINE Goal == \/ \A a \in Items : Same(a)
                   \/ \E S \in SUBSET Items : Several(S)
                   \/ \E a \in Items : Alone(a)
                   \/ (\A a \in Items : RowStopped(a)) /\ \E a \in Items : handler[a] # "none"
<1>0. TypedRows BY DEF Typed, TypedRows
<1>1. ASSUME UNCHANGED rows PROVE Goal BY <1>1 DEF rows, Same
<1>2. ASSUME NEW c \in Convs, Deletes(c) PROVE Goal
  <2> DEFINE S == {a \in Items : store[a].conv = c}
  <2>1. store' = [a \in Items |-> IF a \in S THEN [store[a] EXCEPT !.status = "gone"] ELSE store[a]]
    BY <1>2 DEF Deletes
  <2>2. \A a \in Items : store'[a] = IF a \in S THEN [status |-> "gone", conv |-> store[a].conv]
                                     ELSE store[a]
    <3> HIDE DEF S
    <3> QED BY <1>0, <2>1, SomeRows DEF TypedRows, Statuses
  <2>3. \A b \in Items : IF b \in S THEN RowGone(b) ELSE Same(b)
    BY <1>2, <2>2 DEF Deletes, RowGone, Same, Status
  <2>4. S \in SUBSET Items OBVIOUS
  <2> HIDE DEF S
  <2> QED BY <2>3, <2>4 DEF Several
<1>3. ASSUME NEW S \in SUBSET Actions, Supersedes(S) PROVE Goal
  <2>1. \A a \in Items : store'[a] = IF a \in S THEN [status |-> "expired", conv |-> store[a].conv]
                                     ELSE store[a]
    BY <1>0, <1>3, SomeRows DEF Supersedes, Supersede, TypedRows, Statuses
  <2>2. \A b \in Items : IF b \in S THEN RowClosed(b) ELSE Same(b)
    BY <1>3, <2>1 DEF Supersedes, Supersede, RowClosed, Same, Status
  <2>3. S \in SUBSET Items BY DEF Items
  <2> QED BY <2>2, <2>3 DEF Several
<1>4. ASSUME NEW a \in Items, Makes(a) PROVE Goal
  <2>1. PICK c \in Convs \cup {None} : store' = [store EXCEPT ![a].status = "pending", ![a].conv = c]
    BY <1>4 DEF Makes
  <2>2. /\ store'[a] = [status |-> "pending", conv |-> c]
        /\ \A b \in Items : b # a => store'[b] = store[b]
    BY <1>0, <2>1, NewRow DEF TypedRows, Statuses
  <2>3. Status(a)' = "pending" BY <2>2 DEF Status
  <2> QED BY <1>4, <2>2, <2>3 DEF Makes, Alone, OneRow, RowMade, Same
<1>5. ASSUME NEW a \in Items, Claims(a) PROVE Goal
  <2>1. /\ store'[a] = [status |-> "claimed", conv |-> store[a].conv]
        /\ \A b \in Items : b # a => store'[b] = store[b]
    BY <1>0, <1>5, NewStatus DEF Claims, Claim, Becomes, TypedRows, Statuses
  <2> QED BY <1>0, <1>5, <2>1 DEF Claims, Claim, TypedRows, Alone, OneRow, RowClaimed, Same, Status
<1>6. ASSUME NEW a \in Items, Closes(a) PROVE Goal
  <2>1. PICK s \in {"rejected", "expired"} :
          /\ store'[a] = [status |-> s, conv |-> store[a].conv]
          /\ \A b \in Items : b # a => store'[b] = store[b]
    BY <1>0, <1>6, NewStatus DEF Closes, Becomes, TypedRows, Statuses
  <2>2. Status(a)' = s /\ store'[a].conv = store[a].conv BY <2>1 DEF Status
  <2>4. RowClosed(a) BY <1>0, <1>6, <2>2 DEF Closes, Noted, TypedRows, RowClosed
  <2>3. \A b \in Items : b # a => Same(b) BY <1>0, <1>6, <2>1 DEF Closes, Noted, TypedRows, Same
  <2> QED BY <2>3, <2>4, {a} \in SUBSET Items DEF Several
<1>7. ASSUME NEW a \in Items, Passes(a) PROVE Goal
  BY <1>0, <1>7 DEF Passes, TypedRows, Alone, OneRow, RowPassed, Same
<1>8. ASSUME NEW a \in Items, Lands(a) PROVE Goal
  BY <1>0, <1>8 DEF Lands, Land, TypedRows, Alone, OneRow, RowLanded, Same
<1>9. ASSUME NEW a \in Items, NEW s \in Statuses, Ends(a, s)
      PROVE  RowEnded(a, s) /\ \A b \in Items : b # a => store'[b] = store[b] /\ handler'[b] = handler[b]
  <2>1. /\ \A b \in Items : b # a => store'[b] = store[b]
        /\ store'[a] = IF Status(a) = "claimed" THEN [status |-> s, conv |-> store[a].conv]
                       ELSE store[a]
        /\ handler' = [handler EXCEPT ![a] = "none"]
    BY <1>0, <1>9, EndsRow
  <2>2. handler'[a] = "none" /\ \A b \in Items : b # a => handler'[b] = handler[b]
    BY <1>0, <2>1 DEF TypedRows
  <2> QED BY <2>1, <2>2 DEF RowEnded, Status
<1>10. ASSUME NEW a \in Items, NEW n, Noted(a, n)
       PROVE  note'[a] = (IF a \in Actions THEN n ELSE note[a])
              /\ \A b \in Items : b # a => note'[b] = note[b]
  BY <1>0, <1>10 DEF Noted, TypedRows
<1>11. ASSUME NEW a \in Items, Finishes(a) PROVE Goal
  <2>1. RowFinished(a) BY <1>9, <1>10, <1>11 DEF Finishes, RowFinished, Statuses
  <2>2. \A b \in Items : b # a => Same(b) BY <1>9, <1>10, <1>11 DEF Finishes, Same, Statuses
  <2> QED BY <2>1, <2>2 DEF Alone, OneRow
<1>12. ASSUME NEW a \in Items, GivesUp(a) PROVE Goal
  <2>1. PICK s \in IF a \in Actions THEN {"failed"} ELSE {"pending", "expired"} :
          Ends(a, s) /\ (s = "expired" => ran' = ran)
    BY <1>12 DEF GivesUp
  <2>2. s \in Statuses BY DEF Statuses
  <2>3. ran' = ran \/ (handler[a] = "write" /\ ran[a] = 0 /\ ran' = [ran EXCEPT ![a] = ran[a] + 1])
    BY <1>0, <1>12 DEF GivesUp, Land, TypedRows
  <2>4. /\ ran'[a] = ran[a] \/ (handler[a] = "write" /\ ran[a] = 0 /\ ran'[a] = 1)
        /\ \A b \in Items : b # a => ran'[b] = ran[b]
    BY <1>0, <2>3 DEF TypedRows
  <2>5. RowEnded(a, s) /\ \A b \in Items : b # a => store'[b] = store[b] /\ handler'[b] = handler[b]
    BY <1>9, <2>1, <2>2
  <2>6. note'[a] = (IF a \in Actions THEN "failed" ELSE note[a])
              /\ \A b \in Items : b # a => note'[b] = note[b]
    BY <1>10, <1>12 DEF GivesUp
  <2>7. RowGivenUp(a) BY <1>12, <2>1, <2>4, <2>5, <2>6 DEF GivesUp, RowGivenUp
  <2>8. \A b \in Items : b # a => Same(b) BY <2>4, <2>5, <2>6 DEF Same
  <2> QED BY <2>7, <2>8 DEF Alone, OneRow
<1>13. ASSUME Stops PROVE Goal
  BY <1>13 DEF Stops, RowStopped
<1> HIDE DEF Goal
<1>14. Goal
  BY RowSteps, <1>1, <1>2, <1>3, <1>4, <1>5, <1>6, <1>7, <1>8, <1>11, <1>12, <1>13
<1> QED BY <1>14 DEF Goal

-----------------------------------------------------------------------------
(***************************************************************************)
(* The ledger: what a row's status says of its handler and of Kong         *)
(***************************************************************************)

\* Nothing happened and nothing will.
NeverRan(a) == ran[a] = 0 /\ handler[a] = "none" /\ Status(a) \in {"rejected", "expired", "gone"}

\* Of an action (not a proposal, which may be tried again) everything that was not
\* claimed never ran.
LedgerOf(a) ==
  /\ handler[a] = "landed" => ran[a] = 1
  /\ handler[a] # "none" => Status(a) \in {"claimed", "gone"}
  /\ Status(a) = "none" => ran[a] = 0 /\ store[a].conv = None /\ note[a] = "none"
  /\ Status(a) = "done" => ran[a] = 1
  /\ note[a] = "ran" => ran[a] = 1
  /\ a \in Actions =>
       /\ Status(a) = "pending" => ran[a] = 0 /\ note[a] = "none"
       /\ Status(a) = "claimed" => note[a] = "none"
       /\ Status(a) \in {"rejected", "expired"} => ran[a] = 0
       /\ note[a] = "did not run" => NeverRan(a)

Ledger == \A a \in Items : LedgerOf(a)

LEMMA LedgerStep ==
  ASSUME Typed, Ledger, [Next]_vars
  PROVE  /\ Ledger'
         /\ \A a \in Items : /\ ran[a] = 1 => ran'[a] = 1
                             /\ NeverRan(a) => NeverRan(a)'
                             /\ Status(a) # "none" => Status(a)' # "none"
<1> DEFINE Good(a) == /\ LedgerOf(a)'
                      /\ ran[a] = 1 => ran'[a] = 1
                      /\ NeverRan(a) => NeverRan(a)'
                      /\ Status(a) # "none" => Status(a)' # "none"
<1>0. ASSUME NEW a \in Items
      PROVE  LedgerOf(a) /\ ran[a] \in {0, 1} /\ handler[a] \in HandlerStages /\ Status(a) \in Statuses
             /\ note[a] \in Notes /\ (handler[a] = "write" => ran[a] = 0)
  BY DEF Ledger, Typed, Rows, Status
<1>1. ASSUME NEW a \in Items, Same(a) PROVE Good(a)
  BY <1>0, <1>1 DEF Same, LedgerOf, NeverRan, Status
<1>2. ASSUME NEW a \in Items, RowGone(a) PROVE Good(a)
  BY <1>0, <1>2, ActionsAssumption DEF RowGone, LedgerOf, NeverRan, HandlerStages, Statuses, Notes
<1>3. ASSUME NEW a \in Items, RowClosed(a) PROVE Good(a)
  BY <1>0, <1>3, ActionsAssumption DEF RowClosed, LedgerOf, NeverRan, HandlerStages, Statuses, Notes
<1>4. ASSUME NEW a \in Items, RowMade(a) PROVE Good(a)
  BY <1>0, <1>4, ActionsAssumption DEF RowMade, LedgerOf, NeverRan, HandlerStages, Statuses, Notes
<1>5. ASSUME NEW a \in Items, RowClaimed(a) PROVE Good(a)
  BY <1>0, <1>5, ActionsAssumption DEF RowClaimed, LedgerOf, NeverRan, HandlerStages, Statuses, Notes
<1>6. ASSUME NEW a \in Items, RowPassed(a) \/ RowLanded(a) PROVE Good(a)
  BY <1>0, <1>6, ActionsAssumption DEF RowPassed, RowLanded, LedgerOf, NeverRan, HandlerStages, Statuses, Notes, Status
<1>7. ASSUME NEW a \in Items, RowFinished(a) PROVE Good(a)
  BY <1>0, <1>7, ActionsAssumption DEF RowFinished, RowEnded, LedgerOf, NeverRan, HandlerStages, Statuses, Notes
<1>8. ASSUME NEW a \in Items, RowGivenUp(a) PROVE Good(a)
  <2>1. PICK s \in IF a \in Actions THEN {"failed"} ELSE {"pending", "expired"} :
          RowEnded(a, s) /\ (s = "expired" => ran'[a] = ran[a])
    BY <1>8 DEF RowGivenUp
  <2>2. handler[a] \in {"check", "write"} /\ handler'[a] = "none"
    BY <1>8, <2>1 DEF RowGivenUp, RowEnded
  <2>3. Status(a) \in {"claimed", "gone"} /\ Status(a)' \in {s, "gone"}
    BY <1>0, <2>1, <2>2 DEF LedgerOf, RowEnded
  <2>4. ran'[a] = ran[a] \/ (ran[a] = 0 /\ ran'[a] = 1) BY <1>8 DEF RowGivenUp
  <2>5. note'[a] = IF a \in Actions THEN "failed" ELSE note[a] BY <1>8 DEF RowGivenUp
  <2>6. LedgerOf(a)' BY <1>0, <2>1, <2>2, <2>3, <2>4, <2>5 DEF LedgerOf, Notes
  <2>7. (ran[a] = 1 => ran'[a] = 1) /\ (NeverRan(a) => NeverRan(a)')
    BY <1>0, <2>2, <2>4 DEF NeverRan
  <2> QED BY <2>3, <2>6, <2>7
<1>9. ASSUME NEW a \in Items, RowStopped(a) PROVE Good(a)
  BY <1>0, <1>9 DEF RowStopped, LedgerOf, NeverRan, HandlerStages, Statuses, Notes, Status
<1> HIDE DEF Good
<1>10. \A a \in Items : Good(a)
  BY RowByRow, <1>1, <1>2, <1>3, <1>4, <1>5, <1>6, <1>7, <1>8, <1>9 DEF Several, Alone, OneRow
<1> QED BY <1>10 DEF Good, Ledger

-----------------------------------------------------------------------------
(***************************************************************************)
(* The cards                                                               *)
(***************************************************************************)
Shows(x, a) ==
  /\ x[a] = "done" => ran[a] = 1
  /\ a \in Actions /\ x[a] = "rejected" => NeverRan(a)
  /\ x[a] # "none" => Status(a) # "none"

\* What is shown, and what an answer on its way will have shown, is so.
Shown == \A a \in Items : Shows(cards, a) /\ Shows(load.cards, a)

\* A card changes to what the answer that arrives says, to what the row says as it is
\* read, or to what the view makes of it itself.
LEMMA CardSteps ==
  ASSUME Typed, [Next]_vars, NEW a \in Items
  PROVE  /\ cards'[a] \in {cards[a], load.cards[a], Status(a), "none", "pending", "expired"}
         /\ load'.cards[a] \in {load.cards[a], Status(a), "none"}
         /\ cards'[a] # "none" =>
              cards[a] # "none" \/ load.cards[a] # "none" \/ Status(a) # "none" \/ Status(a)' # "none"
<1> DEFINE Good == /\ cards'[a] \in {cards[a], load.cards[a], Status(a), "none", "pending", "expired"}
                   /\ load'.cards[a] \in {load.cards[a], Status(a), "none"}
                   /\ cards'[a] # "none" =>
                        \/ cards[a] # "none" \/ load.cards[a] # "none"
                        \/ Status(a) # "none" \/ Status(a)' # "none"
<1>0. /\ Blank[a] = "none" /\ NoLoad.cards[a] = "none"
      /\ \A c : Get(c).cards[a] = "none" /\ Snapshot(c)[a] \in {Status(a), "none"}
  BY DEF Blank, NoLoad, Get, Snapshot
<1>t. cards \in [Items -> Statuses] /\ load \in Loads BY DEF Typed
<1>1. ASSUME UNCHANGED shown PROVE Good BY <1>1 DEF shown
<1>2. ASSUME NEW c \in Convs \cup {None}, Route(c) PROVE Good BY <1>0, <1>2 DEF Route
<1>3. ASSUME ServeLoad PROVE Good
  <2>1. ASSUME NEW s
        PROVE  [load EXCEPT !.stage = "answered", !.cards = s].cards = s
    BY <1>t DEF Loads
  <2>2. [load EXCEPT !.stage = "missing"].cards = load.cards BY <1>t DEF Loads
  <2> QED BY <1>0, <1>3, <2>1, <2>2 DEF ServeLoad
<1>4. ASSUME Loaded \/ LoadFailed \/ Remount PROVE Good
  BY <1>0, <1>4 DEF Loaded, LoadFailed, Remount
<1>5. ASSUME Send PROVE Good BY <1>5 DEF Send
<1>6. ASSUME NEW r \in Runs, Chat(r) PROVE Good BY <1>0, <1>6 DEF Chat, shown
<1>7. ASSUME NEW r \in Runs, NEW b \in Items, Propose(r, b) PROVE Good
  <2>1. CASE a # b BY <1>t, <1>7, <2>1 DEF Propose
  <2>2. CASE a = b
    <3>1. PICK c \in Convs \cup {None} : store' = [store EXCEPT ![b].status = "pending", ![b].conv = c]
      BY <1>7 DEF Propose, Typed, RunStates
    <3>2. store \in [Items -> Rows] BY DEF Typed
    <3>3. store'[b] = [status |-> "pending", conv |-> c]
      BY <3>1, <3>2, NewRow DEF Statuses
    <3>4. store'[b].status = "pending" BY <3>3
    <3> QED BY <1>t, <1>7, <2>2, <3>4 DEF Propose, Status
  <2> QED BY <2>1, <2>2
<1>8. ASSUME Reloaded PROVE Good BY <1>0, <1>8 DEF Reloaded
<1>9. ASSUME Answered PROVE Good BY <1>t, <1>9 DEF Answered
<1> HIDE DEF Good
<1>10. ASSUME View PROVE Good
  BY <1>10, <1>1, <1>2, <1>4, <1>5, <1>8, <1>9
     DEF View, Nav, DeleteConversation, StopRun, Click, Refused, ReloadFailed
<1>11. ASSUME Api PROVE Good
  BY <1>11, <1>1, <1>3, <1>6, <1>7
     DEF Api, ChatRefused, RunEnds, Authorize, Reject, Check, Write, WriteFails, Finish,
         CallLost, Restart
<1>12. ASSUME Others PROVE Good
  BY <1>12, <1>1 DEF Others, OthersClick, OthersAuthorize, OthersReject, ProposalExpires, OthersSend
<1>13. Good BY <1>1, <1>10, <1>11, <1>12 DEF Next, vars
<1> QED BY <1>13 DEF Good

LEMMA ShownStep ==
  ASSUME Typed, Ledger, Shown, [Next]_vars
  PROVE  Shown'
<1>1. ASSUME NEW a \in Items PROVE Shows(cards, a)' /\ Shows(load.cards, a)'
  <2>1. Shows(cards, a) /\ Shows(load.cards, a) BY DEF Shown
  <2>2. (Status(a) = "done" => ran[a] = 1) /\ (a \in Actions /\ Status(a) = "rejected" => NeverRan(a))
    BY DEF Ledger, LedgerOf, NeverRan, Typed
  <2>3. /\ ran[a] = 1 => ran'[a] = 1
        /\ NeverRan(a) => NeverRan(a)'
        /\ Status(a) # "none" => Status(a)' # "none"
    BY LedgerStep
  <2>4. /\ cards'[a] \in {cards[a], load.cards[a], Status(a), "none", "pending", "expired"}
        /\ load'.cards[a] \in {load.cards[a], Status(a), "none"}
        /\ cards'[a] # "none" =>
             cards[a] # "none" \/ load.cards[a] # "none" \/ Status(a) # "none" \/ Status(a)' # "none"
    BY CardSteps
  <2> HIDE DEF NeverRan
  <2> QED BY <2>1, <2>2, <2>3, <2>4 DEF Shows
<1> QED BY <1>1 DEF Shown

LEMMA TruthInit == Init => Ledger /\ Shown
<1> SUFFICES ASSUME Init PROVE Ledger /\ Shown OBVIOUS
<1>1. Ledger BY ActionsAssumption DEF Init, Ledger, LedgerOf, Status
<1>2. Shown BY DEF Init, Shown, Shows, Blank, NoLoad
<1> QED BY <1>1, <1>2

\* A card that says "done" and a transcript that says "ran" are right that the change
\* ran, and those of an action that say "rejected" and "did not run" that it never did.
THEOREM TruthTold == Spec => []TellsTheTruth
<1> DEFINE Inv == Typed /\ Ledger /\ Shown
<1>1. Init => Inv
  <2> SUFFICES ASSUME Init PROVE Inv OBVIOUS
  <2> QED BY TypedInit, TruthInit
<1>2. Inv /\ [Next]_vars => Inv' BY TypedStep, LedgerStep, ShownStep
<1>3. Inv => TellsTheTruth
  BY DEF TellsTheTruth, Ledger, LedgerOf, Shown, Shows, NeverRan, Items
<1> HIDE DEF Inv
<1> QED BY <1>1, <1>2, <1>3, PTL DEF Spec

-----------------------------------------------------------------------------
(***************************************************************************)
(* The promise                                                             *)
(***************************************************************************)

\* Whatever the tab has asked to be authorized was clicked.
AskedByClick == call.op = "authorize" => "tab" \in clicked[call.item]

\* A click touches no row, and is on a change that was made.
LEMMA Clicks ==
  ASSUME Typed, Shown, [Next]_vars
  PROVE  \/ UNCHANGED clicked
         \/ /\ UNCHANGED rows
            /\ \E a \in Items, w \in {"tab", "other"} :
                 Status(a) # "none" /\ clicked' = [clicked EXCEPT ![a] = @ \cup {w}]
<1>1. ASSUME NEW a \in Items, Click(a, "authorize")
      PROVE  /\ UNCHANGED rows
             /\ Status(a) # "none" /\ clicked' = [clicked EXCEPT ![a] = @ \cup {"tab"}]
  BY <1>1 DEF Click, CanClick, Shown, Shows, server, rows
<1>2. ASSUME NEW a \in Items, Click(a, "reject") PROVE UNCHANGED clicked
  BY <1>2 DEF Click
<1>3. ASSUME NEW a \in Items, OthersClick(a)
      PROVE  /\ UNCHANGED rows
             /\ Status(a) # "none" /\ clicked' = [clicked EXCEPT ![a] = @ \cup {"other"}]
  BY <1>3 DEF OthersClick, server, rows
<1>4. ASSUME View, ~ \E a \in Items : Click(a, "authorize") \/ Click(a, "reject") PROVE UNCHANGED clicked
  BY <1>4 DEF View, Nav, DeleteConversation, Loaded, LoadFailed, Remount, Send, StopRun, Refused,
              Reloaded, ReloadFailed, Answered
<1>5. ASSUME Api PROVE UNCHANGED clicked
  BY <1>5 DEF Api, ServeLoad, Chat, ChatRefused, RunEnds, Propose, Authorize, Reject, Check, Write,
              WriteFails, Finish, CallLost, Restart
<1>6. ASSUME Others, ~ \E a \in Items : OthersClick(a) PROVE UNCHANGED clicked
  BY <1>6 DEF Others, OthersAuthorize, OthersReject, ProposalExpires, OthersSend
<1> QED BY <1>1, <1>2, <1>3, <1>4, <1>5, <1>6 DEF Next, vars

LEMMA AskedByClickStep ==
  ASSUME Typed, Shown, AskedByClick, [Next]_vars
  PROVE  AskedByClick'
<1> DEFINE Kept == \/ call'.op # "authorize"
                   \/ call'.op = call.op /\ call'.item = call.item
<1>0. call \in Calls BY DEF Typed
<1>1. ASSUME Kept PROVE AskedByClick'
  <2>1. \A a \in Items : clicked[a] \subseteq clicked'[a] BY Clicks DEF Typed
  <2> QED BY <1>1, <2>1 DEF AskedByClick, Typed
<1>2. ASSUME NEW a \in Items, Click(a, "authorize") PROVE AskedByClick'
  BY <1>2 DEF Click, AskedByClick, Typed
<1>3. ASSUME NEW a \in Items, Click(a, "reject") PROVE Kept BY <1>3 DEF Click
<1>4. ASSUME UNCHANGED call PROVE Kept BY <1>4
<1>5. ASSUME NEW s, call' = [call EXCEPT !.stage = s] PROVE Kept BY <1>0, <1>5 DEF Calls
<1>6. ASSUME call' = NoCall PROVE Kept BY <1>6 DEF NoCall
<1>7. ASSUME Remount PROVE Kept BY <1>0, <1>7 DEF Remount, Calls
<1> HIDE DEF Kept
<1>8. ASSUME View PROVE AskedByClick'
  BY <1>8, <1>1, <1>2, <1>3, <1>4, <1>5, <1>6, <1>7
     DEF View, Nav, DeleteConversation, Loaded, LoadFailed, Send, StopRun, Refused, Reloaded,
         ReloadFailed, Answered, writing
<1>9. ASSUME Api PROVE Kept
  BY <1>9, <1>4, <1>5
     DEF Api, ServeLoad, Chat, ChatRefused, RunEnds, Propose, Authorize, Reject, Check, Write,
         WriteFails, Finish, CallLost, Restart, Answer, writing
<1>10. ASSUME Others PROVE Kept
  BY <1>10, <1>4
     DEF Others, OthersClick, OthersAuthorize, OthersReject, ProposalExpires, OthersSend, writing
<1> QED BY <1>1, <1>4, <1>8, <1>9, <1>10 DEF Next, vars, writing

\* What is claimed was clicked.
LEMMA ClaimedByClick ==
  ASSUME Typed, AskedByClick, [Next]_vars, NEW a \in Items, RowClaimed(a), handler[a] = "none"
  PROVE  clicked[a] # {}
<1>0. TypedRows BY DEF Typed, TypedRows
<1>1. handler'[a] = "check" BY DEF RowClaimed
<1>2. ASSUME NEW b \in Items, Claims(b) PROVE clicked[a] # {}
  <2>1. a = b BY <1>0, <1>1, <1>2 DEF Claims, Claim, TypedRows
  <2> QED BY <1>2, <2>1 DEF Claims, AskedByClick
<1>3. ASSUME NEW b \in Items,
             Makes(b) \/ Closes(b) \/ Passes(b) \/ Lands(b) \/ Finishes(b) \/ GivesUp(b)
      PROVE  handler'[a] # "check"
  BY <1>0, <1>3 DEF Makes, Closes, Passes, Lands, Finishes, GivesUp, Ends, TypedRows
<1>4. ASSUME UNCHANGED handler PROVE handler'[a] # "check" BY <1>4
<1> QED
  BY <1>1, <1>2, <1>3, <1>4, RowSteps DEF rows, Deletes, Supersedes, Stops

LEMMA PhaseOf ==
  ASSUME NEW a \in Items
  PROVE  /\ handler[a] # "none" => Phase(a) = "running"
         /\ handler[a] = "none" /\ Status(a) = "none" => Phase(a) = "unmade"
         /\ handler[a] = "none" /\ Status(a) = "pending" => Phase(a) = "open"
         /\ handler[a] = "none" /\ Status(a) \notin {"none", "pending"} => Phase(a) = "closed"
BY DEF Phase

LEMMA PhaseNext ==
  ASSUME NEW a \in Items
  PROVE  /\ handler'[a] # "none" => Phase(a)' = "running"
         /\ handler'[a] = "none" /\ Status(a)' = "none" => Phase(a)' = "unmade"
         /\ handler'[a] = "none" /\ Status(a)' = "pending" => Phase(a)' = "open"
         /\ handler'[a] = "none" /\ Status(a)' \notin {"none", "pending"} => Phase(a)' = "closed"
BY DEF Phase

\* What a step does to the phase of a change.
LEMMA Phases ==
  ASSUME Typed, Ledger, NEW a \in Items
  PROVE  /\ Same(a) => Phase(a)' = Phase(a) /\ ran'[a] = ran[a]
         /\ RowGone(a) \/ RowClosed(a) =>
              Phase(a)' = (IF Phase(a) = "open" THEN "closed" ELSE Phase(a)) /\ ran'[a] = ran[a]
         /\ RowMade(a) => Phase(a) = "unmade" /\ Phase(a)' = "open" /\ ran'[a] = ran[a]
         /\ RowClaimed(a) => /\ Phase(a) = "open" /\ Phase(a)' = "running" /\ ran'[a] = ran[a]
                             /\ handler[a] = "none"
         /\ RowPassed(a) => Phase(a)' = Phase(a) /\ ran'[a] = ran[a]
         /\ RowLanded(a) => Phase(a)' = Phase(a) /\ Phase(a) = "running" /\ ran[a] = 0 /\ ran'[a] = 1
         /\ RowFinished(a) => Phase(a) = "running" /\ Phase(a)' = "closed" /\ ran'[a] = ran[a]
         /\ RowGivenUp(a) =>
              /\ Phase(a) = "running"
              /\ ran'[a] = ran[a] \/ (ran[a] = 0 /\ ran'[a] = 1)
              /\ Phase(a)' = "closed" \/ (a \in Proposals /\ Phase(a)' = "open")
         /\ RowStopped(a) =>
              /\ Phase(a)' = (IF Phase(a) = "running" THEN "closed" ELSE Phase(a))
              /\ ran'[a] = ran[a]
<1>0. /\ handler[a] \in HandlerStages /\ Status(a) \in Statuses /\ LedgerOf(a)
      /\ (handler[a] = "write" => ran[a] = 0)
  BY DEF Typed, Rows, Status, Ledger
<1>1. Same(a) => Phase(a)' = Phase(a) /\ ran'[a] = ran[a] BY DEF Same, Phase, Status
<1>2. RowGone(a) =>
        Phase(a)' = (IF Phase(a) = "open" THEN "closed" ELSE Phase(a)) /\ ran'[a] = ran[a]
  <2> SUFFICES ASSUME RowGone(a)
               PROVE  Phase(a)' = (IF Phase(a) = "open" THEN "closed" ELSE Phase(a)) /\ ran'[a] = ran[a]
    OBVIOUS
  <2>1. Status(a) # "none" BY <1>0, ActionsAssumption DEF RowGone, LedgerOf
  <2> QED BY <1>0, <2>1, PhaseOf, PhaseNext DEF RowGone
<1>3. RowClosed(a) =>
        Phase(a)' = (IF Phase(a) = "open" THEN "closed" ELSE Phase(a)) /\ ran'[a] = ran[a]
  BY <1>0, PhaseOf, PhaseNext DEF RowClosed, LedgerOf
<1>4. RowMade(a) => Phase(a) = "unmade" /\ Phase(a)' = "open" /\ ran'[a] = ran[a]
  BY <1>0, PhaseOf, PhaseNext DEF RowMade, LedgerOf
<1>5. RowClaimed(a) => /\ Phase(a) = "open" /\ Phase(a)' = "running" /\ ran'[a] = ran[a]
                       /\ handler[a] = "none"
  BY <1>0, PhaseOf, PhaseNext DEF RowClaimed, LedgerOf
<1>6. RowPassed(a) => Phase(a)' = Phase(a) /\ ran'[a] = ran[a]
  BY <1>0, PhaseOf, PhaseNext DEF RowPassed
<1>7. RowLanded(a) => Phase(a)' = Phase(a) /\ Phase(a) = "running" /\ ran[a] = 0 /\ ran'[a] = 1
  BY <1>0, PhaseOf, PhaseNext DEF RowLanded
<1>8. RowFinished(a) => Phase(a) = "running" /\ Phase(a)' = "closed" /\ ran'[a] = ran[a]
  BY <1>0, PhaseOf, PhaseNext DEF RowFinished, RowEnded, LedgerOf
<1>9. RowGivenUp(a) =>
        /\ Phase(a) = "running"
        /\ ran'[a] = ran[a] \/ (ran[a] = 0 /\ ran'[a] = 1)
        /\ Phase(a)' = "closed" \/ (a \in Proposals /\ Phase(a)' = "open")
  BY <1>0, PhaseOf, PhaseNext DEF RowGivenUp, RowEnded, LedgerOf, Items
<1>10. RowStopped(a) =>
        /\ Phase(a)' = (IF Phase(a) = "running" THEN "closed" ELSE Phase(a))
        /\ ran'[a] = ran[a]
  <2>1. RowStopped(a) => Status(a)' = Status(a) /\ handler'[a] = "none" /\ ran'[a] = ran[a]
    BY DEF RowStopped, Status
  <2> QED BY <1>0, <2>1, PhaseOf, PhaseNext DEF LedgerOf
<1> QED BY <1>1, <1>2, <1>3, <1>4, <1>5, <1>6, <1>7, <1>8, <1>9, <1>10

\* What the promise sees of the state.
Seen == [a \in Items |-> Phase(a)]
EverClicked == [a \in Items |-> clicked[a] # {}]

LEMMA PromiseInit == Init => Promise!Init
<1> SUFFICES ASSUME Init PROVE Promise!Init OBVIOUS
<1>1. Seen = [a \in Items |-> "unmade"] BY PhaseOf DEF Init, Seen, Status
<1>2. EverClicked = [a \in Items |-> FALSE] BY DEF Init, EverClicked
<1>3. ran = [a \in Items |-> 0] BY DEF Init
<1> QED BY <1>1, <1>2, <1>3 DEF Promise!Init, Seen, EverClicked

LEMMA PromiseStep ==
  ASSUME Typed, Ledger, Shown, AskedByClick, [Next]_vars
  PROVE  [Promise!Next]_(Promise!vars)
<1> DEFINE Goal == [Promise!Next]_(Promise!vars)
<1>0. ran \in [Items -> {0, 1}] /\ ran' \in [Items -> {0, 1}] BY TypedStep DEF Typed
<1>1. CASE ~UNCHANGED clicked
  <2>1. UNCHANGED rows BY <1>1, Clicks
  <2>2. PICK a \in Items, w \in {"tab", "other"} :
          Status(a) # "none" /\ clicked' = [clicked EXCEPT ![a] = @ \cup {w}]
    BY <1>1, Clicks
  <2>3. Seen' = Seen /\ ran' = ran BY <2>1 DEF rows, Seen, Phase, Status
  <2>4. Seen[a] # "unmade" BY <2>2 DEF Seen, Phase
  <2>5. EverClicked' = [EverClicked EXCEPT ![a] = TRUE]
    <3>1. \A b \in Items : (clicked'[b] # {}) = (IF b = a THEN TRUE ELSE clicked[b] # {})
      BY <2>2 DEF Typed
    <3> QED BY <3>1 DEF EverClicked
  <2>6. Promise!Click(a) BY <2>3, <2>4, <2>5 DEF Promise!Click, Seen, EverClicked
  <2> QED BY <2>6 DEF Promise!Next
<1>2. CASE UNCHANGED clicked
  <2>0. EverClicked' = EverClicked BY <1>2 DEF EverClicked
  <2>1. ASSUME \A a \in Items : Phase(a)' = Phase(a) /\ ran'[a] = ran[a] PROVE Goal
    <3>1. Seen' = Seen /\ ran' = ran BY <1>0, <2>1 DEF Seen
    <3> QED BY <2>0, <3>1 DEF Promise!vars, Seen, EverClicked
  <2>2. ASSUME NEW S \in SUBSET Items,
               \A a \in Items : Phase(a)' = IF a \in S /\ Phase(a) = "open" THEN "closed" ELSE Phase(a),
               \A a \in Items : ran'[a] = ran[a]
        PROVE  Goal
    <3> DEFINE T == {a \in S : Seen[a] = "open"}
    <3>1. CASE T = {}
      <4>1. \A a \in Items : Phase(a)' = Phase(a) BY <2>2, <3>1 DEF Seen
      <4> QED BY <2>1, <2>2, <4>1
    <3>2. CASE T # {}
      <4>1. ran' = ran BY <1>0, <2>2
      <4>2. Seen' = [a \in Items |-> IF a \in T THEN "closed" ELSE Seen[a]]
        BY <2>2 DEF Seen
      <4>3. \A a \in T : Seen[a] = "open" OBVIOUS
      <4>4. T \in SUBSET Items OBVIOUS
      <4> HIDE DEF T
      <4>5. Promise!Close(T)
        BY <2>0, <3>2, <4>1, <4>2, <4>3 DEF Promise!Close, Seen, EverClicked
      <4> QED BY <4>4, <4>5 DEF Promise!Next
    <3> QED BY <3>1, <3>2
  <2>3. ASSUME NEW S \in SUBSET Items, Several(S) PROVE Goal
    <3>1. \A a \in Items : Phase(a)' = IF a \in S /\ Phase(a) = "open" THEN "closed" ELSE Phase(a)
      BY <2>3, Phases DEF Several
    <3>2. \A a \in Items : ran'[a] = ran[a] BY <2>3, Phases DEF Several
    <3> QED BY <2>2, <3>1, <3>2
  <2>4. ASSUME NEW a \in Items, Alone(a) PROVE Goal
    <3>1. \A b \in Items : b # a => Phase(b)' = Phase(b) /\ ran'[b] = ran[b]
      BY <2>4, Phases DEF Alone
    <3>2. ASSUME NEW p, Phase(a)' = p PROVE Seen' = [Seen EXCEPT ![a] = p]
      BY <3>1, <3>2 DEF Seen
    <3>3. ASSUME NEW n, ran'[a] = n PROVE ran' = [ran EXCEPT ![a] = n]
      BY <1>0, <3>1, <3>3
    <3>4. Seen[a] = Phase(a) BY DEF Seen
    <3>5. ASSUME ran'[a] = ran[a] PROVE ran' = ran BY <1>0, <3>1, <3>5
    <3>6. ASSUME Phase(a)' = Phase(a) PROVE Seen' = Seen BY <3>1, <3>6 DEF Seen
    <3>7. ASSUME RowMade(a) PROVE Goal
      <4>1. Phase(a) = "unmade" /\ Phase(a)' = "open" /\ ran'[a] = ran[a] BY <3>7, Phases
      <4>2. Promise!Make(a)
        BY <2>0, <3>2, <3>4, <3>5, <4>1 DEF Promise!Make, Promise!Move, Seen, EverClicked
      <4> QED BY <4>2 DEF Promise!Next
    <3>8. ASSUME RowClaimed(a) PROVE Goal
      <4>1. Phase(a) = "open" /\ Phase(a)' = "running" /\ ran'[a] = ran[a] /\ handler[a] = "none"
        BY <3>8, Phases
      <4>2. EverClicked[a]
        <5>1. clicked[a] # {} BY <3>8, <4>1, ClaimedByClick
        <5> QED BY <5>1 DEF EverClicked
      <4>3. Promise!Start(a)
        BY <2>0, <3>2, <3>4, <3>5, <4>1, <4>2 DEF Promise!Start, Promise!Move, Seen, EverClicked
      <4> QED BY <4>3 DEF Promise!Next
    <3>9. ASSUME RowPassed(a) PROVE Goal
      <4>1. \A b \in Items : Phase(b)' = Phase(b) /\ ran'[b] = ran[b] BY <3>1, <3>9, Phases
      <4> QED BY <2>1, <4>1
    <3>10. ASSUME RowLanded(a) PROVE Goal
      <4>1. Phase(a)' = Phase(a) /\ Phase(a) = "running" /\ ran[a] = 0 /\ ran'[a] = 1
        BY <3>10, Phases
      <4>2. Promise!TakeEffect(a)
        BY <2>0, <3>3, <3>4, <3>6, <4>1 DEF Promise!TakeEffect, Seen, EverClicked
      <4> QED BY <4>2 DEF Promise!Next
    <3>11. ASSUME Phase(a) = "running", Phase(a)' = "closed", ran'[a] = ran[a] PROVE Goal
      <4>1. Seen' = [b \in Items |-> IF b \in {a} THEN "closed" ELSE Seen[b]]
        BY <3>1, <3>11 DEF Seen
      <4>2. Promise!Stop({a})
        BY <2>0, <3>4, <3>5, <3>11, <4>1 DEF Promise!Stop, Seen, EverClicked
      <4> QED BY <4>2, {a} \in SUBSET Items DEF Promise!Next
    <3>12. ASSUME RowFinished(a) PROVE Goal BY <3>11, <3>12, Phases
    <3>13. ASSUME RowGivenUp(a) PROVE Goal
      <4>1. /\ Phase(a) = "running"
            /\ ran'[a] = ran[a] \/ (ran[a] = 0 /\ ran'[a] = 1)
            /\ Phase(a)' = "closed" \/ (a \in Proposals /\ Phase(a)' = "open")
        BY <3>13, Phases
      <4>2. CASE ran'[a] = ran[a] /\ Phase(a)' = "closed" BY <3>11, <4>1, <4>2
      <4>3. CASE ran'[a] = ran[a] /\ a \in Proposals /\ Phase(a)' = "open"
        <5>1. Promise!Reopen(a)
          BY <2>0, <3>2, <3>4, <3>5, <4>1, <4>3 DEF Promise!Reopen, Promise!Move, Seen, EverClicked
        <5> QED BY <5>1 DEF Promise!Next
      <4>4. CASE ran[a] = 0 /\ ran'[a] = 1
        <5>1. Promise!TakeEffect(a)
          BY <2>0, <3>2, <3>3, <3>4, <4>1, <4>4
             DEF Promise!TakeEffect, Promise!Move, Seen, EverClicked
        <5> QED BY <5>1 DEF Promise!Next
      <4> QED BY <4>1, <4>2, <4>3, <4>4
    <3> HIDE DEF Goal
    <3> QED BY <2>4, <3>7, <3>8, <3>9, <3>10, <3>12, <3>13 DEF Alone, OneRow
  <2>5. ASSUME \A a \in Items : RowStopped(a), \E a \in Items : handler[a] # "none" PROVE Goal
    <3> DEFINE T == {a \in Items : Phase(a) = "running"}
    <3>1. \A a \in Items :
            /\ Phase(a)' = (IF Phase(a) = "running" THEN "closed" ELSE Phase(a))
            /\ ran'[a] = ran[a]
      BY <2>5, Phases
    <3>2. T # {} BY <2>5, PhaseOf
    <3>3. Seen' = [a \in Items |-> IF a \in T THEN "closed" ELSE Seen[a]] BY <3>1 DEF Seen
    <3>4. ran' = ran BY <1>0, <3>1
    <3>5. T \in SUBSET Items /\ \A a \in T : Seen[a] = "running" BY DEF Seen
    <3> HIDE DEF T
    <3>6. Promise!Stop(T) BY <2>0, <3>2, <3>3, <3>4, <3>5 DEF Promise!Stop, Seen, EverClicked
    <3> QED BY <3>5, <3>6 DEF Promise!Next
  <2>6. ASSUME \A a \in Items : Same(a) PROVE Goal
    <3>1. \A a \in Items : Phase(a)' = Phase(a) /\ ran'[a] = ran[a] BY <2>6, Phases
    <3> QED BY <2>1, <3>1
  <2> HIDE DEF Goal
  <2>7. Goal BY RowByRow, <2>3, <2>4, <2>5, <2>6
  <2> QED BY <2>7 DEF Goal
<1> QED BY <1>1, <1>2

\* Whatever two operators, the agent's runs, a restart and failed attempts do, a change
\* runs at most once, only after a click, and never once it was rejected, expired,
\* deleted or left behind by a message.
THEOREM PromiseKept == Spec => KeepsThePromise
<1> DEFINE Inv == Typed /\ Ledger /\ Shown /\ AskedByClick
<1>1. Init => Inv
  <2> SUFFICES ASSUME Init PROVE Inv OBVIOUS
  <2>1. Ledger /\ Shown BY TruthInit
  <2>2. AskedByClick BY DEF Init, AskedByClick, NoCall
  <2> QED BY TypedInit, <2>1, <2>2
<1>2. Inv /\ [Next]_vars => Inv' BY TypedStep, LedgerStep, ShownStep, AskedByClickStep
<1>3. Inv /\ [Next]_vars => [Promise!Next]_(Promise!vars) BY PromiseStep
<1> HIDE DEF Inv
<1> QED BY <1>1, <1>2, <1>3, PromiseInit, PTL DEF Spec, KeepsThePromise, Promise!Spec

=============================================================================
