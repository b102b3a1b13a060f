------------------------- MODULE ConsoleEditsProofs -------------------------
(***************************************************************************)
(* Proofs about ConsoleEdits, for any number of operators, kinds of entry, *)
(* texts and calls, whatever the list held at the start.                   *)
(***************************************************************************)
EXTENDS ConsoleEdits, SequenceTheorems, TLAPS

-----------------------------------------------------------------------------
(***************************************************************************)
(* The lists                                                               *)
(***************************************************************************)
Lists == [Kinds -> Seq(Texts)]

LEMMA RemovingTyped ==
  ASSUME NEW S, NEW list \in Seq(S), NEW i \in DOMAIN list
  PROVE  Without(list, i) \in Seq(S)
<1>1. i \in 1 .. Len(list) OBVIOUS
<1>2. \A j \in 1 .. i - 1 : list[j] \in S BY <1>1
<1>3. \A j \in i + 1 .. Len(list) : list[j] \in S BY <1>1
<1>4. SubSeq(list, 1, i - 1) \in Seq(S) BY <1>1, <1>2, SubSeqProperties
<1>5. SubSeq(list, i + 1, Len(list)) \in Seq(S) BY <1>1, <1>3, SubSeqProperties
<1>6. QED BY <1>4, <1>5, ConcatProperties DEF Without

\* The body of a write the API may be asked for, and what it means: an entry is
\* addressed with the tag its operator saw, one that is added or replaced has a
\* text, and an untouched advanced setting is not sent.
Meant ==
  {b \in Bodies :
     /\ b.op \in {"edit", "delete"} => b.tag = b.saw
     /\ b.op \in {"add", "edit"} => b.text \in Texts
     /\ b.op = "service" /\ ~b.touched => b.limit = None}

OnEntry == {"add", "edit", "delete"}

LEMMA BodyFields ==
  ASSUME NEW b \in Meant
  PROVE  /\ b.op \in {"add", "edit", "delete", "mode", "service"}
         /\ b.op \in OnEntry => b.kind \in Kinds /\ b.index \in Nat
         /\ b.op \in {"add", "edit"} => b.text \in Texts
         /\ b.op \in {"edit", "delete"} => b.tag = b.saw
         /\ b.op \in {"mode", "service"} => b.mode \in Modes
         /\ b.op = "service" => b.limit \in Limits \cup {None} /\ (~b.touched => b.limit = None)
BY DEF Meant, Bodies, OnEntry

\* What an accepted write makes of a configuration is a configuration.
LEMMA ApplyTyped ==
  ASSUME NEW cfg \in Configs, NEW b \in Meant, Accepts(cfg, b)
  PROVE  /\ Apply(cfg, b) \in Configs
         /\ b.op = "service" /\ ~b.touched => Apply(cfg, b).limit = cfg.limit
<1>1. cfg.list \in Lists /\ cfg.mode \in Modes /\ cfg.limit \in Limits BY DEF Configs, Lists
<1>2. CASE b.op = "add"
  <2>1. b.kind \in Kinds /\ b.text \in Texts BY <1>2, BodyFields DEF OnEntry
  <2> DEFINE more == Append(cfg.list[b.kind], b.text)
  <2>2. more \in Seq(Texts) BY <1>1, <2>1 DEF Lists
  <2>3. Apply(cfg, b) = [cfg EXCEPT !.list[b.kind] = more] BY <1>2 DEF Apply
  <2>4. QED BY <1>1, <1>2, <2>1, <2>2, <2>3 DEF Configs, Lists
<1>3. CASE b.op = "edit"
  <2>1. b.kind \in Kinds /\ b.text \in Texts BY <1>3, BodyFields DEF OnEntry
  <2>2. b.index \in DOMAIN cfg.list[b.kind] BY <1>3 DEF Accepts, CheckEntry
  <2> DEFINE changed == [cfg.list[b.kind] EXCEPT ![b.index] = b.text]
  <2>3. changed \in Seq(Texts) BY <1>1, <2>1, <2>2 DEF Lists
  <2>4. Apply(cfg, b) = [cfg EXCEPT !.list[b.kind] = changed] BY <1>3 DEF Apply
  <2>5. QED BY <1>1, <1>3, <2>1, <2>3, <2>4 DEF Configs, Lists
<1>4. CASE b.op = "delete"
  <2>1. b.kind \in Kinds BY <1>4, BodyFields DEF OnEntry
  <2>2. b.index \in DOMAIN cfg.list[b.kind] BY <1>4 DEF Accepts, CheckEntry
  <2> DEFINE less == Without(cfg.list[b.kind], b.index)
  <2>3. less \in Seq(Texts) BY <1>1, <2>1, <2>2, RemovingTyped DEF Lists
  <2>4. Apply(cfg, b) = [cfg EXCEPT !.list[b.kind] = less] BY <1>4 DEF Apply
  <2>5. QED BY <1>1, <1>4, <2>1, <2>3, <2>4 DEF Configs, Lists
<1>5. CASE b.op = "mode"
  <2>1. b.mode \in Modes BY <1>5, BodyFields
  <2>2. Apply(cfg, b) = [cfg EXCEPT !.mode = b.mode] BY <1>5 DEF Apply
  <2>3. QED BY <1>1, <1>5, <2>1, <2>2 DEF Configs, Lists
<1>6. CASE b.op = "service"
  <2>1. b.mode \in Modes /\ b.limit \in Limits \cup {None} /\ (~b.touched => b.limit = None)
    BY <1>6, BodyFields
  <2> DEFINE kept == IF b.limit = None THEN cfg.limit ELSE b.limit
  <2>2. kept \in Limits BY <1>1, <2>1
  <2>3. Apply(cfg, b) = [cfg EXCEPT !.mode = b.mode, !.limit = kept] BY <1>6 DEF Apply
  <2>4. Apply(cfg, b) \in Configs BY <1>1, <2>1, <2>2, <2>3 DEF Configs, Lists
  <2>5. Apply(cfg, b).limit = kept BY <1>1, <2>3 DEF Configs
  <2>6. QED BY <2>1, <2>4, <2>5
<1>7. QED BY <1>2, <1>3, <1>4, <1>5, <1>6, BodyFields

-----------------------------------------------------------------------------
(***************************************************************************)
(* The invariant                                                           *)
(***************************************************************************)
Stages == {"sent", "checked", "ok", "failed"}

\* The calls there can be when Kong has held the configurations h.
CallsIn(h) == [body : Meant, stage : Stages, base : 0 .. Len(h), asked : BOOLEAN]

\* A call past the check read a configuration Kong did hold, and the entry it
\* addresses is in it, as its operator saw it.
Grounded(h, call) ==
  call.stage \in {"checked", "ok"} =>
    /\ call.base \in 1 .. Len(h)
    /\ Accepts(h[call.base], call.body)

HistoryInv == hist \in Seq(Configs) /\ Last >= 1

PageInv ==
  /\ shown \in [Consoles -> 1 .. Last]
  /\ seen \in [Consoles -> 1 .. Last]

DialogInv ==
  /\ modal \in [Consoles -> {None} \cup Dialogs]
  /\ confirm \in [Consoles -> {None} \cup [slot : Slots, body : Meant]]

CallInv ==
  /\ calls \in [Consoles -> [Slots -> {None} \cup CallsIn(hist)]]
  /\ \A c \in Consoles, s \in Slots : calls[c][s] # None => Grounded(hist, calls[c][s])

BoundsInv == started \in 0 .. MaxCalls /\ faults \in 0 .. MaxFaults

EditsInv == HistoryInv /\ PageInv /\ DialogInv /\ CallInv /\ BoundsInv

LEMMA InvTypes == EditsInv => TypeOK
<1> SUFFICES ASSUME EditsInv PROVE TypeOK OBVIOUS
<1>1. Last \in Nat \ {0} BY DEF EditsInv, HistoryInv, Last
<1>2. Feed!TypeOK
  BY <1>1 DEF EditsInv, PageInv, Feed!TypeOK, Feed!Down
<1>3. \A c \in Consoles : confirm[c] \in {None} \cup [slot : Slots, body : Bodies]
  BY DEF EditsInv, DialogInv, Meant
<1>4. \A c \in Consoles, s \in Slots :
        calls[c][s] \in {None} \cup
          [body : Bodies, stage : {"sent", "checked", "ok", "failed"},
           base : 0 .. Last, asked : BOOLEAN]
  BY DEF EditsInv, CallInv, CallsIn, Stages, Meant, Last
<1>5. \A c \in Consoles, s \in Slots : calls[c][s] # None => PastCheck(calls[c][s])
  BY DEF EditsInv, CallInv, Grounded, PastCheck, Accepts, CheckEntry
<1>6. QED BY <1>2, <1>3, <1>4, <1>5 DEF TypeOK, EditsInv, HistoryInv, DialogInv, BoundsInv

LEMMA Starts == Init => EditsInv
<1> SUFFICES ASSUME Init PROVE EditsInv OBVIOUS
<1> DEFINE first == [list |-> InitialLists, mode |-> "detect",
                     limit |-> CHOOSE l \in Limits : TRUE]
<1>1. first \in Configs BY EditsAssumption DEF Configs, Modes
<1>2. hist = <<first>> BY DEF Init
<1> HIDE DEF first
<1>3. HistoryInv /\ Last = 1 BY <1>1, <1>2 DEF HistoryInv, Last
<1>4. PageInv BY <1>3 DEF Init, PageInv
<1>5. DialogInv BY DEF Init, DialogInv
<1>6. CallInv BY DEF Init, CallInv
<1>7. BoundsInv BY EditsAssumption DEF Init, BoundsInv
<1>8. QED BY <1>3, <1>4, <1>5, <1>6, <1>7 DEF EditsInv

-----------------------------------------------------------------------------
(***************************************************************************)
(* The steps                                                               *)
(***************************************************************************)
\* Kong's history only grows: what a call read is still there.
LEMMA Appending ==
  ASSUME NEW S, NEW h \in Seq(S), NEW x \in S
  PROVE  /\ Append(h, x) \in Seq(S) /\ Len(Append(h, x)) = Len(h) + 1
         /\ \A j \in 1 .. Len(h) : Append(h, x)[j] = h[j]
         /\ Append(h, x)[Len(h) + 1] = x
OBVIOUS

LEMMA StillGrounded ==
  ASSUME NEW h \in Seq(Configs), NEW x \in Configs, NEW call \in CallsIn(h), Grounded(h, call)
  PROVE  call \in CallsIn(Append(h, x)) /\ Grounded(Append(h, x), call)
<1>1. Len(Append(h, x)) = Len(h) + 1 /\ \A j \in 1 .. Len(h) : Append(h, x)[j] = h[j]
  BY Appending
<1>2. Len(h) \in Nat OBVIOUS
<1>3. call \in CallsIn(Append(h, x)) BY <1>1, <1>2 DEF CallsIn
<1>4. Grounded(Append(h, x), call)
  <2> SUFFICES ASSUME call.stage \in {"checked", "ok"}
               PROVE  call.base \in 1 .. Len(Append(h, x)) /\ Accepts(Append(h, x)[call.base], call.body)
    BY DEF Grounded
  <2>1. call.base \in 1 .. Len(h) /\ Accepts(h[call.base], call.body) BY DEF Grounded
  <2>2. QED BY <1>1, <1>2, <2>1
<1>5. QED BY <1>3, <1>4

\* One call of one page changes, Kong's configuration does not.
LEMMA OneCall ==
  ASSUME CallInv, NEW c \in Consoles, NEW s \in Slots, NEW x \in {None} \cup CallsIn(hist),
         x # None => Grounded(hist, x), hist' = hist, calls' = [calls EXCEPT ![c][s] = x]
  PROVE  CallInv'
<1>1. \A d \in Consoles, t \in Slots :
        calls'[d][t] = IF d = c /\ t = s THEN x ELSE calls[d][t]
  BY DEF CallInv
<1>2. calls' \in [Consoles -> [Slots -> {None} \cup CallsIn(hist)]] BY DEF CallInv
<1>3. \A d \in Consoles, t \in Slots : calls'[d][t] # None => Grounded(hist, calls'[d][t])
  BY <1>1 DEF CallInv
<1>4. QED BY <1>2, <1>3 DEF CallInv

\* The last stage of a write: Kong's configuration is written, or left as it is.
LEMMA WriteEnds ==
  ASSUME EditsInv, NEW c \in Consoles, NEW s \in Slots, NEW st \in {"ok", "failed"},
         Checked(c, s), Stage(c, s, st), Land(c, s) \/ UNCHANGED hist
  PROVE  HistoryInv' /\ CallInv' /\ Last' >= Last
<1> DEFINE call == calls[c][s]
           new == Apply(hist[call.base], call.body)
           done == [call EXCEPT !.stage = st]
<1>1. call \in CallsIn(hist) /\ Grounded(hist, call) /\ call.stage = "checked"
  BY DEF EditsInv, CallInv, Checked
<1>2. call.base \in 1 .. Last /\ Accepts(hist[call.base], call.body) /\ call.body \in Meant
  BY <1>1 DEF Grounded, CallsIn, Last
<1>3. hist[call.base] \in Configs BY <1>2 DEF EditsInv, HistoryInv, Last
<1>4. new \in Configs BY <1>2, <1>3, ApplyTyped
<1>5. done \in CallsIn(hist) /\ done.stage = st /\ done.base = call.base /\ done.body = call.body
  BY <1>1 DEF CallsIn, Stages
<1>6. Grounded(hist, done) BY <1>1, <1>2, <1>5 DEF Grounded, Last
<1>7. calls' = [calls EXCEPT ![c][s] = done] BY DEF Stage
<1> HIDE DEF done, call
<1>8. CASE UNCHANGED hist
  <2>1. CallInv' BY <1>5, <1>6, <1>7, <1>8, OneCall DEF EditsInv
  <2>2. HistoryInv' /\ Last' >= Last BY <1>8 DEF EditsInv, HistoryInv, Last
  <2>3. QED BY <2>1, <2>2
<1>9. CASE hist' = Append(hist, new)
  <2>1. hist \in Seq(Configs) /\ Len(hist) >= 1 BY DEF EditsInv, HistoryInv, Last
  <2>2. hist' \in Seq(Configs) /\ Len(hist') = Len(hist) + 1 BY <1>4, <1>9, <2>1, Appending
  <2>3. HistoryInv' /\ Last' >= Last BY <2>1, <2>2 DEF HistoryInv, Last
  <2>4. \A d \in Consoles, t \in Slots :
          calls'[d][t] = IF d = c /\ t = s THEN done ELSE calls[d][t]
    BY <1>7 DEF EditsInv, CallInv
  <2>5. \A x \in CallsIn(hist) : Grounded(hist, x) => x \in CallsIn(hist') /\ Grounded(hist', x)
    BY <1>4, <1>9, <2>1, StillGrounded
  <2>6. \A d \in Consoles, t \in Slots :
          calls'[d][t] # None => calls'[d][t] \in CallsIn(hist') /\ Grounded(hist', calls'[d][t])
    BY <1>5, <1>6, <2>4, <2>5 DEF EditsInv, CallInv
  <2>7. calls' \in [Consoles -> [Slots -> {None} \cup CallsIn(hist')]]
    <3>1. calls' \in [Consoles -> [Slots -> {None} \cup CallsIn(hist)]]
      BY <1>5, <1>7 DEF EditsInv, CallInv
    <3>2. QED BY <2>6, <3>1
  <2>8. CallInv' BY <2>6, <2>7 DEF CallInv
  <2>9. QED BY <2>3, <2>8
<1>10. QED BY <1>8, <1>9 DEF Land, call

\* A dialog or a confirmation is opened or closed.
LEMMA AskKeeps ==
  ASSUME EditsInv, NEW c \in Consoles, NEW s \in Slots, NEW body \in Meant, Ask(c, s, body)
  PROVE  confirm' \in [Consoles -> {None} \cup [slot : Slots, body : Meant]] /\ started' \in 0 .. MaxCalls
<1>1. [slot |-> s, body |-> body] \in [slot : Slots, body : Meant] OBVIOUS
<1>2. confirm' \in [Consoles -> {None} \cup [slot : Slots, body : Meant]]
  BY <1>1 DEF EditsInv, DialogInv, Ask
<1>3. started' \in 0 .. MaxCalls BY EditsAssumption DEF EditsInv, BoundsInv, Ask
<1>4. QED BY <1>2, <1>3

LEMMA EntryBodyMeant ==
  ASSUME NEW m \in Dialogs, m.op # "service", NEW t \in Texts
  PROVE  EntryBody(m, t) \in Meant
<1>1. m \in [op : {"add", "edit"}, kind : Kinds, index : Nat, saw : Texts \cup {None}] BY DEF Dialogs
<1>2. QED BY <1>1 DEF EntryBody, Meant, Bodies

LEMMA SentFits ==
  ASSUME NEW body \in Meant, NEW asked \in BOOLEAN, EditsInv
  PROVE  Sent(body, asked) \in CallsIn(hist) /\ Grounded(hist, Sent(body, asked))
BY DEF Sent, CallsIn, Stages, Grounded, EditsInv, HistoryInv, Last

\* What a page shows is a configuration Kong held, and its rows are entries of it.
LEMMA RowsShown ==
  ASSUME EditsInv, NEW c \in Consoles, NEW k \in Kinds, NEW i \in Rows(c, k)
  PROVE  i \in Nat /\ Shows(c).list[k][i] \in Texts
<1>1. shown[c] \in 1 .. Last BY DEF EditsInv, PageInv
<1>2. Shows(c) \in Configs BY <1>1 DEF EditsInv, HistoryInv, Shows, Last
<1>3. Shows(c).list[k] \in Seq(Texts) BY <1>2 DEF Configs
<1>4. QED BY <1>3 DEF Rows

\* A step that only turns the page to a later configuration.
LEMMA RenderKeeps == ASSUME EditsInv, NEW c \in Consoles, Render(c) PROVE EditsInv'
<1>1. PICK v \in seen[c] .. Last :
        shown' = [shown EXCEPT ![c] = v] /\ seen' = IF v = -1 THEN seen ELSE [seen EXCEPT ![c] = v]
  BY DEF Render, Feed!Show, Feed!Down
<1>2. v \in 1 .. Last BY DEF EditsInv, PageInv
<1>3. PageInv' BY <1>1, <1>2 DEF EditsInv, PageInv, Render, Last
<1>4. QED BY <1>3 DEF EditsInv, HistoryInv, DialogInv, CallInv, BoundsInv, Render, Last

\* A step that opens or closes a dialog or a confirmation, sends nothing and writes
\* nothing.
Screen ==
  /\ modal' \in [Consoles -> {None} \cup Dialogs]
  /\ confirm' \in [Consoles -> {None} \cup [slot : Slots, body : Meant]]
  /\ started' \in 0 .. MaxCalls
  /\ UNCHANGED <<hist, page, faults>>

LEMMA ScreenKeeps == ASSUME EditsInv, Screen, CallInv' PROVE EditsInv'
BY DEF EditsInv, HistoryInv, PageInv, DialogInv, BoundsInv, Screen, page, Last

LEMMA QuietCalls == ASSUME EditsInv, UNCHANGED <<hist, calls>> PROVE CallInv'
BY DEF EditsInv, CallInv

LEMMA ModalKeeps ==
  ASSUME EditsInv, NEW c \in Consoles, NEW m \in {None} \cup Dialogs,
         modal' = [modal EXCEPT ![c] = m], UNCHANGED <<hist, page, confirm, calls, started, faults>>
  PROVE  EditsInv'
<1>1. Screen BY DEF Screen, EditsInv, DialogInv, BoundsInv
<1>2. QED BY <1>1, ScreenKeeps, QuietCalls

LEMMA OperatorKeeps == ASSUME EditsInv, NEW c \in Consoles, Operator(c) PROVE EditsInv'
<1>1. ASSUME NEW k \in Kinds, OpenNew(c, k) PROVE EditsInv'
  <2> DEFINE m == [op |-> "add", kind |-> k, index |-> 0, saw |-> None]
  <2>1. m \in {None} \cup Dialogs BY DEF Dialogs
  <2>2. QED BY <1>1, <2>1, ModalKeeps DEF OpenNew
<1>2. ASSUME NEW k \in Kinds, NEW i \in Rows(c, k), OpenEdit(c, k, i) PROVE EditsInv'
  <2> DEFINE m == [op |-> "edit", kind |-> k, index |-> i, saw |-> Shows(c).list[k][i]]
  <2>1. m \in {None} \cup Dialogs BY RowsShown DEF Dialogs
  <2>2. QED BY <1>2, <2>1, ModalKeeps DEF OpenEdit
<1>3. ASSUME NEW k \in Kinds, NEW i \in Rows(c, k), DeleteRow(c, k, i) PROVE EditsInv'
  <2> DEFINE t == Shows(c).list[k][i]
             b == [op |-> "delete", kind |-> k, index |-> i, tag |-> t, saw |-> t, text |-> None]
  <2>1. b \in Meant BY RowsShown DEF Meant, Bodies
  <2>2. Ask(c, "row", b) BY <1>3 DEF DeleteRow
  <2>3. Screen BY <1>3, <2>1, <2>2, AskKeeps DEF DeleteRow, Screen, EditsInv, DialogInv, Slots
  <2>4. QED BY <1>3, <2>3, ScreenKeeps, QuietCalls DEF DeleteRow
<1>4. CASE OpenService(c)
  <2> DEFINE m == [op |-> "service", opened |-> shown[c]]
  <2>1. m \in {None} \cup Dialogs BY DEF Dialogs, EditsInv, PageInv, HistoryInv, Last
  <2>2. QED BY <1>4, <2>1, ModalKeeps DEF OpenService
<1>5. CASE SwitchMode(c)
  <2>1. PICK n \in Modes : Ask(c, "row", [op |-> "mode", mode |-> n]) BY <1>5 DEF SwitchMode
  <2>2. [op |-> "mode", mode |-> n] \in Meant BY DEF Meant, Bodies
  <2>3. Screen BY <1>5, <2>1, <2>2, AskKeeps DEF SwitchMode, Screen, EditsInv, DialogInv, Slots
  <2>4. QED BY <1>5, <2>3, ScreenKeeps, QuietCalls DEF SwitchMode
<1>6. CASE CloseDialog(c) BY <1>6, ModalKeeps DEF CloseDialog
<1>7. ASSUME NEW t \in Texts, SaveRule(c, t) PROVE EditsInv'
  <2>1. EntryBody(modal[c], t) \in Meant
    BY <1>7, EntryBodyMeant DEF SaveRule, EditsInv, DialogInv
  <2>2. Screen BY <1>7, <2>1, AskKeeps DEF SaveRule, Screen, EditsInv, DialogInv, Slots
  <2>3. QED BY <1>7, <2>2, ScreenKeeps, QuietCalls DEF SaveRule
<1>8. ASSUME NEW t \in Texts, SaveOverride(c, t) PROVE EditsInv'
  <2>1. EntryBody(modal[c], t) \in Meant
    BY <1>8, EntryBodyMeant DEF SaveOverride, EditsInv, DialogInv
  <2>2. Screen BY <1>8, <2>1, AskKeeps DEF SaveOverride, Screen, EditsInv, DialogInv, Slots
  <2> DEFINE x == Sent(EntryBody(modal[c], t), FALSE)
  <2>3. x \in CallsIn(hist) /\ Grounded(hist, x) BY <2>1, SentFits
  <2>4. calls' = [calls EXCEPT ![c]["dialog"] = x] /\ hist' = hist BY <1>8 DEF SaveOverride
  <2> HIDE DEF x
  <2>5. CallInv' BY <2>3, <2>4, OneCall DEF EditsInv, Slots
  <2>6. QED BY <2>2, <2>5, ScreenKeeps
<1>9. ASSUME NEW n \in Modes, NEW l \in Limits, SaveService(c, n, l) PROVE EditsInv'
  <2> DEFINE b == [op |-> "service", mode |-> n, limit |-> Changed(modal[c].opened, l),
                   touched |-> l # hist[modal[c].opened].limit]
  <2>1. b \in Meant BY DEF Meant, Bodies, Changed
  <2>2. Ask(c, "dialog", b) BY <1>9 DEF SaveService
  <2>3. Screen BY <1>9, <2>1, <2>2, AskKeeps DEF SaveService, Screen, EditsInv, DialogInv, Slots
  <2>4. QED BY <1>9, <2>3, ScreenKeeps, QuietCalls DEF SaveService
<1>10. CASE Agree(c)
  <2> DEFINE s == confirm[c].slot
             fresh == Sent(confirm[c].body, TRUE)
             waited == [calls[c][s] EXCEPT !.asked = TRUE]
             x == IF calls[c][s] = None THEN fresh ELSE waited
  <2>1. s \in Slots /\ confirm[c].body \in Meant BY <1>10 DEF Agree, EditsInv, DialogInv
  <2>2. fresh \in CallsIn(hist) /\ Grounded(hist, fresh) BY <2>1, SentFits
  <2>3. ASSUME calls[c][s] # None PROVE waited \in CallsIn(hist) /\ Grounded(hist, waited)
    <3>1. calls[c][s] \in CallsIn(hist) /\ Grounded(hist, calls[c][s])
      BY <2>1, <2>3 DEF EditsInv, CallInv
    <3>2. waited \in CallsIn(hist) /\ waited.stage = calls[c][s].stage
            /\ waited.base = calls[c][s].base /\ waited.body = calls[c][s].body
      BY <3>1 DEF CallsIn
    <3>3. QED BY <3>1, <3>2 DEF Grounded
  <2>4. x \in CallsIn(hist) /\ Grounded(hist, x) BY <2>2, <2>3
  <2>5. calls' = [calls EXCEPT ![c][s] = x] /\ hist' = hist BY <1>10 DEF Agree
  <2>6. Screen BY <1>10 DEF Agree, Screen, EditsInv, DialogInv, BoundsInv
  <2> HIDE DEF x, s
  <2>7. CallInv' BY <2>1, <2>4, <2>5, OneCall DEF EditsInv
  <2>8. QED BY <2>6, <2>7, ScreenKeeps
<1>11. CASE Decline(c)
  <2>1. Screen BY <1>11 DEF Decline, Screen, EditsInv, DialogInv, BoundsInv
  <2>2. QED BY <1>11, <2>1, ScreenKeeps, QuietCalls DEF Decline
<1>12. QED BY <1>1, <1>2, <1>3, <1>4, <1>5, <1>6, <1>7, <1>8, <1>9, <1>10, <1>11 DEF Operator

-----------------------------------------------------------------------------
(***************************************************************************)
(* The handlers                                                            *)
(***************************************************************************)
LEMMA GetKeeps ==
  ASSUME EditsInv, NEW c \in Consoles, NEW s \in Slots, GetPlugin(c, s)
  PROVE  EditsInv'
<1> DEFINE call == calls[c][s]
           st == IF Accepts(Kong, call.body) THEN "checked" ELSE "failed"
           x == [call EXCEPT !.base = Last, !.stage = st]
<1>1. call \in CallsIn(hist) BY DEF EditsInv, CallInv, GetPlugin
<1>2. Last \in Nat /\ Last >= 1 /\ Last = Len(hist) BY DEF EditsInv, HistoryInv, Last
<1>3. st \in {"checked", "failed"} /\ (st = "checked" => Accepts(Kong, call.body)) OBVIOUS
<1> HIDE DEF st
<1>4. x \in CallsIn(hist) /\ x.stage = st /\ x.base = Last /\ x.body = call.body
  <2> HIDE DEF call
  <2>1. [call EXCEPT !.base = Last] \in CallsIn(hist) BY <1>1, <1>2 DEF CallsIn
  <2>2. QED BY <1>1, <1>2, <1>3, <2>1 DEF CallsIn, Stages
<1>5. Grounded(hist, x) BY <1>2, <1>3, <1>4 DEF Grounded, Kong
<1>6. calls' = [calls EXCEPT ![c][s] = x] BY <1>1 DEF GetPlugin, EditsInv, CallInv, CallsIn, st
<1> HIDE DEF x
<1>7. CallInv' BY <1>4, <1>5, <1>6, OneCall DEF GetPlugin, EditsInv
<1>8. QED BY <1>7 DEF GetPlugin, EditsInv, HistoryInv, PageInv, DialogInv, BoundsInv, page, Last

\* Pages, dialogs and confirmations are as they were while Kong's history grew.
LEMMA WriteKeeps ==
  ASSUME EditsInv, HistoryInv', CallInv', Last' >= Last, faults' \in 0 .. MaxFaults,
         UNCHANGED <<page, modal, confirm, started>>
  PROVE  EditsInv'
<1>1. Last \in Nat /\ Last' \in Nat BY DEF EditsInv, HistoryInv, Last
<1>2. PageInv' BY <1>1 DEF EditsInv, PageInv, page
<1>3. QED BY <1>2 DEF EditsInv, DialogInv, BoundsInv

LEMMA PatchKeeps ==
  ASSUME EditsInv, NEW c \in Consoles, NEW s \in Slots, PatchPlugin(c, s) \/ PatchFails(c, s)
  PROVE  EditsInv'
<1>1. CASE PatchPlugin(c, s)
  <2>1. HistoryInv' /\ CallInv' /\ Last' >= Last BY <1>1, WriteEnds DEF PatchPlugin
  <2>2. QED BY <1>1, <2>1, WriteKeeps DEF PatchPlugin, EditsInv, BoundsInv
<1>2. CASE PatchFails(c, s)
  <2>1. HistoryInv' /\ CallInv' /\ Last' >= Last BY <1>2, WriteEnds DEF PatchFails
  <2>2. faults' \in 0 .. MaxFaults BY <1>2, EditsAssumption DEF PatchFails, EditsInv, BoundsInv
  <2>3. QED BY <1>2, <2>1, <2>2, WriteKeeps DEF PatchFails
<1>3. QED BY <1>1, <1>2

LEMMA EndKeeps ==
  ASSUME EditsInv, NEW c \in Consoles, NEW s \in Slots, Settle(c, s) \/ Unnoticed(c, s)
  PROVE  EditsInv'
<1>1. calls' = [calls EXCEPT ![c][s] = None] /\ hist' = hist BY DEF Settle, Unnoticed
<1>2. CallInv' BY <1>1, OneCall DEF EditsInv
<1>3. modal' \in [Consoles -> {None} \cup Dialogs] BY DEF Settle, Unnoticed, EditsInv, DialogInv
<1>4. Screen BY <1>3 DEF Screen, Settle, Unnoticed, EditsInv, DialogInv, BoundsInv
<1>5. QED BY <1>2, <1>4, ScreenKeeps

LEMMA StepKeeps == EditsInv /\ [Next]_vars => EditsInv'
<1> SUFFICES ASSUME EditsInv, [Next]_vars PROVE EditsInv' OBVIOUS
<1>1. CASE UNCHANGED vars
  BY <1>1 DEF vars, page, EditsInv, HistoryInv, PageInv, DialogInv, CallInv, BoundsInv, Last
<1>2. ASSUME NEW c \in Consoles, Render(c) PROVE EditsInv' BY <1>2, RenderKeeps
<1>3. ASSUME NEW c \in Consoles, Operator(c) PROVE EditsInv' BY <1>3, OperatorKeeps
<1>4. ASSUME NEW c \in Consoles, NEW s \in Slots, Api(c, s) PROVE EditsInv'
  BY <1>4, GetKeeps, PatchKeeps DEF Api
<1>5. ASSUME NEW c \in Consoles, NEW s \in Slots, Settle(c, s) \/ Unnoticed(c, s) PROVE EditsInv'
  BY <1>5, EndKeeps
<1>6. QED BY <1>1, <1>2, <1>3, <1>4, <1>5 DEF Next

LEMMA Invariant == Spec => []EditsInv
<1>1. Init => EditsInv BY Starts
<1>2. EditsInv /\ [Next]_vars => EditsInv' BY StepKeeps
<1> HIDE DEF EditsInv, Init, Next, vars
<1>3. QED BY <1>1, <1>2, PTL DEF Spec

-----------------------------------------------------------------------------
(***************************************************************************)
(* The theorems                                                            *)
(***************************************************************************)
\* Every configuration Kong has held, every body on its way and every page is well
\* formed, and a call past the check replaces or removes an entry of the list it read.
THEOREM TypeCorrect == Spec => []TypeOK
<1>1. EditsInv => TypeOK BY InvTypes
<1> HIDE DEF EditsInv, TypeOK, Spec
<1>2. QED BY <1>1, Invariant, PTL

\* The write of a handler no other write overlapped.
LEMMA SoloWrite ==
  ASSUME EditsInv, NEW c \in Consoles, NEW s \in Slots, Writing(c, s), calls[c][s].base = Last
  PROVE  AsSeen(c, s)
<1> DEFINE call == calls[c][s]
           q == call.body
           new == Apply(Kong, q)
<1>1. Checked(c, s) /\ call \in CallsIn(hist) /\ Grounded(hist, call)
  BY DEF Writing, PatchPlugin, PatchFails, Checked, EditsInv, CallInv
<1>2. q \in Meant /\ Accepts(Kong, q)
  BY <1>1 DEF CallsIn, Grounded, Checked, Kong
<1>3. Kong \in Configs BY DEF EditsInv, HistoryInv, Kong, Last
<1>4. new \in Configs /\ (q.op = "service" /\ ~q.touched => new.limit = Kong.limit)
  BY <1>2, <1>3, ApplyTyped
<1>5. hist' = Append(hist, new) BY DEF Writing, PatchPlugin, PatchFails, Land, Kong
<1> HIDE DEF new
<1>6. hist'[Len(hist')] = new
  BY <1>4, <1>5, Appending DEF EditsInv, HistoryInv
<1>7. q.op \in {"edit", "delete"} => q.index \in DOMAIN Kong.list[q.kind] /\ Kong.list[q.kind][q.index] = q.saw
  BY <1>2, BodyFields DEF Accepts, CheckEntry
<1>8. QED BY <1>4, <1>6, <1>7 DEF AsSeen, new

\* A write no other overlaps changes the entry its operator saw, at the place it was
\* seen, and of the advanced settings only those that were touched: the tag is checked
\* against the configuration that was read, and that one is still in force when Kong
\* takes the write.
THEOREM SoloWrites == Spec => SoloWriteIsAsSeen
<1>1. EditsInv /\ [Next]_vars =>
        [\A c \in Consoles, s \in Slots : Writing(c, s) /\ calls[c][s].base = Last => AsSeen(c, s)]_vars
  BY SoloWrite
<1> HIDE DEF EditsInv, Next, vars, Writing, AsSeen, Last
<1>2. QED BY <1>1, Invariant, PTL DEF Spec, SoloWriteIsAsSeen
=============================================================================
