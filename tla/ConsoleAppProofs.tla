-------------------------- MODULE ConsoleAppProofs --------------------------
(***************************************************************************)
(* Safety of the console, for any services, targets, profiles and bounds.  *)
(***************************************************************************)
EXTENDS ConsoleApp, FiniteSetTheorems, SequenceTheorems, TLAPS

-----------------------------------------------------------------------------
(* Who changes what.                                                       *)

\* The requests of the settings' connections leave the session alone.
LEMMA TargetsKeepSession == TargetsNext => UNCHANGED session
  BY DEF TargetsNext, Check, TestOther, Type, Load, EditRow, AddKong, SendForm, ActivateRow,
     AskRemoval, Remove, KeepRow, OthersStart, TargetsApi, TargetsAnswers

LEMMA ProfilesKeepSession == ProfilesNext => UNCHANGED session
  BY DEF ProfilesNext, LoadProfiles, ChooseProvider, TypeUrl, TypeKey, EditProfile, NewProfile,
     TestProfile, SaveProfile, AskDrop, DropProfile, KeepProfile, ProfilesApi, OthersProfile,
     ProfilesListed, ProfileAnswered

LEMMA ListsKeepSession == ListsNext => UNCHANGED session
  BY DEF ListsNext, Filter, ClearFilters, Turn, Refreshed, Open, Close, Pivot

LEMMA RuleFormKeepsSession == RuleFormNext => UNCHANGED session
  BY DEF RuleFormNext, NewRule, EditRule, CloseRule, Build, ChooseAction, ChooseKind, Pick, TypeScope,
     ChangeType, ChangeName, AddField, RemoveField, ChooseService, ShowTab, ContinueInRaw, TypeRaw,
     SaveRule, ServeRule, RuleAnswered, OthersWrite

LEMMA ServicesKeepSession == ServicesNext => UNCHANGED session
  BY DEF ServicesNext, OpenPolicy, ClosePolicy, Change, ChooseMode, TogglePlugin, TypeReply,
     TypePassword, ClearPassword, SavePolicy, ServePolicy, PolicyAnswered, OthersPatch

\* A step of the console is one of the session's or leaves the session alone.
LEMMA SessionSteps == ASSUME [Next]_vars PROVE Moves \/ Stays \/ UNCHANGED session
  BY TargetsKeepSession, ProfilesKeepSession, ListsKeepSession, RuleFormKeepsSession, ServicesKeepSession
     DEF Next, Navigate, Palette, PaletteTo, Draft, DraftFromEvent, AiStepSaved, AiSaved, vars, session

-----------------------------------------------------------------------------
(* The session.                                                            *)

AuthOps == {"none", "login", "register", "logout", "password"}
AuthStages == {"none", "sent", "ok", "failed"}
AuthCalls == [op : AuthOps, stage : AuthStages, token : Nat]

\* Every answer that signs somebody in brings a token, and `current' is one.
SessionInv ==
  /\ current \in Nat \ {0} /\ token \in Nat /\ email \in BOOLEAN
  /\ auth \in [Slots -> AuthCalls]
  /\ \A s \in Slots : auth[s].stage = "ok" /\ auth[s].op # "logout" => auth[s].token # 0
  /\ SignedInHasToken

LEMMA SessionStart == Init => SessionInv
<1> SUFFICES ASSUME Init PROVE SessionInv
  OBVIOUS
<1>1. current = 1 /\ token \in {0, current} /\ email = FALSE /\ auth = [s \in Slots |-> NoCall]
  BY DEF Init, SessionInit
<1>2. NoCall \in AuthCalls /\ NoCall.stage # "ok"
  BY DEF NoCall, AuthCalls, AuthOps, AuthStages
<1>3. SignedInHasToken BY <1>1, Zenon DEF SignedInHasToken
<1>4. auth \in [Slots -> AuthCalls] BY <1>1, <1>2
<1>5. \A s \in Slots : auth[s] = NoCall BY <1>1
<1>6. current \in Nat \ {0} /\ token \in Nat BY <1>1
<1>7. email \in BOOLEAN BY <1>1, Zenon
<1> QED BY <1>2, <1>3, <1>4, <1>5, <1>6, <1>7 DEF SessionInv

\* What happens to the session when the tab starts again or hears from the API.
LEMMA MovesKeepSession == ASSUME SessionInv, Moves PROVE SessionInv'
<1> USE DEF SessionInv, AuthCalls, AuthOps, AuthStages
<1>1. CASE Boot
  <2>1. UNCHANGED <<current, auth>> BY <1>1 DEF Boot
  <2>2. token' \in Nat /\ email' \in BOOLEAN /\ (email' => token' # 0)
    <3>1. CASE UNCHANGED token /\ email' = FALSE BY <3>1, Zenon
    <3>2. CASE token # 0 /\ UNCHANGED token /\ email' = TRUE BY <3>2, Zenon
    <3>3. CASE token' = 0 /\ email' = FALSE
      <4>1. token' \in Nat BY <3>3
      <4> QED BY <3>3, <4>1, Zenon
    <3> QED BY <1>1, <3>1, <3>2, <3>3, Zenon DEF Boot, SignedIn, Valid
  <2> QED BY <2>1, <2>2 DEF SignedInHasToken
<1>2. CASE Reload
  <2>1. UNCHANGED <<current, token>> /\ email' = FALSE /\ auth' = [s \in Slots |-> NoCall]
    BY <1>2 DEF Reload
  <2> QED BY <2>1 DEF SignedInHasToken, NoCall, AuthCalls
<1>3. ASSUME NEW s \in Slots, AuthAnswered(s) PROVE SessionInv'
  <2>1. UNCHANGED current /\ auth' = [auth EXCEPT ![s] = NoCall] BY <1>3 DEF AuthAnswered
  <2>2. auth' \in [Slots -> AuthCalls] /\ \A x \in Slots : auth'[x] = IF x = s THEN NoCall ELSE auth[x]
    BY <2>1 DEF NoCall, AuthCalls
  <2>3. token' \in Nat /\ email' \in BOOLEAN /\ (email' => token' # 0)
    <3>1. CASE auth[s].op = "logout"
      <4>1. token' = 0 /\ SignedIn(FALSE) BY <1>3, <3>1 DEF AuthAnswered
      <4>2. email' = FALSE BY <4>1, Zenon DEF SignedIn
      <4>3. token' \in Nat BY <4>1
      <4> QED BY <4>2, <4>3, Zenon
    <3>2. CASE auth[s].op # "logout" /\ auth[s].op = "password" /\ auth[s].stage = "ok"
      BY <1>3, <3>2 DEF AuthAnswered, AuthCalls, AuthOps, AuthStages
    <3>3. CASE auth[s].op \in {"login", "register"} /\ auth[s].stage = "ok"
      BY <1>3, <3>3 DEF AuthAnswered, SignedIn, AuthCalls
    <3>4. CASE auth[s].op # "logout" /\ ~(auth[s].op = "password" /\ auth[s].stage = "ok")
                 /\ ~(auth[s].op \in {"login", "register"} /\ auth[s].stage = "ok")
      BY <1>3, <3>4 DEF AuthAnswered, SignedInHasToken
    <3> QED BY <3>1, <3>2, <3>3, <3>4
  <2> QED BY <2>1, <2>2, <2>3 DEF SignedInHasToken, NoCall
<1>4. CASE Polled \/ Gate \/ Finished
  <2>1. UNCHANGED <<current, auth>> BY <1>4 DEF Polled, Gate, Finished
  <2>2. UNCHANGED <<token, email>> \/ (token' = 0 /\ email' = FALSE)
    BY <1>4 DEF Polled, Gate, Finished, Unauthorized, ForgetUser
  <2>3. token' \in Nat BY <2>2
  <2>4. CASE UNCHANGED <<token, email>>
    BY <2>1, <2>4 DEF SignedInHasToken
  <2>5. CASE token' = 0 /\ email' = FALSE
    <3>1. email' \in BOOLEAN /\ SignedInHasToken' BY <2>5, Zenon DEF SignedInHasToken
    <3> QED BY <2>1, <2>3, <3>1
  <2> QED BY <2>2, <2>4, <2>5
<1>5. CASE (\E v \in Views \cup {"welcome"} : Go(v)) \/ (\E p \in Steps : StepTo(p))
  BY <1>5 DEF Go, StepTo, session, SignedInHasToken
<1> QED BY <1>1, <1>2, <1>3, <1>4, <1>5 DEF Moves

LEMMA StaysKeepSession == ASSUME SessionInv, Stays PROVE SessionInv'
<1> USE DEF SessionInv, AuthCalls, AuthOps, AuthStages
<1>1. ASSUME NEW s \in Slots, NEW op \in {"login", "register", "password", "logout"}, Call(s, op),
             UNCHANGED <<current, token, email>>
      PROVE  SessionInv'
  <2> DEFINE call == [op |-> op, stage |-> "sent", token |-> token]
  <2>1. auth' = [auth EXCEPT ![s] = call] /\ call \in AuthCalls BY <1>1 DEF Call, AuthCalls
  <2>2. call.stage # "ok" OBVIOUS
  <2> HIDE DEF call
  <2>3. auth' \in [Slots -> AuthCalls] /\ \A x \in Slots : auth'[x] = IF x = s THEN call ELSE auth[x]
    BY <2>1
  <2> QED BY <1>1, <2>2, <2>3 DEF SignedInHasToken
<1>2. CASE Submit \/ ChangePassword \/ Logout
  BY <1>1, <1>2 DEF Submit, ChangePassword, Logout, Slots
<1>3. ASSUME NEW s \in Slots, ServeAuth(s) PROVE SessionInv'
  <2>1. UNCHANGED <<token, email>> BY <1>3 DEF ServeAuth
  <2>2. \E stage \in AuthStages, t \in Nat :
          Outcome(s, stage, t) /\ (stage = "ok" => t # 0) /\ current' \in Nat \ {0}
    BY <1>3 DEF ServeAuth
  <2>3. PICK stage \in AuthStages, t \in Nat :
          Outcome(s, stage, t) /\ (stage = "ok" => t # 0) /\ current' \in Nat \ {0}
    BY <2>2
  <2> DEFINE call == [op |-> auth[s].op, stage |-> stage, token |-> t]
  <2>4. auth' = [auth EXCEPT ![s] = call]
    BY <2>3 DEF Outcome, AuthCalls
  <2>5. call \in AuthCalls /\ call.stage = stage /\ call.token = t BY DEF AuthCalls
  <2> HIDE DEF call
  <2>6. auth' \in [Slots -> AuthCalls] /\ \A x \in Slots : auth'[x] = IF x = s THEN call ELSE auth[x]
    BY <2>4, <2>5
  <2> QED BY <2>1, <2>3, <2>5, <2>6 DEF SignedInHasToken
<1>4. CASE OthersRevoke
  BY <1>4 DEF OthersRevoke, SignedInHasToken
<1>5. CASE Poll \/ ServePoll \/ Finish \/ ServeFinish
  BY <1>5 DEF Poll, ServePoll, Finish, ServeFinish, SignedInHasToken
<1> QED BY <1>2, <1>3, <1>4, <1>5 DEF Stays

\* Somebody is only taken to be signed in while there is a token to send, through
\* sign-ins, late answers, reloads and revocations in any order.
THEOREM SignedInWithToken == Spec => []SignedInHasToken
<1>1. ASSUME SessionInv, [Next]_vars PROVE SessionInv'
  <2>1. CASE UNCHANGED session
    BY <1>1, <2>1 DEF SessionInv, SignedInHasToken, session
  <2> QED BY <1>1, <2>1, SessionSteps, MovesKeepSession, StaysKeepSession
<1>2. SessionInv => SignedInHasToken BY DEF SessionInv
<1> QED BY SessionStart, <1>1, <1>2, PTL DEF Spec

-----------------------------------------------------------------------------
(* The service dialog.                                                     *)

\* A step of the console is one of the dialog, leaves its view, or leaves it alone.
LEMMA ServicesSteps ==
  ASSUME [Next]_vars
  PROVE  ServicesNext \/ (UNCHANGED conf /\ \E p : ServicesLeft(p)) \/ UNCHANGED services
  BY DEF Next, Navigate, Palette, Draft, AiStepSaved, vars, services

Policies ==
  [mode : Modes, plugins : SUBSET Plugins, reply : {"builtin", "own"}, stored : BOOLEAN,
   typed : Services \cup {None}, clear : BOOLEAN]

Updates ==
  [mode : Modes, plugins : SUBSET Plugins, reply : {"builtin", "own", None}, stored : BOOLEAN,
   typed : Services \cup {None}, clear : BOOLEAN]

PolicyTypes ==
  /\ conf \in [Services -> Settings]
  /\ policy \in [service : Services \cup {None}, base : Policies, form : Policies]
  /\ policyJob \in [stage : {"none", "sent", "ok", "failed"}, service : Services \cup {None},
                    body : Updates, heard : BOOLEAN]

\* What is typed, or on its way, is meant for the service it will be stored for.
PasswordInv ==
  /\ PolicyTypes
  /\ PasswordStaysHome
  /\ policy.service # None => policy.form.typed \in {None, policy.service}
  /\ policyJob.stage = "sent" =>
       policyJob.service # None /\ policyJob.body.typed \in {None, policyJob.service}

LEMMA EmptyPolicyType == EmptyPolicy \in Policies /\ EmptyPolicy \in Updates /\ EmptyPolicy.typed = None
  BY DEF EmptyPolicy, Policies, Updates, Modes

LEMMA PasswordStart == Init => PasswordInv
<1> SUFFICES ASSUME Init PROVE PasswordInv
  OBVIOUS
<1>1. conf = [s \in Services |->
               [mode |-> "detect", plugins |-> IF s \in Outdated THEN Plugins ELSE Installed,
                reply |-> "builtin", password |-> "none"]]
      /\ policy = NoPolicy /\ policyJob = NoPolicyJob
  BY DEF Init, ServicesInit
<1>2. conf \in [Services -> Settings] /\ PasswordStaysHome
  BY <1>1, ServicesAssumption DEF Settings, Modes, PasswordStaysHome
<1>3. PolicyTypes
  BY <1>1, <1>2, EmptyPolicyType DEF PolicyTypes, NoPolicy, NoPolicyJob
<1> QED BY <1>1, <1>2, <1>3 DEF PasswordInv, NoPolicy, NoPolicyJob

LEMMA FormType ==
  ASSUME PasswordInv, NEW s \in Services PROVE Form(s) \in Policies /\ Form(s).typed = None
<1>1. conf[s] \in Settings BY DEF PasswordInv, PolicyTypes
<1>2. (conf[s].password # "none") \in BOOLEAN OBVIOUS
<1> QED BY <1>1, <1>2 DEF Settings, Policies, Form, Modes

\* A change of the form that types no password for another service.
LEMMA ChangeKeepsPassword ==
  ASSUME PasswordInv, NEW f \in Policies, f.typed \in {policy.form.typed, policy.service}, Change(f)
  PROVE  PasswordInv'
<1>1. policy' = [policy EXCEPT !.form = f] /\ UNCHANGED <<conf, policyJob>> /\ policy.service # None
  BY DEF Change, Editable
<1>2. policy'.service = policy.service /\ policy'.form = f /\ policy'.base = policy.base
  BY <1>1 DEF PasswordInv, PolicyTypes
<1>3. PolicyTypes' BY <1>1 DEF PasswordInv, PolicyTypes
<1> QED BY <1>1, <1>2, <1>3 DEF PasswordInv, PasswordStaysHome

LEMMA PasswordStep == ASSUME PasswordInv, ServicesNext PROVE PasswordInv'
<1> DEFINE form0 == policy.form
<1>0. form0 \in Policies /\ policy.service \in Services \cup {None}
  BY DEF PasswordInv, PolicyTypes
<1>1. ASSUME NEW s \in Services, OpenPolicy(s) PROVE PasswordInv'
  <2>1. policy' = [service |-> s, base |-> Form(s), form |-> Form(s)] /\ UNCHANGED <<conf, policyJob>>
    BY <1>1 DEF OpenPolicy, Refill
  <2> QED BY <2>1, FormType DEF PasswordInv, PolicyTypes, PasswordStaysHome
<1>2. ASSUME NEW s \in Services, NEW r \in {"builtin", "own"}, OthersPatch(s, r) PROVE PasswordInv'
  <2>1. conf' = [conf EXCEPT ![s] = [conf[s] EXCEPT !.reply = r, !.password = s]]
        /\ UNCHANGED <<policy, policyJob>>
    BY <1>2 DEF OthersPatch
  <2> DEFINE new == [mode |-> conf[s].mode, plugins |-> conf[s].plugins, reply |-> r, password |-> s]
  <2>2. conf[s] \in Settings BY DEF PasswordInv, PolicyTypes
  <2>3. [conf[s] EXCEPT !.reply = r, !.password = s] = new
    <3>1. PICK c \in Settings : c = conf[s] BY <2>2
    <3>2. [c EXCEPT !.reply = r, !.password = s]
            = [mode |-> c.mode, plugins |-> c.plugins, reply |-> r, password |-> s]
      <4>1. PICK d : d = [c EXCEPT !.reply = r] OBVIOUS
      <4>2. d = [mode |-> c.mode, plugins |-> c.plugins, reply |-> r, password |-> c.password]
        BY <4>1 DEF Settings
      <4>3. [d EXCEPT !.password = s] = [mode |-> c.mode, plugins |-> c.plugins, reply |-> r, password |-> s]
        BY <4>2
      <4> QED BY <4>1, <4>3
    <3> QED BY <3>1, <3>2
  <2>4. new \in Settings /\ new.password = s BY <2>2 DEF Settings
  <2> HIDE DEF new
  <2>5. conf' \in [Services -> Settings] /\ \A x \in Services : conf'[x] = IF x = s THEN new ELSE conf[x]
    BY <2>1, <2>3, <2>4 DEF PasswordInv, PolicyTypes
  <2> QED BY <2>1, <2>4, <2>5 DEF PasswordInv, PolicyTypes, PasswordStaysHome
<1>3. ASSUME NEW m \in Modes, ChooseMode(m) PROVE PasswordInv'
  <2>1. [form0 EXCEPT !.mode = m] \in Policies /\ [form0 EXCEPT !.mode = m].typed = form0.typed
    BY <1>0 DEF Policies
  <2> QED BY <1>3, <2>1, ChangeKeepsPassword DEF ChooseMode
<1>4. ASSUME NEW p \in Plugins, TogglePlugin(p) PROVE PasswordInv'
  <2> DEFINE ps == IF p \in form0.plugins THEN form0.plugins \ {p} ELSE form0.plugins \cup {p}
  <2>1. ps \in SUBSET Plugins BY <1>0 DEF Policies
  <2>2. Change([form0 EXCEPT !.plugins = ps]) BY <1>4 DEF TogglePlugin
  <2> HIDE DEF ps
  <2>3. [form0 EXCEPT !.plugins = ps] \in Policies /\ [form0 EXCEPT !.plugins = ps].typed = form0.typed
    BY <1>0, <2>1 DEF Policies
  <2> QED BY <2>2, <2>3, ChangeKeepsPassword
<1>5. ASSUME NEW r \in {"builtin", "own"}, TypeReply(r) PROVE PasswordInv'
  <2>1. [form0 EXCEPT !.reply = r] \in Policies /\ [form0 EXCEPT !.reply = r].typed = form0.typed
    BY <1>0 DEF Policies
  <2> QED BY <1>5, <2>1, ChangeKeepsPassword DEF TypeReply
<1>6. CASE TypePassword
  <2>1. [form0 EXCEPT !.typed = policy.service] \in Policies
        /\ [form0 EXCEPT !.typed = policy.service].typed = policy.service
    BY <1>0 DEF Policies
  <2> QED BY <1>6, <2>1, ChangeKeepsPassword DEF TypePassword
<1>7. CASE ClearPassword
  <2>1. [form0 EXCEPT !.clear = ~form0.clear] \in Policies
        /\ [form0 EXCEPT !.clear = ~form0.clear].typed = form0.typed
    BY <1>0 DEF Policies
  <2> QED BY <1>7, <2>1, ChangeKeepsPassword DEF ClearPassword
<1>8. CASE ClosePolicy
  <2>1. policy' = [policy EXCEPT !.service = None] /\ UNCHANGED <<conf, policyJob>>
    BY <1>8 DEF ClosePolicy
  <2> QED BY <2>1 DEF PasswordInv, PolicyTypes, PasswordStaysHome
<1>9. CASE SavePolicy
  <2> DEFINE sent == [form0 EXCEPT !.reply = IF form0.reply = policy.base.reply THEN None ELSE form0.reply]
  <2>1. policyJob' = [stage |-> "sent", service |-> policy.service, heard |-> TRUE, body |-> sent]
        /\ UNCHANGED <<conf, policy>> /\ policy.service # None
    BY <1>9 DEF SavePolicy, Editable
  <2>2. sent \in Updates /\ sent.typed = form0.typed BY <1>0 DEF Policies, Updates
  <2> HIDE DEF sent
  <2> QED BY <1>0, <2>1, <2>2 DEF PasswordInv, PolicyTypes, PasswordStaysHome
<1>10. CASE ServePolicy
  <2>1. policyJob.stage = "sent" /\ UNCHANGED policy BY <1>10 DEF ServePolicy
  <2>2. CASE policyJob' = [policyJob EXCEPT !.stage = "failed"] /\ UNCHANGED conf
    BY <2>1, <2>2 DEF PasswordInv, PolicyTypes, PasswordStaysHome
  <2>3. CASE /\ conf' = [conf EXCEPT ![policyJob.service] = Patched(@, policyJob.body)]
             /\ policyJob' = [policyJob EXCEPT !.stage = "ok"]
    <3> DEFINE t == policyJob.service
               new == Patched(conf[t], policyJob.body)
    <3>1. t \in Services /\ conf[t] \in Settings /\ conf[t].password \in {"none", t}
          /\ policyJob.body \in Updates /\ policyJob.body.typed \in {None, t}
      BY <2>1 DEF PasswordInv, PolicyTypes, PasswordStaysHome
    <3>2. new \in Settings /\ new.password \in {"none", t}
      BY <3>1 DEF Settings, Updates, Patched, Or
    <3>3. conf' = [conf EXCEPT ![t] = new] BY <2>3
    <3> HIDE DEF new, t
    <3>4. conf' \in [Services -> Settings] /\ \A x \in Services : conf'[x] = IF x = t THEN new ELSE conf[x]
      BY <3>1, <3>2, <3>3 DEF PasswordInv, PolicyTypes
    <3>5. PasswordStaysHome' BY <3>2, <3>4 DEF PasswordInv, PasswordStaysHome
    <3> QED BY <2>1, <2>3, <3>4, <3>5 DEF PasswordInv, PolicyTypes
  <2> QED BY <1>10, <2>2, <2>3 DEF ServePolicy
<1>11. CASE PolicyAnswered
  <2>1. policyJob' = NoPolicyJob /\ UNCHANGED conf
        /\ (policy' = [policy EXCEPT !.service = None] \/ UNCHANGED policy)
    BY <1>11 DEF PolicyAnswered
  <2>2. policyJob' \in [stage : {"none", "sent", "ok", "failed"}, service : Services \cup {None},
                        body : Updates, heard : BOOLEAN] /\ policyJob'.stage = "none"
    BY <2>1, EmptyPolicyType DEF NoPolicyJob
  <2> QED BY <2>1, <2>2 DEF PasswordInv, PolicyTypes, PasswordStaysHome
<1> QED BY <1>1, <1>2, <1>3, <1>4, <1>5, <1>6, <1>7, <1>8, <1>9, <1>10, <1>11 DEF ServicesNext

\* A password typed for one service is never stored for another.
THEOREM PasswordsStayHome == Spec => []PasswordStaysHome
<1>1. ASSUME PasswordInv, [Next]_vars PROVE PasswordInv'
  <2>1. CASE UNCHANGED services
    BY <1>1, <2>1 DEF PasswordInv, PolicyTypes, PasswordStaysHome, services
  <2>2. ASSUME NEW p, ServicesLeft(p), UNCHANGED conf PROVE PasswordInv'
    <3>1. UNCHANGED <<policy, policyJob>>
          \/ (policy' = NoPolicy /\ policyJob' = [policyJob EXCEPT !.heard = FALSE])
      BY <2>2 DEF ServicesLeft
    <3>2. NoPolicy \in [service : Services \cup {None}, base : Policies, form : Policies]
          /\ NoPolicy.service = None
      BY EmptyPolicyType DEF NoPolicy
    <3> QED BY <1>1, <2>2, <3>1, <3>2 DEF PasswordInv, PolicyTypes, PasswordStaysHome
  <2> QED BY <1>1, <2>1, <2>2, ServicesSteps, PasswordStep
<1>2. PasswordInv => PasswordStaysHome BY DEF PasswordInv
<1> QED BY PasswordStart, <1>1, <1>2, PTL DEF Spec

-----------------------------------------------------------------------------
(* The keys of the assistant's models.                                     *)

LEMMA ProfilesSteps ==
  ASSUME [Next]_vars
  PROVE  ProfilesNext \/ (UNCHANGED profile /\ \E p : ProfilesLeft(p)) \/ AiSaved \/ UNCHANGED profiles
  BY DEF Next, Navigate, Palette, Draft, AiStepSaved, vars, profiles

IsCall(j) ==
  j = [op |-> j.op, stage |-> j.stage, draft |-> j.draft, key |-> j.key,
       heard |-> j.heard, wizard |-> j.wizard]

\* The stored keys and the one a test sends are entered for where they are.
KeyInv ==
  /\ profile = [p \in Profiles |-> profile[p]]
  /\ IsCall(aiJob)
  /\ KeyGoesHome

LEMMA KeyStart == Init => KeyInv
<1> SUFFICES ASSUME Init PROVE KeyInv
  OBVIOUS
<1>1. PICK x : x \in Profiles /\ profile = [NoProfiles EXCEPT ![x] = [at |-> Remote, key |-> Remote]]
  BY ProfilesAssumption DEF Init, ProfilesInit
<1>2. aiJob = NoAiJob BY DEF Init, ProfilesInit
<1>3. \A p \in Profiles : profile[p] = IF p = x THEN [at |-> Remote, key |-> Remote] ELSE None
  BY <1>1 DEF NoProfiles
<1>4. profile = [p \in Profiles |-> profile[p]] BY <1>1 DEF NoProfiles
<1>5. IsCall(aiJob) /\ aiJob.stage = "none" BY <1>2 DEF NoAiJob, IsCall
<1> QED BY <1>3, <1>4, <1>5 DEF KeyInv, KeyGoesHome

\* What the API may do with the key of a form: keep it, or take the one typed.
LEMMA KeyOfForm ==
  ASSUME NEW d, d.id # None => profile[d.id] # None, d.id \in Profiles \cup {None}, KeyInv,
         d.id # None /\ ~d.typed => KeepsKey(d)
  PROVE  KeyOf(d) \in {None, d.at}
<1>1. CASE d.typed BY <1>1 DEF KeyOf
<1>2. CASE ~d.typed /\ KeepsKey(d) BY <1>2 DEF KeyOf, KeepsKey, KeyInv, KeyGoesHome
<1>3. CASE ~d.typed /\ ~KeepsKey(d) BY <1>3 DEF KeyOf
<1> QED BY <1>1, <1>2, <1>3

LEMMA StoredKeepsKeys ==
  ASSUME KeyInv, NEW p, NEW d, KeyOf(d) \in {None, d.at}, profile' = Stored(p, d),
         IsCall(aiJob'), aiJob'.stage # "probing"
  PROVE  KeyInv'
<1>1. profile' = [profile EXCEPT ![p] = [at |-> d.at, key |-> KeyOf(d)]] BY DEF Stored
<1>2. profile' = [x \in Profiles |-> profile'[x]]
      /\ \A x \in Profiles : profile'[x] \in {profile[x], [at |-> d.at, key |-> KeyOf(d)]}
  BY <1>1 DEF KeyInv
<1>3. ASSUME NEW x \in Profiles, profile'[x] # None PROVE profile'[x].key \in {None, profile'[x].at}
  <2>1. CASE profile'[x] = profile[x] BY <1>3, <2>1 DEF KeyInv, KeyGoesHome
  <2>2. CASE profile'[x] = [at |-> d.at, key |-> KeyOf(d)] BY <2>2
  <2> QED BY <1>2, <2>1, <2>2
<1> QED BY <1>2, <1>3 DEF KeyInv, KeyGoesHome

\* The same profiles, and no test under way that was not.
LEMMA SameProfiles ==
  ASSUME KeyInv, UNCHANGED profile, IsCall(aiJob'), aiJob'.stage # "probing"
  PROVE  KeyInv'
  BY DEF KeyInv, KeyGoesHome

LEMMA CallStage ==
  ASSUME KeyInv, NEW stage, AiStage(stage)
  PROVE  IsCall(aiJob') /\ aiJob'.stage = stage /\ aiJob'.draft = aiJob.draft /\ aiJob'.key = aiJob.key
  BY DEF KeyInv, IsCall, AiStage

LEMMA NoCallIsCall == IsCall(NoAiJob) /\ NoAiJob.stage = "none"
  BY DEF IsCall, NoAiJob

\* What the updates of a call change and leave.
ProbedWith(j, k) == [j EXCEPT !.stage = "probing", !.key = k]
AnsweredAs(j, p) == [j EXCEPT !.stage = "answered", !.draft.id = p]
HeardOf(j, h, w) == [j EXCEPT !.heard = h, !.wizard = w]

LEMMA ProbedIsCall ==
  ASSUME NEW j, IsCall(j), NEW y
  PROVE  /\ IsCall(ProbedWith(j, y)) /\ ProbedWith(j, y).stage = "probing"
         /\ ProbedWith(j, y).key = y /\ ProbedWith(j, y).draft = j.draft
<1>1. PICK o, s, d, k, h, w :
        j = [op |-> o, stage |-> s, draft |-> d, key |-> k, heard |-> h, wizard |-> w]
  BY DEF IsCall
<1>2. PICK a : a = [j EXCEPT !.stage = "probing"] OBVIOUS
<1>3. a = [op |-> o, stage |-> "probing", draft |-> d, key |-> k, heard |-> h, wizard |-> w]
  BY <1>1, <1>2
<1>4. [a EXCEPT !.key = y]
        = [op |-> o, stage |-> "probing", draft |-> d, key |-> y, heard |-> h, wizard |-> w]
  BY <1>3
<1>5. ProbedWith(j, y) = [a EXCEPT !.key = y] BY <1>2 DEF ProbedWith
<1> QED BY <1>1, <1>4, <1>5 DEF IsCall

LEMMA AnsweredIsCall ==
  ASSUME NEW j, IsCall(j), NEW y
  PROVE  /\ IsCall(AnsweredAs(j, y)) /\ AnsweredAs(j, y).stage = "answered"
         /\ AnsweredAs(j, y).draft = [j.draft EXCEPT !.id = y]
<1>1. PICK o, s, d, k, h, w :
        j = [op |-> o, stage |-> s, draft |-> d, key |-> k, heard |-> h, wizard |-> w]
  BY DEF IsCall
<1>2. PICK a : a = [j EXCEPT !.stage = "answered"] OBVIOUS
<1>3. a = [op |-> o, stage |-> "answered", draft |-> d, key |-> k, heard |-> h, wizard |-> w]
  BY <1>1, <1>2
<1>4. [a EXCEPT !.draft.id = y] = [op |-> o, stage |-> "answered", draft |-> [d EXCEPT !.id = y],
                                   key |-> k, heard |-> h, wizard |-> w]
  BY <1>3
<1>5. AnsweredAs(j, y) = [a EXCEPT !.draft.id = y] BY <1>2 DEF AnsweredAs
<1> QED BY <1>1, <1>4, <1>5 DEF IsCall

LEMMA HeardIsCall ==
  ASSUME NEW j, IsCall(j), NEW x, NEW y
  PROVE  /\ IsCall(HeardOf(j, x, y)) /\ HeardOf(j, x, y).stage = j.stage
         /\ HeardOf(j, x, y).key = j.key /\ HeardOf(j, x, y).draft = j.draft
<1>1. PICK o, s, d, k, h, w :
        j = [op |-> o, stage |-> s, draft |-> d, key |-> k, heard |-> h, wizard |-> w]
  BY DEF IsCall
<1>2. PICK a : a = [j EXCEPT !.heard = x] OBVIOUS
<1>3. a = [op |-> o, stage |-> s, draft |-> d, key |-> k, heard |-> x, wizard |-> w]
  BY <1>1, <1>2
<1>4. [a EXCEPT !.wizard = y] = [op |-> o, stage |-> s, draft |-> d, key |-> k, heard |-> x, wizard |-> y]
  BY <1>3
<1>5. HeardOf(j, x, y) = [a EXCEPT !.wizard = y] BY <1>2 DEF HeardOf
<1> QED BY <1>1, <1>4, <1>5 DEF IsCall

\* The profile a form is about is one there may be.
IsForm(d) ==
  d = [id |-> d.id, at |-> d.at, typed |-> d.typed, has |-> d.has] /\ d.id \in Profiles \cup {None}

FormInv ==
  /\ IsForm(draft) /\ IsForm(aiJob.draft)
  /\ dropping \in Profiles \cup {None}

LEMMA BlankIsForm == IsForm(Blank)
  BY DEF IsForm, Blank

LEMMA FormStart == Init => FormInv
  BY BlankIsForm DEF Init, ProfilesInit, FormInv, NoAiJob

\* Another form for the same profile.
LEMMA ChangedForm ==
  ASSUME NEW d, IsForm(d), NEW e, NEW t, NEW h
  PROVE  /\ IsForm([d EXCEPT !.at = e]) /\ IsForm([d EXCEPT !.typed = t])
         /\ IsForm([d EXCEPT !.at = e, !.typed = t, !.has = h])
<1>1. PICK i, a, y, b : d = [id |-> i, at |-> a, typed |-> y, has |-> b]
  BY DEF IsForm
<1>2. i \in Profiles \cup {None} BY <1>1 DEF IsForm
<1>3. [d EXCEPT !.at = e] = [id |-> i, at |-> e, typed |-> y, has |-> b]
  BY <1>1
<1>4. [d EXCEPT !.typed = t] = [id |-> i, at |-> a, typed |-> t, has |-> b]
  BY <1>1
<1>5. [d EXCEPT !.at = e, !.typed = t, !.has = h] = [id |-> i, at |-> e, typed |-> t, has |-> h]
  <2>1. PICK x : x = [d EXCEPT !.at = e] OBVIOUS
  <2>2. PICK z : z = [x EXCEPT !.typed = t] OBVIOUS
  <2>3. z = [id |-> i, at |-> e, typed |-> t, has |-> b] BY <1>3, <2>1, <2>2
  <2>4. [z EXCEPT !.has = h] = [id |-> i, at |-> e, typed |-> t, has |-> h] BY <2>3
  <2> QED BY <2>1, <2>2, <2>4
<1> QED BY <1>2, <1>3, <1>4, <1>5 DEF IsForm

LEMMA FormStep == ASSUME KeyInv, FormInv, ProfilesNext PROVE FormInv'
<1>1. CASE LoadProfiles
  BY <1>1, BlankIsForm DEF LoadProfiles, aiCard, FormInv
<1>2. CASE TypeKey
  <2>1. draft' = [draft EXCEPT !.typed = TRUE] /\ UNCHANGED <<aiJob, dropping>> BY <1>2 DEF TypeKey
  <2> QED BY <2>1, ChangedForm DEF FormInv
<1>3. CASE NewProfile
  <2>1. draft' = [Blank EXCEPT !.at = Local] /\ UNCHANGED <<aiJob, dropping>> BY <1>3 DEF NewProfile
  <2> QED BY <2>1, BlankIsForm, ChangedForm DEF FormInv
<1>4. CASE TestProfile \/ SaveProfile
  BY <1>4 DEF TestProfile, SaveProfile, Send, aiCard, FormInv
<1>5. CASE DropProfile
  <2> DEFINE at == IF draft.id = None THEN draft.at ELSE None
  <2>1. aiJob'.draft = [id |-> dropping, at |-> at, typed |-> FALSE, has |-> FALSE]
        /\ UNCHANGED <<draft, dropping>>
    BY <1>5 DEF DropProfile, Send, aiCard
  <2> HIDE DEF at
  <2> QED BY <2>1 DEF FormInv, IsForm
<1>6. CASE KeepProfile
  BY <1>6 DEF KeepProfile, FormInv
<1>7. ASSUME NEW e \in At, ChooseProvider(e) PROVE FormInv'
  <2>1. draft' = [draft EXCEPT !.at = e, !.typed = FALSE, !.has = FALSE] /\ UNCHANGED <<aiJob, dropping>>
    BY <1>7 DEF ChooseProvider
  <2> QED BY <2>1, ChangedForm DEF FormInv
<1>8. ASSUME NEW e \in At, TypeUrl(e) PROVE FormInv'
  <2>1. draft' = [draft EXCEPT !.at = e] /\ UNCHANGED <<aiJob, dropping>> BY <1>8 DEF TypeUrl
  <2> QED BY <2>1, ChangedForm DEF FormInv
<1>9. ASSUME NEW p \in Profiles, EditProfile(p) PROVE FormInv'
  BY <1>9 DEF EditProfile, FormOf, FormInv, IsForm
<1>10. ASSUME NEW p \in Profiles, AskDrop(p) PROVE FormInv'
  BY <1>10 DEF AskDrop, FormInv
<1>11. ASSUME NEW p \in Profiles, OthersProfile(p) PROVE FormInv'
  BY <1>11 DEF OthersProfile, aiCard, FormInv
<1>12. CASE ProfilesApi
  <2>1. UNCHANGED <<draft, dropping>> BY <1>12 DEF ProfilesApi, aiCard
  <2>2. ASSUME NEW stage, AiStage(stage) PROVE FormInv'
    BY <2>1, <2>2, CallStage DEF FormInv
  <2>3. CASE ServeSaveProfile
    <3>1. ASSUME NEW p \in Profiles, aiJob' = [aiJob EXCEPT !.stage = "answered", !.draft.id = p]
          PROVE  FormInv'
      <4>0. aiJob' = AnsweredAs(aiJob, p) BY <3>1 DEF AnsweredAs
      <4>1. aiJob'.draft = [aiJob.draft EXCEPT !.id = p] BY <4>0, AnsweredIsCall DEF KeyInv
      <4>2. IsForm([aiJob.draft EXCEPT !.id = p]) BY DEF FormInv, IsForm
      <4> QED BY <2>1, <4>1, <4>2 DEF FormInv
    <3>2. ASSUME aiJob.draft.id # None PROVE aiJob.draft.id \in Profiles BY <3>2 DEF FormInv, IsForm
    <3> QED BY <2>2, <2>3, <3>1, <3>2 DEF ServeSaveProfile, Refuse
  <2>4. CASE ServeTest
    <3>1. ASSUME NEW k, aiJob' = [aiJob EXCEPT !.stage = "probing", !.key = k] PROVE FormInv'
      <4>0. aiJob' = ProbedWith(aiJob, k) BY <3>1 DEF ProbedWith
      <4>1. aiJob'.draft = aiJob.draft BY <4>0, ProbedIsCall DEF KeyInv
      <4> QED BY <2>1, <4>1 DEF FormInv
    <3> QED BY <2>2, <2>4, <3>1 DEF ServeTest, Refuse
  <2>5. CASE ServeProbe \/ ServeDrop
    BY <2>2, <2>5 DEF ServeProbe, ServeDrop, Refuse
  <2> QED BY <1>12, <2>3, <2>4, <2>5 DEF ProfilesApi
<1>13. CASE ProfilesListed
  <2>1. aiJob' = NoAiJob BY <1>13 DEF ProfilesListed
  <2>2. UNCHANGED dropping BY <1>13 DEF ProfilesListed, aiCard
  <2>3. IsForm(draft')
    <3>1. IsForm(draft) /\ IsForm(aiJob.draft) BY DEF FormInv
    <3>2. \A q : IsForm(FormOf(aiJob.draft.id, q)) BY <3>1 DEF IsForm, FormOf
    <3>3. \A e : IsForm([draft EXCEPT !.at = e]) BY <3>1, ChangedForm
    <3>4. \/ draft' = draft
          \/ \E e : draft' = [draft EXCEPT !.at = e]
          \/ draft' = FormOf(aiJob.draft.id, profile[aiJob.draft.id])
      BY <1>13 DEF ProfilesListed, aiCard
    <3> QED BY <3>1, <3>2, <3>3, <3>4
  <2> QED BY <2>1, <2>2, <2>3, BlankIsForm DEF FormInv, NoAiJob
<1>14. CASE ProfileAnswered
  <2>1. AiStage("list") \/ aiJob' = NoAiJob BY <1>14 DEF ProfileAnswered
  <2>2. IsForm(aiJob'.draft) BY <2>1, CallStage, BlankIsForm DEF FormInv, NoAiJob
  <2>3. draft' \in {draft, Blank} /\ dropping' \in {dropping, None} BY <1>14 DEF ProfileAnswered
  <2> QED BY <2>2, <2>3, BlankIsForm DEF FormInv
<1> QED BY <1>1, <1>2, <1>3, <1>4, <1>5, <1>6, <1>7, <1>8, <1>9, <1>10, <1>11, <1>12, <1>13, <1>14
        DEF ProfilesNext

LEMMA KeyStep == ASSUME KeyInv, FormInv, ProfilesNext PROVE KeyInv'
<1>0. IsCall(aiJob) BY DEF KeyInv
<1>1. CASE LoadProfiles \/ TestProfile \/ SaveProfile \/ DropProfile
  <2>1. UNCHANGED profile /\ IsCall(aiJob') /\ aiJob'.stage # "probing"
    BY <1>1 DEF LoadProfiles, TestProfile, SaveProfile, DropProfile, Send, IsCall
  <2> QED BY <2>1, SameProfiles
<1>2. CASE TypeKey \/ NewProfile \/ KeepProfile
  BY <1>2 DEF TypeKey, NewProfile, KeepProfile, KeyInv, KeyGoesHome
<1>3. ASSUME NEW e \in At, ChooseProvider(e) \/ TypeUrl(e) PROVE KeyInv'
  BY <1>3 DEF ChooseProvider, TypeUrl, KeyInv, KeyGoesHome
<1>4. ASSUME NEW p \in Profiles, EditProfile(p) \/ AskDrop(p) PROVE KeyInv'
  BY <1>4 DEF EditProfile, AskDrop, KeyInv, KeyGoesHome
<1>5. ASSUME NEW p \in Profiles, OthersProfile(p) PROVE KeyInv'
  <2>1. UNCHANGED aiJob BY <1>5 DEF OthersProfile
  <2>2. CASE profile' = [profile EXCEPT ![p] = None]
    BY <2>1, <2>2 DEF KeyInv, KeyGoesHome
  <2>3. ASSUME NEW e \in At,
               profile' = Stored(p, [id |-> IF profile[p] = None THEN None ELSE p,
                                     at |-> e, typed |-> TRUE, has |-> FALSE])
        PROVE  KeyInv'
    <3>1. profile' = [profile EXCEPT ![p] = [at |-> e, key |-> e]] BY <2>3 DEF Stored, KeyOf
    <3> QED BY <2>1, <3>1 DEF KeyInv, KeyGoesHome
  <2> QED BY <1>5, <2>2, <2>3 DEF OthersProfile
<1>6. CASE ServeSaveProfile
  <2>1. CASE Refuse
    BY <2>1, CallStage, SameProfiles DEF Refuse
  <2>2. ASSUME NEW p, Accepted(aiJob.draft), profile' = Stored(p, aiJob.draft),
               aiJob' = [aiJob EXCEPT !.stage = "answered", !.draft.id = p]
        PROVE  KeyInv'
    <3>1. KeyOf(aiJob.draft) \in {None, aiJob.draft.at}
      BY <2>2, KeyOfForm DEF Accepted, FormInv, IsForm
    <3>0. aiJob' = AnsweredAs(aiJob, p) BY <2>2 DEF AnsweredAs
    <3>2. IsCall(aiJob') /\ aiJob'.stage # "probing" BY <1>0, <3>0, AnsweredIsCall
    <3> QED BY <2>2, <3>1, <3>2, StoredKeepsKeys
  <2> QED BY <1>6, <2>1, <2>2 DEF ServeSaveProfile
<1>7. CASE ServeTest
  <2>1. CASE Refuse
    BY <2>1, CallStage, SameProfiles DEF Refuse
  <2>2. CASE /\ Accepted(aiJob.draft) /\ UNCHANGED profile
             /\ aiJob' = [aiJob EXCEPT !.stage = "probing", !.key = KeyOf(aiJob.draft)]
    <3>1. KeyOf(aiJob.draft) \in {None, aiJob.draft.at}
      BY <2>2, KeyOfForm DEF Accepted, FormInv, IsForm
    <3>0. aiJob' = ProbedWith(aiJob, KeyOf(aiJob.draft)) BY <2>2 DEF ProbedWith
    <3>2. IsCall(aiJob') /\ aiJob'.key = KeyOf(aiJob.draft) /\ aiJob'.draft = aiJob.draft
      BY <1>0, <3>0, ProbedIsCall
    <3> QED BY <2>2, <3>1, <3>2 DEF KeyInv, KeyGoesHome
  <2> QED BY <1>7, <2>1, <2>2 DEF ServeTest
<1>8. CASE ServeProbe
  BY <1>8, CallStage, SameProfiles DEF ServeProbe
<1>9. CASE ServeDrop
  <2>1. CASE Refuse
    BY <2>1, CallStage, SameProfiles DEF Refuse
  <2>2. CASE profile' = [profile EXCEPT ![aiJob.draft.id] = None] /\ AiStage("answered")
    <3>1. IsCall(aiJob') /\ aiJob'.stage = "answered" BY <2>2, CallStage
    <3> QED BY <2>2, <3>1 DEF KeyInv, KeyGoesHome
  <2> QED BY <1>9, <2>1, <2>2 DEF ServeDrop
<1>10. CASE ProfilesListed \/ ProfileAnswered
  <2>1. UNCHANGED profile /\ (AiStage("list") \/ aiJob' = NoAiJob)
    BY <1>10 DEF ProfilesListed, ProfileAnswered
  <2> QED BY <2>1, CallStage, NoCallIsCall, SameProfiles
<1> QED BY <1>1, <1>2, <1>3, <1>4, <1>5, <1>6, <1>7, <1>8, <1>9, <1>10 DEF ProfilesNext, ProfilesApi

\* A key is stored with, and sent to, the endpoint it was entered for.
THEOREM KeysGoHome == Spec => []KeyGoesHome
<1>1. ASSUME KeyInv, FormInv, [Next]_vars PROVE KeyInv' /\ FormInv'
  <2>1. CASE UNCHANGED profiles
    BY <1>1, <2>1 DEF profiles, KeyInv, FormInv, KeyGoesHome
  <2>2. ASSUME NEW p, ProfilesLeft(p), UNCHANGED profile PROVE KeyInv' /\ FormInv'
    <3>0. aiJob' = aiJob \/ \E w : aiJob' = HeardOf(aiJob, FALSE, w)
      BY <2>2 DEF ProfilesLeft, HeardOf
    <3>1. IsCall(aiJob') /\ aiJob'.stage = aiJob.stage /\ aiJob'.draft = aiJob.draft /\ aiJob'.key = aiJob.key
      <4>1. CASE aiJob' = aiJob BY <1>1, <4>1 DEF KeyInv
      <4>2. ASSUME NEW w, aiJob' = HeardOf(aiJob, FALSE, w)
            PROVE  /\ IsCall(aiJob') /\ aiJob'.stage = aiJob.stage
                   /\ aiJob'.draft = aiJob.draft /\ aiJob'.key = aiJob.key
        <5>1. IsCall(aiJob) BY <1>1 DEF KeyInv
        <5> QED BY <4>2, <5>1, HeardIsCall
      <4> QED BY <3>0, <4>1, <4>2
    <3>2. UNCHANGED <<draft, dropping>> \/ (draft' = Blank /\ dropping' = None)
      BY <2>2 DEF ProfilesLeft, AiFormLeft, aiCard
    <3>3. FormInv' BY <1>1, <3>1, <3>2, BlankIsForm DEF FormInv
    <3> QED BY <1>1, <2>2, <3>1, <3>3 DEF KeyInv, KeyGoesHome
  <2>3. CASE AiSaved
    <3>1. UNCHANGED profile /\ aiJob' = NoAiJob BY <2>3 DEF AiSaved
    <3>2. UNCHANGED <<draft, dropping>> \/ (draft' = Blank /\ dropping' = None)
      BY <2>3 DEF AiSaved, AiFormLeft, aiCard
    <3>3. FormInv' BY <1>1, <3>1, <3>2, BlankIsForm DEF FormInv, NoAiJob
    <3> QED BY <1>1, <3>1, <3>3, NoCallIsCall, SameProfiles
  <2> QED BY <1>1, <2>1, <2>2, <2>3, ProfilesSteps, KeyStep, FormStep
<1>2. KeyInv => KeyGoesHome BY DEF KeyInv
<1> QED BY KeyStart, FormStart, <1>1, <1>2, PTL DEF Spec

-----------------------------------------------------------------------------
(* The Kong targets.                                                       *)

LEMMA TargetsSteps ==
  ASSUME [Next]_vars
  PROVE  TargetsNext \/ (UNCHANGED <<saved, active>> /\ \E p : TargetsLeft(p)) \/ UNCHANGED targets
  BY DEF Next, Navigate, Palette, Draft, AiStepSaved, vars, targets

\* What a call may hold: a target that there may be, a text that can be sent, for an
\* activation the target in the list it read, and for a list the active one in it.
JobOK(q) ==
  /\ q = [op |-> q.op, stage |-> q.stage, id |-> q.id, text |-> q.text, snap |-> q.snap, heard |-> q.heard]
  /\ q.id \in Targets \cup {None}
  /\ q.op \in {"save", "test"} => q.text \in Texts
  /\ q.op \in {"activate", "check"} /\ q.stage = "sent" => q.id \in Targets
  /\ q.op # "test" /\ q.stage = "probing" =>
       q.snap \in Records /\ q.id \in Targets /\ q.snap[q.id] = q.text /\ q.text # None
  /\ q.stage = "listed" =>
       q.snap.saved \in Records /\ q.snap.active \in Targets /\ q.snap.saved[q.snap.active] # None

JobsInv == job = [j \in Jobs |-> job[j]] /\ \A j \in Jobs : JobOK(job[j])

CardInv ==
  /\ rows.saved \in Records
  /\ form = [id |-> form.id, text |-> form.text]
  /\ form.id \in Targets \cup {None} /\ form.text \in Texts \cup {Invalid}
  /\ removing \in Targets \cup {None}

SavedInv == saved \in Records /\ active \in Targets /\ ActiveIsSaved

LEMMA NoJobOK == JobOK(NoJob)
  BY DEF JobOK, NoJob

LEMMA NoCards == NoRows.saved \in Records /\ NoForm = [id |-> None, text |-> Invalid]
  BY DEF NoRows, Records, NoForm

LEMMA TargetsStart == Init => JobsInv /\ CardInv /\ SavedInv
<1> SUFFICES ASSUME Init PROVE JobsInv /\ CardInv /\ SavedInv
  OBVIOUS
<1>1. job = [j \in Jobs |-> NoJob] /\ rows = NoRows /\ form = NoForm /\ removing = None
  BY DEF Init, TargetsInit
<1>2. JobsInv BY <1>1, NoJobOK DEF JobsInv
<1>3. CardInv BY <1>1, NoCards DEF CardInv
<1>4. saved \in [Targets -> Texts] /\ active \in Targets
  <2> DEFINE s0 == CHOOSE s \in [Targets -> Texts] : \A k, l \in Targets : s[k] = s[l] => k = l
             k0 == CHOOSE k \in Targets : TRUE
  <2>1. saved = s0 /\ active = k0 BY DEF Init, TargetsInit
  <2>2. s0 \in [Targets -> Texts] BY TargetsAssumption, Zenon
  <2>3. k0 \in Targets BY TargetsAssumption, Zenon
  <2> HIDE DEF s0, k0
  <2> QED BY <2>1, <2>2, <2>3
<1>5. SavedInv BY <1>4, TargetsAssumption DEF SavedInv, Records, ActiveIsSaved
<1> QED BY <1>2, <1>3, <1>5

\* The updates of a call.
LEMMA StagedOK ==
  ASSUME NEW q, JobOK(q), NEW stage,
         stage \in {"answered", "failed", "list"} \/ (stage = "probing" /\ q.op = "test")
  PROVE  JobOK([q EXCEPT !.stage = stage])
<1>1. PICK o, s, i, t, r, h : q = [op |-> o, stage |-> s, id |-> i, text |-> t, snap |-> r, heard |-> h]
  BY DEF JobOK
<1>2. [q EXCEPT !.stage = stage]
        = [op |-> o, stage |-> stage, id |-> i, text |-> t, snap |-> r, heard |-> h]
  BY <1>1
<1> QED BY <1>1, <1>2 DEF JobOK

LEMMA LeftOK == ASSUME NEW q, JobOK(q), NEW x PROVE JobOK([q EXCEPT !.heard = x])
<1>1. PICK o, s, i, t, r, h : q = [op |-> o, stage |-> s, id |-> i, text |-> t, snap |-> r, heard |-> h]
  BY DEF JobOK
<1>2. [q EXCEPT !.heard = x] = [op |-> o, stage |-> s, id |-> i, text |-> t, snap |-> r, heard |-> x]
  BY <1>1
<1> QED BY <1>1, <1>2 DEF JobOK

ListedWith(q, y) == [q EXCEPT !.stage = "listed", !.snap = y]
SavedAs(q, k) == [q EXCEPT !.stage = "answered", !.id = k]
ProbingOf(q, y, z) == [q EXCEPT !.stage = "probing", !.text = y, !.snap = z]
SentFor(q, k) == [q EXCEPT !.stage = "sent", !.id = k]

LEMMA ListedOK ==
  ASSUME NEW q, JobOK(q), NEW y, y.saved \in Records, y.active \in Targets, y.saved[y.active] # None
  PROVE  JobOK(ListedWith(q, y))
<1>1. PICK o, s, i, t, r, h : q = [op |-> o, stage |-> s, id |-> i, text |-> t, snap |-> r, heard |-> h]
  BY DEF JobOK
<1>2. PICK a : a = [q EXCEPT !.stage = "listed"] OBVIOUS
<1>3. a = [op |-> o, stage |-> "listed", id |-> i, text |-> t, snap |-> r, heard |-> h] BY <1>1, <1>2
<1>4. [a EXCEPT !.snap = y] = [op |-> o, stage |-> "listed", id |-> i, text |-> t, snap |-> y, heard |-> h]
  BY <1>3
<1>5. ListedWith(q, y) = [a EXCEPT !.snap = y] BY <1>2 DEF ListedWith
<1> QED BY <1>1, <1>4, <1>5 DEF JobOK

LEMMA SavedAsOK == ASSUME NEW q, JobOK(q), NEW k \in Targets PROVE JobOK(SavedAs(q, k))
<1>1. PICK o, s, i, t, r, h : q = [op |-> o, stage |-> s, id |-> i, text |-> t, snap |-> r, heard |-> h]
  BY DEF JobOK
<1>2. PICK a : a = [q EXCEPT !.stage = "answered"] OBVIOUS
<1>3. a = [op |-> o, stage |-> "answered", id |-> i, text |-> t, snap |-> r, heard |-> h] BY <1>1, <1>2
<1>4. [a EXCEPT !.id = k] = [op |-> o, stage |-> "answered", id |-> k, text |-> t, snap |-> r, heard |-> h]
  BY <1>3
<1>5. SavedAs(q, k) = [a EXCEPT !.id = k] BY <1>2 DEF SavedAs
<1> QED BY <1>1, <1>4, <1>5 DEF JobOK

LEMMA SentForOK == ASSUME NEW q, JobOK(q), NEW k \in Targets PROVE JobOK(SentFor(q, k))
<1>1. PICK o, s, i, t, r, h : q = [op |-> o, stage |-> s, id |-> i, text |-> t, snap |-> r, heard |-> h]
  BY DEF JobOK
<1>2. PICK a : a = [q EXCEPT !.stage = "sent"] OBVIOUS
<1>3. a = [op |-> o, stage |-> "sent", id |-> i, text |-> t, snap |-> r, heard |-> h] BY <1>1, <1>2
<1>4. [a EXCEPT !.id = k] = [op |-> o, stage |-> "sent", id |-> k, text |-> t, snap |-> r, heard |-> h]
  BY <1>3
<1>5. SentFor(q, k) = [a EXCEPT !.id = k] BY <1>2 DEF SentFor
<1> QED BY <1>1, <1>4, <1>5 DEF JobOK

LEMMA ProbingOK ==
  ASSUME NEW q, JobOK(q), q.op \in {"activate", "check"}, q.id \in Targets, NEW z \in Records, z[q.id] # None
  PROVE  JobOK(ProbingOf(q, z[q.id], z))
<1> DEFINE y == z[q.id]
<1>1. PICK o, s, i, t, r, h : q = [op |-> o, stage |-> s, id |-> i, text |-> t, snap |-> r, heard |-> h]
  BY DEF JobOK
<1>2. PICK a : a = [q EXCEPT !.stage = "probing"] OBVIOUS
<1>3. a = [op |-> o, stage |-> "probing", id |-> i, text |-> t, snap |-> r, heard |-> h] BY <1>1, <1>2
<1>4. PICK b : b = [a EXCEPT !.text = y] OBVIOUS
<1>5. b = [op |-> o, stage |-> "probing", id |-> i, text |-> y, snap |-> r, heard |-> h] BY <1>3, <1>4
<1>6. [b EXCEPT !.snap = z] = [op |-> o, stage |-> "probing", id |-> i, text |-> y, snap |-> z, heard |-> h]
  BY <1>5
<1>7. ProbingOf(q, y, z) = [b EXCEPT !.snap = z] BY <1>2, <1>4 DEF ProbingOf
<1>8. o \in {"activate", "check"} /\ i \in Targets /\ y = z[i] /\ y # None BY <1>1
<1> HIDE DEF y
<1>9. JobOK([op |-> o, stage |-> "probing", id |-> i, text |-> y, snap |-> z, heard |-> h])
  BY <1>8 DEF JobOK
<1> QED BY <1>6, <1>7, <1>9 DEF y

\* One call changes at a time.
LEMMA OneJob ==
  ASSUME JobsInv, NEW j \in Jobs, NEW q, JobOK(q), Becomes(j, q) PROVE JobsInv'
<1>1. job' = [job EXCEPT ![j] = q] BY DEF Becomes
<1>2. \A x \in Jobs : job'[x] = IF x = j THEN q ELSE job[x] BY <1>1 DEF JobsInv
<1>3. job' = [x \in Jobs |-> job'[x]] BY <1>1 DEF JobsInv
<1> QED BY <1>2, <1>3 DEF JobsInv

LEMMA StartedOK ==
  ASSUME JobsInv, NEW j \in Jobs, NEW op, NEW id \in Targets \cup {None}, NEW text,
         op \in {"save", "test"} => text \in Texts,
         op = "activate" => id \in Targets, Start(j, op, id, text)
  PROVE  JobsInv'
<1> DEFINE q == [op |-> op, stage |-> IF op \in {"check", "load"} THEN "list" ELSE "sent",
                 id |-> id, text |-> text, snap |-> None, heard |-> j # "other"]
<1>1. Becomes(j, q) BY DEF Start
<1>2. JobOK(q) BY DEF JobOK
<1> HIDE DEF q
<1> QED BY <1>1, <1>2, OneJob

\* The forms of the card and of the setup's step.
LEMMA CardStep == ASSUME JobsInv, CardInv, TargetsNext PROVE CardInv'
<1>1. CASE Check \/ TestOther \/ Load \/ Remove \/ SendForm("save") \/ SendForm("test")
  BY <1>1 DEF Check, TestOther, Load, Remove, SendForm, card, CardInv
<1>2. CASE AddKong
  BY <1>2, NoCards DEF AddKong, CardInv
<1>3. CASE KeepRow
  BY <1>3 DEF KeepRow, CardInv
<1>4. ASSUME NEW t \in Texts, Type(t) PROVE CardInv'
  <2>1. form' = [form EXCEPT !.text = t] /\ UNCHANGED <<rows, removing>> BY <1>4 DEF Type
  <2>2. form' = [id |-> form.id, text |-> t] BY <2>1 DEF CardInv
  <2> QED BY <2>1, <2>2 DEF CardInv
<1>5. ASSUME NEW k \in Targets, EditRow(k) PROVE CardInv'
  BY <1>5 DEF EditRow, Row, Listed, CardInv, Records
<1>6. ASSUME NEW k \in Targets, ActivateRow(k) PROVE CardInv'
  BY <1>6 DEF ActivateRow, card, CardInv
<1>7. ASSUME NEW k \in Targets, AskRemoval(k) PROVE CardInv'
  BY <1>7 DEF AskRemoval, CardInv
<1>8. ASSUME NEW op, NEW k, NEW t, OthersStart(op, k, t) PROVE CardInv'
  BY <1>8 DEF OthersStart, card, CardInv
<1>9. ASSUME NEW j, TargetsApi(j) PROVE CardInv'
  BY <1>9 DEF TargetsApi, card, CardInv
<1>10. CASE CheckListed
  BY <1>10 DEF CheckListed, card, CardInv
<1>11. ASSUME NEW j \in Jobs, KongAnswered(j) \/ Unheard(j) PROVE CardInv'
  BY <1>11 DEF KongAnswered, Unheard, card, CardInv
<1>12. ASSUME NEW j \in Jobs, CardAnswered(j) PROVE CardInv'
  <2>1. UNCHANGED rows /\ removing' \in {removing, None} /\ form' \in {form, NoForm}
    BY <1>12 DEF CardAnswered, card
  <2> QED BY <2>1, NoCards DEF CardInv
<1>13. ASSUME NEW j \in Jobs, ListAnswered(j) PROVE CardInv'
  <2>1. CASE UNCHANGED card BY <2>1 DEF card, CardInv
  <2>2. CASE ~UNCHANGED card
    <3> DEFINE q == job[j].snap
               k == IF job[j].op = "save" THEN job[j].id ELSE q.active
               t == IF job[j].op = "save" THEN job[j].text ELSE q.saved[k]
    <3>1. job[j].stage = "listed" /\ rows' = q /\ UNCHANGED removing
          /\ (form' = form \/ form' = [id |-> k, text |-> t])
      BY <1>13, <2>2 DEF ListAnswered, card
    <3>2. JobOK(job[j]) BY DEF JobsInv
    <3>3. q.saved \in Records /\ q.active \in Targets /\ q.saved[q.active] \in Texts
      BY <3>1, <3>2 DEF JobOK, Records
    <3>4. k \in Targets \cup {None} /\ t \in Texts BY <3>2, <3>3 DEF JobOK
    <3> HIDE DEF k, t, q
    <3> QED BY <3>1, <3>3, <3>4 DEF CardInv
  <2> QED BY <2>1, <2>2
<1> QED BY <1>1, <1>2, <1>3, <1>4, <1>5, <1>6, <1>7, <1>8, <1>9, <1>10, <1>11, <1>12, <1>13
        DEF TargetsNext, TargetsAnswers

\* Where a target is written, a text that can be sent is.
LEMMA UpsertStep ==
  ASSUME JobsInv, SavedInv, NEW j \in Jobs, NEW switch \in BOOLEAN, Upsert(j, switch),
         job[j].op \in {"save", "test"}
  PROVE  /\ JobsInv' /\ SavedInv'
         /\ active' # active => switch /\ saved'[active'] = job[j].text
<1> DEFINE q == job[j]
<1>0. JobOK(q) /\ q.text \in Texts BY DEF JobsInv, JobOK
<1>1. CASE Stage(j, "failed") /\ UNCHANGED <<saved, active>>
  <2>1. JobsInv' BY <1>0, <1>1, StagedOK, OneJob DEF Stage
  <2> QED BY <1>1, <2>1 DEF SavedInv, ActiveIsSaved
<1>2. ASSUME NEW k \in Slot(q.id), Persist([saved EXCEPT ![k] = q.text], IF switch THEN k ELSE active),
             Becomes(j, [q EXCEPT !.stage = "answered", !.id = k])
      PROVE  /\ JobsInv' /\ SavedInv'
             /\ active' # active => switch /\ saved'[active'] = q.text
  <2>1. k \in Targets BY <1>0 DEF Slot, JobOK
  <2>2. Becomes(j, SavedAs(q, k)) BY <1>2 DEF SavedAs
  <2>3. JobsInv' BY <1>0, <2>1, <2>2, SavedAsOK, OneJob
  <2>4. saved' = [saved EXCEPT ![k] = q.text] /\ active' = IF switch THEN k ELSE active
    BY <1>2 DEF Persist
  <2>5. saved' \in Records /\ \A x \in Targets : saved'[x] = IF x = k THEN q.text ELSE saved[x]
    BY <1>0, <2>1, <2>4 DEF SavedInv, Records
  <2>6. q.text # None BY <1>0, TargetsAssumption
  <2> HIDE DEF q
  <2>7. CASE switch
    <3>1. active' = k BY <2>4, <2>7
    <3> QED BY <2>1, <2>3, <2>5, <2>6, <2>7, <3>1 DEF SavedInv, ActiveIsSaved
  <2>8. CASE ~switch
    <3>1. active' = active BY <2>4, <2>8
    <3> QED BY <2>1, <2>3, <2>5, <2>6, <3>1 DEF SavedInv, ActiveIsSaved
  <2> QED BY <2>7, <2>8
<1> QED BY <1>1, <1>2 DEF Upsert

\* What the API does to the targets.
Switched == active' # active => \E j \in Jobs : job[j].stage = "probing" /\ saved'[active'] = job[j].text

LEMMA ApiStep ==
  ASSUME JobsInv, SavedInv, NEW j \in Jobs, TargetsApi(j) PROVE JobsInv' /\ SavedInv' /\ Switched
<1> DEFINE q == job[j]
<1>0. JobOK(q) BY DEF JobsInv
<1>1. ASSUME UNCHANGED <<saved, active>>, NEW stage \in {"answered", "failed", "list"}, Stage(j, stage)
      PROVE  JobsInv' /\ SavedInv' /\ Switched
  <2>1. JobsInv' BY <1>0, <1>1, StagedOK, OneJob DEF Stage
  <2> QED BY <1>1, <2>1 DEF SavedInv, ActiveIsSaved, Switched
<1>2. CASE ServeList(j)
  <2> DEFINE y == [saved |-> saved, active |-> active]
  <2>1. UNCHANGED <<saved, active>> /\ Becomes(j, ListedWith(q, y)) BY <1>2 DEF ServeList, ListedWith
  <2>2. y.saved \in Records /\ y.active \in Targets /\ y.saved[y.active] # None
    BY DEF SavedInv, ActiveIsSaved
  <2> HIDE DEF y
  <2>3. JobsInv' BY <1>0, <2>1, <2>2, ListedOK, OneJob
  <2> QED BY <2>1, <2>3 DEF SavedInv, ActiveIsSaved, Switched
<1>3. CASE ServeSave(j)
  <2>1. q.op = "save" /\ Upsert(j, FALSE) BY <1>3 DEF ServeSave
  <2>2. JobsInv' /\ SavedInv' /\ (active' # active => FALSE)
    BY <2>1, UpsertStep
  <2> QED BY <2>2 DEF Switched
<1>4. CASE ServeRemove(j)
  <2>1. CASE Stage(j, "failed") /\ UNCHANGED <<saved, active>> BY <1>1, <2>1
  <2>2. CASE /\ Removable(q.id) /\ Persist([saved EXCEPT ![q.id] = None], active)
             /\ Stage(j, "answered")
    <3>1. JobsInv' BY <1>0, <2>2, StagedOK, OneJob DEF Stage
    <3>2. saved' = [saved EXCEPT ![q.id] = None] /\ active' = active /\ q.id # active
      BY <2>2 DEF Persist, Removable
    <3>3. saved' \in Records /\ saved'[active] = saved[active]
      BY <3>2 DEF SavedInv, Records
    <3> QED BY <3>1, <3>2, <3>3 DEF SavedInv, ActiveIsSaved, Switched
  <2> QED BY <1>4, <2>1, <2>2 DEF ServeRemove
<1>5. CASE Probe(j)
  <2>1. UNCHANGED <<saved, active>> /\ q.op \in {"test", "activate", "check"} /\ q.stage = "sent"
    BY <1>5 DEF Probe
  <2>2. CASE q.op = "test"
    <3>1. Stage(j, "probing") BY <1>5, <2>2 DEF Probe
    <3>2. JobsInv' BY <1>0, <2>2, <3>1, StagedOK, OneJob DEF Stage
    <3> QED BY <2>1, <3>2 DEF SavedInv, ActiveIsSaved, Switched
  <2>3. CASE q.op # "test" /\ saved[q.id] = None
    <3>1. Stage(j, "failed") BY <1>5, <2>3 DEF Probe
    <3> QED BY <1>1, <2>1, <3>1
  <2>4. CASE q.op # "test" /\ saved[q.id] # None
    <3>1. Becomes(j, ProbingOf(q, saved[q.id], saved)) BY <1>5, <2>4 DEF Probe, ProbingOf
    <3>2. q.op \in {"activate", "check"} /\ q.id \in Targets BY <1>0, <2>1, <2>4 DEF JobOK
    <3>3. JobOK(ProbingOf(q, saved[q.id], saved)) BY <1>0, <2>4, <3>2, ProbingOK DEF SavedInv
    <3>4. JobsInv' BY <3>1, <3>3, OneJob
    <3> QED BY <2>1, <3>4 DEF SavedInv, ActiveIsSaved, Switched
  <2> QED BY <2>2, <2>3, <2>4
<1>6. CASE Reached(j)
  <2>1. q.stage = "probing" BY <1>6 DEF Reached
  <2>2. CASE q.op = "test"
    <3>1. Upsert(j, TRUE) BY <1>6, <2>2 DEF Reached
    <3>2. JobsInv' /\ SavedInv' /\ (active' # active => saved'[active'] = job[j].text)
      BY <2>2, <3>1, UpsertStep
    <3> QED BY <2>1, <3>2 DEF Switched
  <2>3. CASE q.op # "test"
    <3>1. saved' = q.snap /\ active' = q.id /\ Stage(j, "answered")
      BY <1>6, <2>3 DEF Reached, ReadBefore, Persist
    <3>2. JobsInv' BY <1>0, <3>1, StagedOK, OneJob DEF Stage
    <3>3. q.snap \in Records /\ q.id \in Targets /\ q.snap[q.id] = q.text /\ q.text # None
      BY <1>0, <2>1, <2>3 DEF JobOK
    <3> QED BY <2>1, <3>1, <3>2, <3>3 DEF SavedInv, ActiveIsSaved, Switched
  <2> QED BY <2>2, <2>3
<1>7. CASE NotReached(j)
  BY <1>1, <1>7 DEF NotReached
<1> QED BY <1>2, <1>3, <1>4, <1>5, <1>6, <1>7 DEF TargetsApi

LEMMA TargetsStep ==
  ASSUME JobsInv, CardInv, SavedInv, TargetsNext PROVE JobsInv' /\ SavedInv' /\ Switched
<1>1. ASSUME UNCHANGED <<saved, active>> PROVE SavedInv' /\ Switched
  BY <1>1 DEF SavedInv, ActiveIsSaved, Switched
<1>2. ASSUME NEW j \in Jobs, NEW op, NEW id \in Targets \cup {None}, NEW text,
             op \in {"save", "test"} => text \in Texts, op = "activate" => id \in Targets,
             Start(j, op, id, text), UNCHANGED <<saved, active>>
      PROVE  JobsInv' /\ SavedInv' /\ Switched
  BY <1>1, <1>2, StartedOK
<1>3. "check" \in Jobs /\ "form" \in Jobs /\ "other" \in Jobs BY DEF Jobs
<1>4. CASE Check \/ Load
  BY <1>2, <1>3, <1>4 DEF Check, Load
<1>5. CASE TestOther
  <2>1. form.text \in Texts /\ Start("form", "test", None, form.text) /\ UNCHANGED <<saved, active>>
    BY <1>5 DEF TestOther, CardInv
  <2> QED BY <1>2, <1>3, <2>1
<1>6. ASSUME NEW op \in {"save", "test"}, SendForm(op) PROVE JobsInv' /\ SavedInv' /\ Switched
  <2>1. form.text \in Texts /\ form.id \in Targets \cup {None}
        /\ Start("form", op, form.id, form.text) /\ UNCHANGED <<saved, active>>
    BY <1>6 DEF SendForm, CardInv
  <2>2. op # "activate" OBVIOUS
  <2> QED BY <1>2, <1>3, <2>1, <2>2
<1>7. CASE Remove
  <2>1. removing \in Targets \cup {None} /\ Start("form", "remove", removing, None) /\ UNCHANGED <<saved, active>>
    BY <1>7 DEF Remove, CardInv
  <2> QED BY <1>2, <1>3, <2>1
<1>8. CASE AddKong \/ KeepRow
  BY <1>1, <1>8 DEF AddKong, KeepRow, JobsInv
<1>9. ASSUME NEW t \in Texts, Type(t) PROVE JobsInv' /\ SavedInv' /\ Switched
  BY <1>1, <1>9 DEF Type, JobsInv
<1>10. ASSUME NEW k \in Targets, EditRow(k) \/ AskRemoval(k) PROVE JobsInv' /\ SavedInv' /\ Switched
  BY <1>1, <1>10 DEF EditRow, AskRemoval, JobsInv
<1>11. ASSUME NEW k \in Targets, ActivateRow(k) PROVE JobsInv' /\ SavedInv' /\ Switched
  BY <1>2, <1>3, <1>11 DEF ActivateRow
<1>12. ASSUME NEW op, NEW k \in Targets, NEW t \in Texts, OthersStart(op, k, t)
       PROVE  JobsInv' /\ SavedInv' /\ Switched
  <2>1. CASE op \in {"activate", "remove"} /\ Start("other", op, k, None)
    BY <1>2, <1>3, <1>12, <2>1 DEF OthersStart
  <2>2. CASE op \in {"save", "test"} /\ Start("other", op, k, t)
    BY <1>2, <1>3, <1>12, <2>2 DEF OthersStart
  <2> QED BY <1>12, <2>1, <2>2 DEF OthersStart
<1>13. ASSUME TargetsAnswers PROVE JobsInv' /\ SavedInv' /\ Switched
  <2>1. UNCHANGED <<saved, active>> BY <1>13 DEF TargetsAnswers
  <2>2. ASSUME NEW j \in Jobs, Ended(j) PROVE JobsInv'
    BY <2>2, NoJobOK, OneJob DEF Ended
  <2>3. CASE CheckListed
    <3> DEFINE q == job["check"]
    <3>1. q.stage = "listed" /\ Becomes("check", SentFor(q, q.snap.active))
      BY <2>3 DEF CheckListed, SentFor
    <3>2. JobOK(q) BY <1>3 DEF JobsInv
    <3>3. q.snap.active \in Targets BY <3>1, <3>2 DEF JobOK
    <3>4. JobOK(SentFor(q, q.snap.active)) BY <3>2, <3>3, SentForOK
    <3> QED BY <1>1, <1>3, <2>1, <3>1, <3>4, OneJob
  <2>4. ASSUME NEW j \in Jobs, KongAnswered(j) \/ ListAnswered(j) \/ Unheard(j) PROVE JobsInv'
    BY <2>2, <2>4 DEF KongAnswered, ListAnswered, Unheard
  <2>5. ASSUME NEW j \in Jobs, CardAnswered(j) PROVE JobsInv'
    <3>1. Ended(j) \/ Stage(j, "list") BY <2>5 DEF CardAnswered
    <3>2. CASE Stage(j, "list")
      <4>1. JobOK(job[j]) BY DEF JobsInv
      <4> QED BY <3>2, <4>1, StagedOK, OneJob DEF Stage
    <3> QED BY <2>2, <3>1, <3>2
  <2> QED BY <1>1, <1>13, <2>1, <2>3, <2>4, <2>5 DEF TargetsAnswers
<1> QED BY <1>4, <1>5, <1>6, <1>7, <1>8, <1>9, <1>10, <1>11, <1>12, <1>13, ApiStep DEF TargetsNext

\* What any step of the console does to the targets.
LEMMA ConsoleTargetsStep ==
  ASSUME JobsInv, CardInv, SavedInv, [Next]_vars PROVE JobsInv' /\ CardInv' /\ SavedInv' /\ Switched
<1>1. ASSUME UNCHANGED <<saved, active>> PROVE SavedInv' /\ Switched
  BY <1>1 DEF SavedInv, ActiveIsSaved, Switched
<1>2. CASE UNCHANGED targets
  BY <1>1, <1>2 DEF targets, JobsInv, CardInv
<1>3. ASSUME UNCHANGED <<saved, active>>, NEW p, TargetsLeft(p) PROVE JobsInv' /\ CardInv'
  <2>1. CASE UNCHANGED <<job, kong, card>> BY <2>1 DEF card, JobsInv, CardInv
  <2>2. CASE /\ rows' = NoRows /\ form' = NoForm /\ removing' = None
             /\ job' = [j \in Jobs |-> [job[j] EXCEPT !.heard = @ /\ {place, p} \subseteq Steps]]
    <3>1. CardInv' BY <2>2, NoCards DEF CardInv
    <3>2. ASSUME NEW j \in Jobs PROVE JobOK(job'[j])
      <4>1. JobOK(job[j]) BY DEF JobsInv
      <4>2. \E h : job'[j] = [job[j] EXCEPT !.heard = h] BY <2>2
      <4> QED BY <4>1, <4>2, LeftOK
    <3>3. job' = [j \in Jobs |-> job'[j]] BY <2>2
    <3> QED BY <3>1, <3>2, <3>3 DEF JobsInv
  <2> QED BY <1>3, <2>1, <2>2 DEF TargetsLeft
<1> QED BY <1>1, <1>2, <1>3, TargetsSteps, TargetsStep, CardStep

\* The active target is a saved one, whatever two browsers save, test, activate and
\* remove while Kong is being probed.
THEOREM ActiveTargetIsSaved == Spec => []ActiveIsSaved
<1> DEFINE Inv == JobsInv /\ CardInv /\ SavedInv
<1>1. Init => Inv BY TargetsStart
<1>2. Inv /\ [Next]_vars => Inv' BY ConsoleTargetsStep
<1>3. Inv => ActiveIsSaved BY DEF SavedInv
<1> HIDE DEF Inv
<1> QED BY <1>1, <1>2, <1>3, PTL DEF Spec

\* The console only switches to a target as it was when it answered the probe.
THEOREM SwitchesCorrectly == Spec => SwitchesToWhatAnswered
<1> DEFINE Inv == JobsInv /\ CardInv /\ SavedInv
<1>1. Init => Inv BY TargetsStart
<1>2. Inv /\ [Next]_vars => Inv' BY ConsoleTargetsStep
<1>3. Inv /\ [Next]_vars =>
        [active' # active =>
           \E j \in Jobs : job[j].stage = "probing" /\ saved'[active'] = job[j].text]_<<saved, active, job>>
  BY ConsoleTargetsStep DEF Switched
<1> HIDE DEF Inv
<1> QED BY <1>1, <1>2, <1>3, PTL DEF Spec, SwitchesToWhatAnswered

-----------------------------------------------------------------------------
(* The lists and their pages.                                              *)

ListsInv == data \in [Lists -> SUBSET Items] /\ page \in Nat

LEMMA ItemsFacts == IsFiniteSet(Items) /\ Items \subseteq Nat
  BY FS_Interval, ListsAssumption DEF Items

LEMMA ListsSteps ==
  ASSUME [Next]_vars, ListsInv
  PROVE  data' \in [Lists -> SUBSET Items] /\ page' \in Nat
<1> USE ListsAssumption DEF ListsInv
<1>1. ASSUME UNCHANGED lists PROVE ListsInv'
  BY <1>1 DEF lists, pager
<1>2. ASSUME ListsLeft(place'), UNCHANGED data PROVE ListsInv'
  BY <1>2 DEF ListsLeft, pager
<1>3. ASSUME ListsNext PROVE ListsInv'
  <2>1. CASE UNCHANGED data /\ page' \in {0, page}
    BY <2>1
  <2>2. CASE \E l \in Lists : \E r \in SUBSET Items : Refreshed(l, r)
    BY <2>2 DEF Refreshed, pager
  <2>3. CASE \E p \in 0 .. MaxRows : Turn(p)
    BY <2>3 DEF Turn
  <2> QED
    BY <1>3, <2>1, <2>2, <2>3 DEF ListsNext, Filter, ClearFilters, Open, Pivot, Close, pager
<1>4. ASSUME NEW v, NEW i, Palette(v, i) PROVE ListsInv'
  BY <1>4 DEF Palette, PaletteTo, pager
<1>5. ASSUME NEW i, Draft(i) PROVE ListsInv'
  BY <1>5 DEF Draft, DraftFromEvent
<1>6. ASSUME RuleFormNext PROVE UNCHANGED lists
  BY <1>6 DEF RuleFormNext, NewRule, EditRule, CloseRule, Build, ChooseAction, ChooseKind, Pick, TypeScope,
     ChangeType, ChangeName, AddField, RemoveField, ChooseService, ShowTab, ContinueInRaw, TypeRaw,
     SaveRule, ServeRule, RuleAnswered, OthersWrite
<1> QED
  BY <1>1, <1>2, <1>3, <1>4, <1>5, <1>6 DEF Next, Navigate, AiStepSaved, vars

LEMMA ListsStart == Init => ListsInv
  BY DEF Init, ListsInit, ListsInv

\* The rank of a row among those that pass the filters takes every value there is.
LEMMA RankFacts ==
  ASSUME ListsInv, place \in Lists
  PROVE  /\ IsFiniteSet(Filtered) /\ Cardinality(Filtered) \in Nat
         /\ \A m \in 0 .. Cardinality(Filtered) - 1 : \E i \in Filtered : Rank(i) = m
<1> DEFINE F == Filtered
           n == Cardinality(F)
           rank == [i \in F |-> Rank(i)]
           Below(i) == {j \in F : j < i}
<1>1. F \subseteq Items
  BY DEF Filtered, ListsInv
<1>2. IsFiniteSet(F) /\ n \in Nat /\ F \subseteq Nat
  BY <1>1, ItemsFacts, FS_Subset, FS_CardinalityType
<1> HIDE DEF F
<1>3. \A i \in F : Rank(i) = Cardinality(Below(i))
  BY DEF Rank, F
<1>4. ASSUME NEW i \in F
      PROVE  IsFiniteSet(Below(i)) /\ Rank(i) \in 0 .. n - 1
  <2>1. Below(i) \in SUBSET F /\ i \notin Below(i)
    BY <1>2
  <2> HIDE DEF Below
  <2>2. IsFiniteSet(Below(i)) /\ Cardinality(Below(i)) <= n /\ Cardinality(Below(i)) # n
    BY <1>2, <2>1, FS_Subset
  <2>3. Cardinality(Below(i)) \in Nat
    BY <2>2, FS_CardinalityType
  <2> QED
    BY <1>2, <1>3, <2>2, <2>3
<1>5. ASSUME NEW i \in F, NEW j \in F, i < j
      PROVE  Rank(i) # Rank(j)
  <2>1. Below(i) \in SUBSET Below(j) /\ Below(i) # Below(j)
    <3>1. i \in Nat /\ j \in Nat /\ \A k \in F : k \in Nat
      BY <1>2
    <3>2. \A k \in F : k < i => k < j
      BY <1>5, <3>1
    <3>3. i \in Below(j) /\ i \notin Below(i)
      BY <1>5, <3>1
    <3> QED
      BY <3>2, <3>3
  <2>2. IsFiniteSet(Below(j))
    BY <1>4
  <2> HIDE DEF Below
  <2>3. Cardinality(Below(i)) # Cardinality(Below(j))
    BY <2>1, <2>2, FS_Subset
  <2> QED
    BY <1>3, <2>3
<1>6. rank \in Injection(F, 0 .. n - 1)
  <2>1. rank \in [F -> 0 .. n - 1]
    BY <1>4
  <2>2. ASSUME NEW i \in F, NEW j \in F, rank[i] = rank[j] PROVE i = j
    BY <1>2, <1>5, <2>2
  <2> QED
    BY <2>1, <2>2 DEF Injection, IsInjective
<1>7. IsFiniteSet(0 .. n - 1) /\ Cardinality(0 .. n - 1) = n
  <2> HIDE DEF n
  <2>1. 0 \in Int /\ n - 1 \in Int
    BY <1>2
  <2>2. IsFiniteSet(0 .. n - 1) /\ Cardinality(0 .. n - 1) = IF 0 > n - 1 THEN 0 ELSE (n - 1) - 0 + 1
    BY <2>1, FS_Interval
  <2> QED
    BY <1>2, <2>2
<1> HIDE DEF rank
<1>8. rank \in Surjection(F, 0 .. n - 1)
  BY <1>6, <1>7, FS_Injection
<1>9. \A m \in 0 .. n - 1 : \E i \in F : rank[i] = m
  BY <1>8 DEF Surjection
<1> QED
  BY <1>2, <1>9 DEF F, rank

LEMMA PageShown == ASSUME ListsInv PROVE PageNeverEmpty
<1> SUFFICES ASSUME place \in Lists, Filtered # {} PROVE Visible # {}
  BY DEF PageNeverEmpty
<1> DEFINE n == Cardinality(Filtered)
<1>1. n \in Nat /\ n # 0 /\ PageSize \in Nat \ {0} /\ page \in Nat
  BY RankFacts, FS_EmptySet, ListsAssumption DEF ListsInv
<1>2. Pages = (n + PageSize - 1) \div PageSize
  BY DEF Pages
<1> HIDE DEF n
<1>3. /\ Pages \in Nat /\ Pages >= 1
      /\ PageSize * Pages <= n + PageSize - 1
  BY <1>1, <1>2
<1>4. Clamped \in Nat /\ Clamped <= Pages - 1
  BY <1>1, <1>3 DEF Clamped, Least
<1>5. PageSize * Clamped \in 0 .. n - 1
  <2>1. PageSize * Clamped <= PageSize * (Pages - 1)
    BY <1>1, <1>3, <1>4
  <2>2. PageSize * (Pages - 1) = PageSize * Pages - PageSize
    BY <1>1, <1>3
  <2>3. PageSize * Clamped \in Nat
    BY <1>1, <1>4
  <2> QED
    BY <1>1, <1>3, <2>1, <2>2, <2>3
<1>6. PICK i \in Filtered : Rank(i) = PageSize * Clamped
  BY <1>5, RankFacts DEF n
<1>7. Rank(i) \div PageSize = Clamped
  BY <1>1, <1>4, <1>6
<1> QED
  BY <1>6, <1>7 DEF Visible

\* While rows pass the filters some are shown, whatever a poll removes from under the
\* page the operator is on.
THEOREM PagesHaveRows == Spec => []PageNeverEmpty
<1>1. Init => ListsInv
  BY ListsStart
<1>2. ListsInv /\ [Next]_vars => ListsInv'
  BY ListsSteps DEF ListsInv
<1>3. ListsInv => PageNeverEmpty
  BY PageShown
<1> QED
  BY <1>1, <1>2, <1>3, PTL DEF Spec

-----------------------------------------------------------------------------
(* The rule dialog.                                                        *)

Rules == NativeRules \cup {SecLang}
FormActions == (Actions \ {"none"}) \cup {"exclusion"}
Builders == [action : FormActions, kind : {"fields", "detections"}, picked : SUBSET Scopes,
             typed : SUBSET Scopes, fields : Seq(Fields)]

\* What a builder excludes can be said in controls.
LEMMA TargetsFacts ==
  ASSUME NEW f \in Fields
  PROVE  TargetsOf(f) \subseteq RequestTargets
<1>1. f.type \in Types /\ f.name \in Names \cup {Comma, ""}
  BY DEF Fields
<1>2. CASE f.type = "body"
  BY <1>2 DEF TargetsOf, RequestTargets
<1>3. CASE f.type # "body"
  <2>1. f.type \in {"parameter", "header"} /\ First \in Names
    BY <1>1, <1>3, RuleFormAssumption DEF Types
  <2>6. ASSUME NEW t, NEW n \in Names PROVE Spelt(t, n) \in Names
    BY RuleFormAssumption DEF Spelt
  <2> DEFINE named == [type : {"parameter", "header"}, name : Names]
  <2>2. named \subseteq RequestTargets
    BY DEF RequestTargets
  <2>3. CASE f.name = ""
    BY <1>3, <2>3 DEF TargetsOf
  <2>4. CASE f.name = Comma
    <3>1. TargetsOf(f) = {[type |-> f.type, name |-> Spelt(f.type, First)]}
                           \cup {[type |-> "parameter", name |-> Spelt(f.type, n)] : n \in Names \ {First}}
      BY <1>3, <2>4, RuleFormAssumption DEF TargetsOf
    <3>2. [type |-> f.type, name |-> Spelt(f.type, First)] \in named
      BY <2>1, <2>6
    <3>3. {[type |-> "parameter", name |-> Spelt(f.type, n)] : n \in Names \ {First}} \subseteq named
      BY <2>6
    <3> HIDE DEF named
    <3> QED
      BY <2>2, <3>1, <3>2, <3>3
  <2>5. CASE f.name \notin {"", Comma}
    <3>1. TargetsOf(f) = {[type |-> f.type, name |-> Spelt(f.type, f.name)]}
      BY <1>3, <2>5 DEF TargetsOf
    <3>2. [type |-> f.type, name |-> Spelt(f.type, f.name)] \in named
      BY <1>1, <2>1, <2>5, <2>6
    <3> HIDE DEF named
    <3> QED
      BY <2>2, <3>1, <3>2
  <2> QED
    BY <2>3, <2>4, <2>5
<1> QED
  BY <1>2, <1>3

LEMMA BuildsRules ==
  ASSUME NEW b \in Builders
  PROVE  BuildNativeRule(b) \in NativeRules
<1>1. b.action \in FormActions /\ b.picked \subseteq Scopes /\ b.typed \subseteq Scopes
      /\ b.fields \in Seq(Fields)
  BY DEF Builders
<1>2. FieldsOf(b) \subseteq Fields
  BY <1>1 DEF FieldsOf
<1>3. ControlsOf(b) \subseteq Controls
  <2>1. ScopesOf(b) \subseteq Scopes
    BY <1>1 DEF ScopesOf
  <2>2. {Whole} \subseteq RequestTargets
    BY DEF RequestTargets, NoRequestField
  <2>3. UNION {TargetsOf(f) : f \in FieldsOf(b)} \subseteq RequestTargets
    BY <1>2, TargetsFacts
  <2>4. ASSUME NEW T \in SUBSET RequestTargets PROVE Cross(ScopesOf(b), T) \subseteq Controls
    BY <2>1 DEF Cross, Controls, Selectors
  <2> DEFINE T == UNION {TargetsOf(f) : f \in FieldsOf(b)}
  <2> HIDE DEF T
  <2> QED
    BY <2>2, <2>3, <2>4 DEF ControlsOf, T
<1>4. CASE b.action = "exclusion"
  BY <1>3, <1>4 DEF BuildNativeRule, NativeRules, Actions
<1>5. CASE b.action # "exclusion"
  <2>1. b.action \in Actions
    BY <1>1, <1>5 DEF FormActions
  <2> QED
    BY <1>5, <2>1 DEF BuildNativeRule, NativeRules
<1> QED
  BY <1>4, <1>5

LEMMA OrderFacts ==
  ASSUME NEW S, IsFiniteSet(S)
  PROVE  /\ InSomeOrder(S) \in Seq(S)
         /\ {InSomeOrder(S)[i] : i \in DOMAIN InSomeOrder(S)} = S
<1> DEFINE n == Cardinality(S)
           Order(q) == q \in [1 .. n -> S] /\ \A x \in S : \E i \in DOMAIN q : q[i] = x
<1>1. n \in Nat /\ ExistsBijection(1 .. n, S)
  BY FS_CardinalityType
<1>2. \E q : Order(q)
  <2>1. PICK q \in Bijection(1 .. n, S) : TRUE
    BY <1>1 DEF ExistsBijection
  <2>2. q \in [1 .. n -> S] /\ \A x \in S : \E i \in 1 .. n : q[i] = x
    BY <2>1 DEF Bijection, Surjection, Injection
  <2> QED
    BY <2>2
<1>3. InSomeOrder(S) = CHOOSE q \in [1 .. n -> S] : \A x \in S : \E i \in DOMAIN q : q[i] = x
  BY DEF InSomeOrder
<1>4. Order(InSomeOrder(S))
  BY <1>2, <1>3
<1> DEFINE q == InSomeOrder(S)
<1> HIDE DEF n, q
<1>5. q \in [1 .. n -> S] /\ \A x \in S : \E i \in DOMAIN q : q[i] = x
  BY <1>4 DEF q
<1>6. q \in Seq(S)
  BY <1>1, <1>5
<1>7. {q[i] : i \in DOMAIN q} = S
  BY <1>5
<1> QED
  BY <1>6, <1>7 DEF q

LEMMA FiniteTargets == IsFiniteSet(RequestTargets)
<1> USE RuleFormAssumption
<1> DEFINE N == Names \cup {Comma}
           P == [type : {"parameter"}, name : N]
           H == [type : {"header"}, name : N]
<1>8. IsFiniteSet(N)
  BY FS_AddElement
<1> HIDE DEF N
<1>1. ASSUME NEW t PROVE IsFiniteSet([type : {t}, name : N])
  <2> DEFINE T == [type : {t}, name : N]
             g == [n \in N |-> [type |-> t, name |-> n]]
  <2>1. g \in Surjection(N, T)
    <3>1. g \in [N -> T]
      OBVIOUS
    <3>2. ASSUME NEW x \in T PROVE \E n \in N : g[n] = x
      <4>1. x.name \in N /\ x = [type |-> t, name |-> x.name]
        OBVIOUS
      <4> QED
        BY <4>1
    <3> HIDE DEF g, T
    <3> QED
      BY <3>1, <3>2 DEF Surjection
  <2> HIDE DEF T, g
  <2>2. IsFiniteSet(T)
    BY <1>8, <2>1, FS_Surjection
  <2> QED
    BY <2>2 DEF T
<1>2. IsFiniteSet(P) /\ IsFiniteSet(H)
  BY <1>1
<1>3. RequestTargets = ((P \cup H) \cup {Whole}) \cup {Other} \cup {[type |-> "body", name |-> ""]}
  BY DEF RequestTargets, NoRequestField, N
<1> HIDE DEF P, H
<1>4. IsFiniteSet(P \cup H)
  BY <1>2, FS_Union
<1>5. IsFiniteSet((P \cup H) \cup {Whole})
  BY <1>4, FS_AddElement
<1>6. IsFiniteSet(((P \cup H) \cup {Whole}) \cup {Other})
  BY <1>5, FS_AddElement
<1>7. IsFiniteSet((((P \cup H) \cup {Whole}) \cup {Other}) \cup {[type |-> "body", name |-> ""]})
  BY <1>6, FS_AddElement
<1> QED
  BY <1>3, <1>7

LEMMA FiniteControls ==
  ASSUME NEW cs \in SUBSET Controls
  PROVE  {c.target : c \in cs} \subseteq RequestTargets /\ IsFiniteSet({c.target : c \in cs})
<1>1. {c.target : c \in cs} \subseteq RequestTargets
  BY DEF Controls
<1>2. IsFiniteSet({c.target : c \in cs})
  <2> DEFINE T == {c.target : c \in cs}
  <2> HIDE DEF T
  <2>1. T \in SUBSET RequestTargets
    BY <1>1 DEF T
  <2>2. IsFiniteSet(T)
    BY <2>1, FiniteTargets, FS_Subset
  <2> QED
    BY <2>2 DEF T
<1> QED
  BY <1>1, <1>2

\* What the form reads from controls it can show is what it would write, in its spelling.
LEMMA ReadsBack ==
  ASSUME NEW cs \in SUBSET Controls, Buildable(cs)
  PROVE  BuilderFor(cs) \in Builders /\ ControlsOf(BuilderFor(cs)) = Normal(cs)
<1> DEFINE b == BuilderFor(cs)
           ts == {c.target : c \in cs}
           ss == UNION {Cut(Scope(c)) : c \in cs}
           order == InSomeOrder(ts \ {Whole})
<1>1. \A c \in cs : Scope(c) \in Selectors /\ c.target \in RequestTargets
  <2>1. ASSUME NEW c \in Controls PROVE Scope(c) \in Selectors /\ c.target \in RequestTargets
    <3>1. PICK s \in Selectors, t \in RequestTargets : c = [on |-> s.on, sel |-> s.sel, target |-> t]
      BY DEF Controls
    <3>2. Scope(c) = [on |-> s.on, sel |-> s.sel] /\ c.target = t
      BY <3>1 DEF Scope
    <3>3. s = [on |-> s.on, sel |-> s.sel]
      BY DEF Selectors, Scopes
    <3> QED
      BY <3>1, <3>2, <3>3
  <2> QED
    BY <2>1
<1>2. IsFiniteSet(ts \ {Whole}) /\ ts \subseteq RequestTargets
  BY FiniteControls, FS_RemoveElement
<1>3. /\ b.action = "exclusion" /\ b.typed = {} /\ b.picked = ss
      /\ b.kind = IF \E c \in cs : c.target = Whole THEN "detections" ELSE "fields"
      /\ b.fields = order
      /\ b = [action |-> b.action, typed |-> b.typed, picked |-> b.picked, kind |-> b.kind, fields |-> b.fields]
  BY DEF BuilderFor
<1>4. ScopesOf(b) = ss /\ ss \subseteq Scopes
  <2>1. ASSUME NEW s \in Selectors PROVE Cut(s) \subseteq Scopes
    <3>1. CASE s.sel = Several
      BY <3>1 DEF Cut
    <3>2. CASE s.sel # Several
      BY <3>2 DEF Cut, Selectors
    <3> QED
      BY <3>1, <3>2
  <2>2. ss \subseteq Scopes
    BY <1>1, <2>1
  <2> QED
    BY <1>3, <2>2 DEF ScopesOf
<1>5. order \in Seq(ts \ {Whole}) /\ {order[i] : i \in DOMAIN order} = ts \ {Whole}
  <2> HIDE DEF ts
  <2> QED
    BY <1>2, OrderFacts
<1>9. \A x : x \in Normal(cs) <=> \E c \in cs : \E s \in Cut(Scope(c)) :
                 x = [on |-> s.on, sel |-> s.sel, target |-> LowerHeader(c.target)]
  BY DEF Normal, Cross
<1> HIDE DEF b, order
<1>6. FieldsOf(b) = ts \ {Whole}
  <2> HIDE DEF ts
  <2> QED
    BY <1>3, <1>5 DEF FieldsOf
<1>7. CASE \A c \in cs : c.target = Whole
  <2>1. b.kind = "detections" /\ ts = {Whole}
    BY <1>3, <1>7 DEF Buildable
  <2>2. ControlsOf(b) = Cross(ss, {Whole})
    BY <1>4, <2>1 DEF ControlsOf
  <2>5. LowerHeader(Whole) = Whole
    BY DEF LowerHeader, Whole
  <2>3. Cross(ss, {Whole}) = Normal(cs)
    <3>1. \A x : x \in Cross(ss, {Whole}) <=> \E c \in cs : \E s \in Cut(Scope(c)) :
                   x = [on |-> s.on, sel |-> s.sel, target |-> Whole]
      BY DEF Cross
    <3>2. \A c \in cs : LowerHeader(c.target) = Whole
      BY <1>7, <2>5
    <3> HIDE DEF ss
    <3> QED
      BY <1>9, <3>1, <3>2
  <2>4. b.fields \in Seq(Fields)
    BY <1>3, <1>5, <2>1
  <2> HIDE DEF ss, ts
  <2> QED
    BY <1>3, <1>4, <2>1, <2>2, <2>3, <2>4 DEF Builders, FormActions, b
<1>8. CASE (\A c \in cs : HasField(c.target)) /\ SameTargets(cs)
  <2>1. b.kind = "fields" /\ Whole \notin ts
    BY <1>3, <1>8 DEF HasField, NoRequestField
  <2>2. ASSUME NEW t \in ts PROVE t \in Fields /\ TargetsOf(t) = {LowerHeader(t)}
    <3>1. t \in [type : {"parameter", "header"}, name : Names] \cup {[type |-> "body", name |-> ""]}
      BY <1>2, <1>8 DEF RequestTargets, HasField
    <3>2. CASE t \in [type : {"parameter", "header"}, name : Names]
      <4>1. /\ t.type \in {"parameter", "header"} /\ t.name \in Names
            /\ t = [type |-> t.type, name |-> t.name]
        BY <3>2
      <4>2. t.name # "" /\ t.name # Comma /\ t.type # "body"
        BY <4>1, RuleFormAssumption
      <4>3. TargetsOf(t) = {[type |-> t.type, name |-> Spelt(t.type, t.name)]}
        BY <4>2 DEF TargetsOf
      <4>4. LowerHeader(t) = [type |-> t.type, name |-> Spelt(t.type, t.name)]
        BY <4>1 DEF LowerHeader, Spelt
      <4> QED
        BY <3>2, <4>3, <4>4 DEF Fields, Types
    <3>3. CASE t = [type |-> "body", name |-> ""]
      <4>1. t.type = "body"
        BY <3>3
      <4>2. TargetsOf(t) = {t} /\ LowerHeader(t) = t
        BY <3>3, <4>1 DEF TargetsOf, LowerHeader
      <4> QED
        BY <3>3, <4>2 DEF Fields, Types
    <3> QED
      BY <3>1, <3>2, <3>3
  <2>3. FieldsOf(b) = ts
    BY <1>6, <2>1
  <2>4. UNION {TargetsOf(f) : f \in ts} = {LowerHeader(t) : t \in ts}
    <3> HIDE DEF ts
    <3> QED
      BY <2>2
  <2>5. ControlsOf(b) = Cross(ss, {LowerHeader(t) : t \in ts})
    BY <1>4, <2>1, <2>3, <2>4 DEF ControlsOf
  <2>6. Cross(ss, {LowerHeader(t) : t \in ts}) = Normal(cs)
    <3>1. ASSUME NEW x \in Normal(cs) PROVE x \in Cross(ss, {LowerHeader(t) : t \in ts})
      <4>3. PICK c \in cs : \E s \in Cut(Scope(c)) :
              x = [on |-> s.on, sel |-> s.sel, target |-> LowerHeader(c.target)]
        BY <1>9
      <4>1. PICK s \in Cut(Scope(c)) : x = [on |-> s.on, sel |-> s.sel, target |-> LowerHeader(c.target)]
        BY <4>3
      <4>2. s \in ss /\ c.target \in ts
        OBVIOUS
      <4> HIDE DEF ss, ts
      <4>4. LowerHeader(c.target) \in {LowerHeader(t) : t \in ts}
        BY <4>2
      <4> QED
        BY <4>1, <4>2, <4>4 DEF Cross
    <3>2. ASSUME NEW x \in Cross(ss, {LowerHeader(t) : t \in ts}) PROVE x \in Normal(cs)
      <4>1. PICK s \in ss, t \in ts : x = [on |-> s.on, sel |-> s.sel, target |-> LowerHeader(t)]
        BY DEF Cross
      <4>4. PICK c \in cs : s \in Cut(Scope(c))
        OBVIOUS
      <4>5. PICK d \in cs : d.target = t
        OBVIOUS
      <4>2. d.target \in TargetsFor(cs, Scope(d)) /\ TargetsFor(cs, Scope(c)) = TargetsFor(cs, Scope(d))
        BY <1>8 DEF SameTargets, TargetsFor
      <4>3. PICK e \in cs : Scope(e) = Scope(c) /\ e.target = d.target
        BY <4>2 DEF TargetsFor
      <4> QED
        BY <1>9, <4>1, <4>3, <4>4, <4>5
    <3> QED
      BY <3>1, <3>2
  <2>7. b.fields \in Seq(Fields)
    <3>1. order \in Seq(ts) /\ ts \subseteq Fields
      BY <1>5, <2>1, <2>2
    <3> QED
      BY <1>3, <3>1
  <2> HIDE DEF ss, ts
  <2> QED
    BY <1>3, <1>4, <2>1, <2>5, <2>6, <2>7 DEF Builders, FormActions, b
<1> QED
  BY <1>7, <1>8 DEF Buildable

Dialogs == [mode : {"none", "create", "edit"}, source : Rules \cup {None}, tab : {"guided", "raw"},
            target : BOOLEAN, touched : BOOLEAN]
Raws == [native : NativeRules, seclang : BOOLEAN, format : {"native", "seclang"}]
RuleJobs == [stage : {"none", "sent", "ok", "failed"}, guided : BOOLEAN, form : Builders,
         rule : Rules \cup {None}, source : Rules \cup {None}, heard : BOOLEAN]

\* The guided tab is only shown of a rule it has a form for, and until it is touched
\* the form is the one of that rule.
Faithful ==
  dialog.mode = "edit" =>
    /\ dialog.source \in Rules
    /\ dialog.tab = "guided" => HasForm(dialog.source)
    /\ HasForm(dialog.source) /\ ~dialog.touched => builder = GuidedForm(dialog.source)

DialogInv == dialog \in Dialogs /\ builder \in Builders /\ raw \in Raws /\ Faithful

JobInv == rule \in Rules /\ ruleJob \in RuleJobs /\ (ruleJob.stage = "sent" => ruleJob.rule \in Rules)

LEMMA BlankForms ==
  /\ NoDialog \in Dialogs /\ NoBuilder \in Builders /\ NoRaw \in Raws /\ NoRuleJob \in RuleJobs
  /\ Scaffold \in NativeRules /\ SecLang \in Rules
<1>1. Scaffold \in NativeRules /\ SecLang \in Rules
  BY DEF Scaffold, NativeRules, Actions, Rules
<1>2. NoDialog \in Dialogs
  BY DEF NoDialog, Dialogs
<1>3. NoRaw \in Raws
  BY <1>1 DEF NoRaw, Raws
<1>4. NoBuilder \in Builders
  <2>1. BlankField \in Fields
    BY DEF BlankField, Fields, Types
  <2>2. <<BlankField>> \in Seq(Fields)
    BY <2>1
  <2> QED
    BY <2>2 DEF NoBuilder, Builders, FormActions, Actions
<1>5. NoRuleJob \in RuleJobs
  BY <1>4 DEF NoRuleJob, RuleJobs
<1> QED
  BY <1>1, <1>2, <1>3, <1>4, <1>5

LEMMA GuidedForms ==
  ASSUME NEW r \in Rules, HasForm(r)
  PROVE  /\ r \in NativeRules /\ GuidedForm(r) \in Builders
         /\ GuidedForm(r).action = "exclusion" => BuildNativeRule(GuidedForm(r)).controls = Normal(r.controls)
<1>1. r \in NativeRules /\ r.action \in Actions /\ r.controls \in SUBSET Controls
  BY DEF HasForm, Rules, SecLang, NativeRules
<1>2. CASE r.action = "none"
  <2>1. Buildable(r.controls) /\ GuidedForm(r) = BuilderFor(r.controls)
    BY <1>2 DEF HasForm, GuidedForm
  <2> QED
    BY <1>1, <2>1, ReadsBack DEF BuildNativeRule
<1>3. CASE r.action # "none"
  <2>1. GuidedForm(r) = [NoBuilder EXCEPT !.action = r.action] /\ r.action \in FormActions
    BY <1>1, <1>3 DEF GuidedForm, FormActions
  <2>2. GuidedForm(r) \in Builders /\ GuidedForm(r).action = r.action
    BY <2>1, BlankForms DEF Builders
  <2>3. r.action # "exclusion"
    BY <1>1 DEF Actions
  <2> QED
    BY <1>1, <2>2, <2>3
<1> QED
  BY <1>2, <1>3

\* Whoever opens the dialog, and whatever is done in it.
LEMMA BuiltDialog ==
  ASSUME DialogInv, NEW b \in Builders, Build(b)
  PROVE  DialogInv'
<1>1. /\ dialog' = [dialog EXCEPT !.touched = TRUE] /\ builder' = b /\ raw' = raw
  BY DEF Build, Touched
<1>2. dialog' \in Dialogs /\ dialog'.touched /\ dialog'.source = dialog.source
      /\ dialog'.mode = dialog.mode /\ dialog'.tab = dialog.tab
  BY <1>1 DEF DialogInv, Dialogs
<1> QED
  BY <1>1, <1>2 DEF DialogInv, Faithful

LEMMA MovedDialog ==
  ASSUME DialogInv, NEW tab \in {"guided", "raw"}, NEW target \in BOOLEAN,
         dialog' = [[dialog EXCEPT !.tab = tab] EXCEPT !.target = target],
         builder' = builder, raw' \in Raws,
         dialog.mode = "edit" /\ tab = "guided" => HasForm(dialog.source)
  PROVE  DialogInv'
<1> DEFINE d == [dialog EXCEPT !.tab = tab]
<1>1. d \in Dialogs /\ d.tab = tab /\ d.mode = dialog.mode /\ d.source = dialog.source
      /\ d.touched = dialog.touched
  BY DEF DialogInv, Dialogs
<1> HIDE DEF d
<1>2. [d EXCEPT !.target = target] \in Dialogs
  BY <1>1 DEF Dialogs
<1>3. /\ dialog' \in Dialogs /\ dialog'.tab = tab /\ dialog'.mode = dialog.mode
      /\ dialog'.source = dialog.source /\ dialog'.touched = dialog.touched
  BY <1>1, <1>2 DEF Dialogs, d
<1> QED
  BY <1>3 DEF DialogInv, Faithful

LEMMA ClosedDialog == ASSUME DialogInv, Closed PROVE DialogInv'
<1>1. NoDialog.mode # "edit"
  BY DEF NoDialog
<1> QED
  BY <1>1, BlankForms DEF Closed, DialogInv, Faithful

LEMMA OpenedDialog ==
  ASSUME DialogInv, JobInv, NewRule \/ EditRule
  PROVE  DialogInv'
<1>1. CASE NewRule
  <2>1. dialog' = [NoDialog EXCEPT !.mode = "create"] /\ builder' = NoBuilder /\ raw' = NoRaw
    BY <1>1 DEF NewRule
  <2>2. dialog' \in Dialogs /\ dialog'.mode # "edit"
    BY <2>1, BlankForms DEF Dialogs
  <2> QED
    BY <2>1, <2>2, BlankForms DEF DialogInv, Faithful
<1>2. CASE EditRule
  <2> DEFINE tab == IF HasForm(rule) THEN "guided" ELSE "raw"
  <2>1. /\ dialog' = [NoDialog EXCEPT !.mode = "edit", !.source = rule, !.target = TRUE, !.tab = tab]
        /\ builder' = IF HasForm(rule) THEN GuidedForm(rule) ELSE builder
        /\ raw' = IF rule = SecLang THEN [raw EXCEPT !.seclang = TRUE, !.format = "seclang"]
                  ELSE [raw EXCEPT !.native = rule, !.format = "native"]
    BY <1>2 DEF EditRule
  <2>2. rule \in Rules
    BY DEF JobInv
  <2>3. dialog' = [mode |-> "edit", source |-> rule, tab |-> tab, target |-> TRUE, touched |-> FALSE]
    BY <2>1 DEF NoDialog
  <2>4. dialog' \in Dialogs /\ dialog'.source = rule /\ dialog'.tab = tab
    BY <2>2, <2>3 DEF Dialogs
  <2>5. builder' \in Builders
    BY <2>1, <2>2, GuidedForms DEF DialogInv
  <2>6. raw' \in Raws
    <3>1. CASE rule = SecLang
      BY <2>1, <3>1 DEF DialogInv, Raws
    <3>2. CASE rule # SecLang
      <4>1. rule \in NativeRules
        BY <2>2, <3>2 DEF Rules
      <4> QED
        BY <2>1, <3>2, <4>1 DEF DialogInv, Raws
    <3> QED
      BY <3>1, <3>2
  <2>7. Faithful'
    <3>1. dialog'.tab = "guided" => HasForm(rule)
      BY <2>4
    <3>2. HasForm(rule) => builder' = GuidedForm(rule)
      BY <2>1
    <3> HIDE DEF tab
    <3>3. HasForm(dialog'.source) <=> HasForm(rule)
      BY <2>4
    <3> QED
      BY <2>2, <2>4, <3>1, <3>2, <3>3 DEF Faithful, HasForm, GuidedForm
  <2> QED
    BY <2>4, <2>5, <2>6, <2>7 DEF DialogInv
<1> QED
  BY <1>1, <1>2

LEMMA DraftedDialog ==
  ASSUME DialogInv, NEW i, DraftFromEvent(i)
  PROVE  DialogInv'
<1>1. /\ dialog' = [NoDialog EXCEPT !.mode = "create", !.target = TRUE] /\ raw' = NoRaw
      /\ builder' \in [action : {"exclusion"}, kind : {"fields"},
                       picked : {{s} : s \in {t \in Scopes : t.on = "rule"}}, typed : {{}},
                       fields : {<<>>, <<[type |-> "header", name |-> Lower[First]]>>}]
  BY DEF DraftFromEvent
<1>2. dialog' \in Dialogs /\ dialog'.mode # "edit"
  BY <1>1 DEF Dialogs, NoDialog
<1>3. builder' \in Builders
  <2>1. [type |-> "header", name |-> Lower[First]] \in Fields
    BY RuleFormAssumption DEF Fields, Types
  <2>2. <<>> \in Seq(Fields) /\ <<[type |-> "header", name |-> Lower[First]]>> \in Seq(Fields)
    BY <2>1
  <2>3. \A s \in Scopes : {s} \in SUBSET Scopes
    OBVIOUS
  <2> QED
    BY <1>1, <2>2, <2>3 DEF Builders, FormActions
<1> QED
  BY <1>1, <1>2, <1>3, BlankForms DEF DialogInv, Faithful

\* Everything that is done to the form leaves a form.
LEMMA FormEdits ==
  ASSUME DialogInv, RuleFormNext
  PROVE  \/ \E b \in Builders : Build(b)
         \/ NewRule \/ EditRule \/ CloseRule \/ ChooseService \/ ContinueInRaw
         \/ \E t \in {"guided", "raw"} : ShowTab(t)
         \/ \E r \in Raws : TypeRaw(r)
         \/ SaveRule \/ ServeRule \/ RuleAnswered
         \/ \E r \in OthersRules : OthersWrite(r)
<1> DEFINE Edited == \E b \in Builders : Build(b)
<1>1. /\ builder \in Builders /\ builder.fields \in Seq(Fields) /\ builder.picked \subseteq Scopes
      /\ builder.typed \subseteq Scopes
  BY DEF DialogInv, Builders
<1>2. BlankField \in Fields
  BY DEF BlankField, Fields, Types
<1>3. ASSUME NEW a \in FormActions, ChooseAction(a) PROVE Edited
  <2>1. [builder EXCEPT !.action = a] \in Builders
    BY <1>1 DEF Builders
  <2> QED
    BY <1>3, <2>1 DEF ChooseAction
<1>4. ASSUME NEW k \in {"fields", "detections"}, ChooseKind(k) PROVE Edited
  <2> DEFINE order == IF k = "fields" /\ builder.fields = <<>> THEN <<BlankField>> ELSE builder.fields
             b == [builder EXCEPT !.kind = k, !.fields = order]
  <2>1. order \in Seq(Fields)
    BY <1>1, <1>2
  <2>2. Build(b)
    BY <1>4 DEF ChooseKind
  <2> HIDE DEF order
  <2>3. b \in Builders
    BY <1>1, <2>1 DEF Builders
  <2> HIDE DEF b
  <2> QED
    BY <2>2, <2>3
<1>5. ASSUME NEW s \in Scopes, Pick(s) PROVE Edited
  <2>1. Toggle(builder.picked, s) \in SUBSET Scopes
    BY <1>1 DEF Toggle
  <2>2. [builder EXCEPT !.picked = Toggle(@, s)] \in Builders
    BY <1>1, <2>1 DEF Builders
  <2> QED
    BY <1>5, <2>2 DEF Pick
<1>6. ASSUME NEW s \in Scopes, TypeScope(s) PROVE Edited
  <2>1. Toggle(builder.typed, s) \in SUBSET Scopes
    BY <1>1 DEF Toggle
  <2>2. [builder EXCEPT !.typed = Toggle(@, s)] \in Builders
    BY <1>1, <2>1 DEF Builders
  <2> QED
    BY <1>6, <2>2 DEF TypeScope
<1>7. ASSUME NEW order \in Seq(Fields), Build([builder EXCEPT !.fields = order]) PROVE Edited
  <2>1. [builder EXCEPT !.fields = order] \in Builders
    BY <1>1 DEF Builders
  <2> QED
    BY <1>7, <2>1
<1>8. ASSUME AddField PROVE Edited
  <2>1. Append(builder.fields, BlankField) \in Seq(Fields)
    BY <1>1, <1>2
  <2>2. Build([builder EXCEPT !.fields = Append(builder.fields, BlankField)])
    BY <1>8 DEF AddField
  <2> QED
    BY <1>7, <2>1, <2>2
<1>9. ASSUME NEW i \in 1 .. MaxFields, RemoveField(i) PROVE Edited
  <2> DEFINE order == SubSeq(builder.fields, 1, i - 1) \o SubSeq(builder.fields, i + 1, Len(builder.fields))
  <2>1. i \in DOMAIN builder.fields
    BY <1>9 DEF RemoveField, FieldRow
  <2>2. i \in 1 .. Len(builder.fields) /\ Len(builder.fields) \in Nat
    BY <1>1, <2>1
  <2>3. SubSeq(builder.fields, 1, i - 1) \in Seq(Fields)
        /\ SubSeq(builder.fields, i + 1, Len(builder.fields)) \in Seq(Fields)
    BY <1>1, <2>2, SubSeqProperties
  <2>4. order \in Seq(Fields)
    BY <2>3, ConcatProperties
  <2>5. Build([builder EXCEPT !.fields = order])
    BY <1>9 DEF RemoveField
  <2> HIDE DEF order
  <2> QED
    BY <1>7, <2>4, <2>5
<1>10. ASSUME NEW i \in 1 .. MaxFields, i \in DOMAIN builder.fields, NEW f \in Fields
       PROVE  builder.fields[i] \in Fields /\ [builder.fields EXCEPT ![i] = f] \in Seq(Fields)
  <2>1. builder.fields \in [1 .. Len(builder.fields) -> Fields] /\ Len(builder.fields) \in Nat
    BY <1>1
  <2>2. [builder.fields EXCEPT ![i] = f] \in [1 .. Len(builder.fields) -> Fields]
    BY <2>1
  <2>3. i \in 1 .. Len(builder.fields)
    BY <1>10, <2>1
  <2> QED
    BY <2>1, <2>2, <2>3
<1>11. ASSUME NEW i \in 1 .. MaxFields, NEW t \in Types, ChangeType(i, t) PROVE Edited
  <2> DEFINE f == [type |-> t, name |-> IF t = "body" THEN "" ELSE builder.fields[i].name]
  <2>1. i \in DOMAIN builder.fields
    BY <1>11 DEF ChangeType, FieldRow
  <2>2. builder.fields[i] \in Fields
    BY <1>2, <1>10, <2>1
  <2>3. f \in Fields
    BY <2>2 DEF Fields
  <2>4. Build([builder EXCEPT !.fields = [builder.fields EXCEPT ![i] = f]])
    BY <1>11 DEF ChangeType
  <2> HIDE DEF f
  <2> QED
    BY <1>7, <1>10, <2>1, <2>3, <2>4
<1>12. ASSUME NEW i \in 1 .. MaxFields, NEW n \in Names \cup {Comma, ""}, ChangeName(i, n) PROVE Edited
  <2> DEFINE f == [builder.fields[i] EXCEPT !.name = n]
  <2>1. i \in DOMAIN builder.fields
    BY <1>12 DEF ChangeName, FieldRow
  <2>2. builder.fields[i] \in Fields
    BY <1>2, <1>10, <2>1
  <2>3. f \in Fields
    BY <2>2 DEF Fields
  <2>4. Build([builder EXCEPT !.fields = [builder.fields EXCEPT ![i] = f]])
    BY <1>12 DEF ChangeName
  <2> HIDE DEF f
  <2> QED
    BY <1>7, <1>10, <2>1, <2>3, <2>4
<1>13. [native : {Scaffold, raw.native}, seclang : BOOLEAN, format : {"native", "seclang"}] \subseteq Raws
  BY BlankForms DEF DialogInv, Raws
<1> QED
  BY <1>3, <1>4, <1>5, <1>6, <1>8, <1>9, <1>11, <1>12, <1>13 DEF RuleFormNext, FormActions

LEMMA DialogSteps == ASSUME DialogInv, JobInv, [Next]_vars PROVE DialogInv'
<1>1. ASSUME UNCHANGED ruleDialog PROVE DialogInv'
  BY <1>1 DEF ruleDialog, DialogInv, Faithful
<1>2. ASSUME NEW p, RuleFormLeft(p) PROVE DialogInv'
  BY <1>1, <1>2, ClosedDialog DEF RuleFormLeft
<1>3. dialog = [[dialog EXCEPT !.tab = dialog.tab] EXCEPT !.target = dialog.target]
      /\ dialog.tab \in {"guided", "raw"} /\ dialog.target \in BOOLEAN
  BY DEF DialogInv, Dialogs
<1>4. dialog.mode = "edit" /\ dialog.tab = "guided" => HasForm(dialog.source)
  BY DEF DialogInv, Faithful
<1>5. ASSUME NEW b \in Builders, Build(b) PROVE DialogInv'
  BY <1>5, BuiltDialog
<1>6. ASSUME ChooseService PROVE DialogInv'
  <2> DEFINE target == ~dialog.target
  <2>1. target \in BOOLEAN
    BY Zenon
  <2>2. dialog' = [dialog EXCEPT !.target = target] /\ builder' = builder /\ raw' = raw
    BY <1>6 DEF ChooseService
  <2> HIDE DEF target
  <2>3. dialog' = [[dialog EXCEPT !.tab = dialog.tab] EXCEPT !.target = target]
    BY <2>2 DEF DialogInv, Dialogs
  <2>4. raw' \in Raws
    BY <2>2 DEF DialogInv
  <2> QED
    BY <1>3, <1>4, <2>1, <2>2, <2>3, <2>4, MovedDialog
<1>7. ASSUME NEW t \in {"guided", "raw"}, ShowTab(t) PROVE DialogInv'
  <2>1. /\ dialog' = [dialog EXCEPT !.tab = t] /\ builder' = builder /\ raw' = raw
        /\ dialog.mode = "edit" => HasForm(dialog.source)
    BY <1>7 DEF ShowTab
  <2>2. dialog' = [[dialog EXCEPT !.tab = t] EXCEPT !.target = dialog.target] /\ raw' \in Raws
    BY <2>1 DEF DialogInv, Dialogs
  <2> QED
    BY <1>3, <2>1, <2>2, MovedDialog
<1>8. ASSUME ContinueInRaw PROVE DialogInv'
  <2>1. /\ dialog' = [dialog EXCEPT !.tab = "raw"] /\ builder' = builder
        /\ raw' = [raw EXCEPT !.native = BuildNativeRule(builder), !.format = "native"]
    BY <1>8 DEF ContinueInRaw
  <2>2. dialog' = [[dialog EXCEPT !.tab = "raw"] EXCEPT !.target = dialog.target]
    BY <2>1 DEF DialogInv, Dialogs
  <2>3. raw' \in Raws
    BY <2>1, BuildsRules DEF DialogInv, Raws
  <2> QED
    BY <1>3, <2>1, <2>2, <2>3, MovedDialog
<1>9. ASSUME NEW r \in Raws, TypeRaw(r) PROVE DialogInv'
  <2>1. dialog' = [dialog EXCEPT !.touched = TRUE] /\ builder' = builder /\ raw' = r
    BY <1>9 DEF TypeRaw, Touched
  <2>2. dialog' \in Dialogs /\ dialog'.touched /\ dialog'.source = dialog.source
        /\ dialog'.mode = dialog.mode /\ dialog'.tab = dialog.tab
    BY <2>1 DEF DialogInv, Dialogs
  <2> QED
    BY <2>1, <2>2 DEF DialogInv, Faithful
<1>10. ASSUME SaveRule \/ ServeRule \/ RuleAnswered PROVE DialogInv'
  BY <1>1, <1>10, ClosedDialog DEF SaveRule, ServeRule, RuleAnswered
<1>11. ASSUME NEW r, OthersWrite(r) PROVE DialogInv'
  BY <1>1, <1>11 DEF OthersWrite
<1>12. ASSUME RuleFormNext PROVE DialogInv'
  BY <1>5, <1>6, <1>7, <1>8, <1>9, <1>10, <1>11, <1>12, FormEdits, OpenedDialog, ClosedDialog
    DEF CloseRule
<1>13. ASSUME UNCHANGED ruleForm PROVE DialogInv'
  BY <1>1, <1>13 DEF ruleForm, ruleDialog
<1>14. ASSUME NEW i, Draft(i) PROVE DialogInv'
  BY <1>14, DraftedDialog DEF Draft
<1> QED
  BY <1>2, <1>12, <1>13, <1>14 DEF Next, Navigate, Palette, AiStepSaved, vars

LEMMA JobSteps == ASSUME DialogInv, JobInv, [Next]_vars PROVE JobInv'
<1>1. rule \in Rules /\ ruleJob \in RuleJobs /\ (ruleJob.stage = "sent" => ruleJob.rule \in Rules)
  BY DEF JobInv
<1>2. ASSUME UNCHANGED <<rule, ruleJob>> PROVE JobInv'
  BY <1>2 DEF JobInv
<1>3. ASSUME NEW p, RuleFormLeft(p), UNCHANGED rule PROVE JobInv'
  <2>1. CASE ruleJob' = [ruleJob EXCEPT !.heard = FALSE]
    <3>1. ruleJob' \in RuleJobs /\ ruleJob'.stage = ruleJob.stage /\ ruleJob'.rule = ruleJob.rule
      BY <1>1, <2>1 DEF RuleJobs
    <3> QED
      BY <1>1, <1>3, <3>1 DEF JobInv
  <2> QED
    BY <1>2, <1>3, <2>1 DEF RuleFormLeft
<1>4. ASSUME NEW b, Build(b) PROVE JobInv'
  BY <1>2, <1>4 DEF Build
<1>5. ASSUME SaveRule PROVE JobInv'
  <2> DEFINE guided == Guided
             new == [stage |-> "sent", guided |-> guided, form |-> builder,
                     rule |-> RuleToSave, source |-> dialog.source, heard |-> TRUE]
  <2>1. guided \in BOOLEAN
    BY Zenon DEF Guided
  <2>2. RuleToSave \in Rules
    <3>1. BuildNativeRule(builder) \in Rules /\ raw.native \in Rules /\ SecLang \in Rules
      BY BuildsRules DEF DialogInv, Raws, Rules
    <3> QED
      BY <3>1 DEF RuleToSave
  <2>3. ruleJob' = new /\ rule' = rule
    BY <1>5 DEF SaveRule
  <2> HIDE DEF guided
  <2>4. new \in RuleJobs
    BY <2>1, <2>2 DEF RuleJobs, DialogInv, Dialogs
  <2>5. new.rule \in Rules
    BY <2>2
  <2> HIDE DEF new
  <2> QED
    BY <1>1, <2>3, <2>4, <2>5 DEF JobInv
<1>6. ASSUME ServeRule PROVE JobInv'
  <2>1. \E stage \in {"ok", "failed"} : ruleJob' = [ruleJob EXCEPT !.stage = stage]
    BY <1>6 DEF ServeRule
  <2>2. ruleJob' \in RuleJobs /\ ruleJob'.stage # "sent"
    BY <1>1, <2>1 DEF RuleJobs
  <2>3. rule' \in Rules
    BY <1>1, <1>6 DEF ServeRule
  <2> QED
    BY <2>2, <2>3 DEF JobInv
<1>7. ASSUME RuleAnswered PROVE JobInv'
  <2>1. ruleJob' = NoRuleJob /\ rule' = rule /\ NoRuleJob.stage # "sent"
    BY <1>7 DEF RuleAnswered, NoRuleJob
  <2> QED
    BY <1>1, <2>1, BlankForms DEF JobInv
<1>8. ASSUME NEW r \in OthersRules, OthersWrite(r) PROVE JobInv'
  BY <1>1, <1>8, RuleFormAssumption DEF OthersWrite, JobInv, Rules
<1>9. ASSUME RuleFormNext PROVE JobInv'
  BY <1>2, <1>4, <1>5, <1>6, <1>7, <1>8, <1>9, FormEdits
    DEF NewRule, EditRule, CloseRule, ChooseService, ContinueInRaw, ShowTab, TypeRaw
<1>10. ASSUME NEW i, Draft(i) PROVE JobInv'
  BY <1>2, <1>10 DEF Draft, DraftFromEvent
<1> QED
  BY <1>2, <1>3, <1>9, <1>10 DEF Next, Navigate, Palette, AiStepSaved, vars, ruleForm

LEMMA RuleFormStart == Init => DialogInv /\ JobInv
<1> SUFFICES ASSUME Init PROVE DialogInv /\ JobInv
  OBVIOUS
<1>1. rule = Scaffold /\ dialog = NoDialog /\ builder = NoBuilder /\ raw = NoRaw /\ ruleJob = NoRuleJob
  BY DEF Init, RuleFormInit
<1>2. NoDialog.mode # "edit" /\ NoRuleJob.stage # "sent" /\ Scaffold \in Rules
  BY BlankForms DEF NoDialog, NoRuleJob, Rules
<1> QED
  BY <1>1, <1>2, BlankForms DEF DialogInv, Faithful, JobInv

LEMMA ShownAsIs == ASSUME DialogInv PROVE ReopensTheSame
<1> SUFFICES ASSUME dialog.mode = "edit", Guided, InBuilder, ~dialog.touched
             PROVE  BuildNativeRule(builder).controls = Normal(dialog.source.controls)
  BY DEF ReopensTheSame
<1>1. dialog.source \in Rules /\ HasForm(dialog.source) /\ builder = GuidedForm(dialog.source)
  BY DEF DialogInv, Faithful, Guided
<1> QED
  BY <1>1, GuidedForms DEF InBuilder

\* An exclusion opened in the guided form, whoever wrote it, would be saved with its own
\* controls and no others if nothing in the form is touched: only headers go to lower
\* case, and an id or a tag is cut at its commas.
THEOREM ReopenedUnchanged == Spec => []ReopensTheSame
<1>1. Init => DialogInv /\ JobInv
  BY RuleFormStart
<1>2. DialogInv /\ JobInv /\ [Next]_vars => DialogInv' /\ JobInv'
  BY DialogSteps, JobSteps
<1>3. DialogInv => ReopensTheSame
  BY ShownAsIs
<1> QED
  BY <1>1, <1>2, <1>3, PTL DEF Spec
=============================================================================
