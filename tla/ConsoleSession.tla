--------------------------- MODULE ConsoleSession ---------------------------
(***************************************************************************)
(* One browser tab of the console and the session it runs under: the gate  *)
(* that decides between the sign-in form, the first-run setup and the      *)
(* views, the token the tab holds, and the version of the tokens the API   *)
(* accepts (signing out or changing the password revokes all the others).  *)
(*                                                                         *)
(* The modules of the views extend this one; ConsoleApp composes them.     *)
(***************************************************************************)
EXTENDS Integers

CONSTANTS
  None,
  MaxAsks      \* bound: what the operators of both browsers do

ASSUME SessionAssumption == MaxAsks \in Nat

Steps == {"welcome", "kong", "ai", "done"}           \* of the first-run setup
Views == {"settings", "events", "rules", "services"} \* those with a model of their own
Signed == Steps \cup Views \cup {"gate"}

VARIABLES
  place,        \* the screen shown; "gate" waits for the setup state
  account,      \* the API has its administrator
  registered,   \* what the tab was told of that
  current,      \* token_version: tokens of other versions are refused
  token,        \* the version of the token the tab holds; 0: none
  email,        \* AuthProvider knows who is signed in
  auth,         \* auth[s]: the call under way of the sign-in form, or of the sign-out
                \* and password buttons: nothing keeps one from overlapping the other
  poll,         \* a dashboard request under way, and the token it carries
  finishing,    \* the wizard's call that says the setup was finished or skipped
  asks

session == <<account, registered, current, token, email, auth, poll, finishing>>

NoCall == [op |-> "none", stage |-> "none", token |-> 0]
Slots == {"form", "account"}
NoPoll == [stage |-> "none", token |-> 0]

SessionTypeOK ==
  /\ place \in Signed \cup {"boot", "login"}
  /\ account \in BOOLEAN /\ registered \in BOOLEAN /\ email \in BOOLEAN
  /\ current \in 1 .. MaxAsks + 1 /\ token \in 0 .. current
  /\ auth \in [Slots -> [op : {"none", "login", "register", "logout", "password"},
                         stage : {"none", "sent", "ok", "failed"}, token : 0 .. current]]
  /\ poll \in [stage : {"none", "sent", "refused"}, token : 0 .. current]
  /\ finishing \in {"none", "sent", "ok", "failed"}
  /\ asks \in 0 .. MaxAsks

SessionInit ==
  /\ place = "boot"
  /\ account \in BOOLEAN /\ registered = FALSE
  /\ current = 1 /\ token \in {0, current} /\ (token # 0 => account)
  /\ email = FALSE
  /\ auth = [s \in Slots |-> NoCall] /\ poll = NoPoll
  /\ finishing = "none"
  /\ asks = 0

Ask == asks < MaxAsks /\ asks' = asks + 1
Valid == token = current

-----------------------------------------------------------------------------
(* Starting, signing in and out.                                           *)

SignedIn(e) == email' = e /\ place' = IF e THEN "gate" ELSE "login"

\* status, then me if a token is kept: an API that does not answer leaves the tab
\* signed out, on the form of a first run, with the token it has if it was status.
Boot ==
  /\ place = "boot"
  /\ \/ UNCHANGED <<registered, token>> /\ SignedIn(FALSE)
     \/ /\ registered' = account
        /\ \/ token # 0 /\ Valid /\ UNCHANGED token /\ SignedIn(TRUE)
           \/ token' = 0 /\ SignedIn(FALSE)
  /\ UNCHANGED <<account, current, auth, poll, finishing, asks>>

\* The page is loaded again: only the token outlives it.
Reload ==
  /\ place # "boot" /\ Ask
  /\ place' = "boot"
  /\ registered' = FALSE /\ email' = FALSE
  /\ auth' = [s \in Slots |-> NoCall] /\ poll' = NoPoll /\ finishing' = "none"
  /\ UNCHANGED <<account, current, token>>

Call(s, op) ==
  /\ auth[s] = NoCall
  /\ auth' = [auth EXCEPT ![s] = [op |-> op, stage |-> "sent", token |-> token]]

\* The form asks for the setup token as well when no administrator is known.
Submit ==
  /\ place = "login" /\ Ask
  /\ Call("form", IF registered THEN "login" ELSE "register")
  /\ UNCHANGED <<place, account, registered, current, token, email, poll, finishing>>

ChangePassword ==
  /\ place = "settings" /\ Ask
  /\ Call("account", "password")
  /\ UNCHANGED <<place, account, registered, current, token, email, poll, finishing>>

Logout ==
  /\ place \in Steps \cup Views /\ Ask
  /\ Call("account", "logout")
  /\ UNCHANGED <<place, account, registered, current, token, email, poll, finishing>>

Outcome(s, stage, t) ==
  auth' = [auth EXCEPT ![s] = [op |-> auth[s].op, stage |-> stage, token |-> t]]

\* Wrong credentials, a locked sign-in, a revoked token or no answer are one outcome.
ServeAuth(s) ==
  /\ auth[s].stage = "sent"
  /\ \/ auth[s].op = "login" /\ account /\ Outcome(s, "ok", current) /\ UNCHANGED <<account, current>>
     \/ /\ auth[s].op = "register" /\ ~account
        /\ account' = TRUE
        /\ Outcome(s, "ok", current) /\ UNCHANGED current
     \/ /\ s = "account" /\ auth[s].token = current
        /\ current' = current + 1
        /\ Outcome(s, "ok", current + 1) /\ UNCHANGED account
     \/ Outcome(s, "failed", 0) /\ UNCHANGED <<account, current>>
  /\ UNCHANGED <<place, registered, token, email, poll, finishing, asks>>

\* What each call does with its outcome, whatever the tab shows by then.
AuthAnswered(s) ==
  /\ auth[s].stage \in {"ok", "failed"}
  /\ auth' = [auth EXCEPT ![s] = NoCall]
  /\ CASE auth[s].op = "logout" ->
            token' = 0 /\ SignedIn(FALSE) /\ UNCHANGED registered
       [] auth[s].op = "password" /\ auth[s].stage = "ok" ->
            token' = auth[s].token /\ UNCHANGED <<registered, email, place>>
       [] auth[s].op \in {"login", "register"} /\ auth[s].stage = "ok" ->
            /\ token' = auth[s].token /\ SignedIn(TRUE)
            /\ registered' = (registered \/ auth[s].op = "register")
       [] OTHER -> UNCHANGED <<token, registered, email, place>>
  /\ UNCHANGED <<account, current, poll, finishing, asks>>

\* Another browser signs out everywhere or changes the password.
OthersRevoke ==
  /\ account /\ Ask
  /\ current' = current + 1
  /\ UNCHANGED <<place, account, registered, token, email, auth, poll, finishing>>

-----------------------------------------------------------------------------
(* Any other request.                                                      *)

\* The dashboard is polled while a view is open; every other request of the
\* console is refused in the same way.  Only a refusal matters to the session.
Poll ==
  /\ place \in Views /\ poll = NoPoll
  /\ poll' = [stage |-> "sent", token |-> token]
  /\ UNCHANGED <<place, account, registered, current, token, email, auth, finishing, asks>>

ServePoll ==
  /\ poll.stage = "sent"
  /\ poll' = IF poll.token = current THEN NoPoll ELSE [poll EXCEPT !.stage = "refused"]
  /\ UNCHANGED <<place, account, registered, current, token, email, auth, finishing, asks>>

ForgetUser_Never == UNCHANGED email
ForgetUser == email' = FALSE

\* A 401 drops whatever token the tab holds by now and who is signed in.
Unauthorized ==
  /\ token' = 0
  /\ ForgetUser
  /\ place' = IF place \in Signed /\ ~email' THEN "login" ELSE place

Polled ==
  /\ poll.stage = "refused"
  /\ poll' = NoPoll
  /\ Unauthorized
  /\ UNCHANGED <<account, registered, current, auth, finishing, asks>>

-----------------------------------------------------------------------------
(* The gate, the steps of the setup, the views.                            *)

\* The setup shows until the API says that it was finished or skipped once; after that,
\* and if the API does not tell, the hash decides, which is of any view or the setup's.
Gate ==
  /\ place = "gate"
  /\ \/ place' \in Views \cup {"welcome"} /\ UNCHANGED <<token, email>>
     \/ ~Valid /\ Unauthorized
  /\ UNCHANGED <<account, registered, current, auth, poll, finishing, asks>>

\* Views change with the hash; "Run setup again" is a link to the setup's.
Go(v) ==
  /\ place \in Views /\ v # place /\ Ask
  /\ v = "welcome" => place = "settings"
  /\ place' = v
  /\ UNCHANGED session

Back == [kong |-> "welcome", ai |-> "kong", done |-> "ai"]
Onward == [welcome |-> "kong", kong |-> "ai", ai |-> "done"]

StepTo(p) ==
  /\ place = "done" => finishing = "none"
  /\ \/ place \in DOMAIN Back /\ p = Back[place]
     \/ place \in DOMAIN Onward /\ p = Onward[place]
  /\ place' = p
  /\ UNCHANGED <<session, asks>>

\* "Skip setup" on the first step, the buttons of the last.
Finish ==
  /\ place \in {"welcome", "done"} /\ finishing = "none" /\ Ask
  /\ finishing' = "sent"
  /\ UNCHANGED <<place, account, registered, current, token, email, auth, poll>>

ServeFinish ==
  /\ finishing = "sent"
  /\ \/ Valid /\ finishing' = "ok"
     \/ finishing' = "failed"
  /\ UNCHANGED <<place, account, registered, current, token, email, auth, poll, asks>>

\* The wizard closes from whatever step it has come to, for the overview (which has no
\* model), the services or the events; what fails is shown, and a revoked session is
\* the sign-in form's.
Finished ==
  /\ finishing \in {"ok", "failed"}
  /\ finishing' = "none"
  /\ IF finishing = "failed" /\ ~Valid THEN Unauthorized
     ELSE /\ IF finishing = "ok" /\ place \in Steps THEN place' \in {"services", "events"} ELSE UNCHANGED place
          /\ UNCHANGED <<token, email>>
  /\ UNCHANGED <<account, registered, current, auth, poll, asks>>

Moves ==
  \/ Boot \/ Reload \/ Polled \/ Gate \/ Finished
  \/ \E s \in Slots : AuthAnswered(s)
  \/ \E v \in Views \cup {"welcome"} : Go(v)
  \/ \E p \in Steps : StepTo(p)

Stays ==
  \/ Submit \/ ChangePassword \/ Logout \/ OthersRevoke \/ (\E s \in Slots : ServeAuth(s))
  \/ Poll \/ ServePoll \/ Finish \/ ServeFinish

-----------------------------------------------------------------------------
\* Somebody is only taken to be signed in while there is a token to send: sign-ins,
\* late answers and revocations in any order never leave a view that no request of
\* its own can work in (AuthProvider, onUnauthorized).
SignedInHasToken == email => token # 0
=============================================================================
