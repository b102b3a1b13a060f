-------------------------- MODULE ConsoleProfiles --------------------------
(***************************************************************************)
(* The models the assistant can use: profiles kept by the API with their   *)
(* encrypted keys, edited on the settings' card and in the setup's AI      *)
(* step, where a connection can be tested before it is saved.              *)
(*                                                                         *)
(* Of a profile only what decides where a key may go is kept: an endpoint, *)
(* which stands for the provider and the origin of the base URL.  A key is *)
(* known by the endpoint it was entered for.  Which profile is the default *)
(* and the connection tag beside the form are left out.                    *)
(***************************************************************************)
EXTENDS ConsoleSession

CONSTANTS
  Profiles,
  Endpoints,     \* of local and custom providers, whose URL can be typed ...
  Remote         \* ... and the one of a provider with a fixed URL that needs a key

ASSUME ProfilesAssumption == Profiles # {} /\ None \notin Profiles

VARIABLES
  profile,       \* the rows of ai_profiles, None: no such profile
  providers,     \* the list of providers is there
  profileRows,   \* the profiles the card lists
  draft,         \* the form
  aiJob,         \* the one call under way, and the first load; whether its form and
                 \* its wizard are still there
  dropping       \* the profile whose removal is being confirmed

profiles == <<profile, providers, profileRows, draft, aiJob, dropping>>
aiCard == <<providers, profileRows, draft, dropping>>

At == Endpoints \cup {Remote}
Blank == [id |-> None, at |-> None, typed |-> FALSE, has |-> FALSE]
NoAiJob == [op |-> "none", stage |-> "none", draft |-> Blank, key |-> None, heard |-> FALSE,
            wizard |-> FALSE]
NoProfiles == [p \in Profiles |-> None]

ProfilesTypeOK ==
  /\ \A p \in Profiles : profile[p] \in {None} \cup
       [at : At, key : At \cup {None}]
  /\ providers \in BOOLEAN
  /\ draft.id \in Profiles \cup {None} /\ draft.at \in At \cup {None}
  /\ aiJob.op \in {"none", "load", "test", "save", "remove"}
  /\ aiJob.stage \in {"none", "sent", "probing", "answered", "failed", "list"}
  /\ dropping \in Profiles \cup {None}

ProfilesInit ==
  /\ profile = [NoProfiles EXCEPT ![CHOOSE p \in Profiles : TRUE] =
                  [at |-> Remote, key |-> Remote]]
  /\ providers = FALSE /\ profileRows = NoProfiles
  /\ draft = Blank /\ dropping = None
  /\ aiJob = NoAiJob

\* Every step of the setup and every view has a form of its own.
AiFormLeft(p) ==
  IF p = place THEN UNCHANGED aiCard
  ELSE /\ providers' = FALSE /\ profileRows' = NoProfiles
       /\ draft' = Blank /\ dropping' = None

ProfilesLeft(p) ==
  /\ AiFormLeft(p)
  /\ aiJob' = IF p = place THEN aiJob ELSE [aiJob EXCEPT !.heard = FALSE, !.wizard = @ /\ p \in Steps]

Shown == place \in {"ai", "settings"}
Ready == Shown /\ aiJob.op = "none"       \* `busy' disables the buttons, not the inputs

-----------------------------------------------------------------------------
(* The form.                                                               *)

\* The first load fills in a local provider unless a profile is being edited.
LoadProfiles ==
  /\ Shown /\ ~providers /\ aiJob.op = "none"
  /\ aiJob' = [op |-> "load", stage |-> "list", draft |-> Blank, key |-> None, heard |-> TRUE, wizard |-> FALSE]
  /\ UNCHANGED <<session, asks, place, profile, aiCard>>

\* Another provider: its own URL, no key typed and none that is stored.
ChooseProvider(e) ==
  /\ Shown /\ providers /\ e # draft.at /\ Ask
  /\ draft' = [draft EXCEPT !.at = e, !.typed = FALSE, !.has = FALSE]
  /\ UNCHANGED <<session, place, profile, providers, profileRows, aiJob, dropping>>

\* Another URL of the same provider: what was typed as the key stays.
TypeUrl(e) ==
  /\ Shown /\ draft.at \in Endpoints /\ e \in Endpoints /\ e # draft.at /\ Ask
  /\ draft' = [draft EXCEPT !.at = e]
  /\ UNCHANGED <<session, place, profile, providers, profileRows, aiJob, dropping>>

TypeKey ==
  /\ Shown /\ ~draft.typed /\ draft.at # None /\ Ask
  /\ draft' = [draft EXCEPT !.typed = TRUE]
  /\ UNCHANGED <<session, place, profile, providers, profileRows, aiJob, dropping>>

FormOf(p, q) == [id |-> p, at |-> q.at, typed |-> FALSE, has |-> q.key # None]

EditProfile(p) ==
  /\ place = "settings" /\ Ready /\ profileRows[p] # None
  /\ draft' = FormOf(p, profileRows[p])
  /\ UNCHANGED <<session, asks, place, profile, providers, profileRows, aiJob, dropping>>

Local == CHOOSE e \in Endpoints : TRUE
DefaultUrl(e) == IF e \in Endpoints THEN Local ELSE e

NewProfile ==
  /\ place = "settings" /\ providers
  /\ draft' = [Blank EXCEPT !.at = Local]
  /\ UNCHANGED <<session, asks, place, profile, providers, profileRows, aiJob, dropping>>

\* Name and model are filled in.
CanSend == draft.at # None /\ (draft.at = Remote => draft.typed \/ draft.has)

Send(op, d) ==
  aiJob' = [op |-> op, stage |-> "sent", draft |-> d, key |-> None, heard |-> TRUE,
            wizard |-> place = "ai"]

TestProfile ==
  /\ Ready /\ CanSend /\ Ask
  /\ Send("test", draft)
  /\ UNCHANGED <<session, place, profile, aiCard>>

\* The setup's step can be skipped unless a call of it is under way.
MaySkip == aiJob.op \in {"none", "load"} \/ ~aiJob.heard

SaveProfile ==
  /\ Ready /\ CanSend /\ Ask
  /\ Send("save", draft)
  /\ UNCHANGED <<session, place, profile, aiCard>>

AskDrop(p) ==
  /\ place = "settings" /\ Ready /\ profileRows[p] # None /\ Ask
  /\ dropping' = p
  /\ UNCHANGED <<session, place, profile, providers, profileRows, draft, aiJob>>

DropProfile ==
  /\ place = "settings" /\ Ready /\ dropping # None
  /\ Send("remove", [id |-> dropping, at |-> IF draft.id = None THEN draft.at ELSE None,
                     typed |-> FALSE, has |-> FALSE])
  /\ UNCHANGED <<session, asks, place, profile, aiCard>>

KeepProfile ==
  /\ dropping # None /\ dropping' = None
  /\ UNCHANGED <<session, asks, place, profile, providers, profileRows, draft, aiJob>>

-----------------------------------------------------------------------------
(* The API.                                                                *)

AiStage(stage) == aiJob' = [aiJob EXCEPT !.stage = stage]

\* A stored key is kept unless a new one is sent, but only for its own endpoint; some
\* providers need one.
KeepsKey_Anywhere(d) == d.id # None /\ ~d.typed
KeepsKey(d) ==
  d.id # None /\ ~d.typed /\ (profile[d.id].key # None => profile[d.id].at = d.at)

KeyOf(d) ==
  CASE d.typed -> d.at
    [] ~d.typed /\ KeepsKey(d) -> profile[d.id].key
    [] OTHER -> None

\* normalize: 404, 422.
Accepted(d) ==
  /\ d.id # None => profile[d.id] # None
  /\ d.id # None /\ ~d.typed => KeepsKey(d)
  /\ d.at = Remote => KeyOf(d) # None

Refuse == AiStage("failed") /\ UNCHANGED profile

Stored(p, d) == [profile EXCEPT ![p] = [at |-> d.at, key |-> KeyOf(d)]]

ServeSaveProfile ==
  /\ aiJob.op = "save" /\ aiJob.stage = "sent"
  /\ LET d == aiJob.draft
     IN  \/ /\ Accepted(d)
            /\ \E p \in IF d.id # None THEN {d.id} ELSE {x \in Profiles : profile[x] = None} :
                 /\ profile' = Stored(p, d)
                 /\ aiJob' = [aiJob EXCEPT !.stage = "answered", !.draft.id = p]
         \/ Refuse      \* also: the name is another profile's

ServeTest ==
  /\ aiJob.op = "test" /\ aiJob.stage = "sent"
  /\ \/ Accepted(aiJob.draft)
        /\ aiJob' = [aiJob EXCEPT !.stage = "probing", !.key = KeyOf(aiJob.draft)]
        /\ UNCHANGED profile
     \/ ~Accepted(aiJob.draft) /\ Refuse

ServeProbe ==
  /\ aiJob.stage = "probing"
  /\ AiStage("answered") \/ AiStage("failed")
  /\ UNCHANGED profile

ServeDrop ==
  /\ aiJob.op = "remove" /\ aiJob.stage = "sent"
  /\ IF profile[aiJob.draft.id] = None THEN Refuse
     ELSE profile' = [profile EXCEPT ![aiJob.draft.id] = None] /\ AiStage("answered")

ProfilesApi ==
  /\ ServeSaveProfile \/ ServeTest \/ ServeProbe \/ ServeDrop
  /\ UNCHANGED <<session, asks, place, aiCard>>

\* Another browser saves a profile under the same rules, or removes one.
OthersProfile(p) ==
  /\ Ask
  /\ \/ \E e \in At : profile' = Stored(p, [id |-> IF profile[p] = None THEN None ELSE p,
                                            at |-> e, typed |-> TRUE, has |-> FALSE])
     \/ profile' = [profile EXCEPT ![p] = None]
  /\ UNCHANGED <<session, place, aiJob, aiCard>>

-----------------------------------------------------------------------------
(* The answers.                                                            *)

\* The list is read; the form shows the profile saved, or gets a provider if it has
\* none.  After a removal it is blank, and stays so if it had shown a saved profile.
ProfilesListed ==
  /\ aiJob.stage = "list"
  /\ aiJob' = NoAiJob
  /\ IF ~aiJob.heard THEN UNCHANGED aiCard
     ELSE /\ providers' = TRUE /\ profileRows' = profile
          /\ LET p == aiJob.draft.id
             IN  draft' = CASE aiJob.op = "save" /\ profile[p] # None -> FormOf(p, profile[p])
                            [] aiJob.op = "load" -> [draft EXCEPT !.at = Local]
                            [] aiJob.op = "remove" -> [draft EXCEPT !.at = DefaultUrl(aiJob.draft.at)]
                            [] OTHER -> draft
          /\ UNCHANGED dropping
  /\ UNCHANGED <<session, asks, place, profile>>

ProfileAnswered ==
  /\ aiJob.stage \in {"answered", "failed"}
  /\ LET good == aiJob.stage = "answered" /\ aiJob.heard
         listed == good /\ place = "settings" /\ aiJob.op # "test"
     IN  /\ IF listed THEN AiStage("list") ELSE aiJob' = NoAiJob
         /\ draft' = IF good /\ aiJob.op = "remove" THEN Blank ELSE draft
         /\ dropping' = IF good /\ aiJob.op = "remove" THEN None ELSE dropping
         /\ UNCHANGED <<providers, profileRows>>
  /\ ~(aiJob.stage = "answered" /\ aiJob.op = "save" /\ aiJob.wizard)
  /\ UNCHANGED <<session, asks, place, profile>>

\* The setup's step goes on to the last one, even if the operator has gone back.
AiSaved ==
  /\ aiJob.op = "save" /\ aiJob.stage = "answered" /\ aiJob.wizard
  /\ place' = "done"
  /\ AiFormLeft("done") /\ aiJob' = NoAiJob
  /\ UNCHANGED <<session, asks, profile>>

ProfilesNext ==
  \/ LoadProfiles \/ TypeKey \/ NewProfile
  \/ TestProfile \/ SaveProfile \/ DropProfile \/ KeepProfile
  \/ \E e \in At : ChooseProvider(e) \/ TypeUrl(e)
  \/ \E p \in Profiles : EditProfile(p) \/ AskDrop(p) \/ OthersProfile(p)
  \/ ProfilesApi \/ ProfilesListed \/ ProfileAnswered

-----------------------------------------------------------------------------
\* "A saved key is only ever sent where it was saved for" (ai_profiles.py): every key
\* stored with a profile, and every key a test sends, is one entered for that
\* endpoint, through changes of provider and URL in either browser.
KeyGoesHome ==
  /\ \A p \in Profiles : profile[p] # None => profile[p].key \in {None, profile[p].at}
  /\ aiJob.stage = "probing" => aiJob.key \in {None, aiJob.draft.at}
=============================================================================
