---------------------------- MODULE ConsoleFeed ----------------------------
(***************************************************************************)
(* How a page of the console comes to show Kong's configuration: the page  *)
(* fetches the dashboard on a timer and after every write (useDashboard),  *)
(* the API answers from a cache of the assembled payload, which is built   *)
(* from a cache of Kong's inventory, which one loader at a time fills.     *)
(* Writes through the console clear both caches after they reached Kong.   *)
(*                                                                         *)
(* Configurations are numbered in the order Kong held them.                *)
(***************************************************************************)
EXTENDS Integers

CONSTANTS
  Pages,        \* browser tabs with the dashboard open
  Handlers,     \* write handlers of the API that may run together
  NoOne,        \* nobody holds the loader's lock
  MaxWrites,    \* bound: configurations written
  MaxFaults     \* bound: Kong unreachable, answers lost, writes the API never hears of

ASSUME FeedAssumption == MaxWrites \in Nat /\ MaxFaults \in Nat /\ NoOne \notin Pages

\* The requests a page may have at the API: the dashboard fetch it waits for, one
\* it gave up, and the inventory refresh of the services view.
Requests == {"current", "superseded", "refresh"}
Background == "background"     \* the refresh the API starts for itself

None == 0                      \* no version: nothing cached, nothing read
Down == -1                     \* an inventory read while Kong was unreachable

VARIABLES
  last,         \* the version Kong holds
  inventory,    \* _kong_inventory_cache: version, age, generation
  payload,      \* _cache: the version the assembled dashboard was built from
  loader,       \* _kong_inventory_lock and the load under it
  task,         \* a background refresh has been created and is not done
  req,          \* req[p][r]: how far a request is, and the version it was answered with
  shown,        \* shown[p]: the version p renders
  seen,         \* ghost: the latest version p has rendered
  writer,       \* per handler: whether its write has landed and is not yet announced
  unannounced,  \* ghost: Kong changed and nobody cleared the caches since
  faults

caches == <<inventory, payload>>
vars == <<last, caches, loader, task, req, shown, seen, writer, unannounced, faults>>

Ages == {"young", "fresh", "stale"}   \* under 5 s, under the TTL, past it

Unlocked == [by |-> NoOne, request |-> "current", generation |-> 0, read |-> None]
Idle == [stage |-> "idle", version |-> None]

\* The lock has at most one holder, and a request that loads holds it.
TypeOK ==
  LET Versions == Down .. last
  IN  /\ last \in 1 .. MaxWrites + 1
      /\ inventory \in [version : Versions, age : Ages, generation : Nat]
      /\ payload \in Versions
      /\ loader \in [by : Pages \cup {NoOne}, request : Requests \cup {Background},
                     generation : Nat, read : Versions]
      /\ task \in BOOLEAN
      /\ req \in [Pages -> [Requests ->
           [stage : {"idle", "sent", "queued", "loading", "answered"}, version : Versions]]]
      /\ \A p \in Pages, r \in Requests :
           req[p][r].stage = "loading" <=> loader.by = p /\ loader.request = r
      /\ shown \in [Pages -> Versions]
      /\ seen \in [Pages -> 0 .. last]
      /\ writer \in [Handlers -> BOOLEAN]
      /\ unannounced \in BOOLEAN
      /\ faults \in 0 .. MaxFaults

Init ==
  /\ last = 1
  /\ inventory = [version |-> None, age |-> "stale", generation |-> 0]
  /\ payload = None
  /\ loader = Unlocked
  /\ task = FALSE
  /\ req = [p \in Pages |-> [r \in Requests |->
              IF r = "current" THEN [stage |-> "sent", version |-> None] ELSE Idle]]
  /\ shown = [p \in Pages |-> None]
  /\ seen = [p \in Pages |-> 0]
  /\ writer = [h \in Handlers |-> FALSE]
  /\ unannounced = FALSE
  /\ faults = 0

-----------------------------------------------------------------------------
(* The page.                                                               *)

\* A new fetch makes the one under way the superseded one; one superseded request
\* of each page is followed.
CanFetch(p) == req[p]["current"].stage = "idle" \/ req[p]["superseded"].stage = "idle"

Fetching(p) ==
  [req EXCEPT ![p]["current"] = [stage |-> "sent", version |-> None],
              ![p]["superseded"] = IF req[p]["current"].stage = "idle" THEN @
                                   ELSE req[p]["current"]]

LoaderWhenFetching(p) ==
  IF loader.by = p /\ loader.request = "current"
  THEN [loader EXCEPT !.request = "superseded"] ELSE loader

\* The 15 s timer, a dialog that saved, the retry button.
Fetch(p) ==
  /\ CanFetch(p)
  /\ req' = Fetching(p)
  /\ loader' = LoaderWhenFetching(p)
  /\ UNCHANGED <<last, caches, task, shown, seen, writer, unannounced, faults>>

Heard_Superseded == {"current", "superseded"}
Heard == {"current"}     \* the answers that are still wanted: `alive'

Render(p) ==
  \E r \in Heard :
    LET v == req[p][r].version
    IN  /\ req[p][r].stage = "answered"
        /\ shown' = [shown EXCEPT ![p] = v]
        /\ seen' = IF v = Down THEN seen ELSE [seen EXCEPT ![p] = v]
        /\ req' = [req EXCEPT ![p][r] = Idle]
        /\ UNCHANGED <<last, caches, loader, task, writer, unannounced, faults>>

Ignore(p) ==
  /\ req[p]["superseded"].stage = "answered"
  /\ req' = [req EXCEPT ![p]["superseded"] = Idle]
  /\ UNCHANGED <<last, caches, loader, task, shown, seen, writer, unannounced, faults>>

\* An answer that does not arrive leaves what is rendered in place.
LoseAnswer(p, r) ==
  /\ r # "superseded" /\ req[p][r].stage = "answered" /\ faults < MaxFaults
  /\ req' = [req EXCEPT ![p][r] = Idle]
  /\ faults' = faults + 1
  /\ UNCHANGED <<last, caches, loader, task, shown, seen, writer, unannounced>>

\* "Refresh Kong inventory", one at a time: the page fetches again when it is done,
\* unless Kong was unreachable.
AskRefresh(p) ==
  /\ req[p]["refresh"].stage = "idle"
  /\ req' = [req EXCEPT ![p]["refresh"].stage = "queued"]
  /\ UNCHANGED <<last, caches, loader, task, shown, seen, writer, unannounced, faults>>

Refreshed(p) ==
  /\ req[p]["refresh"].stage = "answered"
  /\ \/ /\ req[p]["refresh"].version # Down /\ CanFetch(p)
        /\ req' = [Fetching(p) EXCEPT ![p]["refresh"] = Idle]
        /\ loader' = LoaderWhenFetching(p)
     \/ /\ req[p]["refresh"].version = Down
        /\ req' = [req EXCEPT ![p]["refresh"] = Idle]
        /\ UNCHANGED loader
  /\ UNCHANGED <<last, caches, task, shown, seen, writer, unannounced, faults>>

-----------------------------------------------------------------------------
(* The API.                                                                *)

Answer(p, r, v) == req' = [req EXCEPT ![p][r] = [stage |-> "answered", version |-> v]]

RefreshesBehind_Never == FALSE
RefreshesBehind == inventory.age = "stale"

\* GET /api/dashboard up to where it first waits: a recent payload is returned as
\* it is; a cached inventory makes a new payload, and a stale one is refreshed in
\* the background meanwhile; with neither the request queues for the loader.
Dashboard(p, r) ==
  /\ r # "refresh" /\ req[p][r].stage = "sent"
  /\ CASE payload # None ->
            Answer(p, r, payload) /\ UNCHANGED <<payload, task>>
       [] payload = None /\ inventory.version # None ->
            /\ Answer(p, r, inventory.version)
            /\ payload' = inventory.version
            /\ task' = (task \/ RefreshesBehind)
       [] OTHER ->
            req' = [req EXCEPT ![p][r].stage = "queued"] /\ UNCHANGED <<payload, task>>
  /\ UNCHANGED <<last, inventory, loader, shown, seen, writer, unannounced, faults>>

\* What the request does with the inventory once it has it: a dashboard caches the
\* payload it builds, a forced refresh drops the cached payload.
PayloadAfter(r, v) == IF r = "refresh" THEN None ELSE v

RecentEnough(r) ==
  inventory.version # None
    /\ inventory.age \in IF r = "refresh" THEN {"young"} ELSE {"young", "fresh"}

LockFree_Always == TRUE
LockFree == loader = Unlocked

\* _refresh_kong_inventory: loads run one at a time, and whoever gets the lock
\* looks at the cache once more.
TakeLock(p, r) ==
  /\ req[p][r].stage = "queued" /\ LockFree
  /\ IF RecentEnough(r)
     THEN /\ Answer(p, r, inventory.version)
          /\ payload' = PayloadAfter(r, inventory.version)
          /\ UNCHANGED loader
     ELSE /\ loader' = [by |-> p, request |-> r, generation |-> inventory.generation,
                        read |-> None]
          /\ req' = [req EXCEPT ![p][r].stage = "loading"]
          /\ UNCHANGED payload
  /\ UNCHANGED <<last, inventory, task, shown, seen, writer, unannounced, faults>>

TakeLockInBackground ==
  /\ task /\ LockFree
  /\ IF RecentEnough(Background)
     THEN task' = FALSE /\ UNCHANGED loader
     ELSE /\ loader' = [Unlocked EXCEPT !.request = Background,
                                        !.generation = inventory.generation]
          /\ UNCHANGED task
  /\ UNCHANGED <<last, caches, req, shown, seen, writer, unannounced, faults>>

Loading == loader # Unlocked /\ loader.read = None

ReadKong ==
  /\ Loading
  /\ loader' = [loader EXCEPT !.read = last]
  /\ UNCHANGED <<last, caches, task, req, shown, seen, writer, unannounced, faults>>

\* A request to Kong fails: the load yields an empty inventory, cached like any other.
ReadNothing ==
  /\ Loading /\ faults < MaxFaults
  /\ loader' = [loader EXCEPT !.read = Down]
  /\ faults' = faults + 1
  /\ UNCHANGED <<last, caches, task, req, shown, seen, writer, unannounced>>

\* A load is kept only if no write was announced since it began; the request that
\* waited for it is answered with it in any case.
MayPublish_Always == TRUE
MayPublish == loader.generation = inventory.generation

LoadDone ==
  /\ loader.read # None
  /\ inventory' = IF MayPublish
                  THEN [inventory EXCEPT !.version = loader.read, !.age = "young"]
                  ELSE inventory
  /\ loader' = Unlocked
  /\ IF loader.request = Background
     THEN task' = FALSE /\ UNCHANGED <<req, payload>>
     ELSE /\ Answer(loader.by, loader.request, loader.read)
          /\ payload' = PayloadAfter(loader.request, loader.read)
          /\ UNCHANGED task
  /\ UNCHANGED <<last, shown, seen, writer, unannounced, faults>>

\* CACHE_TTL; newly ingested audit files have the same effect.
PayloadExpires ==
  /\ payload # None
  /\ payload' = None
  /\ UNCHANGED <<last, inventory, loader, task, req, shown, seen, writer, unannounced, faults>>

InventoryAges ==
  /\ inventory.version # None
  /\ \/ inventory.age = "young" /\ inventory' = [inventory EXCEPT !.age = "fresh"]
     \/ inventory.age = "fresh" /\ inventory' = [inventory EXCEPT !.age = "stale"]
  /\ UNCHANGED <<last, payload, loader, task, req, shown, seen, writer, unannounced, faults>>

-----------------------------------------------------------------------------
(* Writes (ConsoleEdits has what they write).                              *)

Land(h) ==
  /\ ~writer[h] /\ last <= MaxWrites
  /\ last' = last + 1
  /\ writer' = [writer EXCEPT ![h] = TRUE]
  /\ UNCHANGED <<caches, loader, task, req, shown, seen, unannounced, faults>>

Cleared == [version |-> None, age |-> "stale", generation |-> inventory.generation + 1]

\* _invalidate_cache and _invalidate_kong_inventory.
Announce(h) ==
  /\ writer[h]
  /\ payload' = None
  /\ inventory' = Cleared
  /\ writer' = [writer EXCEPT ![h] = FALSE]
  /\ unannounced' = FALSE
  /\ UNCHANGED <<last, loader, task, req, shown, seen, faults>>

\* Kong takes the write, but the handler fails before it clears the caches.
FailAfterLanding(h) ==
  /\ writer[h] /\ faults < MaxFaults
  /\ writer' = [writer EXCEPT ![h] = FALSE]
  /\ unannounced' = TRUE
  /\ faults' = faults + 1
  /\ UNCHANGED <<last, caches, loader, task, req, shown, seen>>

-----------------------------------------------------------------------------
Api ==
  \/ \E p \in Pages, r \in Requests : Dashboard(p, r) \/ TakeLock(p, r)
  \/ TakeLockInBackground \/ ReadKong \/ ReadNothing \/ LoadDone
  \/ PayloadExpires \/ InventoryAges
  \/ \E h \in Handlers : Land(h) \/ Announce(h) \/ FailAfterLanding(h)

Page(p) ==
  \/ Fetch(p) \/ Render(p) \/ Ignore(p)
  \/ AskRefresh(p) \/ Refreshed(p)
  \/ \E r \in Requests : LoseAnswer(p, r)

Next == Api \/ \E p \in Pages : Page(p)

Spec == Init /\ [][Next]_vars

\* Timers fire and handlers run on; a page's fetch gets the loader's lock in the
\* end (asyncio.Lock is first come, first served) and is not overtaken by the next
\* poll, 15 s later, for ever.  Operators need not do anything.
Fairness ==
  /\ \A p \in Pages :
       /\ WF_vars(Fetch(p)) /\ SF_vars(Render(p)) /\ WF_vars(Ignore(p))
       /\ SF_vars(TakeLock(p, "current"))
       /\ \A r \in Requests : WF_vars(Dashboard(p, r) \/ TakeLock(p, r))
  /\ WF_vars(TakeLockInBackground) /\ WF_vars(ReadKong \/ LoadDone)
  /\ WF_vars(PayloadExpires) /\ WF_vars(InventoryAges)
  /\ WF_vars(\E h \in Handlers : Announce(h))

FairSpec == Spec /\ Fairness

-----------------------------------------------------------------------------
(* Properties.                                                             *)

Promise == INSTANCE FeedPromise WITH KongMayFail <- TRUE

\* The page keeps the promise of FeedPromise: superseded answers, two caches and
\* failures never take it back to an older configuration than it has rendered.
KeepsThePromise == Promise!Spec

\* Once every handler that wrote has announced it, the inventory cache does not hold
\* an older configuration: a load that began before a write is not kept after it.
InventoryNotStale ==
  inventory.version \notin {None, Down, last} => unannounced \/ \E h \in Handlers : writer[h]

\* When the writes are over every page comes to show what Kong holds, even if
\* handlers failed half-way, Kong was unreachable or answers were lost.
PagesConverge == \A p \in Pages : <>[](shown[p] = last)
=============================================================================
