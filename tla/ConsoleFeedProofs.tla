------------------------- MODULE ConsoleFeedProofs -------------------------
(***************************************************************************)
(* Proofs about ConsoleFeed, for any number of pages, handlers, writes and *)
(* faults.                                                                 *)
(***************************************************************************)
EXTENDS ConsoleFeed, TLAPS

-----------------------------------------------------------------------------
(***************************************************************************)
(* Type correctness                                                        *)
(***************************************************************************)
Versions == Down .. last

Stages == {"idle", "sent", "queued", "loading", "answered"}

\* A request of a page, as TypeOK types it.
Asked == [stage : Stages, version : Versions]

Loaders == [by : Pages \cup {NoOne}, request : Requests \cup {Background},
            generation : Nat, read : Versions]

\* A request is loading exactly when it holds the lock.
LockHeld ==
  \A p \in Pages, r \in Requests :
    req[p][r].stage = "loading" <=> loader.by = p /\ loader.request = r

LEMMA TypeSays ==
  TypeOK <=>
      /\ last \in 1 .. MaxWrites + 1
      /\ inventory \in [version : Versions, age : Ages, generation : Nat]
      /\ payload \in Versions
      /\ loader \in Loaders
      /\ task \in BOOLEAN
      /\ req \in [Pages -> [Requests -> Asked]]
      /\ LockHeld
      /\ shown \in [Pages -> Versions]
      /\ seen \in [Pages -> 0 .. last]
      /\ writer \in [Handlers -> BOOLEAN]
      /\ unannounced \in BOOLEAN
      /\ faults \in 0 .. MaxFaults
BY DEF TypeOK, Versions, Asked, Stages, Loaders, LockHeld

\* Replacing one request of one page.
LEMMA OneRequest ==
  ASSUME NEW S, req \in [Pages -> [Requests -> S]], NEW p \in Pages, NEW r \in Requests,
         NEW x \in S, req' = [req EXCEPT ![p][r] = x]
  PROVE  /\ req' \in [Pages -> [Requests -> S]]
         /\ \A q \in Pages, t \in Requests :
              req'[q][t] = IF q = p /\ t = r THEN x ELSE req[q][t]
OBVIOUS

LEMMA OneStage ==
  ASSUME req \in [Pages -> [Requests -> Asked]], NEW p \in Pages, NEW r \in Requests, NEW st \in Stages,
         req' = [req EXCEPT ![p][r].stage = st]
  PROVE  /\ req' \in [Pages -> [Requests -> Asked]]
         /\ \A q \in Pages, t \in Requests : ~(q = p /\ t = r) => req'[q][t] = req[q][t]
         /\ req'[p][r] = [stage |-> st, version |-> req[p][r].version]
<1>1. req[p][r] \in Asked OBVIOUS
<1>2. [req[p][r] EXCEPT !.stage = st] = [stage |-> st, version |-> req[p][r].version]
  BY <1>1 DEF Asked
<1>3. [stage |-> st, version |-> req[p][r].version] \in Asked
  BY <1>1 DEF Asked
<1>4. req' = [req EXCEPT ![p][r] = [stage |-> st, version |-> req[p][r].version]]
  BY <1>2
<1> QED BY <1>3, <1>4, OneRequest

\* A new fetch of p.
LEMMA FetchingSays ==
  ASSUME req \in [Pages -> [Requests -> Asked]], last \in Nat, NEW p \in Pages
  PROVE  /\ Fetching(p) \in [Pages -> [Requests -> Asked]]
         /\ Fetching(p)[p]["current"] = [stage |-> "sent", version |-> None]
         /\ Fetching(p)[p]["superseded"] =
              IF req[p]["current"].stage = "idle" THEN req[p]["superseded"] ELSE req[p]["current"]
         /\ Fetching(p)[p]["refresh"] = req[p]["refresh"]
         /\ \A q \in Pages \ {p} : Fetching(p)[q] = req[q]
<1> DEFINE x == [stage |-> "sent", version |-> None]
           y == IF req[p]["current"].stage = "idle" THEN req[p]["superseded"] ELSE req[p]["current"]
<1>1. x \in Asked BY DEF Asked, Stages, Versions, None, Down
<1>2. "current" \in Requests /\ "superseded" \in Requests /\ "refresh" \in Requests
  BY DEF Requests
<1>3. y \in Asked BY <1>2
<1>4. req[p] \in [Requests -> Asked] OBVIOUS
<1>5. Fetching(p) = [req EXCEPT ![p] = [[req[p] EXCEPT !["current"] = x] EXCEPT !["superseded"] = y]]
  BY <1>2, <1>4 DEF Fetching
<1> HIDE DEF x, y
<1> QED BY <1>1, <1>2, <1>3, <1>4, <1>5 DEF x, y

\* A request that is not loading gives way to one that is not either.
LEMMA StillHeld ==
  ASSUME LockHeld, req \in [Pages -> [Requests -> Asked]], loader' = loader,
         NEW p \in Pages, NEW r \in Requests, req[p][r].stage # "loading",
         NEW x \in Asked, x.stage # "loading", req' = [req EXCEPT ![p][r] = x]
  PROVE  req' \in [Pages -> [Requests -> Asked]] /\ LockHeld'
<1>1. \A q \in Pages, t \in Requests : req'[q][t] = IF q = p /\ t = r THEN x ELSE req[q][t]
  BY OneRequest
<1>2. req' \in [Pages -> [Requests -> Asked]] BY OneRequest
<1> QED BY <1>1, <1>2 DEF LockHeld

LEMMA StageHeld ==
  ASSUME LockHeld, req \in [Pages -> [Requests -> Asked]], loader' = loader,
         NEW p \in Pages, NEW r \in Requests, req[p][r].stage # "loading",
         NEW st \in Stages, st # "loading", req' = [req EXCEPT ![p][r].stage = st]
  PROVE  req' \in [Pages -> [Requests -> Asked]] /\ LockHeld'
<1>1. \A q \in Pages, t \in Requests : ~(q = p /\ t = r) => req'[q][t] = req[q][t]
  BY OneStage
<1>2. req'[p][r].stage = st BY OneStage
<1>3. req' \in [Pages -> [Requests -> Asked]] BY OneStage
<1> QED BY <1>1, <1>2, <1>3 DEF LockHeld

LEMMA FetchingHeld ==
  ASSUME TypeOK, NEW p \in Pages, CanFetch(p)
  PROVE  /\ LoaderWhenFetching(p) \in Loaders
         /\ \A q \in Pages, r \in Requests :
              Fetching(p)[q][r].stage = "loading" <=>
                LoaderWhenFetching(p).by = q /\ LoaderWhenFetching(p).request = r
<1> DEFINE f == Fetching(p)
           l == LoaderWhenFetching(p)
<1>1. last \in Nat /\ loader \in Loaders /\ LockHeld /\ req \in [Pages -> [Requests -> Asked]]
  BY TypeSays, FeedAssumption
<1>2. /\ f[p]["current"] = [stage |-> "sent", version |-> None]
      /\ f[p]["superseded"] =
           IF req[p]["current"].stage = "idle" THEN req[p]["superseded"] ELSE req[p]["current"]
      /\ f[p]["refresh"] = req[p]["refresh"]
      /\ \A q \in Pages \ {p} : f[q] = req[q]
  BY <1>1, FetchingSays
<1>3. Requests = {"current", "superseded", "refresh"} BY DEF Requests
<1>4. req[p]["current"].stage = "idle" \/ req[p]["superseded"].stage = "idle"
  BY DEF CanFetch
<1>5. CASE loader.by = p /\ loader.request = "current"
  <2>1. l = [loader EXCEPT !.request = "superseded"] BY <1>5 DEF LoaderWhenFetching
  <2>2. l \in Loaders /\ l.by = p /\ l.request = "superseded"
    BY <1>1, <1>3, <1>5, <2>1 DEF Loaders
  <2>3. req[p]["current"].stage = "loading" /\ req[p]["refresh"].stage # "loading"
    BY <1>1, <1>3, <1>5 DEF LockHeld
  <2>4. \A q \in Pages \ {p}, r \in Requests : req[q][r].stage # "loading"
    BY <1>1, <1>5 DEF LockHeld
  <2> HIDE DEF f, l
  <2> QED BY <1>2, <1>3, <2>2, <2>3, <2>4 DEF f, l
<1>6. CASE ~(loader.by = p /\ loader.request = "current")
  <2>1. l = loader BY <1>6 DEF LoaderWhenFetching
  <2>2. req[p]["current"].stage # "loading" BY <1>1, <1>3, <1>6 DEF LockHeld
  <2>3. \A r \in Requests : f[p][r].stage = "loading" <=> req[p][r].stage = "loading"
    BY <1>2, <1>3, <1>4, <2>2
  <2> HIDE DEF f
  <2>4. \A q \in Pages, r \in Requests : f[q][r].stage = "loading" <=> req[q][r].stage = "loading"
    BY <1>2, <2>3
  <2> QED BY <1>1, <2>1, <2>4 DEF f, LockHeld
<1> QED BY <1>5, <1>6

LEMMA TypeStep ==
  ASSUME TypeOK, [Next]_vars
  PROVE  TypeOK'
<1>0. /\ last \in 1 .. MaxWrites + 1
      /\ inventory \in [version : Versions, age : Ages, generation : Nat]
      /\ payload \in Versions
      /\ loader \in Loaders
      /\ task \in BOOLEAN
      /\ req \in [Pages -> [Requests -> Asked]]
      /\ LockHeld
      /\ shown \in [Pages -> Versions]
      /\ seen \in [Pages -> 0 .. last]
      /\ writer \in [Handlers -> BOOLEAN]
      /\ unannounced \in BOOLEAN
      /\ faults \in 0 .. MaxFaults
  BY TypeSays
<1> DEFINE Goal ==
      /\ last' \in 1 .. MaxWrites + 1
      /\ inventory' \in [version : Versions', age : Ages, generation : Nat]
      /\ payload' \in Versions'
      /\ loader' \in Loaders'
      /\ task' \in BOOLEAN
      /\ req' \in [Pages -> [Requests -> Asked']]
      /\ LockHeld'
      /\ shown' \in [Pages -> Versions']
      /\ seen' \in [Pages -> 0 .. last']
      /\ writer' \in [Handlers -> BOOLEAN]
      /\ unannounced' \in BOOLEAN
      /\ faults' \in 0 .. MaxFaults
<1>g. SUFFICES Goal BY TypeSays DEF TypeOK, Versions, Asked, Stages, Loaders, LockHeld
<1>s. last' = last => Versions' = Versions /\ Asked' = Asked /\ Loaders' = Loaders
  BY DEF Versions, Asked, Loaders
<1>t. last \in Nat /\ MaxFaults \in Nat /\ MaxWrites \in Nat /\ \A p \in Pages : p # NoOne
  BY <1>0, FeedAssumption
<1>v. None \in Versions /\ last \in Versions /\ Down \in Versions BY <1>t DEF Versions, None, Down
<1>i. Idle \in Asked /\ Idle.stage # "loading" BY <1>v DEF Idle, Asked, Stages
<1>r. "current" \in Requests /\ "superseded" \in Requests /\ "refresh" \in Requests
  BY DEF Requests
<1>q. "queued" \in Stages /\ "loading" \in Stages BY DEF Stages
<1>1. CASE UNCHANGED vars BY <1>0, <1>1, <1>s DEF vars, caches, LockHeld
<1>2. ASSUME NEW p \in Pages, Fetch(p) PROVE Goal
  <2>1. req' = Fetching(p) /\ loader' = LoaderWhenFetching(p) /\ last' = last /\ CanFetch(p)
    BY <1>2 DEF Fetch
  <2>2. LockHeld' BY <2>1, FetchingHeld DEF LockHeld
  <2>3. loader' \in Loaders /\ req' \in [Pages -> [Requests -> Asked]]
    BY <1>0, <1>t, <2>1, FetchingHeld, FetchingSays
  <2> QED BY <1>0, <1>2, <1>s, <2>1, <2>2, <2>3 DEF Fetch, caches
<1>3. ASSUME NEW p \in Pages, Refreshed(p) PROVE Goal
  <2>1. CASE req[p]["refresh"].version # Down
    <3>1. req' = [Fetching(p) EXCEPT ![p]["refresh"] = Idle] /\ loader' = LoaderWhenFetching(p)
          /\ last' = last /\ CanFetch(p) /\ req[p]["refresh"].stage = "answered"
      BY <1>3, <2>1 DEF Refreshed
    <3>2. Fetching(p) \in [Pages -> [Requests -> Asked]] /\ Fetching(p)[p]["refresh"] = req[p]["refresh"]
      BY <1>0, <1>t, FetchingSays
    <3> DEFINE f == Fetching(p)
               l == LoaderWhenFetching(p)
    <3>3. /\ l \in Loaders
          /\ \A q \in Pages, r \in Requests :
               f[q][r].stage = "loading" <=> l.by = q /\ l.request = r
      BY <3>1, FetchingHeld
    <3> HIDE DEF f, l
    <3>4. /\ req' \in [Pages -> [Requests -> Asked]]
          /\ \A q \in Pages, t \in Requests :
               req'[q][t] = IF q = p /\ t = "refresh" THEN Idle ELSE f[q][t]
      BY <1>i, <3>1, <3>2 DEF f, Requests
    <3>5. f[p]["refresh"].stage # "loading" /\ Idle.stage # "loading" BY <3>1, <3>2 DEF f, Idle
    <3>6. loader' = l BY <3>1 DEF l
    <3>7. LockHeld' BY <3>3, <3>4, <3>5, <3>6 DEF LockHeld, Requests
    <3> QED BY <1>0, <1>3, <1>s, <3>1, <3>3, <3>4, <3>6, <3>7 DEF Refreshed, caches
  <2>2. CASE req[p]["refresh"].version = Down
    <3>1. req' = [req EXCEPT ![p]["refresh"] = Idle] /\ loader' = loader /\ last' = last
          /\ req[p]["refresh"].stage = "answered"
      BY <1>3, <2>2 DEF Refreshed
    <3>2. req' \in [Pages -> [Requests -> Asked]] /\ LockHeld'
      BY <1>0, <1>i, <1>r, <3>1, StillHeld
    <3> QED BY <1>0, <1>3, <1>s, <3>1, <3>2 DEF Refreshed, caches
  <2> QED BY <2>1, <2>2
<1>4. ASSUME NEW p \in Pages, Render(p) PROVE Goal
  <2>1. /\ req[p]["current"].stage = "answered"
        /\ shown' = [shown EXCEPT ![p] = req[p]["current"].version]
        /\ seen' = IF req[p]["current"].version = Down THEN seen
                   ELSE [seen EXCEPT ![p] = req[p]["current"].version]
        /\ req' = [req EXCEPT ![p]["current"] = Idle]
        /\ UNCHANGED <<last, caches, loader, task, writer, unannounced, faults>>
    BY <1>4 DEF Render, Heard
  <2>2. loader' = loader BY <2>1
  <2>3. req' \in [Pages -> [Requests -> Asked]] /\ LockHeld'
    BY <1>0, <1>i, <1>r, <2>1, <2>2, StillHeld
  <2>4. req[p]["current"].version \in Versions BY <1>0 DEF Asked, Requests
  <2>5. shown' \in [Pages -> Versions] /\ seen' \in [Pages -> 0 .. last]
    BY <1>0, <1>t, <2>1, <2>4 DEF Versions, Down
  <2> QED BY <1>0, <1>s, <2>1, <2>3, <2>5 DEF caches
<1>5. ASSUME NEW p \in Pages, NEW r \in Requests, (Ignore(p) /\ r = "superseded") \/ LoseAnswer(p, r)
      PROVE  Goal
  <2>1. /\ req[p][r].stage = "answered" /\ req' = [req EXCEPT ![p][r] = Idle]
        /\ UNCHANGED <<last, caches, loader, task, shown, seen, writer, unannounced>>
        /\ faults' = faults \/ (faults' = faults + 1 /\ faults < MaxFaults)
    BY <1>5 DEF Ignore, LoseAnswer
  <2>2. loader' = loader BY <2>1
  <2>3. req' \in [Pages -> [Requests -> Asked]] /\ LockHeld'
    BY <1>0, <1>i, <2>1, <2>2, StillHeld
  <2>4. faults' \in 0 .. MaxFaults BY <1>0, <1>t, <2>1
  <2> QED BY <1>0, <1>s, <2>1, <2>2, <2>3, <2>4 DEF caches
<1>6. ASSUME NEW p \in Pages, AskRefresh(p) PROVE Goal
  <2>1. req[p]["refresh"].stage = "idle" /\ req' = [req EXCEPT ![p]["refresh"].stage = "queued"]
    BY <1>6 DEF AskRefresh
  <2>2. loader' = loader BY <1>6 DEF AskRefresh
  <2>3. req' \in [Pages -> [Requests -> Asked]] /\ LockHeld'
    BY <1>0, <1>q, <1>r, <2>1, <2>2, StageHeld
  <2> QED BY <1>0, <1>6, <1>s, <2>3 DEF AskRefresh, caches
<1>7. ASSUME NEW p \in Pages, NEW r \in Requests, Dashboard(p, r) PROVE Goal
  <2>1. req[p][r].stage = "sent" /\ UNCHANGED <<last, inventory, loader, shown, seen, writer, unannounced, faults>>
    BY <1>7 DEF Dashboard
  <2>2. ASSUME NEW v \in Versions, Answer(p, r, v)
        PROVE  LockHeld' /\ req' \in [Pages -> [Requests -> Asked]]
    <3> DEFINE x == [stage |-> "answered", version |-> v]
    <3>1. x \in Asked /\ x.stage # "loading" BY DEF Asked, Stages
    <3>2. req' = [req EXCEPT ![p][r] = x] BY <2>2 DEF Answer
    <3>3. loader' = loader /\ req[p][r].stage # "loading" BY <2>1
    <3> HIDE DEF x
    <3> QED BY <1>0, <3>1, <3>2, <3>3, StillHeld
  <2>3. ASSUME req' = [req EXCEPT ![p][r].stage = "queued"]
        PROVE  LockHeld' /\ req' \in [Pages -> [Requests -> Asked]]
    <3>1. loader' = loader /\ req[p][r].stage # "loading" BY <2>1
    <3> QED BY <1>0, <1>q, <2>3, <3>1, StageHeld
  <2>4. inventory.version \in Versions BY <1>0
  <2>5. /\ payload' \in Versions /\ task' \in BOOLEAN
        /\ \/ \E v \in Versions : Answer(p, r, v)
           \/ req' = [req EXCEPT ![p][r].stage = "queued"]
    BY <1>0, <1>7, <2>4 DEF Dashboard, RefreshesBehind
  <2> QED BY <1>0, <1>s, <2>1, <2>2, <2>3, <2>5
<1>8. ASSUME NEW p \in Pages, NEW r \in Requests, TakeLock(p, r) PROVE Goal
  <2>1. /\ req[p][r].stage = "queued" /\ loader = Unlocked
        /\ UNCHANGED <<last, inventory, task, shown, seen, writer, unannounced, faults>>
    BY <1>8 DEF TakeLock, LockFree
  <2>2. inventory.version \in Versions /\ inventory.generation \in Nat BY <1>0
  <2>3. CASE RecentEnough(r)
    <3>1. Answer(p, r, inventory.version) /\ payload' = PayloadAfter(r, inventory.version) /\ loader' = loader
      BY <1>8, <2>3 DEF TakeLock
    <3> DEFINE x == [stage |-> "answered", version |-> inventory.version]
    <3>2. x \in Asked /\ x.stage # "loading" BY <2>2 DEF Asked, Stages
    <3>3. LockHeld' /\ req' \in [Pages -> [Requests -> Asked]]
      <4>1. req' = [req EXCEPT ![p][r] = x] BY <3>1 DEF Answer
      <4>2. loader' = loader /\ req[p][r].stage # "loading" BY <2>1, <3>1
      <4> HIDE DEF x
      <4> QED BY <1>0, <3>2, <4>1, <4>2, StillHeld
    <3>4. payload' \in Versions BY <1>v, <2>2, <3>1 DEF PayloadAfter
    <3> QED BY <1>0, <1>s, <2>1, <3>1, <3>3, <3>4
  <2>4. CASE ~RecentEnough(r)
    <3>1. /\ loader' = [by |-> p, request |-> r, generation |-> inventory.generation, read |-> None]
          /\ req' = [req EXCEPT ![p][r].stage = "loading"] /\ payload' = payload
      BY <1>8, <2>4 DEF TakeLock
    <3>2. loader' \in Loaders BY <1>v, <2>2, <3>1 DEF Loaders
    <3>3. \A q \in Pages, t \in Requests : req[q][t].stage # "loading"
      BY <1>0, <1>t, <2>1 DEF LockHeld, Unlocked
    <3>4. /\ req' \in [Pages -> [Requests -> Asked]]
          /\ \A q \in Pages, t \in Requests : ~(q = p /\ t = r) => req'[q][t] = req[q][t]
          /\ req'[p][r] = [stage |-> "loading", version |-> req[p][r].version]
      BY <1>0, <3>1, OneStage DEF Stages
    <3>5. LockHeld' BY <3>1, <3>3, <3>4 DEF LockHeld
    <3> QED BY <1>0, <1>s, <2>1, <3>1, <3>2, <3>4, <3>5
  <2> QED BY <2>3, <2>4
<1>9. CASE TakeLockInBackground
  <2>1. loader = Unlocked /\ UNCHANGED <<last, caches, req, shown, seen, writer, unannounced, faults>>
        /\ task' \in BOOLEAN
    BY <1>0, <1>9 DEF TakeLockInBackground, LockFree
  <2>2. loader' \in Loaders /\ loader'.by = NoOne
    <3>1. loader' \in {loader, [Unlocked EXCEPT !.request = Background, !.generation = inventory.generation]}
      BY <1>9 DEF TakeLockInBackground
    <3>2. inventory.generation \in Nat BY <1>0
    <3>3. [Unlocked EXCEPT !.request = Background, !.generation = inventory.generation] =
            [by |-> NoOne, request |-> Background, generation |-> inventory.generation, read |-> None]
      <4>1. [Unlocked EXCEPT !.request = Background] =
              [by |-> NoOne, request |-> Background, generation |-> 0, read |-> None]
        BY DEF Unlocked
      <4>2. \A g : [[by |-> NoOne, request |-> Background, generation |-> 0, read |-> None]
                        EXCEPT !.generation = g] =
                   [by |-> NoOne, request |-> Background, generation |-> g, read |-> None]
        OBVIOUS
      <4> QED BY <4>1, <4>2
    <3>4. [by |-> NoOne, request |-> Background, generation |-> inventory.generation, read |-> None] \in Loaders
      BY <1>v, <3>2 DEF Loaders
    <3>5. loader.by = NoOne BY <2>1 DEF Unlocked
    <3> QED BY <1>0, <3>1, <3>3, <3>4, <3>5
  <2>3. LockHeld' BY <1>0, <1>t, <2>1, <2>2 DEF LockHeld, Unlocked
  <2> QED BY <1>0, <1>s, <2>1, <2>2, <2>3 DEF caches
<1>10. ASSUME NEW v \in Versions, loader' = [loader EXCEPT !.read = v], faults' \in 0 .. MaxFaults,
              UNCHANGED <<last, caches, task, req, shown, seen, writer, unannounced>>
       PROVE  Goal
  <2>1. loader' \in Loaders /\ loader'.by = loader.by /\ loader'.request = loader.request
    BY <1>0, <1>10 DEF Loaders
  <2>2. LockHeld' BY <1>0, <1>10, <2>1 DEF LockHeld
  <2> QED BY <1>0, <1>10, <1>s, <2>1, <2>2 DEF caches
<1>11. CASE ReadKong BY <1>0, <1>10, <1>11, <1>v DEF ReadKong
<1>12. CASE ReadNothing
  <2>1. faults' \in 0 .. MaxFaults BY <1>0, <1>t, <1>12 DEF ReadNothing
  <2> QED BY <1>10, <1>12, <1>v, <2>1 DEF ReadNothing
<1>13. CASE LoadDone
  <2>1. loader' = Unlocked /\ UNCHANGED <<last, shown, seen, writer, unannounced, faults>>
        /\ loader.read # None
    BY <1>13 DEF LoadDone
  <2>2. loader.read \in Versions /\ loader.by \in Pages \cup {NoOne} /\ loader.request \in Requests \cup {Background}
    BY <1>0 DEF Loaders
  <2>3. inventory' \in [version : Versions, age : Ages, generation : Nat]
    BY <1>0, <1>13, <2>2 DEF LoadDone, Ages
  <2>4. Unlocked \in Loaders BY <1>v DEF Unlocked, Loaders, Requests
  <2>5. CASE loader.request = Background
    <3>1. task' = FALSE /\ UNCHANGED <<req, payload>> BY <1>13, <2>5 DEF LoadDone
    <3>2. \A q \in Pages, t \in Requests : req[q][t].stage # "loading"
      BY <1>0, <2>5 DEF LockHeld, Requests, Background
    <3>3. LockHeld' BY <1>t, <2>1, <3>1, <3>2 DEF LockHeld, Unlocked
    <3> QED BY <1>0, <1>s, <2>1, <2>3, <2>4, <3>1, <3>3
  <2>6. CASE loader.request # Background
    <3>1. /\ req' = [req EXCEPT ![loader.by][loader.request] =
                       [stage |-> "answered", version |-> loader.read]]
          /\ payload' = PayloadAfter(loader.request, loader.read) /\ task' = task
      BY <1>13, <2>6 DEF LoadDone, Answer
    <3>2. [stage |-> "answered", version |-> loader.read] \in Asked BY <2>2 DEF Asked, Stages
    <3>3. payload' \in Versions BY <1>v, <2>2, <3>1 DEF PayloadAfter
    <3>4. CASE loader.by \in Pages
      <4>1. /\ req' \in [Pages -> [Requests -> Asked]]
            /\ \A q \in Pages, t \in Requests :
                 req'[q][t] = IF q = loader.by /\ t = loader.request
                              THEN [stage |-> "answered", version |-> loader.read] ELSE req[q][t]
        BY <1>0, <2>2, <2>6, <3>1, <3>2, <3>4, OneRequest
      <4>2. \A q \in Pages, t \in Requests : req'[q][t].stage # "loading"
        BY <1>0, <4>1 DEF LockHeld
      <4>3. LockHeld' BY <1>t, <2>1, <4>2 DEF LockHeld, Unlocked
      <4> QED BY <1>0, <1>s, <2>1, <2>3, <2>4, <3>1, <3>3, <4>1, <4>3
    <3>5. CASE loader.by \notin Pages
      <4>1. req' = req BY <1>0, <3>1, <3>5
      <4>2. \A q \in Pages, t \in Requests : req[q][t].stage # "loading"
        BY <1>0, <3>5 DEF LockHeld
      <4>3. LockHeld' BY <1>t, <2>1, <4>1, <4>2 DEF LockHeld, Unlocked
      <4> QED BY <1>0, <1>s, <2>1, <2>3, <2>4, <3>1, <3>3, <4>1, <4>3
    <3> QED BY <3>4, <3>5
  <2> QED BY <2>5, <2>6
<1>14. CASE PayloadExpires BY <1>0, <1>14, <1>s, <1>v DEF PayloadExpires, LockHeld
<1>15. CASE InventoryAges BY <1>0, <1>15, <1>s DEF InventoryAges, LockHeld, Ages
<1>16. ASSUME NEW h \in Handlers, Land(h) PROVE Goal
  <2>1. last' = last + 1 /\ last <= MaxWrites /\ writer' = [writer EXCEPT ![h] = TRUE]
        /\ UNCHANGED <<caches, loader, task, req, shown, seen, unannounced, faults>>
    BY <1>16 DEF Land
  <2>2. Versions \subseteq Versions' /\ 0 .. last \subseteq 0 .. last'
    BY <1>t, <2>1 DEF Versions, Down
  <2>3. Asked \subseteq Asked' /\ Loaders \subseteq Loaders'
    BY <2>2 DEF Asked, Loaders
  <2>4. inventory' \in [version : Versions', age : Ages, generation : Nat] /\ payload' \in Versions'
        /\ loader' \in Loaders' /\ task' \in BOOLEAN
    BY <1>0, <2>1, <2>2, <2>3 DEF caches
  <2>5. req' \in [Pages -> [Requests -> Asked']] BY <1>0, <2>1, <2>3
  <2>6. shown' \in [Pages -> Versions'] /\ seen' \in [Pages -> 0 .. last']
    BY <1>0, <2>1, <2>2
  <2>7. last' \in 1 .. MaxWrites + 1 /\ LockHeld' BY <1>0, <1>t, <2>1 DEF LockHeld
  <2> QED BY <1>0, <2>1, <2>4, <2>5, <2>6, <2>7
<1>17. ASSUME NEW h \in Handlers, Announce(h) \/ FailAfterLanding(h) PROVE Goal
  <2>1. /\ inventory' \in {inventory, Cleared} /\ payload' \in {payload, None}
        /\ writer' = [writer EXCEPT ![h] = FALSE] /\ unannounced' \in BOOLEAN
        /\ UNCHANGED <<last, loader, task, req, shown, seen>>
        /\ faults' = faults \/ (faults' = faults + 1 /\ faults < MaxFaults)
    BY <1>17 DEF Announce, FailAfterLanding, caches
  <2>2. Cleared \in [version : Versions, age : Ages, generation : Nat]
    BY <1>0, <1>v DEF Cleared, Ages
  <2>3. LockHeld' /\ faults' \in 0 .. MaxFaults BY <1>0, <1>t, <2>1 DEF LockHeld
  <2> QED BY <1>0, <1>s, <1>v, <2>1, <2>2, <2>3
<1> HIDE DEF Goal
<1> QED
  BY <1>1, <1>2, <1>3, <1>4, <1>5, <1>6, <1>7, <1>8, <1>9, <1>11, <1>12, <1>13, <1>14, <1>15,
     <1>16, <1>17 DEF Next, Api, Page, Requests

LEMMA TypeInit == Init => TypeOK
<1> SUFFICES ASSUME Init PROVE TypeOK
  OBVIOUS
<1>1. last = 1 /\ inventory = [version |-> None, age |-> "stale", generation |-> 0] /\ payload = None
      /\ loader = Unlocked
  BY DEF Init
<1>2. None \in Versions BY <1>1 DEF Versions, None, Down
<1>3. \A r \in Requests :
        /\ (IF r = "current" THEN [stage |-> "sent", version |-> None] ELSE Idle) \in Asked
        /\ (IF r = "current" THEN [stage |-> "sent", version |-> None] ELSE Idle).stage # "loading"
  BY <1>2 DEF Idle, Asked, Stages
<1>4. req \in [Pages -> [Requests -> Asked]] /\ \A p \in Pages, r \in Requests : req[p][r].stage # "loading"
  BY <1>3 DEF Init
<1>5. LockHeld BY <1>1, <1>4, FeedAssumption DEF LockHeld, Unlocked
<1>6. loader \in Loaders /\ inventory \in [version : Versions, age : Ages, generation : Nat]
  BY <1>1, <1>2 DEF Loaders, Unlocked, Ages, Requests
<1>7. last \in 1 .. MaxWrites + 1 /\ faults \in 0 .. MaxFaults /\ seen \in [Pages -> 0 .. last]
  BY <1>1, FeedAssumption DEF Init
<1> QED BY <1>1, <1>2, <1>4, <1>5, <1>6, <1>7, TypeSays DEF Init

\* The requests, the caches and the lock are well formed at every step: the lock has at
\* most one holder, and a request that is loading holds it.
THEOREM TypeCorrect == Spec => []TypeOK
BY TypeInit, TypeStep, PTL DEF Spec

-----------------------------------------------------------------------------
(***************************************************************************)
(* Where versions flow                                                     *)
(***************************************************************************)
Busy == loader # Unlocked

\* What a step does to the caches and the lock.
LEMMA CacheSteps ==
  ASSUME TypeOK, [Next]_vars
  PROVE  \/ /\ UNCHANGED <<inventory.version, inventory.generation, payload, loader.read,
                           loader.generation, Busy>>
         \/ /\ UNCHANGED <<inventory, loader>>
            /\ payload' = None \/ (inventory.version # None /\ payload' = inventory.version)
         \/ /\ UNCHANGED caches /\ ~Busy
            /\ loader'.read = None /\ loader'.generation = inventory.generation
         \/ /\ UNCHANGED caches /\ Busy /\ Busy' /\ loader'.generation = loader.generation
            /\ loader.read = None /\ loader'.read \in {last, Down} /\ last' = last
         \/ /\ Busy /\ loader.read # None /\ loader' = Unlocked
            /\ inventory'.generation = inventory.generation
            /\ inventory'.version = IF loader.generation = inventory.generation
                                    THEN loader.read ELSE inventory.version
            /\ payload' \in {payload, None, loader.read}
         \/ /\ inventory' = Cleared /\ payload' = None /\ loader' = loader
            /\ writer' # writer
<1> USE DEF Busy
<1>0. /\ inventory \in [version : Versions, age : Ages, generation : Nat]
      /\ loader \in Loaders
      /\ \A p \in Pages : p # NoOne
  BY TypeSays, FeedAssumption
<1>1. ASSUME UNCHANGED <<caches, loader>>
      PROVE  UNCHANGED <<inventory.version, inventory.generation, payload, loader.read,
                         loader.generation, Busy>>
  BY <1>1 DEF caches
<1>2. ASSUME NEW p \in Pages, loader' = LoaderWhenFetching(p), UNCHANGED caches
      PROVE  UNCHANGED <<inventory.version, inventory.generation, payload, loader.read,
                         loader.generation, Busy>>
  <2>1. CASE loader' = loader BY <1>1, <1>2, <2>1
  <2>2. CASE loader' # loader
    <3>1. loader.by = p /\ loader' = [loader EXCEPT !.request = "superseded"]
      BY <1>2, <2>2 DEF LoaderWhenFetching
    <3>2. loader'.by = p /\ loader'.read = loader.read /\ loader'.generation = loader.generation
      BY <1>0, <3>1 DEF Loaders
    <3>3. Busy /\ Busy' BY <1>0, <3>1, <3>2 DEF Unlocked
    <3> QED BY <1>2, <3>2, <3>3 DEF caches
  <2> QED BY <2>1, <2>2
<1>3. CASE UNCHANGED vars BY <1>1, <1>3 DEF vars
<1>4. ASSUME NEW p \in Pages, Page(p)
      PROVE  UNCHANGED <<inventory.version, inventory.generation, payload, loader.read,
                         loader.generation, Busy>>
  <2>1. /\ UNCHANGED caches
        /\ loader' = loader \/ loader' = LoaderWhenFetching(p)
    BY <1>4 DEF Page, Fetch, Render, Ignore, AskRefresh, Refreshed, LoseAnswer
  <2> QED BY <1>1, <1>2, <2>1
<1>5. ASSUME NEW p \in Pages, NEW r \in Requests, Dashboard(p, r)
      PROVE  \/ UNCHANGED <<caches, loader>>
             \/ /\ UNCHANGED <<inventory, loader>>
                /\ inventory.version # None /\ payload' = inventory.version
  BY <1>5 DEF Dashboard, caches
<1>6. ASSUME NEW p \in Pages, NEW r \in Requests, TakeLock(p, r)
      PROVE  \/ /\ UNCHANGED <<inventory, loader>>
                /\ payload' = None \/ (inventory.version # None /\ payload' = inventory.version)
             \/ /\ UNCHANGED caches /\ ~Busy
                /\ loader'.read = None /\ loader'.generation = inventory.generation
  BY <1>6 DEF TakeLock, LockFree, PayloadAfter, RecentEnough, caches
<1>7. ASSUME TakeLockInBackground
      PROVE  \/ UNCHANGED <<caches, loader>>
             \/ /\ UNCHANGED caches /\ ~Busy
                /\ loader'.read = None /\ loader'.generation = inventory.generation
  <2>1. \A g : /\ [Unlocked EXCEPT !.request = Background, !.generation = g].read = None
               /\ [Unlocked EXCEPT !.request = Background, !.generation = g].generation = g
    BY DEF Unlocked
  <2> QED BY <1>7, <2>1 DEF TakeLockInBackground, LockFree
<1>8. ASSUME ReadKong \/ ReadNothing
      PROVE  /\ UNCHANGED caches /\ Busy /\ Busy' /\ loader'.generation = loader.generation
             /\ loader.read = None /\ loader'.read \in {last, Down} /\ last' = last
  <2>1. PICK v \in {last, Down} : loader' = [loader EXCEPT !.read = v]
    BY <1>8 DEF ReadKong, ReadNothing
  <2>2. /\ UNCHANGED caches /\ last' = last /\ Busy /\ loader.read = None
    BY <1>8 DEF ReadKong, ReadNothing, Loading
  <2>3. loader'.read = v /\ loader'.generation = loader.generation BY <1>0, <2>1 DEF Loaders
  <2>4. v # None BY TypeSays DEF None, Down
  <2>5. Busy' BY <2>3, <2>4 DEF Unlocked
  <2> QED BY <2>2, <2>3, <2>5
<1>9. ASSUME LoadDone
      PROVE  /\ Busy /\ loader.read # None /\ loader' = Unlocked
             /\ inventory'.generation = inventory.generation
             /\ inventory'.version = IF loader.generation = inventory.generation
                                     THEN loader.read ELSE inventory.version
             /\ payload' \in {payload, None, loader.read}
  BY <1>0, <1>9 DEF LoadDone, MayPublish, PayloadAfter, Unlocked
<1>10. CASE PayloadExpires BY <1>10 DEF PayloadExpires
<1>11. ASSUME InventoryAges
       PROVE  UNCHANGED <<inventory.version, inventory.generation, payload, loader.read,
                          loader.generation, Busy>>
  <2>1. UNCHANGED <<payload, loader>>
        /\ \E a : inventory' = [inventory EXCEPT !.age = a]
    BY <1>11 DEF InventoryAges
  <2>2. inventory'.version = inventory.version /\ inventory'.generation = inventory.generation
    BY <1>0, <2>1
  <2> QED BY <2>1, <2>2
<1>12. ASSUME NEW h \in Handlers, Land(h) \/ FailAfterLanding(h) PROVE UNCHANGED <<caches, loader>>
  BY <1>12 DEF Land, FailAfterLanding
<1>13. ASSUME NEW h \in Handlers, Announce(h)
       PROVE  /\ inventory' = Cleared /\ payload' = None /\ loader' = loader
              /\ writer' # writer
  BY <1>13, TypeSays DEF Announce
<1> HIDE DEF Busy
<1> QED
  BY <1>1, <1>3, <1>4, <1>5, <1>6, <1>7, <1>8, <1>9, <1>10, <1>11, <1>12, <1>13 DEF Next, Api

\* Where an answer a page still wants comes from.
LEMMA AnswerSteps ==
  ASSUME TypeOK, [Next]_vars, NEW p \in Pages, req'[p]["current"].stage = "answered"
  PROVE  \/ req'[p]["current"] = req[p]["current"]
         \/ /\ payload # None /\ req'[p]["current"].version = payload
            /\ UNCHANGED <<caches, loader, seen>>
         \/ /\ inventory.version # None /\ req'[p]["current"].version = inventory.version
            /\ payload' = inventory.version
            /\ UNCHANGED <<inventory, loader, seen>>
         \/ /\ req'[p]["current"].version = loader.read /\ loader.read # None
            /\ payload' = loader.read /\ loader' = Unlocked /\ UNCHANGED seen
            /\ inventory'.version = IF loader.generation = inventory.generation
                                    THEN loader.read ELSE inventory.version
<1>0. /\ req \in [Pages -> [Requests -> Asked]]
      /\ inventory \in [version : Versions, age : Ages, generation : Nat]
      /\ loader \in Loaders /\ last \in Nat
      /\ "current" \in Requests /\ "refresh" \in Requests
  BY TypeSays, FeedAssumption DEF Requests
<1> DEFINE old == req[p]["current"]
           new == req'[p]["current"]
<1>1. CASE req' = req BY <1>1
<1>2. ASSUME NEW q \in Pages, NEW r \in Requests, NEW v, Answer(q, r, v)
      PROVE  new = old \/ (q = p /\ r = "current" /\ new.version = v)
  <2>1. new = IF q = p /\ r = "current" THEN [stage |-> "answered", version |-> v] ELSE old
    BY <1>0, <1>2 DEF Answer
  <2> QED BY <2>1
<1>3. ASSUME NEW q \in Pages, NEW r \in Requests, NEW st \in Stages, st # "answered",
             req' = [req EXCEPT ![q][r].stage = st]
      PROVE  new = old
  <2>1. ~(q = p /\ r = "current") => new = old BY <1>0, <1>3, OneStage
  <2>2. q = p /\ r = "current" => new.stage = st BY <1>0, <1>3, OneStage
  <2> QED BY <1>3, <2>1, <2>2
<1>4. ASSUME NEW q \in Pages, NEW r \in Requests, req' = [req EXCEPT ![q][r] = Idle]
      PROVE  new = old
  <2>1. new = IF q = p /\ r = "current" THEN Idle ELSE old BY <1>0, <1>4
  <2> QED BY <2>1 DEF Idle
<1>5. ASSUME NEW q \in Pages PROVE Fetching(q)[p]["current"] \in {old, [stage |-> "sent", version |-> None]}
  <2>1. CASE q = p BY <1>0, <2>1, FetchingSays
  <2>2. CASE q # p BY <1>0, <2>2, FetchingSays
  <2> QED BY <2>1, <2>2
<1>6. ASSUME NEW q \in Pages, Fetch(q) PROVE new = old
  <2>1. req' = Fetching(q) BY <1>6 DEF Fetch
  <2> QED BY <1>5, <2>1
<1>7. ASSUME NEW q \in Pages, Refreshed(q) PROVE new = old
  <2>1. CASE req' = [req EXCEPT ![q]["refresh"] = Idle] BY <1>0, <1>4, <2>1
  <2>2. CASE req' = [Fetching(q) EXCEPT ![q]["refresh"] = Idle]
    <3>1. Fetching(q) \in [Pages -> [Requests -> Asked]] BY <1>0, FetchingSays
    <3>2. req'[p]["current"] = Fetching(q)[p]["current"]
      <4> DEFINE f == Fetching(q)
      <4>1. f \in [Pages -> [Requests -> Asked]] /\ req' = [f EXCEPT ![q]["refresh"] = Idle]
        BY <2>2, <3>1
      <4> HIDE DEF f
      <4>2. req'[p]["current"] = f[p]["current"] BY <1>0, <4>1
      <4> QED BY <4>2 DEF f
    <3> QED BY <1>5, <3>2
  <2> QED BY <1>7, <2>1, <2>2 DEF Refreshed
<1>8. ASSUME NEW q \in Pages, NEW r \in Requests, Render(q) \/ Ignore(q) \/ LoseAnswer(q, r) PROVE new = old
  <2>1. \E t \in Requests : req' = [req EXCEPT ![q][t] = Idle]
    BY <1>8 DEF Render, Heard, Ignore, LoseAnswer, Requests
  <2> QED BY <1>4, <2>1
<1>9. ASSUME NEW q \in Pages, AskRefresh(q) PROVE new = old
  BY <1>0, <1>3, <1>9 DEF AskRefresh, Stages
<1>10. ASSUME NEW q \in Pages, NEW r \in Requests, Dashboard(q, r)
       PROVE  \/ new = old
              \/ /\ payload # None /\ new.version = payload
                 /\ UNCHANGED <<caches, loader, seen>>
              \/ /\ inventory.version # None /\ new.version = inventory.version
                 /\ payload' = inventory.version
                 /\ UNCHANGED <<inventory, loader, seen>>
  <2>1. UNCHANGED <<inventory, loader, seen>> BY <1>10 DEF Dashboard
  <2>2. \/ payload # None /\ Answer(q, r, payload) /\ payload' = payload
        \/ /\ inventory.version # None /\ Answer(q, r, inventory.version)
           /\ payload' = inventory.version
        \/ req' = [req EXCEPT ![q][r].stage = "queued"]
    BY <1>10 DEF Dashboard
  <2>3. CASE req' = [req EXCEPT ![q][r].stage = "queued"] BY <1>3, <2>3 DEF Stages
  <2>4. CASE payload # None /\ Answer(q, r, payload) /\ payload' = payload
    BY <1>2, <2>1, <2>4 DEF caches
  <2>5. CASE inventory.version # None /\ Answer(q, r, inventory.version) /\ payload' = inventory.version
    BY <1>2, <2>1, <2>5
  <2> QED BY <2>2, <2>3, <2>4, <2>5
<1>11. ASSUME NEW q \in Pages, NEW r \in Requests, TakeLock(q, r)
       PROVE  \/ new = old
              \/ /\ inventory.version # None /\ new.version = inventory.version
                 /\ payload' = inventory.version
                 /\ UNCHANGED <<inventory, loader, seen>>
  <2>1. UNCHANGED <<inventory, seen>> BY <1>11 DEF TakeLock
  <2>2. \/ /\ inventory.version # None /\ Answer(q, r, inventory.version)
           /\ payload' = PayloadAfter(r, inventory.version) /\ loader' = loader
        \/ req' = [req EXCEPT ![q][r].stage = "loading"]
    BY <1>11 DEF TakeLock, RecentEnough
  <2>3. CASE req' = [req EXCEPT ![q][r].stage = "loading"] BY <1>3, <2>3 DEF Stages
  <2>4. CASE /\ inventory.version # None /\ Answer(q, r, inventory.version)
             /\ payload' = PayloadAfter(r, inventory.version) /\ loader' = loader
    BY <1>2, <2>1, <2>4 DEF PayloadAfter
  <2> QED BY <2>2, <2>3, <2>4
<1>12. ASSUME LoadDone
       PROVE  \/ new = old
              \/ /\ new.version = loader.read /\ loader.read # None
                 /\ payload' = loader.read /\ loader' = Unlocked /\ UNCHANGED seen
                 /\ inventory'.version = IF loader.generation = inventory.generation
                                         THEN loader.read ELSE inventory.version
  <2>1. /\ loader.read # None /\ loader' = Unlocked /\ UNCHANGED seen
        /\ inventory'.version = IF loader.generation = inventory.generation
                                THEN loader.read ELSE inventory.version
    BY <1>0, <1>12 DEF LoadDone, MayPublish
  <2>2. CASE req' = req BY <2>2
  <2>3. CASE req' # req
    <3>1. /\ Answer(loader.by, loader.request, loader.read)
          /\ payload' = PayloadAfter(loader.request, loader.read)
          /\ loader.request # Background
      BY <1>12, <2>3 DEF LoadDone
    <3>2. loader.request \in Requests BY <1>0, <3>1 DEF Loaders
    <3>3. loader.by \in Pages
      BY <1>0, <2>3, <3>1 DEF Answer
    <3>4. new = old \/ (loader.request = "current" /\ new.version = loader.read)
      BY <1>2, <3>1, <3>2, <3>3
    <3> QED BY <2>1, <3>1, <3>4 DEF PayloadAfter
  <2> QED BY <2>2, <2>3
<1>13. ASSUME \/ TakeLockInBackground \/ ReadKong \/ ReadNothing \/ PayloadExpires \/ InventoryAges
              \/ \E h \in Handlers : Land(h) \/ Announce(h) \/ FailAfterLanding(h)
              \/ UNCHANGED vars
       PROVE  req' = req
  BY <1>13 DEF TakeLockInBackground, ReadKong, ReadNothing, PayloadExpires, InventoryAges, Land,
               Announce, FailAfterLanding, vars
<1> HIDE DEF old, new
<1>14. \/ new = old
       \/ /\ payload # None /\ new.version = payload
          /\ UNCHANGED <<caches, loader, seen>>
       \/ /\ inventory.version # None /\ new.version = inventory.version
          /\ payload' = inventory.version
          /\ UNCHANGED <<inventory, loader, seen>>
       \/ /\ new.version = loader.read /\ loader.read # None
          /\ payload' = loader.read /\ loader' = Unlocked /\ UNCHANGED seen
          /\ inventory'.version = IF loader.generation = inventory.generation
                                  THEN loader.read ELSE inventory.version
  <2>1. req' = req => new = old BY DEF new, old
  <2> QED BY <1>0, <2>1, <1>6, <1>7, <1>8, <1>9, <1>10, <1>11, <1>12, <1>13 DEF Next, Api, Page
<1> QED BY <1>14 DEF new, old

\* Only a rendered answer moves what a page has seen.
LEMMA SeenSteps ==
  ASSUME TypeOK, [Next]_vars
  PROVE  \/ UNCHANGED <<shown, seen>>
         \/ /\ UNCHANGED <<last, caches, loader>>
            /\ \E p \in Pages :
                 LET v == req[p]["current"].version
                 IN  /\ req[p]["current"].stage = "answered"
                     /\ shown' = [shown EXCEPT ![p] = v]
                     /\ seen' = IF v = Down THEN seen ELSE [seen EXCEPT ![p] = v]
<1>1. ASSUME NEW p \in Pages, Render(p)
      PROVE  /\ UNCHANGED <<last, caches, loader>>
             /\ LET v == req[p]["current"].version
                IN  /\ req[p]["current"].stage = "answered"
                    /\ shown' = [shown EXCEPT ![p] = v]
                    /\ seen' = IF v = Down THEN seen ELSE [seen EXCEPT ![p] = v]
  BY <1>1 DEF Render, Heard
<1>2. ASSUME NEW p \in Pages, NEW r \in Requests,
             \/ Fetch(p) \/ Ignore(p) \/ AskRefresh(p) \/ Refreshed(p) \/ LoseAnswer(p, r)
             \/ Dashboard(p, r) \/ TakeLock(p, r)
      PROVE  UNCHANGED <<shown, seen>>
  BY <1>2 DEF Fetch, Ignore, AskRefresh, Refreshed, LoseAnswer, Dashboard, TakeLock
<1>3. ASSUME \/ TakeLockInBackground \/ ReadKong \/ ReadNothing \/ LoadDone
             \/ PayloadExpires \/ InventoryAges \/ UNCHANGED vars
             \/ \E h \in Handlers : Land(h) \/ Announce(h) \/ FailAfterLanding(h)
      PROVE  UNCHANGED <<shown, seen>>
  BY <1>3 DEF TakeLockInBackground, ReadKong, ReadNothing, LoadDone, PayloadExpires, InventoryAges,
              Land, Announce, FailAfterLanding, vars
<1>4. "current" \in Requests BY DEF Requests
<1> QED BY <1>1, <1>2, <1>3, <1>4 DEF Next, Api, Page

-----------------------------------------------------------------------------
(***************************************************************************)
(* The invariants                                                          *)
(***************************************************************************)
\* A load that a write overtook finds the cache emptied, and nobody else fills it.
Overtaken ==
  /\ loader.generation <= inventory.generation
  /\ Busy /\ loader.generation # inventory.generation => inventory.version = None

\* No configuration that may still be shown is older than v.
Below(v) ==
  \A c \in {inventory.version, payload, loader.read} : c > 0 => v <= c

\* Versions move in the order they were read: a load is at least as new as the caches,
\* the inventory as the payload, and both as what pages have seen or are about to.
InOrder ==
  /\ loader.read > 0 => inventory.version <= loader.read /\ payload <= loader.read
  /\ inventory.version > 0 => payload <= inventory.version
  /\ \A p \in Pages :
       /\ Below(seen[p])
       /\ req[p]["current"].stage = "answered" =>
            LET v == req[p]["current"].version
            IN  /\ v # None
                /\ v > 0 => seen[p] <= v /\ Below(v)

\* A write has landed that the caches were not cleared for.
Unheard == unannounced \/ \E h \in Handlers : writer[h]

\* InventoryNotStale, for the load that may still be kept as well.
NothingStale ==
  /\ inventory.version \notin {None, Down, last} => Unheard
  /\ Busy /\ loader.generation = inventory.generation /\ loader.read \notin {None, Down, last} => Unheard

\* The values the versions take.
LEMMA Numbers ==
  ASSUME TypeOK
  PROVE  /\ inventory.version \in -1 .. last /\ inventory.generation \in Nat /\ payload \in -1 .. last
         /\ loader.read \in -1 .. last /\ loader.generation \in Nat /\ last \in Nat \ {0}
         /\ \A p \in Pages : seen[p] \in 0 .. last /\ req[p]["current"].version \in -1 .. last
<1>1. "current" \in Requests BY DEF Requests
<1> QED BY <1>1, TypeSays, FeedAssumption DEF Versions, Loaders, Asked, Down

LEMMA OvertakenStep ==
  ASSUME TypeOK, Overtaken, [Next]_vars
  PROVE  Overtaken'
<1>1. /\ inventory.generation \in Nat /\ loader.generation \in Nat BY Numbers
<1>2. Cleared.version = None /\ Cleared.generation = inventory.generation + 1 BY DEF Cleared
<1>3. Unlocked.generation = 0 /\ (loader' = Unlocked => ~Busy') BY DEF Unlocked, Busy
<1>4. loader' = loader => Busy' = Busy BY DEF Busy
<1> QED BY <1>1, <1>2, <1>3, <1>4, CacheSteps DEF Overtaken, caches

\* Numbers only: what CacheSteps does to the three versions, with nothing seen changing.
LEMMA BelowStep ==
  ASSUME TypeOK, Overtaken, InOrder, [Next]_vars, NEW v \in 0 .. last, Below(v)
  PROVE  Below(v)'
<1>1. /\ inventory.version \in -1 .. last /\ payload \in -1 .. last
      /\ loader.read \in -1 .. last /\ last \in Nat
  BY Numbers
<1>2. Cleared.version = None /\ Unlocked.read = None /\ None = 0 /\ Down = -1
  BY DEF Cleared, Unlocked, None, Down
<1> QED BY <1>1, <1>2, CacheSteps DEF Below, InOrder, Overtaken, caches

LEMMA InOrderStep ==
  ASSUME TypeOK, Overtaken, InOrder, [Next]_vars
  PROVE  InOrder'
<1>1. /\ inventory.version \in -1 .. last /\ payload \in -1 .. last
      /\ loader.read \in -1 .. last /\ last \in Nat
      /\ \A p \in Pages : seen[p] \in 0 .. last /\ req[p]["current"].version \in -1 .. last
  BY Numbers
<1>2. Cleared.version = None /\ Unlocked.read = None /\ None = 0 /\ Down = -1
  BY DEF Cleared, Unlocked, None, Down
<1>3. /\ loader'.read > 0 => inventory'.version <= loader'.read /\ payload' <= loader'.read
      /\ inventory'.version > 0 => payload' <= inventory'.version
  BY <1>1, <1>2, CacheSteps DEF InOrder, Overtaken, caches
<1>4. ASSUME NEW p \in Pages PROVE Below(seen[p])'
  <2>1. CASE seen' = seen
    <3>1. Below(seen[p])  BY DEF InOrder
    <3>2. PICK w \in 0 .. last : w = seen[p] BY <1>1
    <3>3. Below(w)' BY <3>1, <3>2, BelowStep
    <3> QED BY <2>1, <3>2, <3>3 DEF Below
  <2>2. CASE seen' # seen
    <3>1. /\ UNCHANGED <<caches, loader>>
          /\ \E q \in Pages :
               /\ req[q]["current"].stage = "answered"
               /\ req[q]["current"].version # Down
               /\ seen' = [seen EXCEPT ![q] = req[q]["current"].version]
      BY <2>2, SeenSteps
    <3>2. PICK q \in Pages :
               /\ req[q]["current"].stage = "answered"
               /\ req[q]["current"].version # Down
               /\ seen' = [seen EXCEPT ![q] = req[q]["current"].version]
      BY <3>1
    <3>3. req[q]["current"].version > 0 BY <1>1, <1>2, <3>2 DEF InOrder
    <3>4. Below(seen[p]) /\ Below(req[q]["current"].version) BY <3>2, <3>3 DEF InOrder
    <3>5. seen \in [Pages -> 0 .. last] BY TypeSays
    <3>6. seen'[p] = IF p = q THEN req[q]["current"].version ELSE seen[p] BY <3>2, <3>5
    <3> QED BY <3>1, <3>4, <3>6 DEF Below, caches
  <2> QED BY <2>1, <2>2
<1>5. ASSUME NEW p \in Pages, req'[p]["current"].stage = "answered",
             req'[p]["current"] # req[p]["current"]
      PROVE  /\ req'[p]["current"].version # None
             /\ req'[p]["current"].version > 0 =>
                  seen'[p] <= req'[p]["current"].version /\ Below(req[p]["current"].version)'
  <2>1. Below(seen[p]) BY DEF InOrder
  <2> DEFINE v == req'[p]["current"].version
  <2>2. \/ /\ payload # None /\ v = payload
           /\ UNCHANGED <<caches, loader, seen>>
        \/ /\ inventory.version # None /\ v = inventory.version
           /\ payload' = inventory.version
           /\ UNCHANGED <<inventory, loader, seen>>
        \/ /\ v = loader.read /\ loader.read # None
           /\ payload' = loader.read /\ loader' = Unlocked /\ UNCHANGED seen
           /\ inventory'.version = IF loader.generation = inventory.generation
                                   THEN loader.read ELSE inventory.version
    BY <1>5, AnswerSteps
  <2>3. loader.read # None => Busy BY <1>2 DEF Busy
  <2> HIDE DEF v
  <2>4. /\ v # None
        /\ v > 0 => /\ seen'[p] <= v
                    /\ \A c \in {inventory'.version, payload', loader'.read} : c > 0 => v <= c
    BY <1>1, <1>2, <2>1, <2>2, <2>3 DEF InOrder, Below, Overtaken, caches
  <2> QED BY <2>4 DEF v, Below
<1>6. ASSUME NEW p \in Pages, req'[p]["current"].stage = "answered",
             req'[p]["current"] = req[p]["current"]
      PROVE  /\ req'[p]["current"].version # None
             /\ req'[p]["current"].version > 0 =>
                  seen'[p] <= req'[p]["current"].version /\ Below(req[p]["current"].version)'
  <2> DEFINE v == req[p]["current"].version
  <2>1. /\ v # None
        /\ v > 0 => seen[p] <= v /\ Below(v)
    BY <1>6 DEF InOrder
  <2>2. v \in -1 .. last /\ req'[p]["current"].version = v BY <1>1, <1>6
  <2>3. v > 0 => seen'[p] <= v
    <3>1. CASE seen' = seen BY <2>1, <3>1
    <3>2. CASE seen' # seen
      <4>1. \E q \in Pages : seen' = [seen EXCEPT ![q] = req[q]["current"].version]
                             /\ req[q]["current"].stage = "answered"
        BY <3>2, SeenSteps
      <4>2. PICK q \in Pages : seen' = [seen EXCEPT ![q] = req[q]["current"].version]
                             /\ req[q]["current"].stage = "answered"
        BY <4>1
      <4>3. seen \in [Pages -> 0 .. last] BY TypeSays
      <4>4. CASE q = p BY <2>2, <4>2, <4>3, <4>4
      <4>5. CASE q # p BY <2>1, <4>2, <4>3, <4>5
      <4> QED BY <4>4, <4>5
    <3> QED BY <3>1, <3>2
  <2>4. v > 0 => \A c \in {inventory'.version, payload', loader'.read} : c > 0 => v <= c
    <3>1. SUFFICES ASSUME v > 0
                   PROVE  \A c \in {inventory'.version, payload', loader'.read} : c > 0 => v <= c
      OBVIOUS
    <3>2. v \in 0 .. last BY <1>1, <2>2, <3>1
    <3>3. PICK w \in 0 .. last : w = v BY <3>2
    <3>4. Below(w) BY <2>1, <3>1, <3>3
    <3>5. Below(w)' BY <3>4, BelowStep
    <3> QED BY <3>3, <3>5 DEF Below
  <2> QED BY <2>1, <2>2, <2>3, <2>4 DEF Below
<1> QED BY <1>3, <1>4, <1>5, <1>6 DEF InOrder, Below

LEMMA NothingStaleStep ==
  ASSUME TypeOK, Overtaken, NothingStale, [Next]_vars
  PROVE  NothingStale'
<1>1. /\ inventory.generation \in Nat /\ loader.generation \in Nat /\ last \in Nat BY Numbers
<1>2. Cleared.version = None /\ Cleared.generation = inventory.generation + 1 BY DEF Cleared
<1>3. /\ Unlocked.read = None /\ (loader' = Unlocked => ~Busy') /\ (loader' = loader => Busy' = Busy)
  BY DEF Unlocked, Busy
<1>4. writer \in [Handlers -> BOOLEAN] /\ unannounced \in BOOLEAN BY TypeSays
<1>5. CASE \E h \in Handlers : Land(h)
  <2>1. PICK h \in Handlers : Land(h) BY <1>5
  <2>2. writer'[h] = TRUE BY <1>4, <2>1 DEF Land
  <2>3. Unheard' BY <2>2 DEF Unheard
  <2> QED BY <2>3 DEF NothingStale
<1>6. CASE \E h \in Handlers : FailAfterLanding(h)
  <2>1. Unheard' BY <1>6 DEF FailAfterLanding, Unheard
  <2> QED BY <2>1 DEF NothingStale
<1>7. CASE \E h \in Handlers : Announce(h)
  <2>1. inventory' = Cleared /\ loader' = loader BY <1>7 DEF Announce
  <2> QED BY <1>1, <1>2, <2>1 DEF NothingStale, Overtaken
<1>8. CASE ~ \E h \in Handlers : Land(h) \/ FailAfterLanding(h) \/ Announce(h)
  <2>1. UNCHANGED <<last, writer, unannounced>>
    BY <1>8 DEF Next, Api, Page, Fetch, Render, Ignore, AskRefresh, Refreshed, LoseAnswer, Dashboard,
                TakeLock, TakeLockInBackground, ReadKong, ReadNothing, LoadDone, PayloadExpires,
                InventoryAges, vars
  <2>2. Unheard' = Unheard BY <2>1 DEF Unheard
  <2>3. loader.read # None => Busy BY DEF Busy, Unlocked
  <2> QED BY <1>1, <1>3, <2>1, <2>2, <2>3, CacheSteps DEF NothingStale, caches
<1> QED BY <1>5, <1>6, <1>7, <1>8

LEMMA OrderInit == Init => Overtaken /\ InOrder /\ NothingStale
<1> SUFFICES ASSUME Init PROVE Overtaken /\ InOrder /\ NothingStale
  OBVIOUS
<1>1. /\ inventory.version = None /\ inventory.generation = 0 /\ payload = None
      /\ loader.read = None /\ loader.generation = 0
  BY DEF Init, Unlocked
<1>2. \A p \in Pages : seen[p] = 0 /\ req[p]["current"].stage # "answered"
  BY DEF Init, Requests
<1> QED BY <1>1, <1>2 DEF Overtaken, InOrder, NothingStale, Below, None

\* A load that a write overtook is never kept: once the handlers have announced their
\* writes, the inventory cache does not hold an older configuration.
THEOREM NotStale == Spec => []InventoryNotStale
<1> DEFINE Inv == TypeOK /\ Overtaken /\ NothingStale
<1>1. Init => Inv BY TypeInit, OrderInit
<1>2. Inv /\ [Next]_vars => Inv' BY TypeStep, OvertakenStep, NothingStaleStep
<1>3. Inv => InventoryNotStale BY DEF NothingStale, InventoryNotStale, Unheard
<1> HIDE DEF Inv
<1> QED BY <1>1, <1>2, <1>3, PTL DEF Spec

-----------------------------------------------------------------------------
(***************************************************************************)
(* The promise                                                             *)
(***************************************************************************)
LEMMA PromiseInit == Init => Promise!Init
BY DEF Init, Promise!Init, None

LEMMA PromiseStep ==
  ASSUME TypeOK, InOrder, [Next]_vars
  PROVE  [Promise!Next]_(Promise!vars)
<1> USE DEF Promise!vars
<1>1. CASE UNCHANGED <<shown, seen>> /\ last' = last BY <1>1
<1>2. CASE UNCHANGED <<shown, seen>> /\ last' # last
  <2>1. \E h \in Handlers : Land(h)
    BY <1>2 DEF Next, Api, Page, Fetch, Render, Ignore, AskRefresh, Refreshed, LoseAnswer, Dashboard,
                TakeLock, TakeLockInBackground, ReadKong, ReadNothing, LoadDone, PayloadExpires,
                InventoryAges, Announce, FailAfterLanding, vars
  <2> QED BY <1>2, <2>1 DEF Land, Promise!Next, Promise!Write
<1>3. ASSUME NEW p \in Pages, req[p]["current"].stage = "answered", last' = last,
             shown' = [shown EXCEPT ![p] = req[p]["current"].version],
             seen' = IF req[p]["current"].version = Down THEN seen
                     ELSE [seen EXCEPT ![p] = req[p]["current"].version]
      PROVE  Promise!Show(p)
  <2> DEFINE v == req[p]["current"].version
  <2>1. v \in -1 .. last /\ seen[p] \in 0 .. last BY Numbers
  <2>2. v # None /\ (v > 0 => seen[p] <= v) BY <1>3 DEF InOrder
  <2>3. v \in {Down} \cup (seen[p] .. last) /\ v # 0
    BY <2>1, <2>2 DEF None, Down
  <2>4. Promise!Down = Down BY DEF Promise!Down, Down
  <2>5. /\ shown' = [shown EXCEPT ![p] = v]
        /\ seen' = IF v = Down THEN seen ELSE [seen EXCEPT ![p] = v]
    BY <1>3
  <2> HIDE DEF v
  <2> QED BY <1>3, <2>3, <2>4, <2>5 DEF Promise!Show
<1> QED BY <1>1, <1>2, <1>3, SeenSteps DEF Promise!Next

\* The console keeps its promise: whatever is superseded, cached, overtaken or lost, no
\* page ever goes back to an older configuration than it has rendered.
THEOREM PromiseKept == Spec => KeepsThePromise
<1> DEFINE Inv == TypeOK /\ Overtaken /\ InOrder
<1>1. Init => Inv BY TypeInit, OrderInit
<1>2. Inv /\ [Next]_vars => Inv' BY TypeStep, OvertakenStep, InOrderStep
<1>3. Inv /\ [Next]_vars => [Promise!Next]_(Promise!vars) BY PromiseStep
<1> HIDE DEF Inv
<1> QED BY <1>1, <1>2, <1>3, PromiseInit, PTL DEF Spec, KeepsThePromise, Promise!Spec

=============================================================================
