----------------------------- MODULE RateLimit -----------------------------
(***************************************************************************)
(* The rate_limit rule action and the temporary bans it escalates to       *)
(* (handler.lua: enforce_service_bans, the rate_limit branch of            *)
(* evaluate_rules; ka_utils.lua: the three Redis scripts).                 *)
(*                                                                         *)
(* Every request runs in a coroutine of its worker and yields at each      *)
(* Redis round trip: it looks for a ban before anything else, then its     *)
(* rules are evaluated, then, when the rate-limited rule matched, it runs  *)
(* one script that counts it and may ban.  Redis runs a script atomically; *)
(* the answer may be lost, and then the request goes through.  Time is a   *)
(* tick that shortens every TTL.                                           *)
(*                                                                         *)
(* One rule is modelled: the key of another rule differs in the rule id,   *)
(* as the key of another instance differs in the scope.                    *)
(***************************************************************************)
EXTENDS Naturals

CONSTANTS
  Instances,      \* plugin instances (__plugin_id), all carrying the rule
  Services,       \* Kong services
  NoService,      \* a request that matched no service
  Clients,        \* values the rule's `key` macro resolves to
  Identities,     \* values the rule's `ban.key` macro resolves to
  NoIdentity,     \* a per-client macro of `ban.key` (a cookie) with no value
  IdentityOf,     \* the ban identity of each client
  Requests,       \* requests that may be in flight
  Blocking,       \* instances with engine_blocking_mode
  BanPolicy,      \* the rule has a valid `ban`
  Limit,          \* rate_limit.limit
  Window,         \* rate_limit.window_seconds, in ticks
  Excess,         \* rate_limit.ban.after_exceedances
  BanTime,        \* rate_limit.ban.duration_seconds, in ticks
  Stuck,          \* counters that start without a TTL (left by the old GET-INCR-EXPIRE)
  MayFail,        \* a Redis exchange may fail
  Observed,       \* counter keys the ghosts recent and passed follow
  NoTTL           \* a key without expiry

ASSUME RateLimitAssumption ==
  /\ NoService \notin Services
  /\ NoIdentity \notin Identities
  /\ IdentityOf \in [Clients -> Identities \cup {NoIdentity}]
  /\ Blocking \subseteq Instances
  /\ BanPolicy \in BOOLEAN /\ MayFail \in BOOLEAN
  /\ Limit \in Nat \ {0} /\ Window \in Nat \ {0}
  /\ Excess \in Nat \ {0} /\ BanTime \in Nat \ {0}
  /\ NoTTL \notin Nat

\* The script only compares a counter with Limit and Limit + Excess: counting
\* saturates just above.
Cap == Limit + Excess + 1

Routes == Services \cup {NoService}

\* karna:rl:<scope>[:<service>]:<rule>:<key> and karna:ban:<scope>:<service>:<rule>:<key>.
\* The service segment is there only when the rule may ban.
CounterKeys == [scope : Instances, service : Routes, key : Clients]
BanKeys == [scope : Instances, service : Services, key : Identities]

Outcomes == {"none", "upstream", "429", "403"}

ASSUME ObservedAssumption == Observed \subseteq CounterKeys

VARIABLES
  hits,       \* per counter key, its value; 0 is no key
  expiry,     \* per counter key, its TTL, NoTTL for none (0 when there is no key)
  bans,       \* per ban key, its TTL; 0 is no key
  request,    \* per request slot, the request in flight
  banner,     \* ghost: per ban key, the counter keys whose hit created a ban of it
  recent,     \* ghost: per observed key and age in ticks, the hits it should count
  passed      \* ghost: per observed key and age in ticks, enforced hits let through

vars == <<hits, expiry, bans, request, banner, recent, passed>>

Ages == 0 .. Window - 1

InFlight == {"lookup", "rules", "limit"}

Modes == {"configured", "detection", "on"}

Flights ==
  [pc : InFlight, instance : Instances, service : Routes, client : Clients,
   mode : Modes, banned : BOOLEAN, failed : BOOLEAN]

\* A slot whose request, if it had one, was answered.
Answers == [pc : {"idle"}, outcome : Outcomes, failed : BOOLEAN]

Saturate(n) == IF n < Cap THEN n ELSE Cap

Init ==
  /\ hits = [k \in CounterKeys |-> IF k \in Stuck THEN Cap ELSE 0]
  /\ expiry = [k \in CounterKeys |-> IF k \in Stuck THEN NoTTL ELSE 0]
  /\ bans = [b \in BanKeys |-> 0]
  /\ request = [r \in Requests |-> [pc |-> "idle", outcome |-> "none", failed |-> FALSE]]
  /\ banner = [b \in BanKeys |-> {}]
  /\ recent = [k \in Observed |-> [a \in Ages |-> 0]]
  /\ passed = [k \in Observed |-> [a \in Ages |-> 0]]

redis == <<hits, expiry, bans>>
ghosts == <<banner, recent, passed>>

(***************************************************************************)
(* Keys                                                                    *)
(***************************************************************************)
\* The counter a hit of q is meant for.
OwnKey(q, service) == [scope |-> q.instance, service |-> service, key |-> q.client]

CounterKey(q, service) == OwnKey(q, service)

BanKey(q) ==
  [scope |-> q.instance, service |-> q.service, key |-> IdentityOf[q.client]]

(***************************************************************************)
(* A request                                                               *)
(***************************************************************************)
LooksUpBans_Never(i, s, c) == FALSE

\* enforce_service_bans looks for bans of a blocking instance on a routed
\* service, when some rule can ban this client.
LooksUpBans(i, s, c) ==
  i \in Blocking /\ s # NoService /\ BanPolicy /\ IdentityOf[c] # NoIdentity

\* Ghost: the client is under a ban this instance should enforce.
Enforceable(i, s, c) ==
  /\ i \in Blocking /\ s \in Services /\ IdentityOf[c] # NoIdentity
  /\ bans[[scope |-> i, service |-> s, key |-> IdentityOf[c]]] > 0

Arrive(r, i, s, c) ==
  /\ request[r].pc = "idle"
  /\ request' = [request EXCEPT ![r] =
       [pc |-> IF LooksUpBans(i, s, c) THEN "lookup" ELSE "rules",
        instance |-> i, service |-> s, client |-> c, mode |-> "configured",
        banned |-> Enforceable(i, s, c),
        failed |-> FALSE]]
  /\ UNCHANGED <<redis, ghosts>>

Proceed(r, pc, mode, failed) ==
  request' = [request EXCEPT ![r] =
    [pc |-> pc, instance |-> request[r].instance, service |-> request[r].service,
     client |-> request[r].client, mode |-> mode, banned |-> request[r].banned,
     failed |-> failed]]

Answer(r, outcome, failed) ==
  request' = [request EXCEPT ![r] =
    [pc |-> "idle", outcome |-> outcome, failed |-> failed \/ request[r].failed]]

\* FIRST_ACTIVE_BAN_LUA, before the cache short-circuit and every rule.
LookupBan(r) ==
  /\ request[r].pc = "lookup"
  /\ IF bans[BanKey(request[r])] > 0
       THEN Answer(r, "403", FALSE)
       ELSE Proceed(r, "rules", "configured", FALSE)
  /\ UNCHANGED <<redis, ghosts>>

\* Redis cannot be reached or its answer is lost: no ban is known of.
LookupFails(r) ==
  /\ MayFail
  /\ request[r].pc = "lookup"
  /\ Proceed(r, "rules", "configured", TRUE)
  /\ UNCHANGED <<redis, ghosts>>

\* Rules are evaluated and the rate-limited rule does not match, or its `key`
\* macro has no value for this client: nothing is counted.
PassRules(r) ==
  /\ request[r].pc = "rules"
  /\ Answer(r, "upstream", FALSE)
  /\ UNCHANGED <<redis, ghosts>>

\* It matches; a ctl:ruleEngine control may have flipped the request before.
MatchRule(r, mode) ==
  /\ request[r].pc = "rules"
  /\ Proceed(r, "limit", mode, request[r].failed)
  /\ UNCHANGED <<redis, ghosts>>

\* The request is banned rather than only counted when it exceeds.
MayBan(q) ==
  /\ BanPolicy
  /\ q.instance \in Blocking
  /\ q.mode # "detection"
  /\ q.service # NoService
  /\ IdentityOf[q.client] # NoIdentity

\* rule_blocking_enabled
Enforced(q) ==
  \/ q.mode = "on"
  \/ q.instance \in Blocking /\ q.mode # "detection"

\* EXPIRE is armed by the hit that creates the key, or that finds no TTL.
Expiry_Added(k) ==
  IF hits[k] = 0 \/ expiry[k] = NoTTL THEN Window ELSE expiry[k] + Window

Expiry_OnlyNew(k) == IF hits[k] = 0 THEN Window ELSE expiry[k]

Expiry(k) == IF hits[k] = 0 \/ expiry[k] = NoTTL THEN Window ELSE expiry[k]

\* A hit meant for counter k, seen by the ghosts.
CountHit(k) ==
  recent' = IF k \in Observed
              THEN [recent EXCEPT ![k] =
                     [recent[k] EXCEPT ![0] = Saturate(recent[k][0] + 1)]]
              ELSE recent

Over(v) == v > Limit

LetThrough(q, k, answered, v) ==
  passed' = IF k \in Observed /\ answered /\ Enforced(q) /\ ~Over(v)
              THEN [passed EXCEPT ![k] =
                     [passed[k] EXCEPT ![0] = Saturate(passed[k][0] + 1)]]
              ELSE passed

\* What the handler does with the count it got: nil fails open.
Throttle(r, answered, v) ==
  Answer(r, IF answered /\ Enforced(request[r]) /\ Over(v) THEN "429" ELSE "upstream",
         ~answered)

\* INCR_EXPIRE_LUA
Count(r) ==
  LET q == request[r]
      k == CounterKey(q, NoService)
      v == Saturate(hits[k] + 1)
  IN /\ q.pc = "limit" /\ ~MayBan(q)
     /\ hits' = [hits EXCEPT ![k] = v]
     /\ expiry' = [expiry EXCEPT ![k] = Expiry(k)]
     /\ CountHit(OwnKey(q, NoService))
     /\ \E answered \in BOOLEAN :
          /\ answered \/ MayFail
          /\ Throttle(r, answered, v)
          /\ LetThrough(q, OwnKey(q, NoService), answered, v)
     /\ UNCHANGED <<bans, banner>>

UnderBan_NotChecked(b) == FALSE

UnderBan(b) == bans[b] > 0

\* INCR_EXPIRE_BAN_LUA, a ban is active: nothing is counted.
RefuseBanned(r) ==
  /\ request[r].pc = "limit" /\ MayBan(request[r])
  /\ UnderBan(BanKey(request[r]))
  /\ \E answered \in BOOLEAN :
       /\ answered \/ MayFail
       /\ Answer(r, IF answered THEN "403" ELSE "upstream", ~answered)
  /\ UNCHANGED <<redis, ghosts>>

Bans_OneEarly(v) == v >= Limit + Excess - 1

Bans(v) == v >= Limit + Excess

\* INCR_EXPIRE_BAN_LUA, no ban yet and this hit does not earn one.
CountBelow(r) ==
  LET q == request[r]
      k == CounterKey(q, q.service)
      v == Saturate(hits[k] + 1)
  IN /\ q.pc = "limit" /\ MayBan(q) /\ ~UnderBan(BanKey(q))
     /\ ~Bans(v)
     /\ hits' = [hits EXCEPT ![k] = v]
     /\ expiry' = [expiry EXCEPT ![k] = Expiry(k)]
     /\ CountHit(OwnKey(q, q.service))
     /\ \E answered \in BOOLEAN :
          /\ answered \/ MayFail
          /\ Throttle(r, answered, v)
          /\ LetThrough(q, OwnKey(q, q.service), answered, v)
     /\ UNCHANGED <<bans, banner>>

AfterBan_CounterKept(k) == hits[k]

\* DEL of the counter by the hit that creates the ban.
AfterBan(k) == 0

\* INCR_EXPIRE_BAN_LUA, the hit that creates the ban.
CountAndBan(r) ==
  LET q == request[r]
      k == CounterKey(q, q.service)
      v == Saturate(hits[k] + 1)
  IN /\ q.pc = "limit" /\ MayBan(q) /\ ~UnderBan(BanKey(q))
     /\ Bans(v)
     /\ bans' = [bans EXCEPT ![BanKey(q)] = BanTime]
     /\ hits' = [hits EXCEPT ![k] = AfterBan(k)]
     /\ expiry' = [expiry EXCEPT ![k] = IF AfterBan(k) = 0 THEN 0 ELSE Expiry(k)]
     /\ banner' = [banner EXCEPT ![BanKey(q)] = {k}]
     /\ CountHit(OwnKey(q, q.service))
     /\ \E answered \in BOOLEAN :
          /\ answered \/ MayFail
          /\ Answer(r, IF answered THEN "403" ELSE "upstream", ~answered)
     /\ UNCHANGED passed

\* The counting exchange fails before Redis runs the script.
CountFails(r) ==
  /\ MayFail
  /\ request[r].pc = "limit"
  /\ Answer(r, "upstream", TRUE)
  /\ UNCHANGED <<redis, ghosts>>

(***************************************************************************)
(* Time                                                                    *)
(***************************************************************************)
Older(counts) == [a \in Ages |-> IF a = 0 THEN 0 ELSE counts[a - 1]]

\* A request is under a ban only while the ban it arrived under lasts.
Aged(q) ==
  [pc |-> q.pc, instance |-> q.instance, service |-> q.service, client |-> q.client,
   mode |-> q.mode, banned |-> q.banned /\ bans[BanKey(q)] > 1, failed |-> q.failed]

Tick ==
  /\ hits' = [k \in CounterKeys |-> IF expiry[k] = 1 THEN 0 ELSE hits[k]]
  /\ expiry' = [k \in CounterKeys |->
       IF expiry[k] \in {0, NoTTL} THEN expiry[k] ELSE expiry[k] - 1]
  /\ bans' = [b \in BanKeys |-> IF bans[b] = 0 THEN 0 ELSE bans[b] - 1]
  /\ banner' = [b \in BanKeys |-> IF bans[b] = 1 THEN {} ELSE banner[b]]
  /\ recent' = [k \in Observed |-> Older(recent[k])]
  /\ passed' = [k \in Observed |-> Older(passed[k])]
  /\ request' = [r \in Requests |->
       IF request[r].pc = "idle" THEN request[r] ELSE Aged(request[r])]

Limiting(r) ==
  \/ Count(r)
  \/ RefuseBanned(r)
  \/ CountBelow(r)
  \/ CountAndBan(r)
  \/ CountFails(r)

Next ==
  \/ Tick
  \/ \E r \in Requests :
       \/ \E i \in Instances, s \in Routes, c \in Clients : Arrive(r, i, s, c)
       \/ LookupBan(r)
       \/ LookupFails(r)
       \/ PassRules(r)
       \/ \E mode \in Modes : MatchRule(r, mode)
       \/ Limiting(r)

Spec == Init /\ [][Next]_vars

\* Redis expires keys whatever the traffic.
FairSpec == Spec /\ WF_vars(Tick)

-----------------------------------------------------------------------------
(***************************************************************************)
(* Properties                                                              *)
(***************************************************************************)
TypeOK ==
  /\ hits \in [CounterKeys -> 0 .. Cap]
  /\ expiry \in [CounterKeys -> (0 .. Window) \cup {NoTTL}]
  /\ bans \in [BanKeys -> 0 .. BanTime]
  /\ request \in [Requests -> Flights \cup Answers]
  /\ banner \in [BanKeys -> SUBSET CounterKeys]
  /\ recent \in [Observed -> [Ages -> 0 .. Cap]]
  /\ passed \in [Observed -> [Ages -> 0 .. Cap]]

\* The sums of the counts up to each age.
UpTo(counts) ==
  LET sum[a \in Ages] == IF a = 0 THEN counts[0] ELSE sum[a - 1] + counts[a] IN sum

Total(counts) == UpTo(counts)[Window - 1]

\* "A fixed window": in whatever period of window_seconds one looks at, a client
\* of one instance gets fewer than two windows' worth of requests through while
\* Redis answers.  (A ban empties the counter: one that is shorter than the window
\* lets more through.)
FewerThanTwoWindows ==
  \A k \in Observed : k.service = NoService \/ BanTime >= Window => Total(passed[k]) < 2 * Limit

\* A client is refused (429, or the 403 that starts its ban) only for hits it
\* made itself, on that instance and within the last window_seconds: never for
\* another client's, another instance's, or hits of a window that is over.  (Those
\* of a counter left stuck by an earlier release are anybody's guess.)
RefusedForOwnHits ==
  [][\A r \in Requests :
       (Count(r) \/ CountBelow(r) \/ CountAndBan(r)) =>
         LET q == request[r]
             k == OwnKey(q, IF MayBan(q) THEN q.service ELSE NoService)
         IN k \in Observed \ Stuck =>
              /\ (request'[r].outcome \in {"429", "403"}) => Total(recent'[k]) > Limit
              /\ CountAndBan(r) => Total(recent'[k]) >= Limit + Excess]_vars

\* "a ban triggered on one path covers every path of that service": a request
\* whose identity is under a ban from its arrival to its answer never reaches
\* the upstream, matched or not, unless Redis failed it.
BanHolds ==
  [][\A r \in Requests :
       request[r].pc \in InFlight /\ request'[r].pc = "idle" =>
         ~ (request[r].banned /\ request'[r].outcome = "upstream"
              /\ ~request'[r].failed)]_vars

\* "NX preserves the deadline under concurrent exceedances".
BanDeadlineKept == [][\A b \in BanKeys : bans[b] > 0 => bans'[b] <= bans[b]]_vars

\* "The counter is reset when the ban starts, so expiry opens a fresh window":
\* the counter that earned the ban stays empty for as long as the ban lasts,
\* whichever requests were already past the lookup.
FreshWindowAfterBan ==
  \A b \in BanKeys : bans[b] > 0 => \A k \in banner[b] : hits[k] = 0

\* "increments inside it do not push the expiry out", "the counter can never be left
\* without an expiry": every window ends, however many hits keep coming, and so does
\* that of a counter that started stuck without a TTL once it is hit.
EveryWindowEnds ==
  \A k \in CounterKeys :
    (hits[k] > 0 /\ (expiry[k] # NoTTL \/ (k \in Observed /\ Total(recent[k]) > 0))) ~> (hits[k] = 0)
=============================================================================
