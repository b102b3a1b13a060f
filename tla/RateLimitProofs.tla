-------------------------- MODULE RateLimitProofs --------------------------
(***************************************************************************)
(* TLAPS proofs about RateLimit, for every limit, window and ban policy,   *)
(* any number of instances, services, clients and concurrent requests, and *)
(* whatever Redis exchanges fail.                                          *)
(***************************************************************************)
EXTENDS RateLimit, Integers, WellFoundedInduction, TLAPS

-----------------------------------------------------------------------------
(* Type correctness.                                                       *)

LEMMA SaturateType ==
  ASSUME NEW n \in Nat
  PROVE  Saturate(n) \in 0 .. Cap /\ Saturate(n + 1) \in 1 .. Cap
  BY RateLimitAssumption DEF Saturate, Cap

LEMMA KeyTypes ==
  ASSUME NEW q \in Flights
  PROVE  /\ q.service \in Routes
         /\ \A s \in Routes : OwnKey(q, s) \in CounterKeys
         /\ q.service # NoService /\ IdentityOf[q.client] # NoIdentity
              => BanKey(q) \in BanKeys
<1> USE RateLimitAssumption
<1>1. q.instance \in Instances /\ q.service \in Routes /\ q.client \in Clients
  BY DEF Flights
<1>2. \A s \in Routes : OwnKey(q, s) \in CounterKeys
  BY <1>1 DEF OwnKey, CounterKeys
<1>3. ASSUME q.service # NoService, IdentityOf[q.client] # NoIdentity
      PROVE  BanKey(q) \in BanKeys
  BY <1>1, <1>3 DEF BanKey, BanKeys, Routes
<1>4. QED
  BY <1>1, <1>2, <1>3

\* Redis, and the table of requests; the ghosts recent and passed apart.
RedisTypeOK ==
  /\ hits \in [CounterKeys -> 0 .. Cap]
  /\ expiry \in [CounterKeys -> (0 .. Window) \cup {NoTTL}]
  /\ bans \in [BanKeys -> 0 .. BanTime]
  /\ banner \in [BanKeys -> SUBSET CounterKeys]

RequestTypeOK == request \in [Requests -> Flights \cup Answers]

GhostTypeOK ==
  /\ recent \in [Observed -> [Ages -> 0 .. Cap]]
  /\ passed \in [Observed -> [Ages -> 0 .. Cap]]

LEMMA TypeParts ==
  /\ TypeOK <=> RedisTypeOK /\ RequestTypeOK /\ GhostTypeOK
  /\ TypeOK' <=> RedisTypeOK' /\ RequestTypeOK' /\ GhostTypeOK'
  BY DEF TypeOK, RedisTypeOK, RequestTypeOK, GhostTypeOK

LEMMA InFlightType ==
  ASSUME RequestTypeOK, NEW r \in Requests, request[r].pc \in InFlight
  PROVE  request[r] \in Flights
  BY DEF RequestTypeOK, InFlight, Answers

LEMMA ProceedType ==
  ASSUME RequestTypeOK, NEW r \in Requests, request[r].pc \in InFlight,
         NEW pc \in InFlight, NEW mode \in Modes, NEW failed \in BOOLEAN,
         Proceed(r, pc, mode, failed)
  PROVE  RequestTypeOK'
<1> DEFINE new == [pc |-> pc, instance |-> request[r].instance,
                   service |-> request[r].service, client |-> request[r].client,
                   mode |-> mode, banned |-> request[r].banned, failed |-> failed]
<1>1. request[r] \in Flights
  BY InFlightType
<1>2. new \in Flights
  BY <1>1 DEF Flights
<1>3. request' = [request EXCEPT ![r] = new]
  BY DEF Proceed
<1> HIDE DEF new
<1>4. QED
  BY <1>2, <1>3 DEF RequestTypeOK

LEMMA AnswerType ==
  ASSUME RequestTypeOK, NEW r \in Requests, request[r].pc \in InFlight,
         NEW outcome \in Outcomes, NEW failed \in BOOLEAN,
         Answer(r, outcome, failed)
  PROVE  RequestTypeOK'
<1> DEFINE new == [pc |-> "idle", outcome |-> outcome, failed |-> failed \/ request[r].failed]
<1>1. request[r] \in Flights
  BY InFlightType
<1>2. (failed \/ request[r].failed) \in BOOLEAN
  OBVIOUS
<1>3. new \in Answers
  BY <1>1, <1>2 DEF Answers, Flights
<1>4. request' = [request EXCEPT ![r] = new]
  BY DEF Answer
<1> HIDE DEF new
<1>5. QED
  BY <1>3, <1>4 DEF RequestTypeOK

\* The value Expiry arms is a TTL, and never "no TTL".
LEMMA ExpiryType ==
  ASSUME RedisTypeOK, NEW k \in CounterKeys
  PROVE  Expiry(k) \in 0 .. Window
  BY RateLimitAssumption DEF RedisTypeOK, Expiry

LEMMA HitType ==
  ASSUME RedisTypeOK, NEW k \in CounterKeys
  PROVE  /\ hits[k] \in Nat
         /\ Saturate(hits[k] + 1) \in 1 .. Cap
<1>1. hits[k] \in Nat /\ Cap \in Nat
  BY RateLimitAssumption DEF RedisTypeOK, Cap
<1>2. QED
  BY <1>1, SaturateType

\* One more hit in a ghost table keeps its type.
LEMMA AddedType ==
  ASSUME NEW table \in [Observed -> [Ages -> 0 .. Cap]], NEW k \in Observed
  PROVE  [table EXCEPT ![k] = [table[k] EXCEPT ![0] = Saturate(table[k][0] + 1)]]
           \in [Observed -> [Ages -> 0 .. Cap]]
<1>1. 0 \in Ages /\ Cap \in Nat
  BY RateLimitAssumption DEF Ages, Cap
<1>2. table[k] \in [Ages -> 0 .. Cap] /\ table[k][0] \in Nat
  BY <1>1
<1>3. Saturate(table[k][0] + 1) \in 0 .. Cap
  BY <1>1, <1>2, SaturateType
<1> DEFINE n == Saturate(table[k][0] + 1)
<1> HIDE DEF n
<1>4. [table[k] EXCEPT ![0] = n] \in [Ages -> 0 .. Cap]
  BY <1>2, <1>3 DEF n
<1>5. QED
  BY <1>4 DEF n

LEMMA CountHitType ==
  ASSUME GhostTypeOK, NEW k, CountHit(k)
  PROVE  recent' \in [Observed -> [Ages -> 0 .. Cap]]
<1>1. CASE k \in Observed
  <2>1. recent' = [recent EXCEPT ![k] =
                    [recent[k] EXCEPT ![0] = Saturate(recent[k][0] + 1)]]
    BY <1>1 DEF CountHit
  <2>2. QED
    BY <1>1, <2>1, AddedType DEF GhostTypeOK
<1>2. CASE k \notin Observed
  BY <1>2 DEF CountHit, GhostTypeOK
<1>3. QED
  BY <1>1, <1>2

LEMMA LetThroughType ==
  ASSUME GhostTypeOK, NEW q, NEW k, NEW answered, NEW v, LetThrough(q, k, answered, v)
  PROVE  passed' \in [Observed -> [Ages -> 0 .. Cap]]
<1> DEFINE counted == k \in Observed /\ answered /\ Enforced(q) /\ ~Over(v)
<1>1. CASE counted
  <2>1. passed' = [passed EXCEPT ![k] =
                    [passed[k] EXCEPT ![0] = Saturate(passed[k][0] + 1)]]
    BY <1>1 DEF LetThrough
  <2>2. QED
    BY <1>1, <2>1, AddedType DEF GhostTypeOK
<1>2. CASE ~counted
  BY <1>2 DEF LetThrough, GhostTypeOK
<1>3. QED
  BY <1>1, <1>2

LEMMA ThrottleType ==
  ASSUME RequestTypeOK, NEW r \in Requests, request[r].pc \in InFlight,
         NEW answered \in BOOLEAN, NEW v, Throttle(r, answered, v)
  PROVE  RequestTypeOK'
<1>1. CASE answered /\ Enforced(request[r]) /\ Over(v)
  <2>1. Answer(r, "429", ~answered)
    BY <1>1 DEF Throttle
  <2>2. QED
    BY <2>1, AnswerType DEF Outcomes
<1>2. CASE ~ (answered /\ Enforced(request[r]) /\ Over(v))
  <2>1. Answer(r, "upstream", ~answered)
    BY <1>2 DEF Throttle
  <2>2. QED
    BY <2>1, AnswerType DEF Outcomes
<1>3. QED
  BY <1>1, <1>2

\* A limiting step starts from a request at its script, and MayBan makes its
\* ban key a key.
LEMMA LimitType ==
  ASSUME RequestTypeOK, NEW r \in Requests, request[r].pc = "limit"
  PROVE  /\ request[r] \in Flights
         /\ request[r].pc \in InFlight
         /\ \A s \in Routes : CounterKey(request[r], s) \in CounterKeys
         /\ NoService \in Routes
         /\ request[r].service \in Routes
         /\ MayBan(request[r]) => BanKey(request[r]) \in BanKeys
<1>1. request[r].pc \in InFlight
  BY DEF InFlight
<1>2. request[r] \in Flights
  BY <1>1, InFlightType
<1>3. QED
  BY <1>1, <1>2, KeyTypes DEF CounterKey, MayBan, Routes

LEMMA InitType == Init => TypeOK
<1> SUFFICES ASSUME Init PROVE TypeOK
  OBVIOUS
<1>1. 0 \in 0 .. Cap /\ Cap \in 0 .. Cap /\ 0 \in 0 .. Window /\ 0 \in 0 .. BanTime
  BY RateLimitAssumption DEF Cap
<1>2. RedisTypeOK
  BY <1>1 DEF Init, RedisTypeOK
<1>3. [pc |-> "idle", outcome |-> "none", failed |-> FALSE] \in Answers
  BY DEF Answers, Outcomes
<1>4. RequestTypeOK
  BY <1>3 DEF Init, RequestTypeOK
<1>5. GhostTypeOK
  BY <1>1 DEF Init, GhostTypeOK
<1>6. QED
  BY <1>2, <1>4, <1>5, TypeParts

LEMMA ArriveType ==
  ASSUME TypeOK, NEW r \in Requests, NEW i \in Instances, NEW s \in Routes,
         NEW c \in Clients, Arrive(r, i, s, c)
  PROVE  TypeOK'
<1> DEFINE new == [pc |-> IF LooksUpBans(i, s, c) THEN "lookup" ELSE "rules",
                   instance |-> i, service |-> s, client |-> c, mode |-> "configured",
                   banned |-> Enforceable(i, s, c), failed |-> FALSE]
<1>1. RedisTypeOK /\ RequestTypeOK /\ GhostTypeOK
  BY TypeParts
<1>2. Enforceable(i, s, c) \in BOOLEAN
  BY DEF Enforceable
<1>3. new \in Flights
  BY <1>2 DEF Flights, InFlight, Modes
<1>4. request' = [request EXCEPT ![r] = new]
  BY DEF Arrive
<1> HIDE DEF new
<1>5. RequestTypeOK'
  BY <1>1, <1>3, <1>4 DEF RequestTypeOK
<1>6. RedisTypeOK' /\ GhostTypeOK'
  BY <1>1 DEF Arrive, redis, ghosts, RedisTypeOK, GhostTypeOK
<1>7. QED
  BY <1>5, <1>6, TypeParts

LEMMA UntouchedType ==
  ASSUME TypeOK, RequestTypeOK', UNCHANGED <<redis, ghosts>>
  PROVE  TypeOK'
<1>1. RedisTypeOK' /\ GhostTypeOK'
  BY TypeParts DEF redis, ghosts, RedisTypeOK, GhostTypeOK
<1>2. QED
  BY <1>1, TypeParts

LEMMA LookupType ==
  ASSUME TypeOK, NEW r \in Requests, LookupBan(r) \/ LookupFails(r)
  PROVE  TypeOK'
<1>1. RequestTypeOK /\ request[r].pc \in InFlight
  BY TypeParts DEF LookupBan, LookupFails, InFlight
<1>2. "403" \in Outcomes /\ "rules" \in InFlight /\ "configured" \in Modes
  BY DEF Outcomes, InFlight, Modes
<1>3. Answer(r, "403", FALSE) \/ Proceed(r, "rules", "configured", FALSE)
        \/ Proceed(r, "rules", "configured", TRUE)
  BY DEF LookupBan, LookupFails
<1>4. RequestTypeOK'
  BY <1>1, <1>2, <1>3, AnswerType, ProceedType
<1>5. QED
  BY <1>4, UntouchedType DEF LookupBan, LookupFails

LEMMA RulesType ==
  ASSUME TypeOK, NEW r \in Requests, NEW mode \in Modes, PassRules(r) \/ MatchRule(r, mode)
  PROVE  TypeOK'
<1>1. RequestTypeOK /\ request[r].pc \in InFlight
  BY TypeParts DEF PassRules, MatchRule, InFlight
<1>2. request[r].failed \in BOOLEAN
  BY <1>1, InFlightType DEF Flights
<1>3. "upstream" \in Outcomes /\ "limit" \in InFlight
  BY DEF Outcomes, InFlight
<1>4. Answer(r, "upstream", FALSE) \/ Proceed(r, "limit", mode, request[r].failed)
  BY DEF PassRules, MatchRule
<1>5. RequestTypeOK'
  BY <1>1, <1>2, <1>3, <1>4, AnswerType, ProceedType
<1>6. QED
  BY <1>5, UntouchedType DEF PassRules, MatchRule

\* A hit that does not ban, of the counter of any service segment.
LEMMA PlainHitType ==
  ASSUME TypeOK, NEW r \in Requests, request[r].pc = "limit", NEW s \in Routes,
         LET q == request[r]
             k == CounterKey(q, s)
             v == Saturate(hits[k] + 1)
         IN /\ hits' = [hits EXCEPT ![k] = v]
            /\ expiry' = [expiry EXCEPT ![k] = Expiry(k)]
            /\ CountHit(OwnKey(q, s))
            /\ \E answered \in BOOLEAN :
                 Throttle(r, answered, v) /\ LetThrough(q, OwnKey(q, s), answered, v)
            /\ UNCHANGED <<bans, banner>>
  PROVE  TypeOK'
<1> DEFINE q == request[r]
           k == CounterKey(q, s)
           v == Saturate(hits[k] + 1)
<1>1. RedisTypeOK /\ RequestTypeOK /\ GhostTypeOK
  BY TypeParts
<1>2. k \in CounterKeys /\ q.pc \in InFlight
  BY <1>1, LimitType
<1>3. v \in 0 .. Cap /\ Expiry(k) \in 0 .. Window
  BY <1>1, <1>2, HitType, ExpiryType
<1>4. PICK answered \in BOOLEAN :
        Throttle(r, answered, v) /\ LetThrough(q, OwnKey(q, s), answered, v)
  OBVIOUS
<1>5. RequestTypeOK'
  BY <1>1, <1>2, <1>4, ThrottleType
<1>6. GhostTypeOK'
  <2>1. recent' \in [Observed -> [Ages -> 0 .. Cap]]
    BY <1>1, CountHitType
  <2>2. passed' \in [Observed -> [Ages -> 0 .. Cap]]
    BY <1>1, <1>4, LetThroughType
  <2>3. QED
    BY <2>1, <2>2 DEF GhostTypeOK
<1>7. hits' = [hits EXCEPT ![k] = v] /\ expiry' = [expiry EXCEPT ![k] = Expiry(k)]
  OBVIOUS
<1>8. bans' = bans /\ banner' = banner
  OBVIOUS
<1> HIDE DEF k, v
<1>9. RedisTypeOK'
  BY <1>1, <1>2, <1>3, <1>7, <1>8 DEF RedisTypeOK
<1>10. QED
  BY <1>5, <1>6, <1>9, TypeParts

LEMMA BanningHitType ==
  ASSUME TypeOK, NEW r \in Requests, CountAndBan(r)
  PROVE  TypeOK'
<1> DEFINE q == request[r]
           k == CounterKey(q, q.service)
           b == BanKey(q)
           n == AfterBan(k)
           t == IF AfterBan(k) = 0 THEN 0 ELSE Expiry(k)
<1>1. RedisTypeOK /\ RequestTypeOK /\ GhostTypeOK
  BY TypeParts
<1>2. q.pc = "limit" /\ MayBan(q)
  BY DEF CountAndBan
<1>3. k \in CounterKeys /\ b \in BanKeys /\ q.pc \in InFlight
  BY <1>1, <1>2, LimitType
<1>4. n \in 0 .. Cap /\ t \in 0 .. Window /\ BanTime \in 0 .. BanTime
  BY RateLimitAssumption DEF AfterBan, Cap
<1>5. /\ bans' = [bans EXCEPT ![b] = BanTime]
      /\ hits' = [hits EXCEPT ![k] = n]
      /\ expiry' = [expiry EXCEPT ![k] = t]
      /\ banner' = [banner EXCEPT ![b] = {k}]
      /\ CountHit(OwnKey(q, q.service))
      /\ passed' = passed
  BY DEF CountAndBan
<1>6. RequestTypeOK'
  <2>1. PICK answered \in BOOLEAN :
          Answer(r, IF answered THEN "403" ELSE "upstream", ~answered)
    BY DEF CountAndBan
  <2>2. (IF answered THEN "403" ELSE "upstream") \in Outcomes
    BY DEF Outcomes
  <2>3. QED
    BY <1>1, <1>3, <2>1, <2>2, AnswerType
<1>7. GhostTypeOK'
  BY <1>1, <1>5, CountHitType DEF GhostTypeOK
<1> HIDE DEF k, b, n, t
<1>8. RedisTypeOK'
  BY <1>1, <1>3, <1>4, <1>5 DEF RedisTypeOK
<1>9. QED
  BY <1>6, <1>7, <1>8, TypeParts

LEMMA LimitingType ==
  ASSUME TypeOK, NEW r \in Requests, Limiting(r)
  PROVE  TypeOK'
<1>1. RequestTypeOK
  BY TypeParts
<1>2. request[r].pc = "limit"
  BY DEF Limiting, Count, RefuseBanned, CountBelow, CountAndBan, CountFails
<1>3. request[r].pc \in InFlight /\ request[r].service \in Routes /\ NoService \in Routes
  BY <1>1, <1>2, LimitType
<1>4. CASE Count(r)
  BY <1>2, <1>3, <1>4, PlainHitType DEF Count
<1>5. CASE RefuseBanned(r)
  <2>1. PICK answered \in BOOLEAN :
          Answer(r, IF answered THEN "403" ELSE "upstream", ~answered)
    BY <1>5 DEF RefuseBanned
  <2>2. (IF answered THEN "403" ELSE "upstream") \in Outcomes
    BY DEF Outcomes
  <2>3. RequestTypeOK'
    BY <1>1, <1>3, <2>1, <2>2, AnswerType
  <2>4. QED
    BY <1>5, <2>3, UntouchedType DEF RefuseBanned
<1>6. CASE CountBelow(r)
  BY <1>2, <1>3, <1>6, PlainHitType DEF CountBelow
<1>7. CASE CountAndBan(r)
  BY <1>7, BanningHitType
<1>8. CASE CountFails(r)
  <2>1. RequestTypeOK'
    BY <1>1, <1>3, <1>8, AnswerType DEF CountFails, Outcomes
  <2>2. QED
    BY <1>8, <2>1, UntouchedType DEF CountFails
<1>9. QED
  BY <1>4, <1>5, <1>6, <1>7, <1>8 DEF Limiting

LEMMA TickType ==
  ASSUME TypeOK, Tick
  PROVE  TypeOK'
<1>1. RedisTypeOK /\ RequestTypeOK /\ GhostTypeOK
  BY TypeParts
<1>2. Cap \in Nat
  BY RateLimitAssumption DEF Cap
<1>3. RedisTypeOK'
  <2>1. hits' \in [CounterKeys -> 0 .. Cap]
    BY <1>1, <1>2 DEF Tick, RedisTypeOK
  <2>2. expiry' \in [CounterKeys -> (0 .. Window) \cup {NoTTL}]
    BY <1>1, RateLimitAssumption DEF Tick, RedisTypeOK
  <2>3. bans' \in [BanKeys -> 0 .. BanTime]
    BY <1>1, RateLimitAssumption DEF Tick, RedisTypeOK
  <2>4. banner' \in [BanKeys -> SUBSET CounterKeys]
    BY <1>1 DEF Tick, RedisTypeOK
  <2>5. QED
    BY <2>1, <2>2, <2>3, <2>4 DEF RedisTypeOK
<1>4. GhostTypeOK'
  <2>1. ASSUME NEW counts \in [Ages -> 0 .. Cap]
        PROVE  Older(counts) \in [Ages -> 0 .. Cap]
    <3>1. \A a \in Ages : a # 0 => a - 1 \in Ages
      BY RateLimitAssumption DEF Ages
    <3>2. QED
      BY <1>2, <3>1 DEF Older
  <2>2. QED
    BY <1>1, <2>1 DEF Tick, GhostTypeOK
<1>5. RequestTypeOK'
  <2>1. ASSUME NEW q \in Flights PROVE Aged(q) \in Flights
    BY DEF Aged, Flights
  <2>2. ASSUME NEW r \in Requests
        PROVE  (IF request[r].pc = "idle" THEN request[r] ELSE Aged(request[r]))
                 \in Flights \cup Answers
    BY <1>1, <2>1 DEF RequestTypeOK, Answers
  <2>3. QED
    BY <2>2 DEF Tick, RequestTypeOK
<1>6. QED
  BY <1>3, <1>4, <1>5, TypeParts

LEMMA StepType == TypeOK /\ [Next]_vars => TypeOK'
<1> SUFFICES ASSUME TypeOK, [Next]_vars PROVE TypeOK'
  OBVIOUS
<1>1. CASE UNCHANGED vars
  BY <1>1 DEF vars, TypeOK
<1>2. CASE Next
  BY <1>2, TickType, ArriveType, LookupType, RulesType, LimitingType DEF Next, Modes
<1>3. QED
  BY <1>1, <1>2

\* Redis, the requests and the ghosts keep their types.
THEOREM TypeCorrect == Spec => []TypeOK
<1>1. Init => TypeOK
  BY InitType
<1>2. TypeOK /\ [Next]_vars => TypeOK'
  BY StepType
<1>3. QED
  BY <1>1, <1>2, PTL DEF Spec

-----------------------------------------------------------------------------
(* Bans.                                                                   *)

\* A request that arrived under a ban it must be refused for, and still is under
\* it, is about to look the ban up; once past the lookup, the lookup failed.
Watched(q, table) ==
  q.pc \in InFlight /\ q.banned =>
    /\ q.service \in Services
    /\ IdentityOf[q.client] # NoIdentity
    /\ table[BanKey(q)] > 0
    /\ q.pc # "lookup" => q.failed

\* And only a rule that may ban creates bans.
BanInv ==
  /\ \A b \in BanKeys : bans[b] > 0 => BanPolicy
  /\ \A r \in Requests : Watched(request[r], bans)

\* While no tick passes, bans stay as they are or are created.
BansStand ==
  /\ \A b \in BanKeys : bans[b] > 0 => bans'[b] = bans[b]
  /\ \A b \in BanKeys : bans'[b] > 0 => BanPolicy

LEMMA WatchedKey ==
  ASSUME NEW q \in Flights, q.service \in Services, IdentityOf[q.client] # NoIdentity
  PROVE  BanKey(q) \in BanKeys
<1>1. q.service # NoService
  BY RateLimitAssumption
<1>2. QED
  BY <1>1, KeyTypes

LEMMA MovedInv ==
  ASSUME TypeOK, BanInv, NEW r \in Requests, NEW new,
         request' = [request EXCEPT ![r] = new], BansStand, Watched(new, bans')
  PROVE  BanInv'
<1>1. ASSUME NEW o \in Requests PROVE Watched(request'[o], bans')
  <2>1. CASE o = r
    <3>1. request'[o] = new
      BY <2>1, TypeParts DEF RequestTypeOK
    <3>2. QED
      BY <3>1
  <2>2. CASE o # r
    <3>1. request'[o] = request[o]
      BY <2>2, TypeParts DEF RequestTypeOK
    <3>2. CASE ~ (request[o].pc \in InFlight /\ request[o].banned)
      BY <3>1, <3>2 DEF Watched
    <3>3. CASE request[o].pc \in InFlight /\ request[o].banned
      <4>1. request[o] \in Flights
        BY <3>3, TypeParts, InFlightType
      <4>2. /\ request[o].service \in Services /\ IdentityOf[request[o].client] # NoIdentity
            /\ bans[BanKey(request[o])] > 0
            /\ request[o].pc # "lookup" => request[o].failed
        BY <3>3 DEF BanInv, Watched
      <4>3. bans'[BanKey(request[o])] = bans[BanKey(request[o])]
        BY <4>1, <4>2, WatchedKey DEF BansStand
      <4>4. QED
        BY <3>1, <4>2, <4>3 DEF Watched
    <3>4. QED
      BY <3>2, <3>3
  <2>3. QED
    BY <2>1, <2>2
<1>2. QED
  BY <1>1 DEF BanInv, BansStand

LEMMA AnsweredInv ==
  ASSUME TypeOK, BanInv, NEW r \in Requests, NEW outcome, NEW failed,
         Answer(r, outcome, failed), BansStand
  PROVE  BanInv'
<1> DEFINE new == [pc |-> "idle", outcome |-> outcome, failed |-> failed \/ request[r].failed]
<1>1. request' = [request EXCEPT ![r] = new]
  BY DEF Answer
<1>2. Watched(new, bans')
  BY DEF Watched, InFlight
<1> HIDE DEF new
<1>3. QED
  BY <1>1, <1>2, MovedInv

LEMMA ProceededInv ==
  ASSUME TypeOK, BanInv, NEW r \in Requests, request[r].pc \in InFlight,
         NEW pc, NEW mode, NEW failed, Proceed(r, pc, mode, failed),
         request[r].banned => failed, UNCHANGED bans
  PROVE  BanInv'
<1> DEFINE new == [pc |-> pc, instance |-> request[r].instance,
                   service |-> request[r].service, client |-> request[r].client,
                   mode |-> mode, banned |-> request[r].banned, failed |-> failed]
<1>1. request' = [request EXCEPT ![r] = new]
  BY DEF Proceed
<1>2. BanKey(new) = BanKey(request[r])
  BY DEF BanKey
<1>3. /\ new.service = request[r].service /\ new.client = request[r].client
      /\ new.banned = request[r].banned /\ new.failed = failed
  OBVIOUS
<1> HIDE DEF new
<1>4. Watched(request[r], bans)
  BY DEF BanInv
<1>5. Watched(new, bans')
  BY <1>2, <1>3, <1>4 DEF Watched
<1>6. BansStand
  BY DEF BansStand, BanInv
<1>7. QED
  BY <1>1, <1>5, <1>6, MovedInv

LEMMA InitBan == Init => BanInv
<1> SUFFICES ASSUME Init PROVE BanInv
  OBVIOUS
<1>1. \A b \in BanKeys : ~ (bans[b] > 0)
  BY DEF Init
<1>2. \A r \in Requests : request[r].pc = "idle"
  BY DEF Init
<1>3. QED
  BY <1>1, <1>2 DEF BanInv, Watched, InFlight

LEMMA ArriveBan ==
  ASSUME TypeOK, BanInv, NEW r \in Requests, NEW i \in Instances, NEW s \in Routes,
         NEW c \in Clients, Arrive(r, i, s, c)
  PROVE  BanInv'
<1> DEFINE new == [pc |-> IF LooksUpBans(i, s, c) THEN "lookup" ELSE "rules",
                   instance |-> i, service |-> s, client |-> c, mode |-> "configured",
                   banned |-> Enforceable(i, s, c), failed |-> FALSE]
           b == [scope |-> i, service |-> s, key |-> IdentityOf[c]]
<1>1. request' = [request EXCEPT ![r] = new] /\ bans' = bans
  BY DEF Arrive, redis
<1>2. /\ BanKey(new) = b /\ new.service = s /\ new.client = c
      /\ new.banned = Enforceable(i, s, c)
      /\ new.pc = IF LooksUpBans(i, s, c) THEN "lookup" ELSE "rules"
  BY DEF BanKey
<1>3. ASSUME Enforceable(i, s, c)
      PROVE  s \in Services /\ IdentityOf[c] # NoIdentity /\ bans[b] > 0
             /\ LooksUpBans(i, s, c)
  <2>1. i \in Blocking /\ s \in Services /\ IdentityOf[c] # NoIdentity /\ bans[b] > 0
    BY <1>3 DEF Enforceable
  <2>2. b \in BanKeys
    BY <2>1, RateLimitAssumption DEF BanKeys
  <2>3. BanPolicy
    BY <2>1, <2>2 DEF BanInv
  <2>4. QED
    BY <2>1, <2>3, RateLimitAssumption DEF LooksUpBans
<1> HIDE DEF new, b
<1>4. Watched(new, bans')
  BY <1>1, <1>2, <1>3 DEF Watched
<1>5. BansStand
  BY <1>1 DEF BansStand, BanInv
<1>6. QED
  BY <1>1, <1>4, <1>5, MovedInv

LEMMA LookupBanInv ==
  ASSUME TypeOK, BanInv, NEW r \in Requests, LookupBan(r) \/ LookupFails(r)
  PROVE  BanInv'
<1>1. request[r].pc \in InFlight /\ UNCHANGED bans
  BY DEF LookupBan, LookupFails, InFlight, redis
<1>2. BansStand
  BY <1>1 DEF BansStand, BanInv
<1>3. CASE LookupBan(r)
  <2>1. CASE bans[BanKey(request[r])] > 0
    <3>1. Answer(r, "403", FALSE)
      BY <1>3, <2>1 DEF LookupBan
    <3>2. QED
      BY <1>2, <3>1, AnsweredInv
  <2>2. CASE ~ (bans[BanKey(request[r])] > 0)
    <3>1. Proceed(r, "rules", "configured", FALSE)
      BY <1>3, <2>2 DEF LookupBan
    <3>2. ~request[r].banned
      BY <1>1, <2>2 DEF BanInv, Watched
    <3>3. QED
      BY <1>1, <3>1, <3>2, ProceededInv
  <2>3. QED
    BY <2>1, <2>2
<1>4. CASE LookupFails(r)
  <2>1. Proceed(r, "rules", "configured", TRUE)
    BY <1>4 DEF LookupFails
  <2>2. QED
    BY <1>1, <2>1, ProceededInv
<1>5. QED
  BY <1>3, <1>4

LEMMA RulesBanInv ==
  ASSUME TypeOK, BanInv, NEW r \in Requests, NEW mode \in Modes,
         PassRules(r) \/ MatchRule(r, mode)
  PROVE  BanInv'
<1>1. request[r].pc = "rules" /\ request[r].pc \in InFlight /\ UNCHANGED bans
  BY DEF PassRules, MatchRule, InFlight, redis
<1>2. BansStand
  BY <1>1 DEF BansStand, BanInv
<1>3. CASE PassRules(r)
  BY <1>2, <1>3, AnsweredInv DEF PassRules
<1>4. CASE MatchRule(r, mode)
  <2>1. Proceed(r, "limit", mode, request[r].failed)
    BY <1>4 DEF MatchRule
  <2>2. request[r].banned => request[r].failed
    BY <1>1 DEF BanInv, Watched
  <2>3. QED
    BY <1>1, <2>1, <2>2, ProceededInv
<1>5. QED
  BY <1>3, <1>4

\* Every limiting step answers the request, and the only one that touches bans
\* creates one where there is none.
LEMMA LimitingEffect ==
  ASSUME TypeOK, BanInv, NEW r \in Requests, Limiting(r)
  PROVE  /\ request[r].pc = "limit"
         /\ BansStand
         /\ \E outcome, failed : Answer(r, outcome, failed)
<1>0. request[r].pc = "limit"
  BY DEF Limiting, Count, RefuseBanned, CountBelow, CountAndBan, CountFails
<1>1. CASE Count(r) \/ CountBelow(r)
  <2>1. UNCHANGED bans
    BY <1>1 DEF Count, CountBelow
  <2>2. BansStand
    BY <2>1 DEF BansStand, BanInv
  <2>3. \E answered, v : Throttle(r, answered, v)
    BY <1>1 DEF Count, CountBelow
  <2>4. \E outcome, failed : Answer(r, outcome, failed)
    BY <2>3 DEF Throttle
  <2>5. QED
    BY <1>0, <2>2, <2>4
<1>2. CASE RefuseBanned(r) \/ CountFails(r)
  <2>1. UNCHANGED bans
    BY <1>2 DEF RefuseBanned, CountFails, redis
  <2>2. BansStand
    BY <2>1 DEF BansStand, BanInv
  <2>3. \E outcome, failed : Answer(r, outcome, failed)
    BY <1>2 DEF RefuseBanned, CountFails
  <2>4. QED
    BY <1>0, <2>2, <2>3
<1>3. CASE CountAndBan(r)
  <2>1. /\ bans' = [bans EXCEPT ![BanKey(request[r])] = BanTime]
        /\ ~ (bans[BanKey(request[r])] > 0)
        /\ BanPolicy
    BY <1>3 DEF CountAndBan, UnderBan, MayBan
  <2>2. bans \in [BanKeys -> 0 .. BanTime]
    BY TypeParts DEF RedisTypeOK
  <2>3. BansStand
    BY <2>1, <2>2 DEF BansStand
  <2>4. \E outcome, failed : Answer(r, outcome, failed)
    BY <1>3 DEF CountAndBan
  <2>5. QED
    BY <1>0, <2>3, <2>4
<1>4. QED
  BY <1>1, <1>2, <1>3 DEF Limiting

LEMMA TickBanInv ==
  ASSUME TypeOK, BanInv, Tick
  PROVE  BanInv'
<1>1. bans \in [BanKeys -> 0 .. BanTime] /\ request \in [Requests -> Flights \cup Answers]
  BY TypeParts DEF RedisTypeOK, RequestTypeOK
<1>2. bans' = [b \in BanKeys |-> IF bans[b] = 0 THEN 0 ELSE bans[b] - 1]
  BY DEF Tick
<1>3. \A b \in BanKeys : bans'[b] > 0 => BanPolicy
  BY <1>1, <1>2, RateLimitAssumption DEF BanInv
<1>4. ASSUME NEW r \in Requests PROVE Watched(request'[r], bans')
  <2>1. request'[r] = IF request[r].pc = "idle" THEN request[r] ELSE Aged(request[r])
    BY DEF Tick
  <2>2. CASE request[r].pc = "idle"
    BY <2>1, <2>2 DEF Watched, InFlight
  <2>3. CASE request[r].pc # "idle"
    <3> DEFINE q == request[r]
               new == Aged(q)
    <3>1. q \in Flights
      BY <1>1, <2>3 DEF Answers
    <3>2. /\ new.pc = q.pc /\ new.service = q.service /\ new.client = q.client
          /\ new.failed = q.failed /\ BanKey(new) = BanKey(q)
          /\ new.banned => q.banned /\ bans[BanKey(q)] > 1
      BY DEF Aged, BanKey
    <3>3. Watched(q, bans)
      BY DEF BanInv
    <3>4. request'[r] = new
      BY <2>1, <2>3
    <3>5. ASSUME q.service \in Services, IdentityOf[q.client] # NoIdentity,
                 bans[BanKey(q)] > 1
          PROVE  bans'[BanKey(q)] > 0
      <4>1. BanKey(q) \in BanKeys
        BY <3>1, <3>5, WatchedKey
      <4>2. QED
        BY <1>1, <1>2, <3>5, <4>1, RateLimitAssumption
    <3> HIDE DEF q, new
    <3>6. QED
      BY <3>2, <3>3, <3>4, <3>5 DEF Watched
  <2>4. QED
    BY <2>2, <2>3
<1>5. QED
  BY <1>3, <1>4 DEF BanInv

LEMMA StepBan == TypeOK /\ BanInv /\ [Next]_vars => BanInv'
<1> SUFFICES ASSUME TypeOK, BanInv, [Next]_vars PROVE BanInv'
  OBVIOUS
<1>1. CASE UNCHANGED vars
  BY <1>1 DEF vars, BanInv, Watched, BanKey
<1>2. ASSUME NEW r \in Requests, Limiting(r) PROVE BanInv'
  <2>1. BansStand /\ \E outcome, failed : Answer(r, outcome, failed)
    BY <1>2, LimitingEffect
  <2>2. QED
    BY <2>1, AnsweredInv
<1>3. CASE Next
  BY <1>2, <1>3, TickBanInv, ArriveBan, LookupBanInv, RulesBanInv DEF Next, Modes
<1>4. QED
  BY <1>1, <1>3

\* A step leaves a slot alone, or keeps its request in flight, or is the step of
\* that slot.
LEMMA OthersKeep ==
  ASSUME TypeOK, NEW r \in Requests, NEW o \in Requests, o # r, NEW new,
         request' = [request EXCEPT ![r] = new]
  PROVE  request'[o] = request[o]
  BY TypeParts DEF RequestTypeOK

LEMMA SlotMoves ==
  ASSUME TypeOK, NEW r \in Requests, NEW outcome, NEW failed, Answer(r, outcome, failed)
  PROVE  /\ request'[r].outcome = outcome
         /\ request[r].failed => request'[r].failed
         /\ \A o \in Requests : o # r => request'[o] = request[o]
<1> DEFINE new == [pc |-> "idle", outcome |-> outcome, failed |-> failed \/ request[r].failed]
<1>1. request' = [request EXCEPT ![r] = new]
  BY DEF Answer
<1>2. request'[r] = new
  BY <1>1, TypeParts DEF RequestTypeOK
<1>3. new.outcome = outcome /\ (request[r].failed => new.failed)
  OBVIOUS
<1> HIDE DEF new
<1>4. QED
  BY <1>1, <1>2, <1>3, OthersKeep

LEMMA SlotProceeds ==
  ASSUME TypeOK, NEW r \in Requests, NEW pc \in InFlight, NEW mode, NEW failed,
         Proceed(r, pc, mode, failed)
  PROVE  /\ request'[r].pc # "idle"
         /\ \A o \in Requests : o # r => request'[o] = request[o]
<1> DEFINE new == [pc |-> pc, instance |-> request[r].instance,
                   service |-> request[r].service, client |-> request[r].client,
                   mode |-> mode, banned |-> request[r].banned, failed |-> failed]
<1>1. request' = [request EXCEPT ![r] = new]
  BY DEF Proceed
<1>2. request'[r] = new
  BY <1>1, TypeParts DEF RequestTypeOK
<1>3. new.pc # "idle"
  BY DEF InFlight
<1> HIDE DEF new
<1>4. QED
  BY <1>1, <1>2, <1>3, OthersKeep

BanHoldsFor(o) ==
  request[o].pc \in InFlight /\ request'[o].pc = "idle" =>
    ~ (request[o].banned /\ request'[o].outcome = "upstream" /\ ~request'[o].failed)

LEMMA StepBanHolds ==
  ASSUME TypeOK, BanInv, [Next]_vars, NEW o \in Requests
  PROVE  BanHoldsFor(o)
<1>1. Watched(request[o], bans)
  BY DEF BanInv
<1>2. ASSUME NEW r \in Requests, request'[o] = request[o] PROVE BanHoldsFor(o)
  BY <1>2 DEF BanHoldsFor, InFlight
<1>3. CASE UNCHANGED vars
  BY <1>3 DEF vars, BanHoldsFor, InFlight
<1>4. CASE Tick
  <2>1. request'[o] = IF request[o].pc = "idle" THEN request[o] ELSE Aged(request[o])
    BY <1>4 DEF Tick
  <2>2. request'[o].pc = request[o].pc
    BY <2>1 DEF Aged
  <2>3. QED
    BY <2>2 DEF BanHoldsFor, InFlight
<1>5. ASSUME NEW r \in Requests, NEW i \in Instances, NEW s \in Routes, NEW c \in Clients,
             Arrive(r, i, s, c)
      PROVE  BanHoldsFor(o)
  <2>1. CASE o = r
    BY <1>5, <2>1 DEF Arrive, BanHoldsFor, InFlight
  <2>2. CASE o # r
    BY <1>2, <1>5, <2>2, OthersKeep DEF Arrive
  <2>3. QED
    BY <2>1, <2>2
<1>6. ASSUME NEW r \in Requests, NEW mode \in Modes,
             LookupBan(r) \/ LookupFails(r) \/ MatchRule(r, mode)
      PROVE  BanHoldsFor(o)
  <2>1. CASE \E pc \in InFlight : \E m, failed : Proceed(r, pc, m, failed)
    BY <1>2, <2>1, SlotProceeds DEF BanHoldsFor
  <2>2. CASE Answer(r, "403", FALSE)
    BY <1>2, <2>2, SlotMoves DEF BanHoldsFor
  <2>3. "rules" \in InFlight /\ "limit" \in InFlight
    BY DEF InFlight
  <2>4. Answer(r, "403", FALSE) \/ Proceed(r, "rules", "configured", FALSE)
          \/ Proceed(r, "rules", "configured", TRUE) \/ Proceed(r, "limit", mode, request[r].failed)
    BY <1>6 DEF LookupBan, LookupFails, MatchRule
  <2>5. QED
    BY <2>1, <2>2, <2>3, <2>4
<1>7. ASSUME NEW r \in Requests, request[r].pc # "lookup",
             NEW outcome, NEW failed, Answer(r, outcome, failed)
      PROVE  BanHoldsFor(o)
  <2>1. CASE o = r
    <3>1. request[o].pc \in InFlight /\ request[o].banned => request'[o].failed
      BY <1>1, <1>7, <2>1, SlotMoves DEF Watched
    <3>2. QED
      BY <3>1 DEF BanHoldsFor
  <2>2. CASE o # r
    BY <1>2, <1>7, <2>2, SlotMoves
  <2>3. QED
    BY <2>1, <2>2
<1>8. ASSUME NEW r \in Requests, PassRules(r) PROVE BanHoldsFor(o)
  BY <1>7, <1>8 DEF PassRules
<1>9. ASSUME NEW r \in Requests, Limiting(r) PROVE BanHoldsFor(o)
  <2>1. request[r].pc = "limit" /\ \E outcome, failed : Answer(r, outcome, failed)
    BY <1>9, LimitingEffect
  <2>2. QED
    BY <1>7, <2>1
<1>10. CASE Next
  <2>1. "on" \in Modes
    BY DEF Modes
  <2>2. QED
    BY <1>4, <1>5, <1>6, <1>8, <1>9, <1>10, <2>1 DEF Next
<1>11. QED
  BY <1>3, <1>10

\* A request under a ban from its arrival to its answer never reaches the
\* upstream, on whatever path and whether or not the rule matches it, unless
\* Redis failed it.
THEOREM BansHold == Spec => BanHolds
<1>1. Init => TypeOK /\ BanInv
  BY InitType, InitBan
<1>2. TypeOK /\ BanInv /\ [Next]_vars => TypeOK' /\ BanInv'
  BY StepType, StepBan
<1>3. TypeOK /\ BanInv /\ [Next]_vars =>
        \A r \in Requests :
          request[r].pc \in InFlight /\ request'[r].pc = "idle" =>
            ~ (request[r].banned /\ request'[r].outcome = "upstream" /\ ~request'[r].failed)
  BY StepBanHolds DEF BanHoldsFor
<1>4. QED
  BY <1>1, <1>2, <1>3, PTL DEF Spec, BanHolds

LEMMA StepDeadline ==
  ASSUME TypeOK, BanInv, [Next]_vars
  PROVE  \A b \in BanKeys : bans[b] > 0 => bans'[b] <= bans[b]
<1>1. \A b \in BanKeys : bans[b] \in Nat
  BY TypeParts, RateLimitAssumption DEF RedisTypeOK
<1>2. CASE BansStand
  BY <1>1, <1>2 DEF BansStand
<1>3. CASE bans' = bans
  BY <1>1, <1>3
<1>4. CASE Tick
  BY <1>1, <1>4 DEF Tick
<1>5. CASE Next
  <2>1. ASSUME NEW r \in Requests, Limiting(r) PROVE BansStand
    BY <2>1, LimitingEffect
  <2>2. QED
    BY <1>2, <1>3, <1>4, <1>5, <2>1
      DEF Next, Arrive, LookupBan, LookupFails, PassRules, MatchRule, redis
<1>6. QED
  BY <1>3, <1>5 DEF vars

\* No hit, however many exceed at once, ever pushes a ban's end further.
THEOREM DeadlineKept == Spec => BanDeadlineKept
<1>1. Init => TypeOK /\ BanInv
  BY InitType, InitBan
<1>2. TypeOK /\ BanInv /\ [Next]_vars => TypeOK' /\ BanInv'
  BY StepType, StepBan
<1>3. TypeOK /\ BanInv /\ [Next]_vars =>
        \A b \in BanKeys : bans[b] > 0 => bans'[b] <= bans[b]
  BY StepDeadline
<1>4. QED
  BY <1>1, <1>2, <1>3, PTL DEF Spec, BanDeadlineKept

-----------------------------------------------------------------------------
(* The counter of a ban.                                                   *)

\* The counters a ban was earned on are its own: only a hit of the same ban key
\* can reach them, and the script refuses those while the ban lasts.
BannerInv ==
  \A b \in BanKeys : \A k \in banner[b] :
    /\ k.scope = b.scope /\ k.service = b.service /\ IdentityOf[k.key] = b.key
    /\ bans[b] > 0 => hits[k] = 0

LEMMA BannerFresh == TypeOK /\ BannerInv => FreshWindowAfterBan
  BY DEF BannerInv, FreshWindowAfterBan

\* A hit of counter k leaves the counters of the bans that stand alone.
LEMMA ElsewhereHit ==
  ASSUME TypeOK, BannerInv, NEW k \in CounterKeys, NEW v, NEW b \in BanKeys,
         hits' = [hits EXCEPT ![k] = v], bans' = bans, banner' = banner,
         bans[b] > 0 => k \notin banner[b] \/ v = 0
  PROVE  \A o \in banner'[b] :
           /\ o.scope = b.scope /\ o.service = b.service /\ IdentityOf[o.key] = b.key
           /\ bans'[b] > 0 => hits'[o] = 0
<1> TAKE o \in banner'[b]
<1>1. /\ o \in CounterKeys /\ o \in banner[b]
      /\ hits \in [CounterKeys -> 0 .. Cap]
  BY TypeParts DEF RedisTypeOK
<1>2. hits'[o] = IF o = k THEN v ELSE hits[o]
  BY <1>1
<1>3. QED
  BY <1>1, <1>2 DEF BannerInv

\* The ban key of a hit that may ban is the only one its counter can be a banner
\* of; the counter of a hit that may not ban is the banner of none.
LEMMA BannerOf ==
  ASSUME TypeOK, BannerInv, NEW r \in Requests, request[r].pc = "limit",
         NEW s \in Routes, NEW b \in BanKeys, CounterKey(request[r], s) \in banner[b]
  PROVE  s # NoService /\ (s = request[r].service => b = BanKey(request[r]))
<1> DEFINE q == request[r]
           k == CounterKey(q, s)
<1>1. k.scope = b.scope /\ k.service = b.service /\ IdentityOf[k.key] = b.key
  BY DEF BannerInv
<1>2. k.scope = q.instance /\ k.service = s /\ k.key = q.client
  BY DEF CounterKey, OwnKey
<1>3. /\ b.service \in Services
      /\ b = [scope |-> b.scope, service |-> b.service, key |-> b.key]
  BY DEF BanKeys
<1> HIDE DEF q, k
<1>4. s # NoService
  BY <1>1, <1>2, <1>3, RateLimitAssumption
<1>5. s = q.service => b = BanKey(q)
  BY <1>1, <1>2, <1>3 DEF BanKey
<1>6. QED
  BY <1>4, <1>5 DEF q

LEMMA CountBanner ==
  ASSUME TypeOK, BannerInv, NEW r \in Requests, Count(r) \/ CountBelow(r)
  PROVE  BannerInv'
<1> DEFINE q == request[r]
<1>1. PICK s \in Routes :
        /\ s = NoService \/ (s = q.service /\ ~UnderBan(BanKey(q)))
        /\ hits' = [hits EXCEPT ![CounterKey(q, s)] = Saturate(hits[CounterKey(q, s)] + 1)]
  <2>1. CASE Count(r)
    BY <2>1 DEF Count, Routes
  <2>2. CASE CountBelow(r)
    <3>1. q.pc = "limit"
      BY <2>2 DEF CountBelow
    <3>2. q.service \in Routes
      BY <3>1, LimitType, TypeParts
    <3>3. QED
      BY <2>2, <3>2 DEF CountBelow
  <2>3. QED
    BY <2>1, <2>2
<1>2. q.pc = "limit" /\ bans' = bans /\ banner' = banner
  BY DEF Count, CountBelow
<1>3. CounterKey(q, s) \in CounterKeys
  BY <1>2, LimitType, TypeParts
<1>4. ASSUME NEW b \in BanKeys, bans[b] > 0 PROVE CounterKey(q, s) \notin banner[b]
  BY <1>1, <1>2, <1>4, BannerOf DEF UnderBan
<1>5. QED
  BY <1>1, <1>2, <1>3, <1>4, ElsewhereHit DEF BannerInv

LEMMA BanBanner ==
  ASSUME TypeOK, BannerInv, NEW r \in Requests, CountAndBan(r)
  PROVE  BannerInv'
<1> DEFINE q == request[r]
           k == CounterKey(q, q.service)
           c == BanKey(q)
<1>1. /\ q.pc = "limit" /\ MayBan(q) /\ ~ (bans[c] > 0)
      /\ hits' = [hits EXCEPT ![k] = 0]
      /\ bans' = [bans EXCEPT ![c] = BanTime]
      /\ banner' = [banner EXCEPT ![c] = {k}]
  BY DEF CountAndBan, AfterBan, UnderBan
<1>2. k \in CounterKeys /\ c \in BanKeys /\ RedisTypeOK
  BY <1>1, LimitType, TypeParts
<1>3. k.scope = c.scope /\ k.service = c.service /\ IdentityOf[k.key] = c.key
  BY DEF CounterKey, OwnKey, BanKey
<1> HIDE DEF q, k, c
<1>4. ASSUME NEW b \in BanKeys, NEW o \in banner'[b]
      PROVE  /\ o.scope = b.scope /\ o.service = b.service /\ IdentityOf[o.key] = b.key
             /\ bans'[b] > 0 => hits'[o] = 0
  <2>1. CASE b = c
    <3>1. o = k
      BY <1>1, <1>2, <2>1, <1>4 DEF RedisTypeOK
    <3>2. QED
      BY <1>1, <1>2, <1>3, <2>1, <3>1 DEF RedisTypeOK
  <2>2. CASE b # c
    <3>1. o \in banner[b] /\ o \in CounterKeys /\ bans'[b] = bans[b]
      BY <1>1, <1>2, <2>2, <1>4 DEF RedisTypeOK
    <3>2. hits'[o] = hits[o] \/ hits'[o] = 0
      BY <1>1, <1>2, <3>1 DEF RedisTypeOK
    <3>3. QED
      BY <3>1, <3>2 DEF BannerInv
  <2>3. QED
    BY <2>1, <2>2
<1>5. QED
  BY <1>4 DEF BannerInv

LEMMA TickBanner ==
  ASSUME TypeOK, BannerInv, Tick
  PROVE  BannerInv'
<1>1. RedisTypeOK
  BY TypeParts
<1>2. ASSUME NEW b \in BanKeys, NEW o \in banner'[b]
      PROVE  /\ o.scope = b.scope /\ o.service = b.service /\ IdentityOf[o.key] = b.key
             /\ bans'[b] > 0 => hits'[o] = 0
  <2>1. banner'[b] = IF bans[b] = 1 THEN {} ELSE banner[b]
    BY DEF Tick
  <2>2. o \in banner[b] /\ o \in CounterKeys
    BY <1>1, <1>2, <2>1 DEF RedisTypeOK
  <2>3. hits'[o] = IF expiry[o] = 1 THEN 0 ELSE hits[o]
    BY <2>2 DEF Tick
  <2>4. bans'[b] = IF bans[b] = 0 THEN 0 ELSE bans[b] - 1
    BY DEF Tick
  <2>5. bans[b] \in Nat
    BY <1>1, RateLimitAssumption DEF RedisTypeOK
  <2>6. bans'[b] > 0 => bans[b] > 0
    BY <2>4, <2>5
  <2>7. QED
    BY <2>2, <2>3, <2>6 DEF BannerInv
<1>3. QED
  BY <1>2 DEF BannerInv

LEMMA StepBanner == TypeOK /\ BannerInv /\ [Next]_vars => BannerInv'
<1> SUFFICES ASSUME TypeOK, BannerInv, [Next]_vars PROVE BannerInv'
  OBVIOUS
<1>1. CASE UNCHANGED <<hits, bans, banner>>
  BY <1>1 DEF BannerInv
<1>2. CASE UNCHANGED vars
  BY <1>1, <1>2 DEF vars
<1>3. ASSUME NEW r \in Requests, Limiting(r) PROVE BannerInv'
  BY <1>1, <1>3, CountBanner, BanBanner
    DEF Limiting, RefuseBanned, CountFails, redis, ghosts
<1>4. CASE Next
  BY <1>1, <1>3, <1>4, TickBanner
    DEF Next, Arrive, LookupBan, LookupFails, PassRules, MatchRule, redis, ghosts
<1>5. QED
  BY <1>2, <1>4

\* The counter whose hit created a ban stays empty for as long as the ban lasts,
\* whichever requests were past the lookup when it was created: the window after
\* the ban is a fresh one.
THEOREM FreshWindow == Spec => []FreshWindowAfterBan
<1>1. Init => TypeOK /\ BannerInv
  <2>1. Init => BannerInv
    BY DEF Init, BannerInv
  <2>2. QED
    BY <2>1, InitType
<1>2. TypeOK /\ BannerInv /\ [Next]_vars => TypeOK' /\ BannerInv'
  BY StepType, StepBanner
<1>3. TypeOK /\ BannerInv => FreshWindowAfterBan
  BY BannerFresh
<1>4. QED
  BY <1>1, <1>2, <1>3, PTL DEF Spec

-----------------------------------------------------------------------------
(* Sums of counts over the ages.                                           *)

\* Induction over the numbers, as the least of a set of them.
LEMMA NatLeast ==
  ASSUME NEW T, T \subseteq Nat, T # {}
  PROVE  \E n \in T : \A m \in T : n <= m
<1> DEFINE R == OpToRel(<, Nat)
<1>1. IsWellFoundedOn(R, Nat)
  BY NatLessThanWellFounded, Zenon
<1>2. PICK n \in T : \A m \in T : <<m, n>> \notin R
  BY <1>1, WFMin, Zenon
<1>3. \A m \in T : ~ (m < n)
  BY <1>2, Zenon DEF OpToRel
<1>4. QED
  BY <1>3

Sums(counts, s) ==
  /\ s \in [Ages -> Nat]
  /\ s[0] = counts[0]
  /\ \A n \in Ages : n # 0 => s[n] = s[n - 1] + counts[n]

LEMMA AgesFacts ==
  /\ Ages \subseteq Nat /\ 0 \in Ages /\ Window - 1 \in Ages
  /\ \A n \in Ages : n # 0 => n - 1 \in Ages
  /\ \A n \in Ages, m \in Nat : m <= n => m \in Ages
  BY RateLimitAssumption DEF Ages

LEMMA SumsUnique ==
  ASSUME NEW counts, NEW s, NEW g, Sums(counts, s),
         g = [a \in Ages |-> IF a = 0 THEN counts[0] ELSE g[a - 1] + counts[a]]
  PROVE  g = s
<1> DEFINE T == {n \in Ages : g[n] # s[n]}
<1>1. SUFFICES ASSUME T # {} PROVE FALSE
  BY DEF Sums
<1>2. PICK n \in T : \A m \in T : n <= m
  <2>1. T \subseteq Nat
    BY AgesFacts
  <2> HIDE DEF T
  <2>2. QED
    BY <1>1, <2>1, NatLeast
<1>3. n # 0
  BY <1>2, AgesFacts DEF Sums
<1>4. n - 1 \in Ages /\ n \in Ages /\ n \in Nat
  BY <1>2, <1>3, AgesFacts
<1>5. g[n - 1] = s[n - 1]
  BY <1>2, <1>4
<1>6. g[n] = g[n - 1] + counts[n] /\ s[n] = s[n - 1] + counts[n]
  BY <1>3, <1>4 DEF Sums
<1>7. QED
  BY <1>2, <1>5, <1>6

LEMMA SumsExist ==
  ASSUME NEW counts \in [Ages -> Nat]
  PROVE  \E s : Sums(counts, s)
<1> DEFINE G(n) == {s \in [0 .. n -> Nat] :
                      /\ s[0] = counts[0]
                      /\ \A m \in 0 .. n : m # 0 => s[m] = s[m - 1] + counts[m]}
           T == {n \in Ages : G(n) = {}}
<1>1. CASE T = {}
  <2>1. G(Window - 1) # {}
    BY <1>1, AgesFacts
  <2>2. QED
    BY <2>1 DEF Sums, Ages
<1>2. CASE T # {}
  <2>1. PICK n \in T : \A m \in T : n <= m
    <3>1. T \subseteq Nat
      BY AgesFacts
    <3> HIDE DEF T
    <3>2. QED
      BY <1>2, <3>1, NatLeast
  <2>2. n \in Ages /\ n \in Nat /\ G(n) = {}
    BY <2>1, AgesFacts
  <2>3. CASE n = 0
    <3>1. counts[0] \in Nat
      BY AgesFacts
    <3>2. [m \in 0 .. 0 |-> counts[0]] \in G(0)
      BY <3>1
    <3>3. QED
      BY <2>2, <2>3, <3>2
  <2>4. CASE n # 0
    <3>1. n - 1 \in Ages /\ n - 1 \in Nat /\ n - 1 < n
      BY <2>2, <2>4, AgesFacts
    <3>2. G(n - 1) # {}
      <4> HIDE DEF G
      <4>1. n \in Nat /\ \A m \in Ages : G(m) = {} => n <= m
        BY <2>1, <2>2
      <4>2. QED
        BY <3>1, <4>1
    <3>3. PICK s \in G(n - 1) : TRUE
      BY <3>2
    <3> DEFINE g == [m \in 0 .. n |-> IF m = n THEN s[n - 1] + counts[n] ELSE s[m]]
    <3>4. /\ s \in [0 .. n - 1 -> Nat] /\ s[0] = counts[0]
          /\ \A m \in 0 .. n - 1 : m # 0 => s[m] = s[m - 1] + counts[m]
      BY <3>3
    <3>5. s[n - 1] \in Nat /\ counts[n] \in Nat
      BY <2>2, <3>1, <3>4
    <3>6. g \in [0 .. n -> Nat]
      BY <2>2, <3>4, <3>5
    <3>7. g[0] = counts[0]
      BY <2>2, <2>4, <3>4
    <3>8. ASSUME NEW m \in 0 .. n, m # 0 PROVE g[m] = g[m - 1] + counts[m]
      BY <2>2, <2>4, <3>4, <3>8
    <3>9. g \in G(n)
      <4> HIDE DEF g
      <4>1. QED
        BY <3>6, <3>7, <3>8
    <3>10. QED
      BY <2>2, <3>9
  <2>5. QED
    BY <2>3, <2>4
<1>3. QED
  BY <1>1, <1>2

LEMMA UpToSums ==
  ASSUME NEW counts \in [Ages -> Nat]
  PROVE  Sums(counts, UpTo(counts))
<1>1. PICK s : Sums(counts, s)
  BY SumsExist
<1>2. s = [a \in Ages |-> IF a = 0 THEN counts[0] ELSE s[a - 1] + counts[a]]
  BY <1>1 DEF Sums
<1> DEFINE Rec(f) == f = [a \in Ages |-> IF a = 0 THEN counts[0] ELSE f[a - 1] + counts[a]]
<1>3. Rec(s)
  BY <1>2
<1>4. UpTo(counts) = CHOOSE f : Rec(f)
  BY DEF UpTo
<1>5. Rec(UpTo(counts))
  BY <1>3, <1>4
<1>6. UpTo(counts) = s
  BY <1>1, <1>5, SumsUnique
<1>7. QED
  BY <1>1, <1>6

\* The sums are the only such table.
LEMMA UpToIs ==
  ASSUME NEW counts \in [Ages -> Nat], NEW s, Sums(counts, s)
  PROVE  UpTo(counts) = s
<1>1. Sums(counts, UpTo(counts))
  BY UpToSums
<1>2. UpTo(counts) = [a \in Ages |-> IF a = 0 THEN counts[0] ELSE UpTo(counts)[a - 1] + counts[a]]
  BY <1>1 DEF Sums
<1>3. QED
  BY <1>2, SumsUnique

\* A count of the youngest age adds to every sum.
LEMMA UpToAdd ==
  ASSUME NEW counts \in [Ages -> Nat], NEW d \in Nat, NEW more \in [Ages -> Nat],
         more[0] = counts[0] + d, \A n \in Ages : n # 0 => more[n] = counts[n]
  PROVE  \A n \in Ages : UpTo(more)[n] = UpTo(counts)[n] + d
<1> DEFINE s == [n \in Ages |-> UpTo(counts)[n] + d]
<1>1. Sums(counts, UpTo(counts))
  BY UpToSums
<1>2. more \in [Ages -> Nat] /\ more[0] = counts[0] + d /\ \A n \in Ages : n # 0 => more[n] = counts[n]
  OBVIOUS
<1>3. s \in [Ages -> Nat]
  <2>1. \A n \in Ages : UpTo(counts)[n] \in Nat
    BY <1>1 DEF Sums
  <2>2. \A n \in Ages : UpTo(counts)[n] + d \in Nat
    BY <2>1
  <2>3. QED
    BY <2>2
<1>4. s[0] = more[0]
  BY <1>1, <1>2, AgesFacts DEF Sums
<1>5. ASSUME NEW n \in Ages, n # 0 PROVE s[n] = s[n - 1] + more[n]
  <2>1. n - 1 \in Ages /\ UpTo(counts)[n - 1] \in Nat /\ counts[n] \in Nat
    BY <1>1, <1>5, AgesFacts DEF Sums
  <2>2. QED
    BY <1>1, <1>2, <1>5, <2>1 DEF Sums
<1>6. Sums(more, s)
  <2> HIDE DEF s
  <2>1. QED
    BY <1>3, <1>4, <1>5 DEF Sums
<1>7. QED
  BY <1>2, <1>6, UpToIs

\* A tick moves every sum one age on.
LEMMA UpToOlder ==
  ASSUME NEW counts \in [Ages -> Nat]
  PROVE  \A n \in Ages : UpTo(Older(counts))[n] = IF n = 0 THEN 0 ELSE UpTo(counts)[n - 1]
<1> DEFINE s == [n \in Ages |-> IF n = 0 THEN 0 ELSE UpTo(counts)[n - 1]]
<1>1. Sums(counts, UpTo(counts))
  BY UpToSums
<1>2. /\ Older(counts) \in [Ages -> Nat] /\ Older(counts)[0] = 0
      /\ \A n \in Ages : n # 0 => Older(counts)[n] = counts[n - 1]
  BY AgesFacts DEF Older
<1>3. s \in [Ages -> Nat] /\ s[0] = 0
  BY <1>1, AgesFacts DEF Sums
<1>4. ASSUME NEW n \in Ages, n # 0 PROVE s[n] = s[n - 1] + Older(counts)[n]
  <2>1. n - 1 \in Ages /\ n \in Nat
    BY <1>4, AgesFacts
  <2>2. CASE n = 1
    BY <1>1, <1>2, <1>3, <2>2, AgesFacts DEF Sums
  <2>3. CASE n # 1
    BY <1>1, <1>2, <1>4, <2>1, <2>3 DEF Sums
  <2>4. QED
    BY <2>2, <2>3
<1>5. Sums(Older(counts), s)
  <2> HIDE DEF s
  <2>1. QED
    BY <1>2, <1>3, <1>4 DEF Sums
<1>6. QED
  BY <1>2, <1>5, UpToIs

\* The sums grow with the age.
LEMMA UpToGrows ==
  ASSUME NEW counts \in [Ages -> Nat], NEW a \in Ages
  PROVE  \A n \in Ages : a <= n => UpTo(counts)[a] <= UpTo(counts)[n]
<1> DEFINE S == UpTo(counts)
           T == {n \in Ages : a <= n /\ ~ (S[a] <= S[n])}
<1>1. Sums(counts, S)
  BY UpToSums
<1> HIDE DEF S
<1>2. SUFFICES ASSUME T # {} PROVE FALSE
  BY DEF S
<1>3. PICK n \in T : \A m \in T : n <= m
  <2>1. T \subseteq Nat
    BY AgesFacts
  <2> HIDE DEF T
  <2>2. QED
    BY <1>2, <2>1, NatLeast
<1>4. n # a
  BY <1>1, <1>3 DEF Sums
<1>5. n - 1 \in Ages /\ a <= n - 1 /\ n # 0 /\ n \in Nat /\ n \in Ages
  BY <1>3, <1>4, AgesFacts
<1>6. S[a] <= S[n - 1]
  BY <1>3, <1>5
<1>7. S[n] = S[n - 1] + counts[n] /\ S[n - 1] \in Nat /\ counts[n] \in Nat /\ S[a] \in Nat
  BY <1>1, <1>5 DEF Sums
<1>8. QED
  BY <1>3, <1>6, <1>7

-----------------------------------------------------------------------------
(* What a step does to one counter.                                        *)

BanOf(k) == [scope |-> k.scope, service |-> k.service, key |-> IdentityOf[k.key]]

Bannable(k) == k.service \in Services /\ IdentityOf[k.key] # NoIdentity

Barred(k) == Bannable(k) /\ bans[BanOf(k)] > 0

Stays(k) ==
  /\ hits'[k] = hits[k] /\ expiry'[k] = expiry[k] /\ BansStand
  /\ k \in Observed => recent'[k] = recent[k] /\ passed'[k] = passed[k]

\* counts with one more of the youngest age.
More(counts) == [counts EXCEPT ![0] = Saturate(counts[0] + 1)]

Hit(k) ==
  /\ hits'[k] = Saturate(hits[k] + 1) /\ expiry'[k] = Expiry(k)
  /\ bans' = bans /\ ~Barred(k)
  /\ k \in Observed =>
       /\ recent'[k] = More(recent[k])
       /\ passed'[k] = passed[k] \/ (hits'[k] <= Limit /\ passed'[k] = More(passed[k]))

BanHit(k) ==
  /\ Bans(Saturate(hits[k] + 1))
  /\ hits'[k] = 0 /\ expiry'[k] = 0
  /\ Bannable(k) /\ bans'[BanOf(k)] = BanTime
  /\ k \in Observed => recent'[k] = More(recent[k]) /\ passed'[k] = passed[k]

\* The counter a request is counted on is the one its ban is earned on.
LEMMA OwnBan ==
  ASSUME NEW q \in Flights, NEW k, k = OwnKey(q, q.service)
  PROVE  BanOf(k) = BanKey(q) /\ k.service = q.service /\ k.key = q.client
  BY DEF BanOf, BanKey, OwnKey

LEMMA CountedKey ==
  ASSUME TypeOK, NEW k \in CounterKeys, NEW c \in CounterKeys, NEW q, NEW answered,
         hits' = [hits EXCEPT ![c] = Saturate(hits[c] + 1)],
         expiry' = [expiry EXCEPT ![c] = Expiry(c)], bans' = bans, ~Barred(c),
         CountHit(c), LetThrough(q, c, answered, Saturate(hits[c] + 1)), BansStand
  PROVE  Stays(k) \/ Hit(k)
<1>1. RedisTypeOK /\ GhostTypeOK
  BY TypeParts
<1>2. CASE k # c
  <2>1. hits'[k] = hits[k] /\ expiry'[k] = expiry[k]
    BY <1>1, <1>2 DEF RedisTypeOK
  <2>2. k \in Observed => recent'[k] = recent[k] /\ passed'[k] = passed[k]
    BY <1>1, <1>2 DEF CountHit, LetThrough, GhostTypeOK
  <2>3. QED
    BY <2>1, <2>2 DEF Stays
<1>3. CASE k = c
  <2>1. hits'[k] = Saturate(hits[k] + 1) /\ expiry'[k] = Expiry(k)
    BY <1>1, <1>3 DEF RedisTypeOK
  <2>2. k \in Observed => recent'[k] = More(recent[k])
    BY <1>1, <1>3 DEF CountHit, GhostTypeOK, More
  <2>3. ASSUME k \in Observed
        PROVE  passed'[k] = passed[k] \/ (hits'[k] <= Limit /\ passed'[k] = More(passed[k]))
    <3>1. CASE answered /\ Enforced(q) /\ ~Over(Saturate(hits[c] + 1))
      <4>1. passed'[k] = More(passed[k])
        BY <1>1, <1>3, <2>3, <3>1 DEF LetThrough, GhostTypeOK, More
      <4>2. Saturate(hits[k] + 1) \in Nat
        BY <1>1, HitType, RateLimitAssumption DEF Cap
      <4>3. QED
        BY <1>3, <2>1, <3>1, <4>1, <4>2, RateLimitAssumption DEF Over
    <3>2. CASE ~ (answered /\ Enforced(q) /\ ~Over(Saturate(hits[c] + 1)))
      BY <3>2 DEF LetThrough
    <3>3. QED
      BY <3>1, <3>2
  <2>4. QED
    BY <1>3, <2>1, <2>2, <2>3 DEF Hit
<1>4. QED
  BY <1>2, <1>3

LEMMA KeySteps ==
  ASSUME TypeOK, BanInv, [Next]_vars, NEW k \in CounterKeys
  PROVE  Stays(k) \/ Hit(k) \/ BanHit(k) \/ Tick
<1>0. RedisTypeOK /\ RequestTypeOK /\ GhostTypeOK
  BY TypeParts
<1>1. ASSUME UNCHANGED <<redis, ghosts>> PROVE Stays(k)
  BY <1>1 DEF redis, ghosts, Stays, BansStand, BanInv
<1>2. ASSUME NEW r \in Requests, Count(r) PROVE Stays(k) \/ Hit(k)
  <2> DEFINE c == OwnKey(request[r], NoService)
  <2>1. BansStand /\ request[r].pc = "limit"
    BY <1>2, LimitingEffect DEF Limiting
  <2>2. c \in CounterKeys
    BY <1>0, <2>1, LimitType DEF CounterKey
  <2>3. ~Barred(c)
    BY RateLimitAssumption DEF Barred, Bannable, OwnKey
  <2>4. PICK answered \in BOOLEAN : LetThrough(request[r], c, answered, Saturate(hits[c] + 1))
    BY <1>2 DEF Count, CounterKey
  <2>5. /\ hits' = [hits EXCEPT ![c] = Saturate(hits[c] + 1)]
        /\ expiry' = [expiry EXCEPT ![c] = Expiry(c)]
        /\ bans' = bans /\ CountHit(c)
    BY <1>2 DEF Count, CounterKey
  <2> HIDE DEF c
  <2>6. QED
    BY <2>1, <2>2, <2>3, <2>4, <2>5, CountedKey
<1>3. ASSUME NEW r \in Requests, CountBelow(r) PROVE Stays(k) \/ Hit(k)
  <2> DEFINE c == OwnKey(request[r], request[r].service)
  <2>1. BansStand /\ request[r].pc = "limit"
    BY <1>3, LimitingEffect DEF Limiting
  <2>2. c \in CounterKeys /\ request[r] \in Flights
    BY <1>0, <2>1, LimitType DEF CounterKey
  <2>3. ~Barred(c)
    BY <1>3, <2>2, OwnBan DEF Barred, CountBelow, UnderBan
  <2>4. PICK answered \in BOOLEAN : LetThrough(request[r], c, answered, Saturate(hits[c] + 1))
    BY <1>3 DEF CountBelow, CounterKey
  <2>5. /\ hits' = [hits EXCEPT ![c] = Saturate(hits[c] + 1)]
        /\ expiry' = [expiry EXCEPT ![c] = Expiry(c)]
        /\ bans' = bans /\ CountHit(c)
    BY <1>3 DEF CountBelow, CounterKey
  <2> HIDE DEF c
  <2>6. QED
    BY <2>1, <2>2, <2>3, <2>4, <2>5, CountedKey
<1>4. ASSUME NEW r \in Requests, CountAndBan(r) PROVE Stays(k) \/ BanHit(k)
  <2> DEFINE c == OwnKey(request[r], request[r].service)
  <2>1. BansStand /\ request[r].pc = "limit"
    BY <1>4, LimitingEffect DEF Limiting
  <2>2. c \in CounterKeys /\ request[r] \in Flights /\ MayBan(request[r])
        /\ BanKey(request[r]) \in BanKeys
    BY <1>0, <1>4, <2>1, LimitType DEF CounterKey, CountAndBan
  <2>3. /\ Bans(Saturate(hits[c] + 1))
        /\ hits' = [hits EXCEPT ![c] = 0] /\ expiry' = [expiry EXCEPT ![c] = 0]
        /\ bans' = [bans EXCEPT ![BanKey(request[r])] = BanTime]
        /\ CountHit(c) /\ passed' = passed
    BY <1>4 DEF CountAndBan, CounterKey, AfterBan
  <2>4. BanOf(c) = BanKey(request[r]) /\ Bannable(c)
    <3>1. request[r].service \in Services
      BY <2>2 DEF Flights, MayBan, Routes
    <3>2. QED
      BY <2>2, <3>1, OwnBan DEF Bannable, MayBan
  <2> HIDE DEF c
  <2>5. CASE k = c
    <3>1. hits'[k] = 0 /\ expiry'[k] = 0 /\ bans'[BanOf(k)] = BanTime
      BY <1>0, <2>2, <2>3, <2>4, <2>5 DEF RedisTypeOK
    <3>2. k \in Observed => recent'[k] = More(recent[k]) /\ passed'[k] = passed[k]
      BY <1>0, <2>3, <2>5 DEF CountHit, GhostTypeOK, More
    <3>3. QED
      BY <2>3, <2>4, <2>5, <3>1, <3>2 DEF BanHit
  <2>6. CASE k # c
    <3>1. hits'[k] = hits[k] /\ expiry'[k] = expiry[k]
      BY <1>0, <2>2, <2>3, <2>6 DEF RedisTypeOK
    <3>2. k \in Observed => recent'[k] = recent[k] /\ passed'[k] = passed[k]
      BY <1>0, <2>3, <2>6 DEF CountHit, GhostTypeOK
    <3>3. QED
      BY <2>1, <3>1, <3>2 DEF Stays
  <2>7. QED
    BY <2>5, <2>6
<1>5. CASE UNCHANGED vars
  BY <1>1, <1>5 DEF vars, redis, ghosts
<1>6. CASE Next
  BY <1>1, <1>2, <1>3, <1>4, <1>6
    DEF Next, Limiting, Arrive, LookupBan, LookupFails, PassRules, MatchRule, RefuseBanned,
        CountFails
<1>7. QED
  BY <1>5, <1>6

-----------------------------------------------------------------------------
(* Windows.                                                                *)

\* A counter's window is the time since its TTL was armed.
Shape ==
  \A k \in CounterKeys :
    /\ hits[k] = 0 => expiry[k] = 0
    /\ hits[k] > 0 => expiry[k] \in 1 .. Window \/ (expiry[k] = NoTTL /\ hits[k] = Cap)

LEMMA CapFacts ==
  /\ Cap \in Nat /\ Cap > Limit /\ Limit \in Nat /\ Limit >= 1 /\ Window \in Nat /\ Window >= 1
  /\ BanTime \in Nat /\ BanTime >= 1 /\ Excess \in Nat /\ Excess >= 1 /\ Cap = Limit + Excess + 1
  /\ NoTTL \notin Nat
  BY RateLimitAssumption DEF Cap

LEMMA CounterOf ==
  ASSUME TypeOK, NEW k \in CounterKeys
  PROVE  /\ hits[k] \in 0 .. Cap /\ hits[k] \in Nat
         /\ expiry[k] \in (0 .. Window) \cup {NoTTL}
         /\ Saturate(hits[k] + 1) = (IF hits[k] < Cap THEN hits[k] + 1 ELSE Cap)
<1>1. hits[k] \in 0 .. Cap /\ expiry[k] \in (0 .. Window) \cup {NoTTL}
  BY TypeParts DEF RedisTypeOK
<1>2. QED
  BY <1>1, CapFacts DEF Saturate

LEMMA StepShape == TypeOK /\ BanInv /\ Shape /\ [Next]_vars => Shape'
<1> SUFFICES ASSUME TypeOK, BanInv, Shape, [Next]_vars PROVE Shape'
  OBVIOUS
<1>1. ASSUME NEW k \in CounterKeys
      PROVE  /\ hits'[k] = 0 => expiry'[k] = 0
             /\ hits'[k] > 0 => expiry'[k] \in 1 .. Window \/ (expiry'[k] = NoTTL /\ hits'[k] = Cap)
  <2>1. /\ hits[k] = 0 => expiry[k] = 0
        /\ hits[k] > 0 => expiry[k] \in 1 .. Window \/ (expiry[k] = NoTTL /\ hits[k] = Cap)
    BY DEF Shape
  <2>2. CASE Stays(k)
    BY <2>1, <2>2 DEF Stays
  <2>3. CASE Hit(k)
    BY <2>1, <2>3, CounterOf, CapFacts DEF Hit, Expiry
  <2>4. CASE BanHit(k)
    BY <2>4 DEF BanHit
  <2>5. CASE Tick
    <3>1. /\ hits'[k] = IF expiry[k] = 1 THEN 0 ELSE hits[k]
          /\ expiry'[k] = IF expiry[k] \in {0, NoTTL} THEN expiry[k] ELSE expiry[k] - 1
      BY <2>5 DEF Tick
    <3>2. QED
      BY <2>1, <3>1, CounterOf, CapFacts
  <2>6. QED
    BY <2>2, <2>3, <2>4, <2>5, KeySteps
<1>2. QED
  BY <1>1 DEF Shape

LEMMA InitShape == Init => Shape
  BY CapFacts DEF Init, Shape

\* One more of the youngest age adds at most one to every sum, and exactly one to
\* those that are not at the cap.
LEMMA UpToMore ==
  ASSUME NEW counts \in [Ages -> 0 .. Cap]
  PROVE  \E d \in {0, 1} :
           /\ d = 0 => counts[0] = Cap
           /\ \A n \in Ages : UpTo(More(counts))[n] = UpTo(counts)[n] + d
<1>1. counts \in [Ages -> Nat] /\ counts[0] \in 0 .. Cap
  BY AgesFacts, CapFacts
<1>2. PICK d \in {0, 1} : Saturate(counts[0] + 1) = counts[0] + d /\ (d = 0 => counts[0] = Cap)
  BY <1>1, CapFacts DEF Saturate
<1>3. More(counts) = [counts EXCEPT ![0] = counts[0] + d]
  BY <1>2 DEF More
<1> DEFINE more == More(counts)
<1>4. /\ d \in Nat /\ more \in [Ages -> Nat] /\ more[0] = counts[0] + d
      /\ \A n \in Ages : n # 0 => more[n] = counts[n]
  BY <1>1, <1>3, AgesFacts
<1> HIDE DEF more
<1>5. \A n \in Ages : UpTo(more)[n] = UpTo(counts)[n] + d
  BY <1>1, <1>4, UpToAdd
<1>6. QED
  BY <1>2, <1>5 DEF more

\* The sums of an observed key.
LEMMA SumsOf ==
  ASSUME NEW counts \in [Ages -> 0 .. Cap]
  PROVE  /\ counts \in [Ages -> Nat]
         /\ \A n \in Ages : UpTo(counts)[n] \in Nat
         /\ \A a, n \in Ages : a <= n => UpTo(counts)[a] <= UpTo(counts)[n]
<1>1. counts \in [Ages -> Nat]
  BY CapFacts
<1>2. QED
  BY <1>1, UpToSums, UpToGrows DEF Sums

\* The hits of a counter's window are all of its own client and young enough: of the
\* ages since the TTL was armed.
OwnHitsOf(k) ==
  hits[k] > 0 =>
    expiry[k] \in 1 .. Window /\ hits[k] <= UpTo(recent[k])[Window - expiry[k]]

OwnHits == \A k \in Observed \ Stuck : OwnHitsOf(k)

\* A hit of such a counter: afterwards the window's sum covers it.
LEMMA OwnHitCounted ==
  ASSUME TypeOK, NEW k \in Observed \ Stuck, OwnHitsOf(k), NEW more, more = More(recent[k])
  PROVE  /\ Expiry(k) \in 1 .. Window
         /\ Saturate(hits[k] + 1) <= UpTo(more)[Window - Expiry(k)]
         /\ Saturate(hits[k] + 1) <= Total(more)
<1>1. k \in CounterKeys
  BY ObservedAssumption
<1>2. recent[k] \in [Ages -> 0 .. Cap]
  BY TypeParts DEF GhostTypeOK
<1> DEFINE e == Expiry(k)
           a == Window - e
<1>3. e \in 1 .. Window /\ (hits[k] > 0 => e = expiry[k]) /\ (hits[k] = 0 => e = Window)
  BY <1>1, CounterOf, CapFacts DEF Expiry, OwnHitsOf
<1> HIDE DEF e
<1>4. a \in Ages /\ Window - 1 \in Ages /\ a <= Window - 1
  BY <1>3, CapFacts DEF Ages
<1>5. more \in [Ages -> 0 .. Cap]
  <2>1. recent[k][0] \in Nat
    BY <1>2, AgesFacts, CapFacts
  <2>2. Saturate(recent[k][0] + 1) \in 0 .. Cap
    BY <2>1, SaturateType, CapFacts
  <2>3. QED
    BY <1>2, <2>2 DEF More
<1>6. UpTo(more)[a] <= Total(more) /\ UpTo(more)[a] \in Nat /\ Total(more) \in Nat
  BY <1>4, <1>5, SumsOf DEF Total
<1>7. PICK d \in {0, 1} :
        /\ d = 0 => recent[k][0] = Cap
        /\ UpTo(more)[a] = UpTo(recent[k])[a] + d
  BY <1>2, <1>4, UpToMore
<1>8. /\ UpTo(recent[k])[a] \in Nat /\ UpTo(recent[k])[0] <= UpTo(recent[k])[a]
      /\ UpTo(recent[k])[0] = recent[k][0]
  <2>1. recent[k] \in [Ages -> Nat]
    BY <1>2, SumsOf
  <2> HIDE DEF a
  <2>2. 0 \in Ages /\ 0 <= a
    BY <1>4, AgesFacts
  <2>3. UpTo(recent[k])[a] \in Nat /\ UpTo(recent[k])[0] <= UpTo(recent[k])[a]
    BY <1>2, <1>4, <2>2, SumsOf
  <2>4. UpTo(recent[k])[0] = recent[k][0]
    BY <2>1, UpToSums DEF Sums
  <2>5. QED
    BY <2>3, <2>4
<1>9. hits[k] <= UpTo(recent[k])[a]
  <2>1. CASE hits[k] > 0
    BY <1>3, <2>1 DEF OwnHitsOf
  <2>2. CASE hits[k] = 0
    BY <1>8, <2>2
  <2>3. QED
    BY <1>1, <2>1, <2>2, CounterOf
<1>10. Saturate(hits[k] + 1) <= UpTo(more)[a]
  BY <1>1, <1>7, <1>8, <1>9, CounterOf, CapFacts
<1>11. Saturate(hits[k] + 1) <= Total(more)
  BY <1>1, <1>6, <1>10, CounterOf, CapFacts
<1>12. QED
  BY <1>3, <1>10, <1>11 DEF e

LEMMA StepOwnHits ==
  ASSUME TypeOK, BanInv, OwnHits, [Next]_vars
  PROVE  OwnHits'
<1>1. ASSUME NEW k \in Observed \ Stuck PROVE OwnHitsOf(k)'
  <2>1. k \in CounterKeys /\ OwnHitsOf(k)
    BY ObservedAssumption DEF OwnHits
  <2>2. recent[k] \in [Ages -> 0 .. Cap]
    BY TypeParts DEF GhostTypeOK
  <2>3. CASE Stays(k)
    BY <2>1, <2>3 DEF Stays, OwnHitsOf
  <2>4. CASE Hit(k)
    BY <2>1, <2>4, OwnHitCounted DEF Hit, OwnHitsOf
  <2>5. CASE BanHit(k)
    BY <2>5 DEF BanHit, OwnHitsOf
  <2>6. CASE Tick
    <3>1. /\ hits'[k] = IF expiry[k] = 1 THEN 0 ELSE hits[k]
          /\ expiry'[k] = IF expiry[k] \in {0, NoTTL} THEN expiry[k] ELSE expiry[k] - 1
          /\ recent'[k] = Older(recent[k])
      BY <2>1, <2>6 DEF Tick
    <3>2. SUFFICES ASSUME hits'[k] > 0
                   PROVE  /\ expiry'[k] \in 1 .. Window
                          /\ hits'[k] <= UpTo(recent'[k])[Window - expiry'[k]]
      BY DEF OwnHitsOf
    <3>3. hits'[k] = hits[k] /\ expiry[k] \in 2 .. Window /\ expiry'[k] = expiry[k] - 1
      BY <2>1, <3>1, <3>2, CapFacts DEF OwnHitsOf
    <3>4. hits[k] <= UpTo(recent[k])[Window - expiry[k]]
      BY <2>1, <3>2, <3>3 DEF OwnHitsOf
    <3>5. /\ Window - expiry'[k] \in Ages /\ Window - expiry'[k] # 0
          /\ (Window - expiry'[k]) - 1 = Window - expiry[k]
      BY <3>3, CapFacts DEF Ages
    <3>6. UpTo(recent'[k])[Window - expiry'[k]] = UpTo(recent[k])[Window - expiry[k]]
      BY <2>2, <3>1, <3>5, SumsOf, UpToOlder
    <3>7. QED
      BY <3>3, <3>4, <3>6, CapFacts
  <2>7. QED
    BY <2>1, <2>3, <2>4, <2>5, <2>6, KeySteps
<1>2. QED
  BY <1>1 DEF OwnHits

LEMMA InitOwnHits == Init => OwnHits
  BY ObservedAssumption DEF Init, OwnHits, OwnHitsOf

\* The counter a hit of request r is counted on.
HitOf(r) == OwnKey(request[r], IF MayBan(request[r]) THEN request[r].service ELSE NoService)

LEMMA StepRefused ==
  ASSUME TypeOK, OwnHits, NEW r \in Requests, Count(r) \/ CountBelow(r) \/ CountAndBan(r),
         HitOf(r) \in Observed \ Stuck
  PROVE  /\ (request'[r].outcome \in {"429", "403"}) => Total(recent'[HitOf(r)]) > Limit
         /\ CountAndBan(r) => Total(recent'[HitOf(r)]) >= Limit + Excess
<1> DEFINE k == HitOf(r)
           v == Saturate(hits[k] + 1)
<1>1. CountHit(k)
  BY DEF Count, CountBelow, CountAndBan, HitOf
<1>2. recent[k] \in [Ages -> 0 .. Cap] /\ recent'[k] = More(recent[k]) /\ k \in CounterKeys
  BY <1>1, TypeParts, ObservedAssumption DEF GhostTypeOK, CountHit, More
<1>3. v <= Total(recent'[k])
  BY <1>2, OwnHitCounted DEF OwnHits
<1>4. Total(recent'[k]) \in Nat
  <2>1. recent[k][0] \in Nat
    BY <1>2, AgesFacts, CapFacts
  <2>2. Saturate(recent[k][0] + 1) \in 0 .. Cap
    BY <2>1, SaturateType, CapFacts
  <2>3. recent'[k] \in [Ages -> 0 .. Cap]
    BY <1>2, <2>2 DEF More
  <2>4. QED
    BY <2>3, SumsOf, AgesFacts DEF Total
<1>5. v \in Nat
  BY <1>2, CounterOf, CapFacts
<1>6. CASE CountAndBan(r)
  <2>1. Bans(v)
    BY <1>6 DEF CountAndBan, HitOf, CounterKey
  <2>2. v >= Limit + Excess
    BY <2>1 DEF Bans
  <2> HIDE DEF k, v
  <2>3. QED
    BY <1>3, <1>4, <1>5, <2>2, CapFacts DEF k
<1>7. CASE ~CountAndBan(r)
  <2>1. PICK answered \in BOOLEAN : Throttle(r, answered, v)
    BY <1>7 DEF Count, CountBelow, HitOf, CounterKey
  <2>2. ASSUME request'[r].outcome \in {"429", "403"} PROVE Over(v)
    BY <2>1, <2>2, SlotMoves DEF Throttle
  <2>3. ASSUME request'[r].outcome \in {"429", "403"} PROVE v > Limit
    BY <2>2, <2>3 DEF Over
  <2> HIDE DEF k, v
  <2>4. QED
    BY <1>3, <1>4, <1>5, <1>7, <2>3, CapFacts DEF k
<1>8. QED
  BY <1>6, <1>7

\* A client is refused only for hits of its own, on that instance, of the last
\* window: the requests of others and of windows that are over never count against
\* it, however requests, bans and the passing of time interleave.
THEOREM OwnHitsOnly == Spec => RefusedForOwnHits
<1>1. Init => TypeOK /\ BanInv /\ OwnHits
  BY InitType, InitBan, InitOwnHits
<1>2. TypeOK /\ BanInv /\ OwnHits /\ [Next]_vars => TypeOK' /\ BanInv' /\ OwnHits'
  BY StepType, StepBan, StepOwnHits
<1>3. TypeOK /\ OwnHits =>
        \A r \in Requests :
          (Count(r) \/ CountBelow(r) \/ CountAndBan(r)) =>
            LET q == request[r]
                k == OwnKey(q, IF MayBan(q) THEN q.service ELSE NoService)
            IN k \in Observed \ Stuck =>
                 /\ (request'[r].outcome \in {"429", "403"}) => Total(recent'[k]) > Limit
                 /\ CountAndBan(r) => Total(recent'[k]) >= Limit + Excess
  BY StepRefused DEF HitOf
<1>4. QED
  BY <1>1, <1>2, <1>3, PTL DEF Spec, RefusedForOwnHits

-----------------------------------------------------------------------------
(* What is let through.                                                    *)

\* Of the requests let through, those younger than age a.
Younger(s, a) == IF a = 0 THEN 0 ELSE s[a - 1]

\* A window is open: what was let through since it opened is within its count and
\* the limit, one less of it came after the opening tick, and the window before it
\* left room for less than a limit.
OpenWindow(k) ==
  hits[k] > 0 /\ expiry[k] # NoTTL =>
    LET a == Window - expiry[k]
        s == UpTo(passed[k])
    IN /\ s[a] <= hits[k] /\ s[a] <= Limit
       /\ Younger(s, a) < hits[k] /\ Younger(s, a) < Limit
       /\ s[Window - 1] < s[a] + Limit

\* Nothing gets past a counter that is stuck.
Jammed(k) == hits[k] > 0 /\ expiry[k] = NoTTL => Total(passed[k]) = 0

\* No window is open: the last one left less than a limit, or a ban ended it, and
\* nothing was let through since.
Rested(k) == Total(passed[k]) < Limit /\ UpTo(passed[k])[0] = 0

Shut(k) ==
  /\ Barred(k) /\ Total(passed[k]) < 2 * Limit
  /\ \A n \in Ages : n < BanTime - bans[BanOf(k)] => UpTo(passed[k])[n] = 0

Metered(k) == OpenWindow(k) /\ Jammed(k) /\ (hits[k] = 0 => Rested(k) \/ Shut(k))

\* The counters that are promised it: a ban shorter than the window reopens early.
Promised(k) == k.service = NoService \/ BanTime >= Window

AllMetered == \A k \in Observed : Promised(k) => Metered(k)

LEMMA PassedOf ==
  ASSUME TypeOK, NEW k \in Observed
  PROVE  /\ k \in CounterKeys /\ passed[k] \in [Ages -> 0 .. Cap] /\ passed[k] \in [Ages -> Nat]
         /\ \A n \in Ages : UpTo(passed[k])[n] \in Nat
         /\ \A a, n \in Ages : a <= n => UpTo(passed[k])[a] <= UpTo(passed[k])[n]
<1>1. passed[k] \in [Ages -> 0 .. Cap] /\ k \in CounterKeys
  BY TypeParts, ObservedAssumption DEF GhostTypeOK
<1>2. QED
  BY <1>1, SumsOf

\* What a hit lets through: at most one more, and then the counter is within the limit.
LEMMA PassedByHit ==
  ASSUME TypeOK, NEW k \in Observed, Hit(k)
  PROVE  \E d \in {0, 1} :
           /\ d = 1 => hits'[k] <= Limit
           /\ \A n \in Ages : UpTo(passed'[k])[n] = UpTo(passed[k])[n] + d
<1>1. CASE passed'[k] = passed[k]
  <2>1. \A n \in Ages : UpTo(passed'[k])[n] = UpTo(passed[k])[n] + 0
    BY <1>1, PassedOf
  <2>2. QED
    BY <2>1
<1>2. CASE hits'[k] <= Limit /\ passed'[k] = More(passed[k])
  BY <1>2, PassedOf, UpToMore
<1>3. QED
  BY <1>1, <1>2 DEF Hit

LEMMA BanKeyOf ==
  ASSUME TypeOK, NEW k \in CounterKeys, Bannable(k)
  PROVE  BanOf(k) \in BanKeys /\ bans[BanOf(k)] \in 0 .. BanTime /\ bans[BanOf(k)] \in Nat
<1>1. BanOf(k) \in BanKeys
  BY RateLimitAssumption DEF Bannable, BanOf, BanKeys, CounterKeys
<1>2. QED
  BY <1>1, CapFacts, TypeParts DEF RedisTypeOK

LEMMA MeteredStays ==
  ASSUME TypeOK, NEW k \in Observed, Metered(k), Stays(k)
  PROVE  Metered(k)'
<1>1. hits'[k] = hits[k] /\ expiry'[k] = expiry[k] /\ passed'[k] = passed[k]
  BY DEF Stays
<1>2. Barred(k) => bans'[BanOf(k)] = bans[BanOf(k)]
  BY PassedOf, BanKeyOf DEF Barred, Stays, BansStand
<1>3. OpenWindow(k)' /\ Jammed(k)' /\ (Rested(k) => Rested(k)')
  BY <1>1 DEF Metered, OpenWindow, Jammed, Rested, Total
<1>4. Shut(k) => Shut(k)'
  BY <1>1, <1>2 DEF Shut, Barred, Total
<1>5. QED
  BY <1>1, <1>3, <1>4 DEF Metered

LEMMA MeteredHit ==
  ASSUME TypeOK, Shape, NEW k \in Observed, Metered(k), Hit(k)
  PROVE  Metered(k)'
<1> DEFINE s == UpTo(passed[k])
           t == UpTo(passed'[k])
           h == hits[k]
           e == expiry[k]
<1>1. PICK d \in {0, 1} : (d = 1 => hits'[k] <= Limit) /\ \A n \in Ages : t[n] = s[n] + d
  BY PassedByHit
<1>2. /\ k \in CounterKeys /\ \A n \in Ages : s[n] \in Nat
      /\ \A a, n \in Ages : a <= n => s[a] <= s[n]
  BY PassedOf
<1>3. /\ h \in 0 .. Cap /\ hits'[k] = IF h < Cap THEN h + 1 ELSE Cap
      /\ h = 0 => e = 0
      /\ h > 0 => e \in 1 .. Window \/ (e = NoTTL /\ h = Cap)
      /\ expiry'[k] = IF h = 0 \/ e = NoTTL THEN Window ELSE e
  BY <1>2, CounterOf DEF Hit, Shape, Expiry
<1>4. ~Barred(k)
  BY DEF Hit
<1>5. Window - 1 \in Ages /\ 0 \in Ages
  BY AgesFacts
<1> HIDE DEF h, e
<1>6. CASE h > 0 /\ e # NoTTL
  <2> DEFINE a == Window - e
  <2>1. a \in Ages /\ (a # 0 => a - 1 \in Ages) /\ a \in Nat /\ e \in 1 .. Window
    BY <1>3, <1>6, CapFacts, AgesFacts DEF Ages
  <2>2. /\ s[a] <= h /\ s[a] <= Limit /\ Younger(s, a) < h /\ Younger(s, a) < Limit
        /\ s[Window - 1] < s[a] + Limit
    BY <1>6 DEF Metered, OpenWindow, h, e
  <2> HIDE DEF a, s, t
  <2>3. Younger(s, a) \in Nat /\ Younger(t, a) \in {Younger(s, a), Younger(s, a) + d}
        /\ (d = 0 => Younger(t, a) = Younger(s, a))
    BY <1>1, <1>2, <2>1 DEF Younger
  <2>4. /\ t[a] <= hits'[k] /\ t[a] <= Limit /\ Younger(t, a) < hits'[k] /\ Younger(t, a) < Limit
        /\ t[Window - 1] < t[a] + Limit
    <3>1. s[a] \in Nat /\ s[Window - 1] \in Nat /\ t[a] = s[a] + d /\ t[Window - 1] = s[Window - 1] + d
      BY <1>1, <1>2, <1>5, <2>1
    <3>2. CASE d = 0
      BY <1>3, <2>2, <2>3, <3>1, <3>2, CapFacts
    <3>3. CASE d = 1
      <4>1. hits'[k] = h + 1 /\ h + 1 <= Limit
        BY <1>1, <1>3, <3>3, CapFacts
      <4>2. QED
        BY <1>3, <2>2, <2>3, <3>1, <3>3, <4>1, CapFacts
    <3>4. QED
      BY <3>2, <3>3
  <2>5. expiry'[k] = e /\ hits'[k] > 0 /\ expiry'[k] # NoTTL
    BY <1>3, <1>6, <2>1, CapFacts
  <2>6. OpenWindow(k)'
    BY <2>4, <2>5 DEF OpenWindow, a, t
  <2>7. QED
    BY <2>5, <2>6 DEF Metered, Jammed
<1>7. CASE h = 0 \/ e = NoTTL
  <2>1. expiry'[k] = Window /\ hits'[k] > 0 /\ Window # NoTTL /\ hits'[k] \in Nat
    BY <1>3, <1>7, CapFacts
  <2>2. s[0] = 0 /\ s[Window - 1] < Limit
    <3>1. CASE h = 0
      BY <1>4, <3>1 DEF Metered, Rested, Shut, Total, h
    <3>2. CASE h > 0
      <4>1. Total(passed[k]) = 0
        BY <1>7, <3>2 DEF Metered, Jammed, h, e
      <4>2. s[Window - 1] = 0 /\ 0 <= Window - 1
        BY <4>1, CapFacts DEF Total
      <4>3. s[0] <= 0 /\ s[0] \in Nat
        BY <1>2, <1>5, <4>2
      <4>4. QED
        BY <4>2, <4>3, CapFacts
    <3>3. QED
      BY <1>3, <3>1, <3>2, CapFacts
  <2> HIDE DEF s
  <2>3. t[0] = d /\ t[Window - 1] = s[Window - 1] + d /\ s[Window - 1] \in Nat
    BY <1>1, <1>2, <1>5, <2>2
  <2>4. Younger(t, 0) = 0
    BY DEF Younger
  <2>5. Window - expiry'[k] = 0
    BY <2>1, CapFacts
  <2> HIDE DEF t
  <2>6. /\ t[0] <= hits'[k] /\ t[0] <= Limit /\ Younger(t, 0) < hits'[k] /\ Younger(t, 0) < Limit
        /\ t[Window - 1] < t[0] + Limit
    BY <2>1, <2>2, <2>3, <2>4, CapFacts
  <2>7. OpenWindow(k)'
    BY <2>5, <2>6 DEF OpenWindow, t
  <2>8. QED
    BY <2>1, <2>7 DEF Metered, Jammed
<1>8. QED
  BY <1>3, <1>6, <1>7, CapFacts

LEMMA MeteredBan ==
  ASSUME TypeOK, Shape, NEW k \in Observed, Metered(k), BanHit(k)
  PROVE  Metered(k)'
<1> DEFINE s == UpTo(passed[k])
<1>1. /\ k \in CounterKeys /\ \A n \in Ages : s[n] \in Nat
      /\ \A a, n \in Ages : a <= n => s[a] <= s[n]
  BY PassedOf
<1>2. hits[k] \in Nat /\ hits[k] >= Limit /\ hits[k] > 0
  BY <1>1, CounterOf, CapFacts DEF BanHit, Bans
<1>3. hits'[k] = 0 /\ passed'[k] = passed[k] /\ Bannable(k) /\ bans'[BanOf(k)] = BanTime
  BY DEF BanHit
<1>4. Total(passed[k]) < 2 * Limit
  <2>1. CASE expiry[k] = NoTTL
    BY <1>2, <2>1, CapFacts DEF Metered, Jammed
  <2>2. CASE expiry[k] # NoTTL
    <3> DEFINE a == Window - expiry[k]
    <3>1. a \in Ages
      BY <1>1, <1>2, <2>2, CapFacts DEF Shape, Ages
    <3>2. s[a] <= Limit /\ s[Window - 1] < s[a] + Limit
      BY <1>2, <2>2 DEF Metered, OpenWindow
    <3>3. s[a] \in Nat /\ s[Window - 1] \in Nat
      BY <1>1, <3>1, AgesFacts
    <3> HIDE DEF a
    <3>4. s[Window - 1] < 2 * Limit
      <4> HIDE DEF s
      <4>1. QED
        BY <3>2, <3>3, CapFacts
    <3>5. QED
      BY <3>4 DEF Total
  <2>3. QED
    BY <2>1, <2>2
<1>5. Total(passed'[k]) < 2 * Limit
  BY <1>3, <1>4
<1>6. Barred(k)'
  BY <1>3, CapFacts DEF Barred, Bannable, BanOf
<1>7. \A n \in Ages : ~ (n < BanTime - BanTime)
  BY AgesFacts, CapFacts
<1>8. Shut(k)'
  BY <1>3, <1>5, <1>6, <1>7 DEF Shut, BanOf
<1>9. QED
  BY <1>3, <1>8 DEF Metered, OpenWindow, Jammed

LEMMA MeteredTick ==
  ASSUME TypeOK, Shape, NEW k \in Observed, Promised(k), Metered(k), Tick
  PROVE  Metered(k)'
<1> DEFINE s == UpTo(passed[k])
           t == UpTo(passed'[k])
           h == hits[k]
           e == expiry[k]
<1>1. /\ k \in CounterKeys /\ \A n \in Ages : s[n] \in Nat
      /\ \A a, n \in Ages : a <= n => s[a] <= s[n]
  BY PassedOf
<1>2. \A n \in Ages : t[n] = Younger(s, n)
  <2>1. passed'[k] = Older(passed[k])
    BY DEF Tick
  <2>2. QED
    BY <2>1, PassedOf, UpToOlder DEF Younger
<1>3. /\ hits'[k] = IF e = 1 THEN 0 ELSE h
      /\ expiry'[k] = IF e \in {0, NoTTL} THEN e ELSE e - 1
  BY <1>1 DEF Tick
<1>4. /\ h \in 0 .. Cap /\ (h = 0 => e = 0)
      /\ h > 0 => e \in 1 .. Window \/ (e = NoTTL /\ h = Cap)
  BY <1>1, CounterOf DEF Shape
<1>5. /\ Window - 1 \in Ages /\ 0 \in Ages
      /\ \A n \in Ages : n \in Nat /\ (n # 0 => n - 1 \in Ages) /\ n <= Window - 1
  BY AgesFacts, CapFacts DEF Ages
<1>6. \A n \in Ages : t[n] \in Nat /\ t[n] <= s[n]
  <2> HIDE DEF s, t
  <2>1. ASSUME NEW n \in Ages PROVE Younger(s, n) \in Nat /\ Younger(s, n) <= s[n]
    <3>1. CASE n = 0
      BY <1>1, <3>1 DEF Younger
    <3>2. CASE n # 0
      <4>1. n - 1 \in Ages /\ n - 1 <= n
        BY <1>5, <3>2
      <4>2. QED
        BY <1>1, <3>2, <4>1 DEF Younger
    <3>3. QED
      BY <3>1, <3>2
  <2>2. QED
    BY <1>2, <2>1
<1>7. t[0] = 0
  <2> HIDE DEF s, t
  <2>1. QED
    BY <1>2, <1>5 DEF Younger
<1>8. ASSUME hits'[k] = 0, t[Window - 1] < Limit PROVE Metered(k)'
  <2>1. Rested(k)'
    BY <1>7, <1>8 DEF Rested, Total
  <2>2. QED
    BY <1>8, <2>1 DEF Metered, OpenWindow, Jammed
<1>9. CASE h = 0
  <2>1. hits'[k] = 0
    BY <1>3, <1>4, <1>9
  <2>2. CASE Rested(k)
    <3>1. s[Window - 1] < Limit
      BY <2>2 DEF Rested, Total
    <3>2. t[Window - 1] < Limit
      <4> HIDE DEF s, t
      <4>1. QED
        BY <1>1, <1>5, <1>6, <3>1, CapFacts
    <3>3. QED
      BY <1>8, <2>1, <3>2
  <2>3. CASE Shut(k)
    <3> DEFINE b == bans[BanOf(k)]
    <3>1. Bannable(k) /\ b > 0 /\ s[Window - 1] < 2 * Limit
          /\ \A n \in Ages : n < BanTime - b => s[n] = 0
      BY <2>3 DEF Shut, Barred, Total
    <3>2. b \in 0 .. BanTime /\ bans'[BanOf(k)] = IF b = 0 THEN 0 ELSE b - 1
      BY <1>1, <3>1, BanKeyOf DEF Tick
    <3> HIDE DEF b, s, t
    <3>3. ASSUME NEW n \in Ages, n < BanTime - (b - 1) PROVE t[n] = 0
      <4>1. CASE n = 0
        BY <1>7, <4>1
      <4>2. CASE n # 0
        <5>1. n - 1 \in Ages /\ n - 1 < BanTime - b
          BY <1>5, <3>2, <3>3, <4>2, CapFacts
        <5>2. QED
          BY <1>2, <3>1, <4>2, <5>1 DEF Younger
      <4>3. QED
        BY <4>1, <4>2
    <3>4. CASE b = 1
      <4>1. BanTime >= Window
        BY <3>1, RateLimitAssumption DEF Promised, Bannable
      <4>2. t[Window - 1] = 0
        BY <1>5, <3>3, <3>4, <4>1, CapFacts
      <4>3. QED
        BY <1>8, <2>1, <4>2, CapFacts DEF t
    <3>5. CASE b # 1
      <4>1. bans'[BanOf(k)] = b - 1 /\ b - 1 > 0
        BY <3>1, <3>2, <3>5, CapFacts
      <4>2. t[Window - 1] < 2 * Limit
        BY <1>1, <1>5, <1>6, <3>1, CapFacts
      <4>3. Shut(k)'
        BY <3>1, <3>3, <4>1, <4>2 DEF Shut, Barred, Bannable, BanOf, Total, t
      <4>4. QED
        BY <2>1, <4>3 DEF Metered, OpenWindow, Jammed
    <3>6. QED
      BY <3>4, <3>5
  <2>4. QED
    BY <1>9, <2>2, <2>3 DEF Metered
<1>10. CASE h > 0 /\ e = NoTTL
  <2>1. s[Window - 1] = 0
    BY <1>10 DEF Metered, Jammed, Total
  <2>2. t[Window - 1] = 0
    <3> HIDE DEF s, t
    <3>1. QED
      BY <1>5, <1>6, <2>1
  <2>3. hits'[k] = h /\ expiry'[k] = NoTTL
    BY <1>3, <1>10, CapFacts
  <2>4. QED
    BY <1>10, <2>2, <2>3 DEF Metered, OpenWindow, Jammed, Total
<1>11. CASE h > 0 /\ e # NoTTL
  <2> DEFINE a == Window - e
  <2>1. e \in 1 .. Window /\ a \in Ages
    BY <1>4, <1>11, CapFacts DEF Ages
  <2>2. /\ s[a] <= h /\ s[a] <= Limit /\ Younger(s, a) < h /\ Younger(s, a) < Limit
        /\ s[Window - 1] < s[a] + Limit
    BY <1>11 DEF Metered, OpenWindow
  <2>3. CASE e = 1
    <3>1. hits'[k] = 0 /\ a = Window - 1
      BY <1>3, <2>3
    <3>2. t[Window - 1] < Limit
      <4> HIDE DEF s, t
      <4>1. QED
        BY <1>2, <1>5, <2>2, <3>1
    <3>3. QED
      BY <1>8, <3>1, <3>2
  <2>4. CASE e # 1
    <3>1. hits'[k] = h /\ expiry'[k] = e - 1 /\ e - 1 # NoTTL /\ a + 1 \in Ages /\ a \in Nat
      BY <1>3, <1>11, <2>1, <2>4, CapFacts DEF Ages
    <3>2. Window - expiry'[k] = a + 1
      BY <2>1, <3>1, CapFacts
    <3> HIDE DEF a, s, t
    <3>3. t[a + 1] = s[a] /\ Younger(t, a + 1) = Younger(s, a)
      <4>1. a + 1 # 0 /\ (a + 1) - 1 = a
        BY <3>1
      <4>2. QED
        BY <1>2, <2>1, <3>1, <4>1 DEF Younger
    <3>4. t[Window - 1] < t[a + 1] + Limit
      BY <1>1, <1>5, <1>6, <2>1, <2>2, <3>3, CapFacts
    <3>5. OpenWindow(k)'
      BY <2>2, <3>1, <3>2, <3>3, <3>4 DEF OpenWindow, t
    <3>6. QED
      BY <1>11, <3>1, <3>5 DEF Metered, Jammed
  <2>5. QED
    BY <2>3, <2>4
<1>12. QED
  BY <1>4, <1>9, <1>10, <1>11, CapFacts

LEMMA StepMetered ==
  ASSUME TypeOK, BanInv, Shape, AllMetered, [Next]_vars
  PROVE  AllMetered'
<1>1. ASSUME NEW k \in Observed, Promised(k) PROVE Metered(k)'
  <2>1. k \in CounterKeys /\ Metered(k)
    BY <1>1, ObservedAssumption DEF AllMetered
  <2>2. QED
    BY <1>1, <2>1, KeySteps, MeteredStays, MeteredHit, MeteredBan, MeteredTick
<1>2. QED
  BY <1>1 DEF AllMetered, Promised

LEMMA InitMetered == Init => AllMetered
<1> SUFFICES ASSUME Init, NEW k \in Observed PROVE Metered(k)
  BY DEF AllMetered
<1> DEFINE none == [a \in Ages |-> 0]
<1>1. passed[k] = none /\ k \in CounterKeys
  BY ObservedAssumption DEF Init
<1>2. none \in [Ages -> Nat] /\ Sums(none, none)
  BY AgesFacts DEF Sums
<1> HIDE DEF none
<1>3. UpTo(passed[k]) = none
  BY <1>1, <1>2, UpToIs
<1>4. Total(passed[k]) = 0 /\ UpTo(passed[k])[0] = 0
  BY <1>3, AgesFacts DEF Total, none
<1>5. hits[k] > 0 => expiry[k] = NoTTL
  BY <1>1 DEF Init
<1>6. QED
  BY <1>4, <1>5, CapFacts DEF Metered, OpenWindow, Jammed, Rested

LEMMA MeteredTotal ==
  ASSUME TypeOK, Shape, NEW k \in Observed, Metered(k)
  PROVE  Total(passed[k]) < 2 * Limit
<1> DEFINE s == UpTo(passed[k])
<1>1. k \in CounterKeys /\ \A n \in Ages : s[n] \in Nat
  BY PassedOf
<1>2. CASE hits[k] = 0
  <2>1. Total(passed[k]) \in Nat
    BY <1>1, AgesFacts DEF Total
  <2>2. QED
    BY <1>2, <2>1, CapFacts DEF Metered, Rested, Shut
<1>3. CASE hits[k] > 0 /\ expiry[k] = NoTTL
  BY <1>3, CapFacts DEF Metered, Jammed
<1>4. CASE hits[k] > 0 /\ expiry[k] # NoTTL
  <2> DEFINE a == Window - expiry[k]
  <2>1. a \in Ages /\ s[a] \in Nat /\ s[Window - 1] \in Nat
    BY <1>1, <1>4, CapFacts DEF Shape, Ages
  <2>2. s[a] <= Limit /\ s[Window - 1] < s[a] + Limit
    BY <1>4 DEF Metered, OpenWindow
  <2>3. s[Window - 1] < 2 * Limit
    <3> HIDE DEF a, s
    <3>1. QED
      BY <2>1, <2>2, CapFacts
  <2>4. QED
    BY <2>3 DEF Total
<1>5. QED
  BY <1>1, <1>2, <1>3, <1>4, CounterOf

\* In any window_seconds one looks at, a client of one instance gets fewer than
\* twice the limit through while Redis answers, across the end of a window and
\* across a ban that empties its counter.
THEOREM TwoWindows == Spec => []FewerThanTwoWindows
<1>1. Init => TypeOK /\ BanInv /\ Shape /\ AllMetered
  BY InitType, InitBan, InitShape, InitMetered
<1>2. TypeOK /\ BanInv /\ Shape /\ AllMetered /\ [Next]_vars
        => TypeOK' /\ BanInv' /\ Shape' /\ AllMetered'
  BY StepType, StepBan, StepShape, StepMetered
<1>3. TypeOK /\ Shape /\ AllMetered => FewerThanTwoWindows
  BY MeteredTotal DEF FewerThanTwoWindows, AllMetered, Promised
<1>4. QED
  BY <1>1, <1>2, <1>3, PTL DEF Spec
=============================================================================
