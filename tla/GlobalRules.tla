---------------------------- MODULE GlobalRules ----------------------------
(***************************************************************************)
(* The Redis half of the global rule pack: operators publish the hash      *)
(* karna:global_rules with scripts/karna-rules.py, every nginx worker      *)
(* polls it from a timer and swaps the pack it serves (ka_global_rules).   *)
(*                                                                         *)
(* One poll is two round trips (HGET version, then HGETALL), each of which *)
(* yields: the value Redis answered with and the moment the worker looks   *)
(* at it are separate steps, and two polls of one worker may be in flight  *)
(* together (the one-shot load and the recurring timer, or a recurring     *)
(* tick that outlives its interval).  A publisher likewise reads the hash, *)
(* prompts, and writes later.                                              *)
(*                                                                         *)
(* Payloads are opaque blobs: what matters of one is whether it parses and *)
(* whether it contributes any rule.                                        *)
(***************************************************************************)
EXTENDS Naturals

CONSTANTS
  Workers,        \* nginx workers, each with its own pack
  Ticks,          \* polls of one worker that may be in flight together
  Publishers,     \* operators running the publisher
  JsonBlobs,      \* JSON files an operator may publish
  SeclangBlobs,   \* SecLang files an operator may publish
  NoBlob,         \* a field that is absent or empty
  Unparseable,    \* SecLang blobs the worker's parser rejects
  Ruleless,       \* blobs that parse and yield no rule
  NoHash,         \* the hash does not exist
  NoPack,         \* a worker that never loaded a Redis pack
  HmacRequired,   \* KARNA_GLOBAL_RULES_HMAC_KEY is set on the workers
  MayDelete,      \* an operator may DEL the hash
  MaxWrites,      \* bound: publications plus deletions
  MaxRestarts,    \* bound: worker respawns
  MaxFaults       \* bound: polls lost to a connection error

Blobs == JsonBlobs \cup SeclangBlobs \cup {NoBlob}

Hashes == [version : Nat \ {0}, json : Blobs, seclang : Blobs, signed : BOOLEAN]

ASSUME GlobalRulesAssumption ==
  /\ NoBlob \notin JsonBlobs \cup SeclangBlobs
  /\ NoHash \notin Hashes
  /\ Unparseable \subseteq SeclangBlobs
  /\ Ruleless \subseteq JsonBlobs \cup SeclangBlobs
  /\ HmacRequired \in BOOLEAN /\ MayDelete \in BOOLEAN
  /\ MaxWrites \in Nat /\ MaxRestarts \in Nat /\ MaxFaults \in Nat

VARIABLES
  hash,          \* the Redis hash: json, seclang, version, sig
  published,     \* ghost: every pack ever written to the hash
  reading,       \* per publisher, the HGETALL it computes from (pc, snapshot)
  tick,          \* per worker and tick, the poll in flight
  redis_pack,    \* per worker, _M._redis_pack
  last_version,  \* per worker, _M._last_version(_num); 0 is nil
  writes, restarts, faults   \* the three bounded counters

vars == <<hash, published, reading, tick, redis_pack, last_version,
          writes, restarts, faults>>

(***************************************************************************)
(* Values                                                                  *)
(***************************************************************************)
Contents == [json : Blobs, seclang : Blobs]

PollStates == {"idle", "version", "fetch", "fields"}

Polls == [pc : PollStates, version : Nat, fields : Hashes \cup {NoHash}]

IdlePoll == [pc |-> "idle", version |-> 0, fields |-> NoHash]

\* A publisher run: the files named on its command line (NoBlob: option not
\* given) and the hash it read.
Readers == [busy : BOOLEAN, json : JsonBlobs \cup {NoBlob},
            seclang : SeclangBlobs \cup {NoBlob}, snapshot : Hashes \cup {NoHash}]

IdleReader ==
  [busy |-> FALSE, json |-> NoBlob, seclang |-> NoBlob, snapshot |-> NoHash]

EmptyPack == [json |-> NoBlob, seclang |-> NoBlob]

ContentOf(h) == [json |-> h.json, seclang |-> h.seclang]

HasRules(blob) == blob \notin Ruleless \cup Unparseable \cup {NoBlob}

\* #_M._redis_pack.all > 0
PackHasRules(pack) ==
  pack # NoPack /\ (HasRules(pack.json) \/ HasRules(pack.seclang))

VersionOf(h) == IF h = NoHash THEN 0 ELSE h.version

\* The signature covers version, json and seclang together.
Verified(h) == HmacRequired => h.signed

Builds(h) == h.seclang \notin Unparseable

Acceptable(h) == h # NoHash /\ Verified(h) /\ Builds(h)

Init ==
  /\ hash = NoHash
  /\ published = {}
  /\ reading = [p \in Publishers |-> IdleReader]
  /\ tick = [w \in Workers |-> [t \in Ticks |-> IdlePoll]]
  /\ redis_pack = [w \in Workers |-> NoPack]
  /\ last_version = [w \in Workers |-> 0]
  /\ writes = 0 /\ restarts = 0 /\ faults = 0

(***************************************************************************)
(* The publisher                                                           *)
(***************************************************************************)
\* The run starts with --json, --seclang or both, and its
\* current = red.hgetall(GLOBAL_KEY) is answered.
ReadCurrent(p) ==
  /\ ~reading[p].busy
  /\ \E j \in JsonBlobs \cup {NoBlob}, s \in SeclangBlobs \cup {NoBlob} :
       /\ j # NoBlob \/ s # NoBlob
       /\ reading' = [reading EXCEPT ![p] =
            [busy |-> TRUE, json |-> j, seclang |-> s, snapshot |-> hash]]
  /\ UNCHANGED <<hash, published, tick, redis_pack, last_version,
                 writes, restarts, faults>>

\* --dry-run, an aborted prompt, or a run that dies before the write.
Abandon(p) ==
  /\ reading[p].busy
  /\ reading' = [reading EXCEPT ![p] = IdleReader]
  /\ UNCHANGED <<hash, published, tick, redis_pack, last_version,
                 writes, restarts, faults>>

Kept(snapshot) ==
  IF snapshot = NoHash THEN EmptyPack ELSE ContentOf(snapshot)

\* "an omitted format is PRESERVED from the pack already in Redis": from the
\* pack this run read, that is.
NewContent(run) ==
  [json    |-> IF run.json # NoBlob THEN run.json ELSE Kept(run.snapshot).json,
   seclang |-> IF run.seclang # NoBlob THEN run.seclang ELSE Kept(run.snapshot).seclang]

NextVersion_NoBump(snapshot) ==
  IF snapshot = NoHash THEN 1 ELSE snapshot.version

NextVersion_FromZero(snapshot) == VersionOf(snapshot)

NextVersion(snapshot) == VersionOf(snapshot) + 1

NewPack(run, signed) ==
  [version |-> NextVersion(run.snapshot), json |-> NewContent(run).json,
   seclang |-> NewContent(run).seclang, signed |-> signed]

\* One HSET (or MULTI/EXEC when unsigned) replaces the hash as a whole.
Publish(p) ==
  /\ reading[p].busy
  /\ writes < MaxWrites
  /\ \E signed \in BOOLEAN :
       /\ hash' = NewPack(reading[p], signed)
       /\ published' = published \cup {NewPack(reading[p], signed)}
  /\ reading' = [reading EXCEPT ![p] = IdleReader]
  /\ writes' = writes + 1
  /\ UNCHANGED <<tick, redis_pack, last_version, restarts, faults>>

\* DEL karna:global_rules, the documented off switch.
Delete ==
  /\ MayDelete
  /\ hash # NoHash
  /\ writes < MaxWrites
  /\ hash' = NoHash
  /\ writes' = writes + 1
  /\ UNCHANGED <<published, reading, tick, redis_pack, last_version,
                 restarts, faults>>

(***************************************************************************)
(* One poll of one worker                                                  *)
(***************************************************************************)
\* The timer fires, connects, and Redis answers HGET version.
ServeVersion(w, t) ==
  /\ tick[w][t].pc = "idle"
  /\ tick' = [tick EXCEPT ![w][t] =
                [pc |-> "version", version |-> VersionOf(hash), fields |-> NoHash]]
  /\ UNCHANGED <<hash, published, reading, redis_pack, last_version,
                 writes, restarts, faults>>

\* A nil version: the hash was deleted or never published.
HandleAbsent(w, t) ==
  /\ tick[w][t].pc = "version"
  /\ tick[w][t].version = 0
  /\ tick' = [tick EXCEPT ![w][t] = IdlePoll]
  /\ IF PackHasRules(redis_pack[w])
       THEN /\ redis_pack' = [redis_pack EXCEPT ![w] = EmptyPack]
            /\ last_version' = [last_version EXCEPT ![w] = 0]
       ELSE UNCHANGED <<redis_pack, last_version>>
  /\ UNCHANGED <<hash, published, reading, writes, restarts, faults>>

HandleUnchanged(w, t) ==
  /\ tick[w][t].pc = "version"
  /\ tick[w][t].version # 0
  /\ tick[w][t].version = last_version[w]
  /\ tick' = [tick EXCEPT ![w][t] = IdlePoll]
  /\ UNCHANGED <<hash, published, reading, redis_pack, last_version,
                 writes, restarts, faults>>

HandleMoved(w, t) ==
  /\ tick[w][t].pc = "version"
  /\ tick[w][t].version # 0
  /\ tick[w][t].version # last_version[w]
  /\ tick' = [tick EXCEPT ![w][t] =
                [pc |-> "fetch", version |-> tick[w][t].version, fields |-> NoHash]]
  /\ UNCHANGED <<hash, published, reading, redis_pack, last_version,
                 writes, restarts, faults>>

\* Redis answers HGETALL: one consistent snapshot of the hash.
ServeFields(w, t) ==
  /\ tick[w][t].pc = "fetch"
  /\ tick' = [tick EXCEPT ![w][t] =
                [pc |-> "fields", version |-> tick[w][t].version, fields |-> hash]]
  /\ UNCHANGED <<hash, published, reading, redis_pack, last_version,
                 writes, restarts, faults>>

MayApply_NoRollbackGuard(w, fields) ==
  fields # NoHash /\ Verified(fields) /\ Builds(fields)

MayApply_OffByOne(w, fields) ==
  fields # NoHash /\ fields.version > last_version[w] + 1 /\ Verified(fields)
    /\ Builds(fields)

MayApply_KeepsWhatParsed(w, fields) ==
  fields # NoHash /\ fields.version > last_version[w] /\ Verified(fields)

\* The snapshot may be applied: a number, above the version in force, verified
\* and parsed.  last_version 0 is nil, and every version is positive.
MayApply(w, fields) ==
  /\ fields # NoHash
  /\ fields.version > last_version[w]
  /\ Verified(fields)
  /\ Builds(fields)

AppliedVersion_Polled(poll) == poll.version

\* What _last_version becomes: the version inside the snapshot.
AppliedVersion(poll) == poll.fields.version

HandleFields(w, t) ==
  /\ tick[w][t].pc = "fields"
  /\ tick' = [tick EXCEPT ![w][t] = IdlePoll]
  /\ LET poll == tick[w][t]
     IN IF MayApply(w, poll.fields)
          THEN /\ redis_pack' = [redis_pack EXCEPT ![w] = ContentOf(poll.fields)]
               /\ last_version' = [last_version EXCEPT ![w] = AppliedVersion(poll)]
          ELSE UNCHANGED <<redis_pack, last_version>>
  /\ UNCHANGED <<hash, published, reading, writes, restarts, faults>>

\* connect, HGET or HGETALL fails: the poll ends and changes nothing.
LosePoll(w, t) ==
  /\ tick[w][t].pc # "idle"
  /\ faults < MaxFaults
  /\ tick' = [tick EXCEPT ![w][t] = IdlePoll]
  /\ faults' = faults + 1
  /\ UNCHANGED <<hash, published, reading, redis_pack, last_version,
                 writes, restarts>>

\* kong reload or a crash respawns the worker: its Lua state is gone.
Restart(w) ==
  /\ restarts < MaxRestarts
  /\ tick' = [tick EXCEPT ![w] = [t \in Ticks |-> IdlePoll]]
  /\ redis_pack' = [redis_pack EXCEPT ![w] = NoPack]
  /\ last_version' = [last_version EXCEPT ![w] = 0]
  /\ restarts' = restarts + 1
  /\ UNCHANGED <<hash, published, reading, writes, faults>>

Poll(w, t) ==
  \/ ServeVersion(w, t)
  \/ HandleAbsent(w, t)
  \/ HandleUnchanged(w, t)
  \/ HandleMoved(w, t)
  \/ ServeFields(w, t)
  \/ HandleFields(w, t)

Next ==
  \/ \E p \in Publishers : ReadCurrent(p) \/ Abandon(p) \/ Publish(p)
  \/ Delete
  \/ \E w \in Workers : Restart(w) \/ \E t \in Ticks : Poll(w, t) \/ LosePoll(w, t)

Spec == Init /\ [][Next]_vars

\* ngx.timer.every re-arms for the life of the worker, and every step of a poll
\* either completes or ends at its 2 s socket timeout.
Fairness == \A w \in Workers : \A t \in Ticks : WF_vars(Poll(w, t))

FairSpec == Spec /\ Fairness

-----------------------------------------------------------------------------
(***************************************************************************)
(* Properties                                                              *)
(***************************************************************************)
TypeOK ==
  /\ hash \in Hashes \cup {NoHash}
  /\ published \subseteq Hashes
  /\ reading \in [Publishers -> Readers]
  /\ tick \in [Workers -> [Ticks -> Polls]]
  /\ redis_pack \in [Workers -> Contents \cup {NoPack}]
  /\ last_version \in [Workers -> Nat]
  /\ writes \in Nat /\ restarts \in Nat /\ faults \in Nat

\* A worker that reports version v serves exactly the content somebody published
\* as v, signed when a key is configured: never json of one publication with the
\* seclang or the version of another, however polls and publications interleave.
ServesWhatItReports ==
  \A w \in Workers :
    last_version[w] # 0 =>
      \E h \in published :
        /\ h.version = last_version[w]
        /\ ContentOf(h) = redis_pack[w]
        /\ Acceptable(h)

\* Two workers that report the same version serve the same rules: "are all my
\* nodes running the same global rules?" can be answered by the version.
VersionIdentifiesRules ==
  \A v, w \in Workers :
    last_version[v] = last_version[w] /\ last_version[w] # 0
      => redis_pack[v] = redis_pack[w]

\* While the hash exists, a worker never steps back to an older publication, not
\* even when a slow poll answers after a newer one was applied; it forgets its
\* version only by starting again.
NeverStepsBack ==
  [][\A w \in Workers :
       last_version'[w] < last_version[w]
         => /\ last_version'[w] = 0
            /\ redis_pack'[w] \in {NoPack, EmptyPack}]_vars

\* Rules in force are dropped only by a respawn or by a poll that found no hash:
\* no failed, unsigned or unparseable publication ever leaves a worker with
\* fewer rules than the last good pack.
LastGoodPackStays ==
  [][\A w \in Workers :
       PackHasRules(redis_pack[w]) /\ ~PackHasRules(redis_pack'[w])
         => \/ restarts' = restarts + 1
            \/ \E t \in Ticks : tick[w][t].pc = "version" /\ tick[w][t].version = 0
            \/ \E t \in Ticks : /\ tick[w][t].pc = "fields"
                                /\ Acceptable(tick[w][t].fields)
                                /\ ContentOf(tick[w][t].fields) = redis_pack'[w]]_vars

UpToDate(w) ==
  /\ hash = NoHash => ~PackHasRules(redis_pack[w])
  /\ Acceptable(hash) => redis_pack[w] = ContentOf(hash)

\* Once operators stop publishing and Redis answers, every worker ends up with
\* the published rules and stays there ("every Karna worker applies it within
\* its poll interval").
EveryWorkerApplies == <>[](\A w \in Workers : UpToDate(w))
=============================================================================
