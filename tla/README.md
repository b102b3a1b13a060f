# A verification development of Karna

Karna is a web application firewall that runs as a plugin inside Kong
(`kong/plugins/karna`), with a console to manage it (`dashboard/`) and a command
line publisher (`scripts/karna-rules.py`). This directory holds TLA+ models of the parts whose
correctness depends on order, concurrency, sharing or failure, the TLC
configurations that check them, and TLAPS proofs of their main properties.

`PROJECT.json` names, for every definition, the lines of the source it stands
for; for every property of every run, a plausible bug of the code (a *mutant*)
that makes it fail; and, under `hazards`, the places in the code where a test
would hardly reach.

| module | models | proofs |
|---|---|---|
| `GlobalRules` | publication and polling of the fleet-wide rule pack | `GlobalRulesProofs` |
| `ConfCache` | the per-worker cache of compiled configurations | `ConfCacheProofs` |
| `RateLimit` | rate limiting and temporary bans in Redis | `RateLimitProofs` |
| `AccessPipeline` | one request through the access phase | `AccessPipelineProofs` |
| `ConsoleFeed` | how a page of the console comes to show Kong's configuration | `ConsoleFeedProofs` |
| `FeedPromise` | what an operator may rely on about it; `ConsoleFeed` implements it, `ConsoleEdits` uses it | |
| `ConsoleEdits` | operators who edit one plugin through read-modify-write calls | `ConsoleEditsProofs` |
| `AssistantActions` | changes the assistant proposes, from the card in the chat to Kong | `AssistantActionsProofs` |
| `ActionPromise` | what the console promises of such a change; `AssistantActions` implements it | |
| `ConsoleSession` | the session of one browser tab: gate, sign-in, tokens, the setup's steps | |
| `ConsoleTargets` | which Kong the console manages: the setup's step and the settings' card | |
| `ConsoleProfiles` | the assistant's models and their keys | |
| `ConsoleLists` | the event and rule lists: filters, pages, the event dialog | |
| `ConsoleRuleForm` | the rule dialog and its exclusion builder | |
| `ConsoleServices` | the service dialog | |
| `ConsoleApp` | one tab as a whole: composes the six above | `ConsoleAppProofs` |
| `MC*` | symmetry sets, rule shapes and other values for TLC | |

To repeat a run: `tlc -config GlobalRulesFleet.cfg MCGlobalRules`; to repeat the
proofs: `tlapm GlobalRulesProofs.tla`.

## 1. Inventory

### 1.1 How the parts interact

nginx runs several **workers**; each has its own Lua state, and Kong calls the
plugin's phases (`init_worker`, `access`, `header_filter`, `body_filter`, `log`)
in a coroutine per request. A coroutine yields at every network round trip
(Redis, timers) and nowhere else: between two yields it is atomic within its
worker. Workers share nothing in Lua; they share **Redis** (the global pack,
counters, bans, denylists) and Kong's configuration. Kong rebuilds the plugin
configuration tables when an entity changes and hands the tables to requests;
the old tables live on in the requests that started with them.

The **console** is a separate process (FastAPI, one asyncio loop) that reads
audit files into SQLite, keeps accounts in a JSON file and changes Karna's
configuration with read-modify-write calls to Kong's admin API. The
**publisher** is a command an operator runs; it reads and writes one Redis hash.

### 1.2 Components

Every component is listed in `PROJECT.json`; what follows gives state,
operations, what is hard, and what makes each one correct.

**Access pipeline** (`handler.lua` access; `ka_engine.lua`; `ka_compile.lua`).
*State*: per request, the scratch of rule controls (engine off / detection
only / forced on, removed rules, body access), cached body values. *Operations*:
always-on gates (path, host, headers, content type, body size, body parser,
argument count), a pre-body pass of exclusions, a pass of control-only rules per
channel, and then the lists of detection rules, whose terminal actions sanitize,
throttle or block. *Hard*: the order of about twenty steps which talk through
one mutable record; rules that alter the evaluation of other rules and of
themselves; a body parsed lazily by whoever asks first. *Correct when*: the
engine switch is what the history of controls says, exclusions are in force
before detection, no action contradicts the switch, gates cannot be talked out
of, and a body switched off is not read.

**Rate limiting and bans** (`handler.lua`, `ka_utils.lua`). *State*: Redis
counters with TTL, Redis bans with TTL. *Operations*: three Lua scripts run by
Redis: first active ban, increment-and-arm, increment-and-ban. *Hard*: many
requests of one client at once, requests between the ban lookup and the
counter, lost answers, keys left by earlier releases, two policies sharing one
Redis. *Correct when*: limits and bans hold, deadlines stay put, every window
ends, nobody is refused for hits of somebody else.

**Per-instance configuration cache** (`handler.lua`). *State*: a weak table from
configuration table to identity, live generation per instance, an LRU keyed by
instance, content hash and prefix. *Operations*: get identity, get or compile
for each of six prefixes, supersede a generation and drop its entries.
*Hard*: reloads under requests in flight, tables garbage collected and addresses
reused, plugin files edited on disk, `__seq__` 0 and a missing `resty.sha256`.
*Correct when*: a request evaluates its own configuration and superseded
generations neither stay nor come back.

**Global rules** (`ka_global_rules.lua`, `scripts/karna-rules.py`). *State*: the
Redis hash (json, seclang, version, signature); per worker, the pack from disk,
the pack from Redis, the version in force, the merged view. *Operations*:
publish, delete, poll (two round trips), disk scan, recombine. *Hard*:
overlapping polls, publishers who prompt between reading and writing, deletion,
respawns, unsigned or unparseable packs. *Correct when*: a worker serves one
whole acceptable publication under the version it reports, never steps back,
and converges.

**Rule-driven Redis reads and writes** (`ka_utils.lua`, `ka_engine.lua`,
`handler.lua`). *State*: Redis keys and sets written by rules. *Operations*:
`SET [EX] [NX]`, `SADD` then `EXPIRE`, `SREM`, `DEL`, `EXPIRE`, reads from a
whitelist. *Hard*: the pair `SADD`, `EXPIRE` is two round trips; writes of later
phases run in a timer, after the answer. *Correct when*: a temporary denylist
entry expires, a write is not lost silently and never blocks a request.

**MCP inspection** (`ka_mcp.lua`, `ka_mcp_sse.lua`). *State*: per response, the
buffer and the parser of server-sent events. *Operations*: one step per chunk.
*Hard*: events split over chunks, a capped buffer, end of stream in the middle of
an event. *Correct when*: every event is shown to the rules exactly once and what is
dropped, replaced or injected does not depend on the chunking.

**Body and multipart parsers** (`ka_body_parser.lua`, `ka_multipart.lua`,
`slaxml.lua`), **SecLang compiler** (`seclang.lua`), **rule compiler**
(`ka_compile.lua`), **matchers** (`ka_ac`, `ka_re2`, `libinjection` and their C
sources). Pure functions of bytes. *Correct when* they agree with their
definition; the Aho-Corasick automaton is the one whose definition is short.

**Audit log and redaction** (`ka_utils.lua`, `ka_redact.lua`), **TLS telemetry**
(`ka_tls.lua`), **response phase**, **schema and status API**: layout, byte
formats, declarative validation.

**Console: service edits** (`app.py`; `Rules.jsx`, `Services.jsx`, their
dialogs, `useDashboard.jsx`). *State*: Kong's plugin entity; in the API the
inventory cache with its generation and the assembled payload; in a page the
payload shown, a dialog, a confirmation, requests under way. *Operations*: add, edit,
delete rules and overrides, change the mode and the settings: each is a GET
followed by a PATCH of the whole configuration, and clears both caches. *Hard*:
two edits interleave; a PATCH that lands while its answer is lost; positions that
move under an operator; a load that began before a write and ends after it.
*Correct when*: an edit touches the entry its operator saw, nothing else is undone,
and a page never goes back to an older configuration and catches up in the end.

**Console: assistant actions** (`app.py`, `store.py`, `Assistant.jsx`). *State*:
actions (pending, executing, executed, failed, rejected, expired) and proposals
(pending, applying, applied, rejected, expired); in the view the route, the
cards, a busy button, a stream. *Operations*: propose, authorize, reject, expire,
apply, send a message, delete the conversation. *Hard*: authorization against expiry,
rejection, the next message and other operators; a change executed while its record
fails; a restart in between; answers for a conversation no longer shown. *Correct
when*: a change lands at most once, only authorized, only on what was reviewed, and
what the cards and the transcript say of it is so.

**Console: sessions and accounts** (`auth.py`, `app.py`, `auth.jsx`, `api.js`, `App.jsx`). *State*: a JSON file
with the administrator and a token version, an in-memory throttle; the tab's token,
who is signed in, the screen. *Operations*: register, sign in, sign out
everywhere, change the password, any request refused with 401. *Hard*: a refusal of
an old token that arrives after a new sign-in; sign-out and password change under
way together. *Correct when*: a tab that shows views has a token to send.

**Console: Kong targets and AI profiles** (`app.py`, `ai_profiles.py`, `store.py`,
`Setup.jsx`, `Settings.jsx`). *State*: settings rows and `ai_profiles` rows in
SQLite, forms. *Operations*: list, test, save, activate, remove. *Hard*: a probe
of Kong, or of a model, between reading and writing; two browsers; a form whose fields
outlive what they were filled with. *Correct when*: the active target is a saved one
that answered, and a key only goes to the endpoint it was entered for.

**Console front end** (`dashboard/web/src`). *State*: besides the above, filters and pages
over data every poll replaces, the rule dialog with two views of one rule, the
service dialog, the hash. *Hard*: late answers that find another screen; lists that shrink under a
page; a form read back from what it wrote. *Correct when*: no page is left empty,
an exclusion the form shows is the one the rule makes, and nothing typed for one
service reaches another.

**Console: audit ingestion** (`store.py`, `app.py`). *State*: SQLite events, files
that are ingested while written and cleaned up.

**Console: assistant runtime, read-only pages and demo**, **build and tests**: no state of
their own that the parts above do not hold.

### 1.3 What is hard here

`hazards` in `PROJECT.json` gives each one with its line. In short: coroutines
that yield between reading and using (polls, publisher, ban lookup, console
edits); objects that outlive what they describe (configuration tables, cached
identities, versions after a deletion); an order of steps over one mutable
record (access pipeline); counters with deadlines under concurrent hits; answers
lost after the work was done.

## 2. Plan

Order of work, most important behaviour first; the first six are done.

1. `GlobalRules`, `GlobalRulesProofs`: what a fleet serves.
2. `ConfCache`, `ConfCacheProofs`: what a request evaluates is its own.
3. `RateLimit`, `RateLimitProofs`: who is refused, for what, for how long.
4. `AccessPipeline`, `AccessPipelineProofs`: what one request goes through. Its
   `Throttle` takes "over" as a choice: module `RateLimit` says when that is.
5. `FeedPromise`, `ConsoleFeed`, `ConsoleEdits`, `ActionPromise`,
   `AssistantActions`: how the console changes Kong and shows it. Two abstract
   specifications, each with its refinement.
6. `ConsoleSession` with the views over it (`ConsoleTargets`, `ConsoleProfiles`,
   `ConsoleLists`, `ConsoleRuleForm`, `ConsoleServices`), composed in
   `ConsoleApp`: one tab, whatever is under way when it goes somewhere else.
7. `GlobalPack`: disk scan and Redis pack merged, duplicate ids, last good disk pack.
   `GlobalRules` keeps its worker pack opaque, so the two compose on `redis_pack`.
8. `RedisWrites`: rule side effects, `SADD`/`EXPIRE`, the timer.
9. `McpStream`: SSE events over chunks, refining "each event judged once".
10. `AuditIngest`.
11. `AhoCorasick`: the automaton's construction and search, as recursive functions, against
    substring search over short words.

Every safety and action property of a passing run, and both refinements, are proved (section
5 says what is not). Theorems to add: those of steps 7 to 10, and beyond what runs
check today, the composition of `ConsoleFeed` with `ConsoleEdits`: that the pages of the first
are pages of the second, of which section 3.6 assumes the promise.

## 3. The modules

### 3.1 GlobalRules

| TLA+ | code |
|---|---|
| `hash` | the Redis hash `karna:global_rules` |
| `reading[p]` | `current` of a publisher's run, from `hgetall` to the write |
| `tick[w][t]` | one run of `_M._tick` in worker `w`, between its two round trips |
| `redis_pack[w]`, `last_version[w]` | `_M._redis_pack`, `_M._last_version(_num)` |
| `published` | ghost: every pack ever written |

A poll is `ServeVersion` (Redis answers `HGET version`), then one of
`HandleAbsent` / `HandleUnchanged` / `HandleMoved`, then `ServeFields` (Redis
answers `HGETALL`) and `HandleFields`. The answer and the moment the worker acts
on it are distinct steps, so anything may happen in between, a second poll of the
same worker included: the one-shot timer at start and the recurring one run side
by side. A payload is a blob; only whether it parses and whether it yields a
rule matters. A publication may be unsigned: with `HmacRequired` the workers refuse it.

*Runs.* `global_rules_overlap`: one worker with two overlapping polls, a rule-less,
an unparseable and unsigned publications, a deletion, a respawn, a lost poll. Two polls are enough for a
slow one to answer after a fast one; three writes are enough for old, new and
deleted. `global_rules_fleet`: two workers, one publisher, no deletion, under
fairness: a version names one set of rules, and all converge.

*Fairness.* Weak fairness of each poll's next step. `ngx.timer.every` re-arms for
the life of the worker, and every socket operation has a 2 s timeout, so a poll
always ends; `faults` bounds the polls that end in an error, which is the
assumption "Redis answers eventually". Nothing is assumed of operators.

`VersionIdentifiesRules` is checked and proved with one publisher and no deletion: see
section 4 for what happens otherwise.

*Proved* for any number of workers, polls, publishers, blobs and bounds:
`TypeCorrect`, `ServesReported`, `VersionNamesRules`, `NoStepBack`. The
invariant behind `ServesReported` is `SnapshotsArePublications`: whatever a poll
holds was published, so what is applied, with the version inside the snapshot, is
one publication. `VersionNamesRules` adds `VersionsAreUnique`: with one publisher
and no deletion versions grow, so no two publications share one. `GoodPackStays` follows
from a lemma that says which steps change a worker's pack at all (`PackChanges`): a
deletion it was told of, a fetch whose payload is acceptable, a respawn.

### 3.2 ConfCache

| TLA+ | code |
|---|---|
| `heap[a]` | the configuration table at an address, with its `__seq__` |
| `holds[r]` | the `plugin_conf` a request was given |
| `conf_identity[a]` | the weak table: nothing, `false` (not cacheable), a generation |
| `generations`, `conf_cache_live` | generation records and the live one of each instance |
| `conf_cache` | the LRU: prefix, identity, and what the value was compiled from |
| `disk` | the files of the CRS exclusion plugins |

`Get` is any of the six getters; a miss compiles from the request's own table
and the files as they are then. `Evict` may drop any entry at any time. Kong's
side (`NewTable`, `RemoveInstance`, requests) and the collector (`Collect`) are
external. An address is used again after `Collect`, the case the weak table is
for. `served[r]` is the compiled set the last getter returned.

*Run.* `conf_cache_reuse`: two instances on two addresses, three tables, two
requests, two contents of which one reads the disk, one edit of it. Two addresses
force reuse; three tables give old, live and newer. One prefix is enough for the
run as a generation's entries are dropped for all of them in one step; the
proofs have any set of prefixes.

*Proved*, for any instances, tables, prefixes and bounds and for both values of
`HashAvailable`: `TypeCorrect`, `OwnConfiguration`, `OneGeneration`,
`NoGoingBack`. The inductive invariant has four parts: `HeapInv` (held and
current tables exist), `FreshInv` (a generation named by a `__seq__` was created
for a table with it), `LiveInv` (the live generation is a recorded one and not
dead), `FitInv` (an identity found under an address was computed for the
table there, and every entry is filed under an identity of its content).

*Not a property.* The plugin files are read once to hash them and again to
compile them. An edit in between files rules of the new text under the hash of
the old one, and they come back when the text is restored. `ServesOwnConfiguration` is
therefore about the instance and its configuration, not about the text of files.

### 3.3 RateLimit

| TLA+ | code |
|---|---|
| `hits[k]`, `expiry[k]` | a Redis counter and its TTL |
| `bans[b]` | a ban key: its TTL |
| `request[r]` | a request between arrival and answer; yields at `lookup` and `limit` |
| `banner`, `recent`, `passed` | ghosts: counters behind a ban, hits and passes by age |

Redis runs each script as one step. `LookupBan` is `FIRST_ACTIVE_BAN_LUA`,
`Count` is `INCR_EXPIRE_LUA`, and `RefuseBanned`, `CountBelow` and `CountAndBan`
are the three outcomes of `INCR_EXPIRE_BAN_LUA`. A step may lose the answer
after the script ran (`answered`), or fail before (`CountFails`, `LookupFails`).
`Tick` takes one off every TTL. Counting saturates above the last value the
script compares with. The mode of a matched request covers rules that flipped
the engine before.

*Runs.* `rate_limit_counter`: one counter, full and without a TTL at the start, as the
`GET`-`INCR`-`EXPIRE` of earlier releases could leave it; two requests, lost
answers, under fairness: `EveryWindowEnds` covers the stuck counter from its first hit
on. `rate_limit_ban`: a blocking and a detecting
instance share one Redis, with failures; one client. A window is two or three
ticks and a ban two: a hit may fall at its start, inside it and after it. The
limit is one or two and one hit above it earns the ban: two requests in flight
can both be over it. `FewerThanTwoWindows` is checked here, where bans empty counters
and so could let more through; the theorem has every limit and window.

*Fairness.* `WF(Tick)`: Redis expires keys whatever the traffic. Requests are not fair.

*Proved* for any limit, window, ban policy, set of clients, identities (several
clients behind one included) and requests: `TypeCorrect`, `BansHold`,
`DeadlineKept`, `FreshWindow`, `OwnHitsOnly`, `TwoWindows`. `FreshWindow` rests on `BannerInv`: the counter
that earned a ban is at zero while the ban lasts, because whoever would count it
finds the ban first; `BansHold` on `BanInv` and `BansStand`: a request under a
ban since it arrived passes the lookup only when Redis failed it.

`OwnHitsOnly` and `TwoWindows` compare a counter with ghosts that keep hits, and requests let
through, by their age in ticks; the total over a window is a sum (`UpTo`). Both go over
what a step does to one counter (`KeySteps`: a hit, a saturated hit, a tick, the reset by a ban).
`OwnHits`: a counter with a TTL of *e* has at most as many hits as are younger than
`Window - e`, so each of them is its own client's and recent. `AllMetered`:
while a window is open, what passed since it opened is within its count and the limit, and the window before
left room for less than a limit (`OpenWindow`); a counter without a TTL lets nobody through (`Jammed`); and when
there is none, the last window left less than a limit (`Rested`) or a ban ended it, through which nothing
passed (`Shut`).
That last part needs a ban no shorter than the window: `FewerThanTwoWindows` is stated for counters
no service ban empties, or with `BanTime >= Window`. `valid_ban_policy` allows shorter bans, and then a
ban opens a fresh window early, by design. `RefusedForOwnHits` leaves out the counters that an
earlier release left stuck (`Stuck`), whose hits are anybody's.

The facts about sums (a sum of naturals is one, grows with its range, moves by the value added) are
claims for every upper end. No induction theorem can be used here, as they take an operator; the lemmas
take a least counterexample instead, which `WFMin` of the library gives for a set of naturals
(`NatLeast`).

*Documentation.* `docs/rules.html:412` describes the counter key without the
instance scope the code puts in it (`rate_limit_scope`); the model follows the code.

### 3.4 AccessPipeline

| TLA+ | code |
|---|---|
| `stage`, `Pipeline` | where `plugin:access` is, in its order of gates, passes, loops |
| `todo`, `pending` | rules of the list still to evaluate; matches of a pass to apply |
| `rc` | `rule_controls`: off, observe, forced, noBody, removed |
| `inspected`, `uninspected` | the body was read; no getter returns it any more |
| `rule`, `channel` | what the loaded rules declare, chosen at the start |
| `evaluated`, `applied`, `acted` | ghosts: history of the request |

Whether a condition matches is a choice, so every combination of matches is
explored. Rules differ in what bears on order: the controls they carry, the
rules they remove, their terminal actions, what they read, their override. A
rule with `engine_on` and `detection_only` together is not enumerated.

*Runs.* `access_rules`: three rules of two channels, from eleven shapes: three is
a control, one it bears on, and one in between. `access_body_gates`: two rules
of the other channels, every kind of body, every limit broken alone (one header
gate stands for the four, which are alike), and the pairs that meet on one body. A request ends, so deadlock is not an error there.
`GatesHold` excludes, in `Bound`, a multipart body that is both over the size
limit and malformed: that is what `access_unparsable_body` shows (section 4).

*Not a property.* A terminal match ends its list also when its action is not
carried out (under the limit, or overridden to passthrough), while a comment says
the request continues "as if the rule hadn't fired" (`handler.lua:957`).

*Proved*, for any set of rules whatever they declare: `TypeCorrect`,
`SwitchCorrect`, `OffHolds`, `ActsCorrect`. `SwitchCorrect` goes through `Lasts`: a lemma
says what appending a rule to the history does to "the last one declared", and
another that observe and forced are never both set (`Exclusive`). `ActsCorrect` adds
`Removals`: the removed rules are those removed by the applied ones.

Also proved are `RulesRunOnce`, `ExclusionsRunFirst`, `GatesNeverSkipped` and `SwitchedOffIsUnread`. The first two
rest on `Filing` (what waits belongs to the list reached, and no rule was evaluated of a list
further on) and `PassesDone` (a pass left behind, unless the engine was switched off, has evaluated all its
rules): a rule is of one list, so one that was evaluated is not met again further on. The two about bodies rest on `BodyOffSaid` (the
flag is up exactly if an applied rule says so), `ReadInOrder` (before its size is checked nobody has
read the body, and up to the parser gate only the count of a multipart body's fields, over the limit, has) and
`GatesSaid`, which is `GatesHold` in terms of the flag. `ReadInOrder` is where the finding of section 4
comes in: its exception is the body the parser gate then no longer sees.

### 3.5 ConsoleFeed and FeedPromise

| TLA+ | code |
|---|---|
| `inventory` | `_kong_inventory_cache`: the version it was read at, its age, its generation |
| `payload` | `_cache`, the assembled dashboard |
| `loader`, `task` | `_kong_inventory_lock` and the load under it, a background refresh |
| `req[p]["current"]`, `["superseded"]` | the fetch of `useDashboard` and one it gave up |
| `req[p]["refresh"]` | "Refresh" of the services view, which forces a load |
| `writer[h]` | a write handler between its PATCH and `_clear_kong_caches` |
| `shown[p]` | the payload on the page |

Configurations are numbered in the order Kong held them. A load notes the generation,
reads Kong, and keeps its result only if no write raised the generation
meanwhile; the payload it answers with may be one nobody should keep. `Fetch` is
the timer of 15 s or the reload after a write, and gives up what was under way: a
late answer is ignored (`alive`). Writes may reach Kong and fail before they clear
the caches (`FailAfterLanding`, and any change that does not go through the
console): then only ageing brings the caches up to date.

*Run.* `console_feed`: one page and one write handler, two writes, one fault (Kong
unreachable, an answer lost, a write that is not announced). Two writes
make three configurations: older, seen and newest; the three requests of the page and
the background refresh meet at the lock.

*Refinement.* `KeepsThePromise` is `FeedPromise!Spec`: a page shows what Kong has held
and never goes back to an older one than it has shown. The variables have the same
names, so the mapping is the identity on them.

*Proved* (`ConsoleFeedProofs`), for any pages, handlers, writes and faults: `TypeCorrect`, `NotStale`, and the
refinement, `PromiseKept`. The type invariant says more than types: a request is loading
exactly when it holds the lock. `Overtaken`: the cache is empty while a load that a write overtook runs, so
nobody publishes something newer for it to undo. `NothingStale` is `InventoryNotStale` for the load that
may still be kept as well. `InOrder` is why the page never goes back: the versions in the load, the
inventory, the payload, the answer and on the page are in this order, whatever of them there is.

*Fairness.* Timers fire, handlers run on, caches age. The lock of asyncio is first
come first served, and a page's fetch is overtaken by the next poll at most when it
takes 15 s: hence strong fairness of `TakeLock` and of `Render`. Operators need
not do anything. Faults are bounded: Kong comes back.

### 3.6 ConsoleEdits

| TLA+ | code |
|---|---|
| `hist` | every configuration the plugin has had in Kong; the last is in force |
| `modal[c]`, `confirm[c]` | `RuleModal`, `OverrideModal`, `ServiceModal`; the confirmation of `run` |
| `calls[c]["row"]`, `["dialog"]` | the request of a table's button and that of a dialog: separate `useAction`s |
| `GetPlugin`, `PatchPlugin` | `_kong_get_plugin` with `_check_entry`, and `_patch_cfg` |
| `PatchFails` | Kong refuses, or takes the write and the handler fails after it |

Pages show what `FeedPromise` allows: `Render` is its `Show`, so what was checked of
`ConsoleFeed` is what is assumed here. Rules and overrides are lists of texts, a text
standing for its tag.

*Run.* `console_edits`: two tabs (symmetric), two rules, no override, two texts, two writes,
one fault. Two writes overlap or follow each other, before and after the other tab's
page shows the first; a list of two shifts under a position.
`SoloWriteIsAsSeen` is about writes whose handler no other overlaps: those that do overlap
lose updates (section 4). An operator who sees the page stop has nothing to do, so
deadlock is not checked. (`TypeOK` is stated in the module and proved; the run checks what says more.)

*Proved* (`ConsoleEditsProofs`), for any operators, lists, texts and calls: `TypeCorrect` and `SoloWrites`. The
inductive invariant, `EditsInv`, types every body by what it means (`Meant`: the tag sent is the tag
seen, an untouched setting is not sent) and says of a call past the check that Kong did hold the
configuration it read and that the check accepted it there (`Grounded`). As Kong's history only grows, that stays
true until the PATCH; when nothing landed in between, it is true of the configuration in force.

### 3.7 AssistantActions and ActionPromise

| TLA+ | code |
|---|---|
| `store[a]` | a row of `actions` or `proposals`: status, conversation |
| `handler[a]` | how far authorize or apply is: claimed, checked, landed |
| `ran[a]` | ghost: how often Kong took the change |
| `note[a]` | what the transcript tells the model of an action |
| `run[r]` | a run of the agent and the stream that carries its events |
| `param`, `conv`, `cards`, `load` | route, conversation and cards of `Assistant.jsx`, its GET |
| `call`, `busy`, `running`, `controller` | its one write, `busyId`, "Working", the abort controller |

`Authorize` claims the row, `Check` compares the entity with the one reviewed,
`Write` changes Kong, `Finish` records it: each is a step, with rejections,
expiry, messages, a deleted conversation, a second operator and `Restart` in between. A
proposal whose attempt failed is pending again and may be tried anew; an action is not.

*Run.* `assistant_actions`: two conversations, one action and one proposal of which one
is made, two runs, four things operators do, one fault. Four is a message, a
click, another click or message and a change of conversation; one change
suffices as changes do not meet but in the view, whose cards are of both sorts.

*Refinement.* `KeepsThePromise` maps the statuses and handlers to the four phases of
`ActionPromise` (`Phase`): a change runs at most once, after a click, and not once it
was closed. *Fairness.* Requests are answered, handlers run on and runs end (`MAX_AGENT_STEPS`);
operators are not fair. `ButtonsComeBack` excepts the case where the reload after a
refused click fails too (`stranded`): then the code leaves the card as it is until the
view is left.

*Proved* (`AssistantActionsProofs`), for any actions, proposals, conversations, runs and faults: `TypeCorrect`,
`TruthTold`, and the refinement, `PromiseKept`. First every step is sorted by what it does to one row
(made, claimed, written, recorded, closed, ...). `Ledger` then relates a row, its handler,
how often Kong took it and what the transcript says of it; `Shown` says that a card on screen, or on its way in
an answer, was true of the row when it was read and that this cannot become false; `AskedByClick` that
whatever the tab asks to be authorized was clicked, which is what the promise asks of a run.

### 3.8 ConsoleApp: one tab

`ConsoleSession` holds `place`, the screen shown, which all the views share. Each
view's module says what it loses when the place changes (`TargetsLeft`,
`ListsLeft`, ...) and `ConsoleApp` puts them together: `Navigate` is any step
that moves the tab, by the operator, by a refused poll or by a late answer. Requests under way
go on, and `heard` says whether the component that sent them still is there.

| TLA+ | code |
|---|---|
| `current`, `token` | `token_version` in the API, the token in `sessionStorage` |
| `auth["form"]`, `auth["account"]` | sign-in form; sign-out and password buttons, which may overlap |
| `Unauthorized` | `onUnauthorized`: a 401 drops whatever token the tab holds by now |
| `saved`, `active` | the settings rows of the Kong connections |
| `job[j]` | a call of the setup's check, of the buttons, of another browser; `snap`: what an activation read before its probe |
| `profile`, `draft`, `aiJob` | rows of `ai_profiles`, the form, its one call |
| `data`, `filter`, `page`, `opened` | payload rows, filters, page, the event in the hash |
| `rule`, `builder`, `raw`, `dialog` | the rule in Kong; guided form, raw texts and tab of `RuleModal` |
| `conf`, `policy`, `policyJob` | plugins in Kong, the form of `ServiceModal`, its update |

A profile is reduced to where it is (`at`: provider and origin of its URL) and to the
endpoint its key was entered for. An exclusion is reduced to a set of controls: a rule or a
tag taken out for a target. `BuilderFor` and `BuildNativeRule` are what
`exclusions.js` does in both directions: `TargetsOf` cuts a field at its commas and puts a
header in lower case, `HasField` takes what others wrote as it is spelt, but for a text with
commas, whose pieces are no targets, and `Cut` cuts an id or a tag. `Several` and `Comma` stand for such texts, of
all the ids (or tags) and of all the names; texts longer than the form's 240
characters, which it cuts off, are not modelled. What the rest of a rule says is `detail`.

*Run.* `console_app`: everything at once with two things done by operators (`MaxAsks`,
counted where a click could be repeated for ever: navigation in the setup, answers
and loads are free), two targets, two profiles, three endpoints, two rows in pages of one, three services
of which one has no plugin and one refers to a missing file, three names of fields of which one
is another in capitals, and ten rules others may write, with headers in capitals and ids and
fields with commas among them. With one thing each in two
components the run has every pair that can meet; three in one component were checked while the
modules were written. A tab may rest, so deadlock is not checked.

`KeyGoesHome` and `PasswordStaysHome` compare what is stored with a label put on a secret when
it was typed. `SwitchesToWhatAnswered` is an action property: an
activation writes back the list it read before its probe, which keeps the active
target saved (`ActiveIsSaved`) and undoes what was changed meanwhile (section 4).
`ReopensTheSame` compares what the form would save with the rule it was opened on, in a
normal form (`Normal`) that says what the form does not keep, the capitals of headers and
the commas of ids and tags: nothing else may be lost, and no control may be added.

*Proved* (`ConsoleAppProofs`), for any targets, profiles, endpoints, services, rows, controls and
bounds: `SignedInWithToken`, `PasswordsStayHome`, `KeysGoHome`, `ActiveTargetIsSaved`,
`SwitchesCorrectly`, `PagesHaveRows`, `ReopenedUnchanged`. The parts share only `place` and the calls of the session, so lemmas first say which
variables a part's steps leave alone (`SessionSteps`, `ServicesSteps`, `ProfilesSteps`,
`TargetsSteps`); each property then has to be preserved by the steps of one part. What the properties
say is not inductive; what is added to each:

- `SessionInv`: every successful answer under way, but a sign-out's, carries a token. Without
  it a late answer could sign the tab in with nothing.
- `PasswordInv`: a password typed in the form, or in the update under way, is of the service
  that the form or the update is about.
- `KeyInv`, `FormInv`: the forms, the one on screen and the one a call was sent with, are about
  profiles there may be, so that what a save stores lands in a record of `Profiles`.
- `JobsInv`, `CardInv`, `SavedInv`: an activation that probes has its target in the list it read, and
  a list answered to the tab contains the target it calls active: the facts that make
  writing the old list back safe for the active target.
- `ListsInv`: the lists are finite sets of numbers and the page is one. `RankFacts` then
  shows that a page within the clamp has a row, by counting the rows before it.
- `DialogInv`, `JobInv`: the form of a rule nobody touched is the one made of that rule (`Faithful`), the dialog
  and the save under way hold well-formed rules, and so does Kong. That a form
  made of controls writes these controls, in the normal form, is a lemma of its own (`ReadsBack`), for any
  finite sets of ids, tags and names, and any spelling in lower case.

## 4. Known disagreements

Places where the code does other than a comment or a document says. One is shown by a run;
the others the models contain, and the properties are stated around them.

- `access_unparsable_body` (a run): a multipart body parsed first by the size gate is cached
  without its parser error, and the parser gate then lets it pass (`findings`).
- A version does not identify a pack across a deletion. After `DEL`, publishing starts
  again at version 1, and a worker compares versions for equality
  (`ka_global_rules.lua:795`): one that did not poll in between keeps the deleted
  rules, where the publisher says "every Karna worker applies it within its poll
  interval" (`karna-rules.py:710`).
- "An omitted format is PRESERVED" (`karna-rules.py:633`) holds of the hash as it was
  at start-up (line 574), before the prompts: of two publishers who
  push one format each the second wipes the first's, and both carry one version.
- `ka_engine.lua:1686` says that an `engine_off` applied earlier in the same pass is respected; in a controls pass
  the matches are applied after it (`apply_pass_rule_controls` in `handler.lua`).
- `schema.lua:270` has a response override customise a block; on a rule that
  sanitizes, `handler.lua:752` puts `fix_matched_parts` back and the request is sanitized.
- "Something changed elsewhere in the meantime is never overwritten by mistake"
  (`dashboard/README.md:177`), "a concurrent change cannot make us replace or delete a
  different one" (`app.py:2929`): the tag is compared with the GET, and the PATCH sends
  back the whole configuration. Two writes whose handlers overlap lose one of them.
  An activation of a Kong target does the same with the list it read before its probe.
- The override dialog makes its request before the confirmation is shown (`OverrideModal.jsx:106`
  passes a promise): declining closes the question, not the change.

- The form "round-trips supported controls into guided fields" (`exclusions.test.js`), but changes what
  others wrote in other spellings. An id or a tag with a comma, one that no rule has,
  comes back as those between its commas, and saving excludes these. A header in capitals comes back in lower
  case: the same for a rule that inspects all headers, but one whose own variable has the
  capitals keeps its value under them, and only the exact key finds it there (`ka_engine.lua:187` and 1281-1293).
- A 401 "means the session expired or was revoked" (`api.js:2-3`): of a request sent with
  an earlier token it may arrive after the operator signed in again, and ends the new session (`Unauthorized`).

Also true of the code, without a statement against it: a save that succeeds after its
dialog was closed closes the next dialog of that kind; a service configured with a plugin
file that is missing takes no update of its policy until that is switched off; an action claimed when the
API stops stays "executing"; the setup's AI step goes on to the last step when its
save is answered, wherever in the wizard the operator is by then.

## 5. What the proofs assume, and what only TLC checks

Proofs use the named assumptions of the modules (`GlobalRulesAssumption`,
`ConfCacheAssumption`, `RateLimitAssumption`, `ObservedAssumption`,
`PipelineAssumption`, `FeedAssumption`, `EditsAssumption`, `ActionsAssumption`, `SessionAssumption`,
`ServicesAssumption`, `TargetsAssumption`, `ProfilesAssumption`, `ListsAssumption`, `RuleFormAssumption`): types of
the constants, sentinels that are not values, positive limits, finite sets of names. Two say a little
more: there is a value of the advanced settings to start with, and the texts with commas (`Comma`, `Several`) are none of
the names, ids and tags they are cut into, of which the first is not the only name. TLC evaluates them in every run. The
bounds (`MaxWrites`, `MaxSeq`, ...) are any natural numbers in the proofs.

TLAPS here proves no liveness under fairness and nothing by ENABLED: `EveryWorkerApplies`,
`EveryWindowEnds`, `PagesConverge` and `ButtonsComeBack` are checked by TLC only. So is
`UnparsableRefused`, of the run that expects a violation. Every other property
of a run has its theorem. Nothing is proved by an induction theorem, as these take an operator as a parameter;
where a claim about every natural number is needed it is shown by a least counterexample (section 3.3).

The proofs in turn cover what the runs leave out: several clients behind one
identity, no `resty.sha256`, several prefixes, two blocking instances.

## 6. What is not modelled

- What a rule matches: variables, transformations, operators, the four matchers.
  `AccessPipeline` takes every outcome.
- In the access phase: removal of single targets, `audit_request_body`,
  `set_variable` and redis side effects, the response-phase lists, paranoia and
  category switches, and `rcontrol_rules`, which is always empty.
- The merge of disk and Redis packs; rule-driven Redis writes; MCP; audit ingestion: see the plan.
- Parsers, compilers, TLS fingerprints, redaction, audit layout: pure functions
  of bytes, whose correctness is about text.
- In the console: the demo backend and its sample data, the scenes, charts and maps, the
  overview and audit views, which only show the payload; the log retention card; the JSON
  editor; the filter of the service list and the palette's own selection; the browser's back button inside a
  forced setup; the sign-in throttle; hashing of passwords, signing of tokens, encryption of keys;
  serialisation and validation of entries; which AI profile is the default and the
  tag beside its form; what the assistant's model says.
- Build, deployment and tests: no state of the running system.
