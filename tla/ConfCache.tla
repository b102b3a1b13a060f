----------------------------- MODULE ConfCache -----------------------------
(***************************************************************************)
(* The per-worker cache of compiled configurations (handler.lua): what a   *)
(* request evaluates is compiled from its plugin_conf table, and the       *)
(* compiled sets are shared between requests under a key made of the       *)
(* plugin id and a hash of the configuration.                              *)
(*                                                                         *)
(* Kong hands out a new configuration table, with a growing __seq__, each  *)
(* time it rebuilds its plugins iterator; requests in flight keep the      *)
(* table they started with; a table nobody holds is collected and its      *)
(* address is used again.  CRS exclusion plugin files are read from disk   *)
(* twice, once for the hash and once to compile, and other processes edit  *)
(* them at any time.                                                       *)
(***************************************************************************)
EXTENDS Naturals

CONSTANTS
  Instances,      \* __plugin_id of each Karna instance
  Addresses,      \* addresses a configuration table may live at
  Requests,       \* requests that may be in flight in the worker
  Contents,       \* configurations (every field except __seq__)
  DiskContents,   \* contents of the CRS exclusion plugin directories
  ReadsDisk,      \* configurations that enable CRS exclusion plugins
  Prefixes,       \* CONF_CACHE_PREFIXES
  DynRules,       \* the prefix compiled from disk: plugin_dyn_rules
  HashAvailable,  \* resty.sha256 loads
  None,           \* nil
  Uncacheable,    \* conf_identity's false
  MaxSeq,         \* bound: configuration tables Kong hands out
  MaxEdits        \* bound: edits of the plugin directories

Seqs == 1 .. MaxSeq

Tables == [pid : Instances, seq : Seqs \cup {0}, content : Contents]

\* "<__plugin_id>:<hash>": the hash pins content and files; without sha256 the
\* fallback s<__seq__> pins the table.
Ids == [pid : Instances, content : Contents \cup {None},
        disk : DiskContents \cup {None}, seq : Seqs \cup {0}]

Generations == [seq : Seqs, id : Ids, dead : BOOLEAN]

\* What a compiled set was compiled from.
Compiled == [pid : Instances, content : Contents, disk : DiskContents \cup {None}]

Entries == [prefix : Prefixes, id : Ids, value : Compiled]

ASSUME ConfCacheAssumption ==
  /\ ReadsDisk \subseteq Contents
  /\ DynRules \in Prefixes
  /\ HashAvailable \in BOOLEAN
  /\ MaxSeq \in Nat /\ MaxEdits \in Nat
  /\ None \notin Seqs \cup Tables \cup Generations \cup Compiled \cup Addresses
  /\ None \notin Contents \cup DiskContents
  /\ Uncacheable \notin Seqs \cup {None}

VARIABLES
  seq,       \* Kong's shared-dict counter: the last __seq__ given out
  heap,      \* the configuration table at each address, None if free
  current,   \* per instance, the address of the table new requests get
  holds,     \* per request, the address of its plugin_conf, None when idle
  served,    \* per request, the compiled set the last getter returned
  conf_identity,    \* per address (weak keys): None, Uncacheable or a generation
  generations,      \* generation records, named by the __seq__ that created them
  conf_cache_live,  \* per instance, the live generation
  conf_cache,       \* the LRU
  disk,      \* the CRS exclusion plugin files
  edits      \* bounded counter of disk edits

vars == <<seq, heap, current, holds, served, conf_identity, generations,
          conf_cache_live, conf_cache, disk, edits>>

kong == <<seq, heap, current>>
identities == <<conf_identity, generations, conf_cache_live>>

Init ==
  /\ seq = 0
  /\ heap = [a \in Addresses |-> None]
  /\ current = [p \in Instances |-> None]
  /\ holds = [r \in Requests |-> None]
  /\ served = [r \in Requests |-> None]
  /\ conf_identity = [a \in Addresses |-> None]
  /\ generations = [s \in Seqs |-> None]
  /\ conf_cache_live = [p \in Instances |-> None]
  /\ conf_cache = {}
  /\ disk \in DiskContents
  /\ edits = 0

(***************************************************************************)
(* Kong and the operator (outside the plugin)                              *)
(***************************************************************************)
\* A plugins-iterator rebuild gives an instance a new table, with the same or
\* another content.  __seq__ 0 is Kong's "shared-dict incr failed".
NewTable(p, a, content) ==
  /\ heap[a] = None
  /\ seq < MaxSeq
  /\ seq' = seq + 1
  /\ \E stamp \in {seq + 1, 0} :
       heap' = [heap EXCEPT ![a] = [pid |-> p, seq |-> stamp, content |-> content]]
  /\ current' = [current EXCEPT ![p] = a]
  /\ UNCHANGED <<holds, served, identities, conf_cache, disk, edits>>

\* The plugin instance is deleted; what the worker cached for it stays.
RemoveInstance(p) ==
  /\ current[p] # None
  /\ current' = [current EXCEPT ![p] = None]
  /\ UNCHANGED <<seq, heap, holds, served, identities, conf_cache, disk, edits>>

\* conf_identity is keyed weakly: an entry goes with its table.
ForgetTable_Strong(a) == conf_identity

ForgetTable(a) == [conf_identity EXCEPT ![a] = None]

\* A table nobody holds is collected.
Collect(a) ==
  /\ heap[a] # None
  /\ \A p \in Instances : current[p] # a
  /\ \A r \in Requests : holds[r] # a
  /\ heap' = [heap EXCEPT ![a] = None]
  /\ conf_identity' = ForgetTable(a)
  /\ UNCHANGED <<seq, current, holds, served, generations, conf_cache_live,
                 conf_cache, disk, edits>>

StartRequest(r, p) ==
  /\ holds[r] = None
  /\ current[p] # None
  /\ holds' = [holds EXCEPT ![r] = current[p]]
  /\ served' = [served EXCEPT ![r] = None]
  /\ UNCHANGED <<kong, identities, conf_cache, disk, edits>>

EndRequest(r) ==
  /\ holds[r] # None
  /\ holds' = [holds EXCEPT ![r] = None]
  /\ served' = [served EXCEPT ![r] = None]
  /\ UNCHANGED <<kong, identities, conf_cache, disk, edits>>

EditDisk(content) ==
  /\ edits < MaxEdits
  /\ content # disk
  /\ disk' = content
  /\ edits' = edits + 1
  /\ UNCHANGED <<kong, holds, served, identities, conf_cache>>

\* LRU pressure drops any entry.
Evict(e) ==
  /\ conf_cache' = conf_cache \ {e}
  /\ UNCHANGED <<kong, holds, served, identities, disk, edits>>

(***************************************************************************)
(* conf_identity_new: once per table per worker                            *)
(***************************************************************************)
\* What this table's files are: only a configuration that enables CRS plugins
\* reads any.
FilesOf(content) == IF content \in ReadsDisk THEN disk ELSE None

IdOf(t) ==
  IF HashAvailable
    THEN [pid |-> t.pid, content |-> t.content, disk |-> FilesOf(t.content), seq |-> 0]
    ELSE [pid |-> t.pid, content |-> None, disk |-> None, seq |-> t.seq]

Unidentified(r, a) == holds[r] = a /\ a # None /\ conf_identity[a] = None

Remember(a, identity) ==
  /\ conf_identity' = [conf_identity EXCEPT ![a] = identity]
  /\ UNCHANGED <<kong, holds, served, disk, edits>>

Unsafe_Never(t) == FALSE

\* No __seq__ to order the table by: it is never cached.
Unsafe(t) == t.seq = 0

IdentifyUnsafe(r, a) ==
  /\ Unidentified(r, a)
  /\ Unsafe(heap[a])
  /\ Remember(a, Uncacheable)
  /\ UNCHANGED <<generations, conf_cache_live, conf_cache>>

LiveOf(t) == generations[conf_cache_live[t.pid]]

HasLive(t) == conf_cache_live[t.pid] # None

OlderThanLive_Never(t) == FALSE

\* The table is older than the live generation: a request in flight across a
\* rebuild.
OlderThanLive(t) == HasLive(t) /\ t.seq < LiveOf(t).seq

IdentifyOlder(r, a) ==
  /\ Unidentified(r, a)
  /\ ~Unsafe(heap[a])
  /\ OlderThanLive(heap[a])
  /\ Remember(a, IF LiveOf(heap[a]).id = IdOf(heap[a])
                   THEN conf_cache_live[heap[a].pid] ELSE Uncacheable)
  /\ UNCHANGED <<generations, conf_cache_live, conf_cache>>

\* A rebuild that changed nothing for this instance: the generation goes on.
IdentifySame(r, a) ==
  /\ Unidentified(r, a)
  /\ ~Unsafe(heap[a])
  /\ HasLive(heap[a]) /\ ~OlderThanLive(heap[a])
  /\ LiveOf(heap[a]).id = IdOf(heap[a])
  /\ Remember(a, conf_cache_live[heap[a].pid])
  /\ generations' = [generations EXCEPT ![conf_cache_live[heap[a].pid]] =
       [seq |-> heap[a].seq, id |-> LiveOf(heap[a]).id, dead |-> LiveOf(heap[a]).dead]]
  /\ UNCHANGED <<conf_cache_live, conf_cache>>

Superseded_Incoming(t) == {e \in conf_cache : e.id = IdOf(t)}

\* The entries of the generation that goes, under every prefix.
Superseded(t) == {e \in conf_cache : HasLive(t) /\ e.id = LiveOf(t).id}

\* The generation records with the outgoing one marked dead.
Retired(t) ==
  IF HasLive(t)
    THEN [generations EXCEPT ![conf_cache_live[t.pid]] =
            [seq |-> LiveOf(t).seq, id |-> LiveOf(t).id, dead |-> TRUE]]
    ELSE generations

\* The first table of an instance, or a configuration that changed.
IdentifyNew(r, a) ==
  /\ Unidentified(r, a)
  /\ ~Unsafe(heap[a])
  /\ ~OlderThanLive(heap[a])
  /\ HasLive(heap[a]) => LiveOf(heap[a]).id # IdOf(heap[a])
  /\ LET t == heap[a]
     IN /\ Remember(a, t.seq)
        /\ generations' = [Retired(t) EXCEPT ![t.seq] =
             [seq |-> t.seq, id |-> IdOf(t), dead |-> FALSE]]
        /\ conf_cache_live' = [conf_cache_live EXCEPT ![t.pid] = t.seq]
        /\ conf_cache' = conf_cache \ Superseded(t)

(***************************************************************************)
(* The getters: get_plugin_dynamic_rules, get_local_request_rules,         *)
(* get_overrides_cached, resolve_arg_limit_override, get_redact_spec_cached *)
(***************************************************************************)
Identified(r, a) == holds[r] = a /\ a # None /\ conf_identity[a] # None

\* conf_cache_key returns a key.
Cacheable(a) ==
  /\ conf_identity[a] # Uncacheable
  /\ ~generations[conf_identity[a]].dead

KeyId(a) == generations[conf_identity[a]].id

Hits(a, prefix) == {e \in conf_cache : e.prefix = prefix /\ e.id = KeyId(a)}

Compile(t, prefix) ==
  [pid |-> t.pid, content |-> t.content,
   disk |-> IF prefix = DynRules THEN FilesOf(t.content) ELSE None]

Serve(r, value) ==
  /\ served' = [served EXCEPT ![r] = value]
  /\ UNCHANGED <<kong, holds, identities, disk, edits>>

GetUncached(r, a, prefix) ==
  /\ Identified(r, a)
  /\ ~Cacheable(a)
  /\ Serve(r, Compile(heap[a], prefix))
  /\ UNCHANGED conf_cache

GetHit(r, a, prefix) ==
  /\ Identified(r, a)
  /\ Cacheable(a)
  /\ \E e \in Hits(a, prefix) : Serve(r, e.value)
  /\ UNCHANGED conf_cache

GetMiss(r, a, prefix) ==
  /\ Identified(r, a)
  /\ Cacheable(a)
  /\ Hits(a, prefix) = {}
  /\ Serve(r, Compile(heap[a], prefix))
  /\ conf_cache' = conf_cache \cup
       {[prefix |-> prefix, id |-> KeyId(a), value |-> Compile(heap[a], prefix)]}

Identify(r, a) ==
  \/ IdentifyUnsafe(r, a)
  \/ IdentifyOlder(r, a)
  \/ IdentifySame(r, a)
  \/ IdentifyNew(r, a)

Get(r, a, prefix) ==
  \/ GetUncached(r, a, prefix)
  \/ GetHit(r, a, prefix)
  \/ GetMiss(r, a, prefix)

Next ==
  \/ \E p \in Instances, a \in Addresses, c \in Contents : NewTable(p, a, c)
  \/ \E p \in Instances : RemoveInstance(p)
  \/ \E a \in Addresses : Collect(a)
  \/ \E c \in DiskContents : EditDisk(c)
  \/ \E e \in conf_cache : Evict(e)
  \/ \E r \in Requests :
       \/ \E p \in Instances : StartRequest(r, p)
       \/ EndRequest(r)
       \/ \E a \in Addresses :
            Identify(r, a) \/ \E prefix \in Prefixes : Get(r, a, prefix)

Spec == Init /\ [][Next]_vars

-----------------------------------------------------------------------------
(***************************************************************************)
(* Properties                                                              *)
(***************************************************************************)
TypeOK ==
  /\ seq \in Seqs \cup {0}
  /\ heap \in [Addresses -> Tables \cup {None}]
  /\ current \in [Instances -> Addresses \cup {None}]
  /\ holds \in [Requests -> Addresses \cup {None}]
  /\ served \in [Requests -> Compiled \cup {None}]
  /\ conf_identity \in [Addresses -> Seqs \cup {None, Uncacheable}]
  /\ generations \in [Seqs -> Generations \cup {None}]
  /\ conf_cache_live \in [Instances -> Seqs \cup {None}]
  /\ conf_cache \subseteq Entries
  /\ disk \in DiskContents
  /\ edits \in Nat

\* A request only ever evaluates rules compiled from its own configuration:
\* never another instance's, never an older or newer configuration of its own,
\* whatever was rebuilt, evicted, collected or given a reused address meanwhile.
ServesOwnConfiguration ==
  \A r \in Requests :
    served[r] # None =>
      /\ served[r].pid = heap[holds[r]].pid
      /\ served[r].content = heap[holds[r]].content

\* "the LRU never holds more than one generation per instance": every entry an
\* instance has belongs to its live generation, so superseded rules are neither
\* kept nor brought back by a request that outlived them.
OneGenerationPerInstance ==
  \A e \in conf_cache :
    /\ conf_cache_live[e.id.pid] # None
    /\ generations[conf_cache_live[e.id.pid]].id = e.id

\* The live generation of an instance never goes back to an older table: a
\* straggler cannot displace the configuration that replaced its own.
LiveNeverGoesBack ==
  [][\A p \in Instances :
       conf_cache_live[p] # None =>
         /\ conf_cache_live'[p] # None
         /\ generations'[conf_cache_live'[p]].seq >= generations[conf_cache_live[p]].seq]_vars
=============================================================================
