-------------------------- MODULE ConfCacheProofs --------------------------
(***************************************************************************)
(* TLAPS proofs about ConfCache, for any number of instances, addresses,   *)
(* requests and rebuilds, with sha256 (the key pins the content) and       *)
(* without it (the key pins the table).                                    *)
(***************************************************************************)
EXTENDS ConfCache, TLAPS

-----------------------------------------------------------------------------
(* Type correctness.                                                       *)

LEMMA IdType ==
  ASSUME NEW t \in Tables, disk \in DiskContents
  PROVE  IdOf(t) \in Ids
  BY DEF IdOf, Ids, Tables, FilesOf

LEMMA CompileType ==
  ASSUME NEW t \in Tables, NEW prefix \in Prefixes, disk \in DiskContents
  PROVE  Compile(t, prefix) \in Compiled
  BY DEF Compile, Compiled, Tables, FilesOf

\* Facts about the table and the live generation a conf_identity_new works on.
LEMMA LiveType ==
  ASSUME TypeOK, NEW r \in Requests, NEW a \in Addresses, heap[a] # None
  PROVE  /\ heap[a] \in Tables
         /\ heap[a].pid \in Instances /\ heap[a].seq \in Seqs \cup {0}
         /\ HasLive(heap[a]) => conf_cache_live[heap[a].pid] \in Seqs
  BY DEF TypeOK, Tables, HasLive

\* A request holds a table that is still there; a cached identity belongs to a
\* table that is still there, and names a generation that exists.
HeapInv ==
  /\ \A r \in Requests : holds[r] # None => heap[holds[r]] # None
  /\ \A r \in Requests : served[r] # None => holds[r] # None
  /\ \A p \in Instances : current[p] # None => heap[current[p]] # None
  /\ \A a \in Addresses : conf_identity[a] # None => heap[a] # None
  /\ \A a \in Addresses :
       conf_identity[a] \notin {None, Uncacheable} => generations[conf_identity[a]] # None
  /\ \A p \in Instances :
       conf_cache_live[p] # None => generations[conf_cache_live[p]] # None

TypeInv == TypeOK /\ HeapInv

LEMMA TypeInit == Init => TypeInv
  BY ConfCacheAssumption DEF Init, TypeInv, TypeOK, HeapInv, Seqs

LEMMA TypeStep == TypeInv /\ [Next]_vars => TypeInv'
<1> USE ConfCacheAssumption
<1> SUFFICES ASSUME TypeInv, [Next]_vars PROVE TypeInv'
  OBVIOUS
<1> USE DEF TypeInv, TypeOK, HeapInv
<1>1. CASE UNCHANGED vars
  BY <1>1 DEF vars
<1>2. ASSUME NEW p \in Instances, NEW a \in Addresses, NEW c \in Contents,
             NewTable(p, a, c)
      PROVE  TypeInv'
  <2>1. PICK stamp \in {seq + 1, 0} :
          heap' = [heap EXCEPT ![a] = [pid |-> p, seq |-> stamp, content |-> c]]
    BY <1>2 DEF NewTable
  <2>2. seq + 1 \in Seqs /\ stamp \in Seqs \cup {0}
    BY <1>2 DEF NewTable, Seqs
  <2>3. [pid |-> p, seq |-> stamp, content |-> c] \in Tables
    BY <2>2 DEF Tables
  <2>4. QED
    BY <1>2, <2>1, <2>2, <2>3 DEF NewTable, identities
<1>3. ASSUME NEW p \in Instances, RemoveInstance(p) PROVE TypeInv'
  BY <1>3 DEF RemoveInstance, identities
<1>4. ASSUME NEW a \in Addresses, Collect(a) PROVE TypeInv'
  BY <1>4 DEF Collect, ForgetTable
<1>5. ASSUME NEW c \in DiskContents, EditDisk(c) PROVE TypeInv'
  BY <1>5 DEF EditDisk, kong, identities
<1>6. ASSUME NEW e \in conf_cache, Evict(e) PROVE TypeInv'
  BY <1>6 DEF Evict, kong, identities
<1>7. ASSUME NEW r \in Requests, NEW p \in Instances, StartRequest(r, p) PROVE TypeInv'
  BY <1>7 DEF StartRequest, kong, identities
<1>8. ASSUME NEW r \in Requests, EndRequest(r) PROVE TypeInv'
  BY <1>8 DEF EndRequest, kong, identities
<1>9. ASSUME NEW r \in Requests, NEW a \in Addresses, IdentifyUnsafe(r, a)
      PROVE  TypeInv'
  BY <1>9 DEF IdentifyUnsafe, Remember, Unidentified, kong
<1>10. ASSUME NEW r \in Requests, NEW a \in Addresses, IdentifyOlder(r, a)
       PROVE  TypeInv'
  <2>1. heap[a] # None
    BY <1>10 DEF IdentifyOlder, Unidentified
  <2>2. conf_cache_live[heap[a].pid] \in Seqs /\ generations[conf_cache_live[heap[a].pid]] # None
    BY <1>10, <2>1, LiveType DEF IdentifyOlder, OlderThanLive, HasLive
  <2>3. PICK i \in {conf_cache_live[heap[a].pid], Uncacheable} :
          conf_identity' = [conf_identity EXCEPT ![a] = i]
    BY <1>10 DEF IdentifyOlder, Remember
  <2>4. QED
    BY <1>10, <2>1, <2>2, <2>3 DEF IdentifyOlder, Remember, Unidentified, kong
<1>11. ASSUME NEW r \in Requests, NEW a \in Addresses, IdentifySame(r, a)
       PROVE  TypeInv'
  <2> DEFINE g == conf_cache_live[heap[a].pid]
             record == [seq |-> heap[a].seq, id |-> LiveOf(heap[a]).id,
                        dead |-> LiveOf(heap[a]).dead]
  <2>1. heap[a] # None /\ g \in Seqs /\ generations[g] \in Generations
    BY <1>11, LiveType DEF IdentifySame, HasLive, Unidentified
  <2>2. record \in Generations
    BY <1>11, <2>1, LiveType DEF IdentifySame, Unsafe, LiveOf, Generations
  <2>3. /\ generations' = [generations EXCEPT ![g] = record]
        /\ conf_identity' = [conf_identity EXCEPT ![a] = g]
        /\ UNCHANGED <<kong, holds, served, disk, edits, conf_cache_live, conf_cache>>
    BY <1>11 DEF IdentifySame, Remember
  <2> HIDE DEF record
  <2>4. record # None
    BY <2>2
  <2>5. QED
    BY <2>1, <2>2, <2>3, <2>4 DEF kong
<1>12. ASSUME NEW r \in Requests, NEW a \in Addresses, IdentifyNew(r, a)
       PROVE  TypeInv'
  <2> DEFINE t == heap[a]
             record == [seq |-> t.seq, id |-> IdOf(t), dead |-> FALSE]
  <2>1. t # None /\ t \in Tables /\ t.seq \in Seqs /\ t.pid \in Instances
    BY <1>12, LiveType DEF IdentifyNew, Unidentified, Unsafe
  <2>2. record \in Generations
    BY <2>1, IdType DEF Generations
  <2>3. Retired(t) \in [Seqs -> Generations \cup {None}]
    <3>1. CASE HasLive(t)
      <4>1. LiveOf(t) \in Generations
        BY <2>1, <3>1 DEF LiveOf, HasLive
      <4>2. [seq |-> LiveOf(t).seq, id |-> LiveOf(t).id, dead |-> TRUE] \in Generations
        BY <4>1 DEF Generations
      <4>3. QED
        BY <2>1, <3>1, <4>2 DEF Retired
    <3>2. QED
      BY <3>1 DEF Retired
  <2>4. \A s \in Seqs : generations[s] # None => Retired(t)[s] # None
    <3>1. CASE HasLive(t)
      <4>1. LiveOf(t) \in Generations
        BY <2>1, <3>1 DEF LiveOf, HasLive
      <4>2. [seq |-> LiveOf(t).seq, id |-> LiveOf(t).id, dead |-> TRUE] \in Generations
        BY <4>1 DEF Generations
      <4>3. QED
        BY <2>1, <3>1, <4>2 DEF Retired
    <3>2. QED
      BY <3>1 DEF Retired
  <2>5. /\ generations' = [Retired(t) EXCEPT ![t.seq] = record]
        /\ conf_identity' = [conf_identity EXCEPT ![a] = t.seq]
        /\ conf_cache_live' = [conf_cache_live EXCEPT ![t.pid] = t.seq]
        /\ conf_cache' \subseteq conf_cache
        /\ UNCHANGED <<kong, holds, served, disk, edits>>
    BY <1>12 DEF IdentifyNew, Remember
  <2> HIDE DEF record, t
  <2>6. record # None
    BY <2>2
  <2>7. t # None /\ heap[a] # None
    BY <2>1 DEF t
  <2>8. TypeOK'
    BY <2>1, <2>2, <2>3, <2>5 DEF kong
  <2>9. HeapInv'
    BY <2>1, <2>3, <2>4, <2>5, <2>6, <2>7 DEF kong
  <2>10. QED
    BY <2>8, <2>9
<1>13. ASSUME NEW r \in Requests, NEW a \in Addresses, NEW prefix \in Prefixes,
              Get(r, a, prefix)
       PROVE  TypeInv'
  <2>1. heap[a] \in Tables /\ heap[a] # None /\ holds[r] = a
    BY <1>13 DEF Get, GetUncached, GetHit, GetMiss, Identified
  <2>2. Compile(heap[a], prefix) \in Compiled
    BY <2>1, CompileType
  <2>3. PICK v \in Compiled : Serve(r, v)
    BY <1>13, <2>2 DEF Get, GetUncached, GetHit, GetMiss, Hits, Entries
  <2>4. conf_cache' \subseteq Entries
    <3>1. CASE GetMiss(r, a, prefix)
      <4>1. KeyId(a) \in Ids
        BY <3>1, <2>1 DEF GetMiss, Cacheable, KeyId, Identified, Generations
      <4>2. [prefix |-> prefix, id |-> KeyId(a), value |-> Compile(heap[a], prefix)] \in Entries
        BY <4>1, <2>2 DEF Entries
      <4>3. QED
        BY <3>1, <4>2 DEF GetMiss
    <3>2. QED
      BY <1>13, <3>1 DEF Get, GetUncached, GetHit
  <2>5. QED
    BY <2>1, <2>3, <2>4 DEF Serve, kong, identities
<1>14. QED
  BY <1>1, <1>2, <1>3, <1>4, <1>5, <1>6, <1>7, <1>8, <1>9, <1>10, <1>11, <1>12,
     <1>13 DEF Next, Identify

\* Type correctness of every reachable state.
THEOREM TypeCorrect == Spec => []TypeOK
<1>1. TypeInv => TypeOK
  BY DEF TypeInv
<1>2. QED
  BY TypeInit, TypeStep, <1>1, PTL DEF Spec

-----------------------------------------------------------------------------
(* The key pins the configuration.                                         *)

\* A __seq__ names one table, and a generation is only ever created by a table
\* that had no identity yet: creating it overwrites nothing.
FreshInv ==
  /\ \A s \in Seqs : generations[s] # None => s <= seq
  /\ \A a \in Addresses : heap[a] # None => heap[a].seq <= seq
  /\ \A a, b \in Addresses :
       heap[a] # None /\ heap[b] # None /\ heap[a].seq = heap[b].seq /\ heap[a].seq # 0
         => a = b
  /\ \A a \in Addresses :
       heap[a] # None /\ heap[a].seq # 0 /\ conf_identity[a] = None
         => generations[heap[a].seq] = None

\* Only the live generation of an instance takes entries.
LiveInv ==
  /\ \A p \in Instances :
       conf_cache_live[p] # None => generations[conf_cache_live[p]].id.pid = p
  /\ \A s \in Seqs :
       generations[s] # None /\ ~generations[s].dead
         => conf_cache_live[generations[s].id.pid] = s
  /\ OneGenerationPerInstance

\* An identity fits a table when the key alone says what the table contains.
Fits(id, t) ==
  /\ t.seq # 0
  /\ id.pid = t.pid
  /\ HashAvailable => id.content = t.content
  /\ ~HashAvailable => id.seq = t.seq

FitInv ==
  /\ \A a \in Addresses :
       conf_identity[a] \in Seqs => Fits(generations[conf_identity[a]].id, heap[a])
  /\ \A e \in conf_cache :
       /\ e.value.pid = e.id.pid
       /\ HashAvailable => e.value.content = e.id.content
       /\ ~HashAvailable =>
            /\ e.id.seq # 0 /\ e.id.seq <= seq
            /\ \A a \in Addresses :
                 heap[a] # None /\ heap[a].seq = e.id.seq
                   => e.value.content = heap[a].content
  /\ ServesOwnConfiguration

IInv == TypeInv /\ FreshInv /\ LiveInv /\ FitInv

LEMMA IInit == Init => IInv
<1> SUFFICES ASSUME Init PROVE IInv
  OBVIOUS
<1>1. TypeInv
  BY TypeInit
<1>2. FreshInv
  BY ConfCacheAssumption DEF Init, FreshInv, Seqs
<1>3. LiveInv
  BY ConfCacheAssumption DEF Init, LiveInv, OneGenerationPerInstance
<1>4. FitInv
  BY ConfCacheAssumption DEF Init, FitInv, ServesOwnConfiguration
<1>5. QED
  BY <1>1, <1>2, <1>3, <1>4 DEF IInv

\* What an iterator rebuild changes.
LEMMA NewTableEffect ==
  ASSUME TypeInv, NEW p \in Instances, NEW a \in Addresses, NEW c \in Contents,
         NewTable(p, a, c)
  PROVE  /\ heap[a] = None /\ conf_identity[a] = None
         /\ seq \in Nat /\ seq' = seq + 1
         /\ heap'[a] # None
         /\ heap'[a].pid = p /\ heap'[a].content = c /\ heap'[a].seq \in {seq + 1, 0}
         /\ \A b \in Addresses : b # a => heap'[b] = heap[b]
         /\ UNCHANGED <<holds, served, identities, conf_cache>>
<1> USE ConfCacheAssumption
<1>1. PICK stamp \in {seq + 1, 0} :
        heap' = [heap EXCEPT ![a] = [pid |-> p, seq |-> stamp, content |-> c]]
  BY DEF NewTable
<1>2. seq + 1 \in Seqs /\ stamp \in Seqs \cup {0}
  BY DEF NewTable, TypeInv, TypeOK, Seqs
<1>3. [pid |-> p, seq |-> stamp, content |-> c] \in Tables
  BY <1>2 DEF Tables
<1> DEFINE t == [pid |-> p, seq |-> stamp, content |-> c]
<1>4. t # None /\ t.pid = p /\ t.content = c /\ t.seq = stamp
  BY <1>3
<1>5. heap'[a] = t
  BY <1>1 DEF TypeInv, TypeOK
<1>6. heap[a] = None /\ seq' = seq + 1 /\ UNCHANGED <<holds, served, identities, conf_cache>>
  BY DEF NewTable
<1>7. \A b \in Addresses : b # a => heap'[b] = heap[b]
  BY <1>1 DEF TypeInv, TypeOK
<1>8. conf_identity[a] = None /\ seq \in Nat
  BY <1>6 DEF TypeInv, TypeOK, HeapInv, Seqs
<1> HIDE DEF t
<1>9. QED
  BY <1>4, <1>5, <1>6, <1>7, <1>8

\* What a table that joins its live generation changes: only the generation's
\* __seq__, to the table's own, which is not an older one.
LEMMA IdentifySameEffect ==
  ASSUME TypeInv, NEW r \in Requests, NEW a \in Addresses, IdentifySame(r, a)
  PROVE  /\ heap[a] \in Tables /\ heap[a] # None /\ heap[a].seq \in Seqs
         /\ conf_identity[a] = None
         /\ conf_cache_live[heap[a].pid] \in Seqs
         /\ generations[conf_cache_live[heap[a].pid]] # None
         /\ generations[conf_cache_live[heap[a].pid]].id = IdOf(heap[a])
         /\ generations[conf_cache_live[heap[a].pid]].seq <= heap[a].seq
         /\ conf_identity' = [conf_identity EXCEPT ![a] = conf_cache_live[heap[a].pid]]
         /\ \A s \in Seqs :
              /\ (generations'[s] = None) <=> (generations[s] = None)
              /\ generations[s] # None =>
                   /\ generations'[s].id = generations[s].id
                   /\ generations'[s].dead = generations[s].dead
                   /\ generations'[s].seq >= generations[s].seq
         /\ UNCHANGED <<kong, holds, served, conf_cache_live, conf_cache>>
<1> USE ConfCacheAssumption
<1> DEFINE g == conf_cache_live[heap[a].pid]
           record == [seq |-> heap[a].seq, id |-> LiveOf(heap[a]).id,
                      dead |-> LiveOf(heap[a]).dead]
<1>1. heap[a] # None /\ conf_identity[a] = None
  BY DEF IdentifySame, Unidentified, TypeInv, TypeOK, HeapInv
<1>2. heap[a] \in Tables /\ heap[a].seq \in Seqs /\ g \in Seqs
  BY <1>1, LiveType DEF IdentifySame, Unsafe, HasLive, TypeInv
<1>3. generations[g] \in Generations /\ generations[g] # None /\ LiveOf(heap[a]) = generations[g]
  BY <1>1, <1>2, LiveType DEF TypeInv, TypeOK, HeapInv, LiveOf, HasLive, IdentifySame
<1>4. generations[g].id = IdOf(heap[a]) /\ ~(heap[a].seq < generations[g].seq)
  BY <1>3 DEF IdentifySame, OlderThanLive
<1>5. generations[g].seq <= heap[a].seq
  BY <1>2, <1>3, <1>4 DEF Generations, Seqs
<1>6. /\ generations' = [generations EXCEPT ![g] = record]
      /\ conf_identity' = [conf_identity EXCEPT ![a] = g]
      /\ UNCHANGED <<kong, holds, served, conf_cache_live, conf_cache>>
  BY DEF IdentifySame, Remember
<1>7. record \in Generations /\ record # None
  BY <1>2, <1>3 DEF Generations
<1>8. record.seq = heap[a].seq /\ record.id = generations[g].id /\ record.dead = generations[g].dead
  BY <1>3
<1> HIDE DEF record
<1>9. ASSUME NEW s \in Seqs
      PROVE  /\ (generations'[s] = None) <=> (generations[s] = None)
             /\ generations[s] # None =>
                  /\ generations'[s].id = generations[s].id
                  /\ generations'[s].dead = generations[s].dead
                  /\ generations'[s].seq >= generations[s].seq
  <2>1. CASE s = g
    BY <2>1, <1>2, <1>3, <1>5, <1>6, <1>7, <1>8 DEF TypeInv, TypeOK, Generations, Seqs
  <2>2. CASE s # g
    BY <2>2, <1>6 DEF TypeInv, TypeOK, Generations, Seqs
  <2>3. QED
    BY <2>1, <2>2
<1>10. QED
  BY <1>1, <1>2, <1>3, <1>4, <1>5, <1>6, <1>9

\* What a first table, or a changed configuration, changes: a generation that
\* did not exist goes live and the one before it is dead and has no entries.
LEMMA IdentifyNewEffect ==
  ASSUME TypeInv, FreshInv, NEW r \in Requests, NEW a \in Addresses, IdentifyNew(r, a)
  PROVE  /\ heap[a] \in Tables /\ heap[a] # None /\ heap[a].seq \in Seqs
         /\ conf_identity[a] = None
         /\ generations[heap[a].seq] = None
         /\ HasLive(heap[a]) =>
              /\ conf_cache_live[heap[a].pid] \in Seqs
              /\ generations[conf_cache_live[heap[a].pid]] # None
              /\ generations[conf_cache_live[heap[a].pid]].seq <= heap[a].seq
         /\ conf_identity' = [conf_identity EXCEPT ![a] = heap[a].seq]
         /\ conf_cache_live' = [conf_cache_live EXCEPT ![heap[a].pid] = heap[a].seq]
         /\ generations'[heap[a].seq] # None
         /\ generations'[heap[a].seq].id = IdOf(heap[a])
         /\ generations'[heap[a].seq].seq = heap[a].seq
         /\ \A s \in Seqs : s # heap[a].seq =>
              /\ (generations'[s] = None) <=> (generations[s] = None)
              /\ generations[s] # None =>
                   /\ generations'[s].id = generations[s].id
                   /\ ~generations'[s].dead =>
                        ~generations[s].dead /\ s # conf_cache_live[heap[a].pid]
         /\ conf_cache' = conf_cache \ Superseded(heap[a])
         /\ UNCHANGED <<kong, holds, served>>
<1> USE ConfCacheAssumption
<1> DEFINE t == heap[a]
           g == conf_cache_live[t.pid]
           record == [seq |-> t.seq, id |-> IdOf(t), dead |-> FALSE]
           grave == [seq |-> LiveOf(t).seq, id |-> LiveOf(t).id, dead |-> TRUE]
<1>1. t # None /\ conf_identity[a] = None
  BY DEF IdentifyNew, Unidentified, TypeInv, TypeOK, HeapInv
<1>2. t \in Tables /\ t.seq \in Seqs /\ t.pid \in Instances
  BY <1>1, LiveType DEF IdentifyNew, Unsafe, TypeInv
<1>3. generations[t.seq] = None
  BY <1>1, <1>2 DEF FreshInv, Seqs
<1>4. ASSUME HasLive(t)
      PROVE  g \in Seqs /\ generations[g] \in Generations /\ generations[g] # None
             /\ LiveOf(t) = generations[g] /\ generations[g].seq <= t.seq
  <2>1. g \in Seqs
    BY <1>1, <1>4, LiveType DEF TypeInv
  <2>2. generations[g] \in Generations /\ generations[g] # None
    BY <1>2, <1>4, <2>1 DEF TypeInv, TypeOK, HeapInv, HasLive
  <2>3. LiveOf(t) = generations[g] /\ ~(t.seq < generations[g].seq)
    BY <1>4 DEF IdentifyNew, OlderThanLive, LiveOf
  <2>4. QED
    BY <1>2, <2>1, <2>2, <2>3 DEF Generations, Seqs
<1>5. /\ generations' = [Retired(t) EXCEPT ![t.seq] = record]
      /\ conf_identity' = [conf_identity EXCEPT ![a] = t.seq]
      /\ conf_cache_live' = [conf_cache_live EXCEPT ![t.pid] = t.seq]
      /\ conf_cache' = conf_cache \ Superseded(t)
      /\ UNCHANGED <<kong, holds, served>>
  BY DEF IdentifyNew, Remember
<1>6. record \in Generations /\ record # None
  <2>1. IdOf(t) \in Ids
    BY <1>2, IdType DEF TypeInv, TypeOK
  <2> HIDE DEF t
  <2>2. record \in Generations
    BY <1>2, <2>1 DEF Generations
  <2>3. QED
    BY <2>2
<1>7. record.seq = t.seq /\ record.id = IdOf(t)
  OBVIOUS
<1>8. HasLive(t) => /\ Retired(t) = [generations EXCEPT ![g] = grave]
                    /\ grave # None /\ grave.id = generations[g].id /\ grave.dead
  <2> SUFFICES ASSUME HasLive(t)
               PROVE  /\ Retired(t) = [generations EXCEPT ![g] = grave]
                      /\ grave # None /\ grave.id = generations[g].id /\ grave.dead
    OBVIOUS
  <2>1. grave \in Generations
    BY <1>4 DEF Generations
  <2>2. QED
    BY <2>1, <1>4 DEF Retired
<1>9. ~HasLive(t) => Retired(t) = generations /\ g = None
  BY DEF Retired, HasLive
<1> HIDE DEF record, grave
<1>10. DOMAIN Retired(t) = Seqs
  BY <1>8, <1>9 DEF TypeInv, TypeOK
<1>11. generations'[t.seq] = record
  BY <1>2, <1>5, <1>10
<1>12. ASSUME NEW s \in Seqs, s # t.seq
       PROVE  /\ (generations'[s] = None) <=> (generations[s] = None)
              /\ generations[s] # None =>
                   /\ generations'[s].id = generations[s].id
                   /\ ~generations'[s].dead => ~generations[s].dead /\ s # g
  <2>1. generations'[s] = Retired(t)[s]
    BY <1>5, <1>10, <1>12
  <2>2. CASE HasLive(t) /\ s = g
    BY <2>1, <2>2, <1>4, <1>8 DEF TypeInv, TypeOK
  <2>3. CASE HasLive(t) /\ s # g
    BY <2>1, <2>3, <1>4, <1>8 DEF TypeInv, TypeOK
  <2>4. CASE ~HasLive(t)
    BY <2>1, <2>4, <1>9
  <2>5. QED
    BY <2>2, <2>3, <2>4
<1>13. /\ generations'[t.seq] # None
       /\ generations'[t.seq].id = IdOf(t)
       /\ generations'[t.seq].seq = t.seq
  BY <1>6, <1>7, <1>11
<1> HIDE DEF t
<1>14. QED
  BY <1>1, <1>2, <1>3, <1>4, <1>5, <1>12, <1>13 DEF t

\* What the steps that create no table and touch no generation leave alone.
LEMMA OtherSteps ==
  ASSUME TypeInv,
         \/ \E p \in Instances : RemoveInstance(p)
         \/ \E c \in DiskContents : EditDisk(c)
         \/ \E e \in conf_cache : Evict(e)
         \/ \E r \in Requests, p \in Instances : StartRequest(r, p)
         \/ \E r \in Requests : EndRequest(r)
         \/ UNCHANGED vars
  PROVE  /\ seq' = seq /\ heap' = heap
         /\ UNCHANGED identities
         /\ conf_cache' \subseteq conf_cache
         /\ \A q \in Requests :
              \/ served'[q] = None
              \/ served'[q] = served[q] /\ holds'[q] = holds[q]
<1> USE DEF kong, identities, vars
<1>1. ASSUME NEW p \in Instances, RemoveInstance(p)
      PROVE  UNCHANGED <<seq, heap, identities, holds, served, conf_cache>>
  BY <1>1 DEF RemoveInstance
<1>2. ASSUME NEW c \in DiskContents, EditDisk(c)
      PROVE  UNCHANGED <<seq, heap, identities, holds, served, conf_cache>>
  BY <1>2 DEF EditDisk
<1>3. ASSUME NEW e \in conf_cache, Evict(e)
      PROVE  /\ UNCHANGED <<seq, heap, identities, holds, served>>
             /\ conf_cache' \subseteq conf_cache
  BY <1>3 DEF Evict
<1>4. ASSUME NEW r \in Requests,
             (\E p \in Instances : StartRequest(r, p)) \/ EndRequest(r)
      PROVE  /\ UNCHANGED <<seq, heap, identities, conf_cache>>
             /\ \A q \in Requests :
                  \/ served'[q] = None
                  \/ served'[q] = served[q] /\ holds'[q] = holds[q]
  BY <1>4 DEF StartRequest, EndRequest, TypeInv, TypeOK
<1>5. QED
  BY <1>1, <1>2, <1>3, <1>4

\* What an uncacheable identity, or one shared with the live generation by an
\* older table, changes: the identity alone.
LEMMA IdentifyQuietly ==
  ASSUME TypeInv, NEW r \in Requests, NEW a \in Addresses,
         IdentifyUnsafe(r, a) \/ IdentifyOlder(r, a)
  PROVE  /\ UNCHANGED <<kong, holds, served, generations, conf_cache_live, conf_cache>>
         /\ \A b \in Addresses : b # a => conf_identity'[b] = conf_identity[b]
         /\ \/ conf_identity'[a] = Uncacheable
            \/ /\ conf_identity'[a] \in Seqs
               /\ heap[a] \in Tables /\ heap[a].seq # 0
               /\ generations[conf_identity'[a]].id = IdOf(heap[a])
<1> USE ConfCacheAssumption
<1>1. CASE IdentifyUnsafe(r, a)
  BY <1>1 DEF IdentifyUnsafe, Remember, TypeInv, TypeOK
<1>2. CASE IdentifyOlder(r, a)
  <2>1. heap[a] \in Tables /\ heap[a].seq # 0 /\ conf_cache_live[heap[a].pid] \in Seqs
    BY <1>2, LiveType DEF IdentifyOlder, Unsafe, OlderThanLive, Unidentified, TypeInv, HeapInv
  <2>2. CASE LiveOf(heap[a]).id = IdOf(heap[a])
    BY <1>2, <2>1, <2>2 DEF IdentifyOlder, Remember, LiveOf, TypeInv, TypeOK
  <2>3. CASE LiveOf(heap[a]).id # IdOf(heap[a])
    BY <1>2, <2>1, <2>3 DEF IdentifyOlder, Remember, TypeInv, TypeOK
  <2>4. QED
    BY <2>2, <2>3
<1>3. QED
  BY <1>1, <1>2

\* What a getter changes.
LEMMA GetEffect ==
  ASSUME TypeInv, NEW r \in Requests, NEW a \in Addresses, NEW prefix \in Prefixes,
         Get(r, a, prefix)
  PROVE  /\ UNCHANGED <<kong, holds, identities>>
         /\ holds[r] = a /\ heap[a] \in Tables /\ heap[a] # None
         /\ conf_identity[a] # None
         /\ \A q \in Requests : q # r => served'[q] = served[q]
         /\ \/ /\ served'[r] = Compile(heap[a], prefix)
               /\ conf_cache' = conf_cache
            \/ /\ conf_identity[a] \in Seqs
               /\ \E e \in conf_cache : e.id = KeyId(a) /\ served'[r] = e.value
               /\ conf_cache' = conf_cache
            \/ /\ conf_identity[a] \in Seqs
               /\ ~generations[conf_identity[a]].dead
               /\ served'[r] = Compile(heap[a], prefix)
               /\ conf_cache' = conf_cache \cup
                    {[prefix |-> prefix, id |-> KeyId(a),
                      value |-> Compile(heap[a], prefix)]}
<1> USE ConfCacheAssumption DEF Serve
<1>1. holds[r] = a /\ heap[a] \in Tables /\ heap[a] # None /\ conf_identity[a] # None
  BY DEF Get, GetUncached, GetHit, GetMiss, Identified, TypeInv, TypeOK, HeapInv
<1>2. CASE GetUncached(r, a, prefix)
  BY <1>1, <1>2 DEF GetUncached, TypeInv, TypeOK
<1>3. CASE GetHit(r, a, prefix)
  <2>1. PICK e \in Hits(a, prefix) : Serve(r, e.value)
    BY <1>3 DEF GetHit
  <2>2. conf_identity[a] \in Seqs
    BY <1>1, <1>3 DEF GetHit, Cacheable, TypeInv, TypeOK
  <2>3. QED
    BY <1>1, <1>3, <2>1, <2>2 DEF GetHit, Hits, TypeInv, TypeOK
<1>4. CASE GetMiss(r, a, prefix)
  <2>1. conf_identity[a] \in Seqs /\ ~generations[conf_identity[a]].dead
    BY <1>1, <1>4 DEF GetMiss, Cacheable, TypeInv, TypeOK
  <2>2. QED
    BY <1>1, <1>4, <2>1 DEF GetMiss, TypeInv, TypeOK
<1>5. QED
  BY <1>2, <1>3, <1>4 DEF Get

\* A collected table takes its identity and its holders' claims with it.
LEMMA CollectEffect ==
  ASSUME TypeInv, NEW a \in Addresses, Collect(a)
  PROVE  /\ UNCHANGED <<seq, holds, served, generations, conf_cache_live, conf_cache>>
         /\ heap'[a] = None /\ conf_identity'[a] = None
         /\ \A b \in Addresses :
              b # a => heap'[b] = heap[b] /\ conf_identity'[b] = conf_identity[b]
         /\ \A q \in Requests : holds[q] # a
  BY DEF Collect, ForgetTable, TypeInv, TypeOK

\* The cases every invariant is checked against.
Quiet ==
  \/ \E p \in Instances : RemoveInstance(p)
  \/ \E c \in DiskContents : EditDisk(c)
  \/ \E e \in conf_cache : Evict(e)
  \/ \E r \in Requests, p \in Instances : StartRequest(r, p)
  \/ \E r \in Requests : EndRequest(r)
  \/ UNCHANGED vars

LEMMA StepCases ==
  ASSUME [Next]_vars
  PROVE  \/ Quiet
         \/ \E p \in Instances, a \in Addresses, c \in Contents : NewTable(p, a, c)
         \/ \E a \in Addresses : Collect(a)
         \/ \E r \in Requests, a \in Addresses :
              \/ IdentifyUnsafe(r, a) \/ IdentifyOlder(r, a)
              \/ IdentifySame(r, a) \/ IdentifyNew(r, a)
              \/ \E prefix \in Prefixes : Get(r, a, prefix)
  BY DEF Next, Identify, Quiet

LEMMA FreshStep ==
  ASSUME TypeInv, FreshInv, [Next]_vars PROVE FreshInv'
<1> USE ConfCacheAssumption DEF FreshInv, kong, identities
<1>1. CASE Quiet
  BY <1>1, OtherSteps DEF Quiet
<1>2. ASSUME NEW p \in Instances, NEW a \in Addresses, NEW c \in Contents,
             NewTable(p, a, c)
      PROVE  FreshInv'
  <2>1. /\ seq' = seq + 1 /\ seq \in Nat
        /\ heap[a] = None /\ heap'[a].seq \in {seq + 1, 0}
        /\ \A b \in Addresses : b # a => heap'[b] = heap[b]
        /\ UNCHANGED <<generations, conf_identity>>
    BY <1>2, NewTableEffect
  <2>2. \A b \in Addresses : heap[b] # None => heap[b].seq \in Nat /\ heap[b].seq <= seq
    BY DEF TypeInv, TypeOK, Tables, Seqs
  <2>3. \A s \in Seqs : s \in Nat
    BY DEF Seqs
  <2>4. (\A s \in Seqs : generations[s] # None => s <= seq)'
    BY <2>1, <2>3
  <2>5. (\A b \in Addresses : heap[b] # None => heap[b].seq <= seq)'
    BY <2>1, <2>2
  <2>6. (\A b, d \in Addresses :
          heap[b] # None /\ heap[d] # None /\ heap[b].seq = heap[d].seq /\ heap[b].seq # 0
            => b = d)'
    BY <2>1, <2>2
  <2>7. (\A b \in Addresses :
          heap[b] # None /\ heap[b].seq # 0 /\ conf_identity[b] = None
            => generations[heap[b].seq] = None)'
    <3>1. seq + 1 \in Seqs
      BY <1>2, <2>1 DEF NewTable, Seqs
    <3>2. generations[seq + 1] = None
      BY <3>1, <2>1
    <3>3. QED
      BY <2>1, <3>2
  <2>8. QED
    BY <2>4, <2>5, <2>6, <2>7
<1>3. ASSUME NEW a \in Addresses, Collect(a) PROVE FreshInv'
  BY <1>3, CollectEffect
<1>4. ASSUME NEW r \in Requests, NEW a \in Addresses,
             IdentifyUnsafe(r, a) \/ IdentifyOlder(r, a)
      PROVE  FreshInv'
  <2>1. /\ UNCHANGED <<seq, heap, generations>>
        /\ \A b \in Addresses : b # a => conf_identity'[b] = conf_identity[b]
        /\ conf_identity'[a] # None
    BY <1>4, IdentifyQuietly
  <2>2. QED
    BY <2>1
<1>5. ASSUME NEW r \in Requests, NEW a \in Addresses, IdentifySame(r, a)
      PROVE  FreshInv'
  <2> DEFINE g == conf_cache_live[heap[a].pid]
  <2>1. /\ UNCHANGED <<seq, heap>> /\ g \in Seqs
        /\ conf_identity' = [conf_identity EXCEPT ![a] = g]
        /\ \A s \in Seqs : (generations'[s] = None) <=> (generations[s] = None)
    BY <1>5, IdentifySameEffect
  <2>2. \A b \in Addresses : heap[b] # None => heap[b].seq \in Seqs \cup {0}
    BY DEF TypeInv, TypeOK, Tables
  <2>3. \A b \in Addresses : conf_identity'[b] = None => conf_identity[b] = None
    BY <2>1 DEF TypeInv, TypeOK
  <2> HIDE DEF g
  <2>4. QED
    BY <2>1, <2>2, <2>3
<1>6. ASSUME NEW r \in Requests, NEW a \in Addresses, IdentifyNew(r, a)
      PROVE  FreshInv'
  <2> DEFINE g == heap[a].seq
  <2>1. /\ UNCHANGED <<seq, heap>> /\ g \in Seqs /\ heap[a] # None
        /\ conf_identity' = [conf_identity EXCEPT ![a] = g]
        /\ \A s \in Seqs : s # g =>
             ((generations'[s] = None) <=> (generations[s] = None))
    BY <1>6, IdentifyNewEffect
  <2>2. \A b \in Addresses : heap[b] # None => heap[b].seq \in Seqs \cup {0}
    BY DEF TypeInv, TypeOK, Tables
  <2>3. conf_identity'[a] # None
        /\ \A b \in Addresses : b # a => conf_identity'[b] = conf_identity[b]
    BY <2>1 DEF TypeInv, TypeOK
  <2>4. \A b \in Addresses : heap[b] # None /\ b # a => heap[b].seq # g \/ heap[b].seq = 0
    BY <2>1
  <2>5. (\A s \in Seqs : generations[s] # None => s <= seq)'
    BY <2>1
  <2>6. (\A b \in Addresses :
          heap[b] # None /\ heap[b].seq # 0 /\ conf_identity[b] = None
            => generations[heap[b].seq] = None)'
    BY <2>1, <2>2, <2>3, <2>4
  <2>7. QED
    BY <2>1, <2>5, <2>6
<1>7. ASSUME NEW r \in Requests, NEW a \in Addresses, NEW prefix \in Prefixes,
             Get(r, a, prefix)
      PROVE  FreshInv'
  BY <1>7, GetEffect
<1>8. QED
  BY <1>1, <1>2, <1>3, <1>4, <1>5, <1>6, <1>7, StepCases

LEMMA LiveStep ==
  ASSUME TypeInv, FreshInv, LiveInv, [Next]_vars PROVE LiveInv'
<1> USE ConfCacheAssumption DEF LiveInv, OneGenerationPerInstance, kong, identities
<1>0. /\ \A e \in conf_cache : e.id.pid \in Instances
      /\ \A s \in Seqs : generations[s] # None => generations[s].id.pid \in Instances
      /\ \A p \in Instances : conf_cache_live[p] # None =>
           conf_cache_live[p] \in Seqs /\ generations[conf_cache_live[p]] # None
  BY DEF TypeInv, TypeOK, HeapInv, Entries, Ids, Generations
<1>1. CASE Quiet
  BY <1>1, OtherSteps DEF Quiet
<1>2. ASSUME NEW p \in Instances, NEW a \in Addresses, NEW c \in Contents,
             NewTable(p, a, c)
      PROVE  LiveInv'
  BY <1>2, NewTableEffect
<1>3. ASSUME NEW a \in Addresses, Collect(a) PROVE LiveInv'
  BY <1>3, CollectEffect
<1>4. ASSUME NEW r \in Requests, NEW a \in Addresses,
             IdentifyUnsafe(r, a) \/ IdentifyOlder(r, a)
      PROVE  LiveInv'
  BY <1>4, IdentifyQuietly
<1>5. ASSUME NEW r \in Requests, NEW a \in Addresses, IdentifySame(r, a)
      PROVE  LiveInv'
  <2>1. /\ UNCHANGED <<conf_cache_live, conf_cache>>
        /\ \A s \in Seqs :
             /\ (generations'[s] = None) <=> (generations[s] = None)
             /\ generations[s] # None =>
                  /\ generations'[s].id = generations[s].id
                  /\ generations'[s].dead = generations[s].dead
    BY <1>5, IdentifySameEffect
  <2>2. QED
    BY <2>1, <1>0
<1>6. ASSUME NEW r \in Requests, NEW a \in Addresses, IdentifyNew(r, a)
      PROVE  LiveInv'
  <2> DEFINE g == heap[a].seq
             q == heap[a].pid
             old == conf_cache_live[q]
  <2>0. generations'[g].id = IdOf(heap[a]) /\ IdOf(heap[a]).pid = q
    <3>1. IdOf(heap[a]).pid = q
      BY DEF IdOf
    <3>2. QED
      BY <1>6, <3>1, IdentifyNewEffect
  <2>1. /\ g \in Seqs /\ q \in Instances /\ generations[g] = None
        /\ conf_cache_live' = [conf_cache_live EXCEPT ![q] = g]
        /\ generations'[g] # None
        /\ generations'[g].id.pid = q
        /\ \A s \in Seqs : s # g =>
             /\ (generations'[s] = None) <=> (generations[s] = None)
             /\ generations[s] # None =>
                  /\ generations'[s].id = generations[s].id
                  /\ ~generations'[s].dead => ~generations[s].dead /\ s # old
    <3>1. heap[a] \in Tables => q \in Instances
      BY DEF Tables
    <3>2. QED
      BY <1>6, <2>0, <3>1, IdentifyNewEffect
  <2>2. \A e \in conf_cache' : e \in conf_cache /\ e.id.pid # q
    <3>1. conf_cache' = {e \in conf_cache : ~(HasLive(heap[a]) /\ e.id = LiveOf(heap[a]).id)}
      BY <1>6, IdentifyNewEffect DEF Superseded
    <3>2. \A e \in conf_cache : e.id.pid = q =>
            HasLive(heap[a]) /\ e.id = LiveOf(heap[a]).id
      BY <2>1 DEF HasLive, LiveOf
    <3>3. QED
      BY <3>1, <3>2
  <2>3. /\ conf_cache_live'[q] = g
        /\ \A p \in Instances : p # q => conf_cache_live'[p] = conf_cache_live[p]
    BY <2>1 DEF TypeInv, TypeOK
  <2>4. \A p \in Instances : conf_cache_live[p] # g
    BY <2>1, <1>0
  <2> HIDE DEF g, q, old
  <2>5. (\A p \in Instances :
          conf_cache_live[p] # None => generations[conf_cache_live[p]].id.pid = p)'
    BY <2>1, <2>3, <2>4, <1>0
  <2>6. (\A s \in Seqs :
          generations[s] # None /\ ~generations[s].dead
            => conf_cache_live[generations[s].id.pid] = s)'
    BY <2>1, <2>3, <1>0 DEF old
  <2>7. OneGenerationPerInstance'
    BY <2>1, <2>2, <2>3, <2>4, <1>0
  <2>8. QED
    BY <2>5, <2>6, <2>7
<1>7. ASSUME NEW r \in Requests, NEW a \in Addresses, NEW prefix \in Prefixes,
             Get(r, a, prefix)
      PROVE  LiveInv'
  <2>1. UNCHANGED <<generations, conf_cache_live>>
    BY <1>7, GetEffect
  <2>2. CASE conf_cache' = conf_cache
    BY <2>1, <2>2
  <2>3. CASE conf_cache' # conf_cache
    <3> DEFINE new == [prefix |-> prefix, id |-> KeyId(a), value |-> Compile(heap[a], prefix)]
    <3>1. /\ conf_identity[a] \in Seqs /\ ~generations[conf_identity[a]].dead
          /\ conf_cache' = conf_cache \cup {new}
      BY <1>7, <2>3, GetEffect
    <3>2. generations[conf_identity[a]] # None
      BY <3>1 DEF TypeInv, HeapInv
    <3>3. new.id = generations[conf_identity[a]].id
      BY DEF KeyId
    <3> HIDE DEF new
    <3>4. conf_cache_live[new.id.pid] = conf_identity[a]
      BY <3>1, <3>2, <3>3
    <3>5. QED
      BY <2>1, <3>1, <3>3, <3>4
  <2>4. QED
    BY <2>2, <2>3
<1>8. QED
  BY <1>1, <1>2, <1>3, <1>4, <1>5, <1>6, <1>7, StepCases

\* A fresh identity fits its table.
LEMMA IdOfFits ==
  ASSUME NEW t \in Tables, t.seq # 0 PROVE Fits(IdOf(t), t)
  BY DEF IdOf, Fits

LEMMA CompileFits ==
  ASSUME NEW t \in Tables, NEW prefix \in Prefixes
  PROVE  Compile(t, prefix).pid = t.pid /\ Compile(t, prefix).content = t.content
  BY DEF Compile

LEMMA FitStep ==
  ASSUME TypeInv, FreshInv, LiveInv, FitInv, [Next]_vars PROVE FitInv'
<1> USE ConfCacheAssumption DEF FitInv, ServesOwnConfiguration, kong, identities
<1>0. /\ \A r \in Requests : served[r] # None => holds[r] \in Addresses /\ heap[holds[r]] # None
      /\ \A a \in Addresses : conf_identity[a] # None => heap[a] # None
      /\ \A a \in Addresses : conf_identity[a] \in Seqs => generations[conf_identity[a]] # None
      /\ \A s \in Seqs : s \in Nat /\ s # None /\ s # Uncacheable
      /\ \A e \in conf_cache : e.id.seq \in Nat
      /\ seq \in Nat
  BY DEF TypeInv, TypeOK, HeapInv, Entries, Ids, Seqs
<1>1. CASE Quiet
  <2>1. /\ seq' = seq /\ heap' = heap
        /\ UNCHANGED <<conf_identity, generations>>
        /\ conf_cache' \subseteq conf_cache
        /\ \A q \in Requests :
             \/ served'[q] = None
             \/ served'[q] = served[q] /\ holds'[q] = holds[q]
    BY <1>1, OtherSteps DEF Quiet
  <2>2. QED
    BY <2>1
<1>2. ASSUME NEW p \in Instances, NEW a \in Addresses, NEW c \in Contents,
             NewTable(p, a, c)
      PROVE  FitInv'
  <2>1. /\ seq' = seq + 1
        /\ heap[a] = None /\ heap'[a].seq \in {seq + 1, 0}
        /\ \A b \in Addresses : b # a => heap'[b] = heap[b]
        /\ UNCHANGED <<generations, conf_identity, conf_cache, served, holds>>
    BY <1>2, NewTableEffect
  <2>2. (\A b \in Addresses :
          conf_identity[b] \in Seqs => Fits(generations[conf_identity[b]].id, heap[b]))'
    BY <2>1, <1>0 DEF Fits
  <2>3. ServesOwnConfiguration'
    BY <2>1, <1>0
  <2>4. ASSUME NEW e \in conf_cache, ~HashAvailable
        PROVE  /\ e.id.seq <= seq'
               /\ \A b \in Addresses :
                    heap'[b] # None /\ heap'[b].seq = e.id.seq
                      => e.value.content = heap'[b].content
    BY <2>1, <2>4, <1>0
  <2>5. QED
    BY <2>1, <2>2, <2>3, <2>4
<1>3. ASSUME NEW a \in Addresses, Collect(a) PROVE FitInv'
  <2>1. /\ UNCHANGED <<seq, holds, served, generations, conf_cache>>
        /\ heap'[a] = None /\ conf_identity'[a] = None
        /\ \A b \in Addresses :
             b # a => heap'[b] = heap[b] /\ conf_identity'[b] = conf_identity[b]
        /\ \A q \in Requests : holds[q] # a
    BY <1>3, CollectEffect
  <2>2. (\A b \in Addresses :
          conf_identity[b] \in Seqs => Fits(generations[conf_identity[b]].id, heap[b]))'
    BY <2>1, <1>0 DEF Fits
  <2>3. ServesOwnConfiguration'
    BY <2>1, <1>0
  <2>4. QED
    BY <2>1, <2>2, <2>3
<1>4. ASSUME NEW r \in Requests, NEW a \in Addresses,
             IdentifyUnsafe(r, a) \/ IdentifyOlder(r, a)
      PROVE  FitInv'
  <2>1. /\ UNCHANGED <<seq, heap, holds, served, generations, conf_cache>>
        /\ \A b \in Addresses : b # a => conf_identity'[b] = conf_identity[b]
        /\ conf_identity'[a] \in Seqs =>
             /\ heap[a] \in Tables /\ heap[a].seq # 0
             /\ generations[conf_identity'[a]].id = IdOf(heap[a])
    BY <1>4, <1>0, IdentifyQuietly
  <2>2. (\A b \in Addresses :
          conf_identity[b] \in Seqs => Fits(generations[conf_identity[b]].id, heap[b]))'
    BY <2>1, IdOfFits DEF Fits
  <2>3. QED
    BY <2>1, <2>2
<1>5. ASSUME NEW r \in Requests, NEW a \in Addresses, IdentifySame(r, a)
      PROVE  FitInv'
  <2> DEFINE g == conf_cache_live[heap[a].pid]
  <2>1. /\ UNCHANGED <<seq, heap, holds, served, conf_cache>>
        /\ g \in Seqs /\ heap[a] \in Tables /\ heap[a].seq \in Seqs
        /\ generations[g] # None /\ generations[g].id = IdOf(heap[a])
        /\ conf_identity' = [conf_identity EXCEPT ![a] = g]
        /\ \A s \in Seqs : generations[s] # None => generations'[s].id = generations[s].id
    BY <1>5, IdentifySameEffect
  <2> HIDE DEF g
  <2>2. conf_identity'[a] = g
        /\ \A b \in Addresses : b # a => conf_identity'[b] = conf_identity[b]
    BY <2>1 DEF TypeInv, TypeOK
  <2>3. (\A b \in Addresses :
          conf_identity[b] \in Seqs => Fits(generations[conf_identity[b]].id, heap[b]))'
    BY <2>1, <2>2, <1>0, IdOfFits DEF Fits, Seqs
  <2>4. QED
    BY <2>1, <2>3
<1>6. ASSUME NEW r \in Requests, NEW a \in Addresses, IdentifyNew(r, a)
      PROVE  FitInv'
  <2> DEFINE g == heap[a].seq
  <2>1. /\ UNCHANGED <<seq, heap, holds, served>>
        /\ conf_cache' \subseteq conf_cache
        /\ g \in Seqs /\ g = heap[a].seq /\ heap[a] \in Tables /\ generations[g] = None
        /\ generations'[g].id = IdOf(heap[a])
        /\ conf_identity' = [conf_identity EXCEPT ![a] = g]
        /\ \A s \in Seqs : s # g =>
             (generations[s] # None => generations'[s].id = generations[s].id)
    BY <1>6, IdentifyNewEffect
  <2> HIDE DEF g
  <2>2. conf_identity'[a] = g
        /\ \A b \in Addresses : b # a => conf_identity'[b] = conf_identity[b]
    BY <2>1 DEF TypeInv, TypeOK
  <2>3. (\A b \in Addresses :
          conf_identity[b] \in Seqs => Fits(generations[conf_identity[b]].id, heap[b]))'
    BY <2>1, <2>2, <1>0, IdOfFits DEF Fits, Seqs
  <2>4. QED
    BY <2>1, <2>3
<1>7. ASSUME NEW r \in Requests, NEW a \in Addresses, NEW prefix \in Prefixes,
             Get(r, a, prefix)
      PROVE  FitInv'
  <2> DEFINE v == Compile(heap[a], prefix)
             id == generations[conf_identity[a]].id
             new == [prefix |-> prefix, id |-> id, value |-> v]
  <2>1. /\ UNCHANGED <<seq, heap, holds, conf_identity, generations>>
        /\ holds[r] = a /\ heap[a] \in Tables /\ heap[a] # None
        /\ \A q \in Requests : q # r => served'[q] = served[q]
    BY <1>7, GetEffect
  <2>2. v.pid = heap[a].pid /\ v.content = heap[a].content
    BY <2>1, CompileFits
  <2>3. \/ served'[r] = v /\ conf_cache' = conf_cache
        \/ /\ conf_identity[a] \in Seqs
           /\ \E e \in conf_cache : e.id = id /\ served'[r] = e.value
           /\ conf_cache' = conf_cache
        \/ /\ conf_identity[a] \in Seqs
           /\ served'[r] = v
           /\ conf_cache' = conf_cache \cup {new}
    BY <1>7, GetEffect DEF KeyId
  <2>4. new.id = id /\ new.value = v
    OBVIOUS
  <2>5. conf_identity[a] \in Seqs => Fits(id, heap[a])
    OBVIOUS
  <2>6. heap[a].seq <= seq /\ heap[a].seq \in Nat
    BY <2>1 DEF FreshInv, Tables, Seqs
  <2>7. conf_identity[a] \in Seqs /\ ~HashAvailable =>
          id.seq = heap[a].seq
    BY <2>5 DEF Fits
  <2> HIDE DEF v, id, new
  <2>8. CASE conf_cache' = conf_cache
    <3>1. served'[r].pid = heap[a].pid /\ served'[r].content = heap[a].content
      BY <2>1, <2>2, <2>3, <2>4, <2>5, <2>8 DEF Fits
    <3>2. ServesOwnConfiguration'
      BY <2>1, <3>1
    <3>3. QED
      BY <2>1, <2>8, <3>2
  <2>9. CASE conf_cache' # conf_cache
    <3>1. /\ conf_identity[a] \in Seqs /\ served'[r] = v
          /\ conf_cache' = conf_cache \cup {new}
      BY <2>3, <2>9
    <3>2. ServesOwnConfiguration'
      BY <2>1, <2>2, <3>1
    <3>3. /\ new.value.pid = new.id.pid
          /\ HashAvailable => new.value.content = new.id.content
      BY <2>2, <2>4, <2>5, <3>1 DEF Fits
    <3>4. ~HashAvailable =>
            /\ new.id.seq # 0 /\ new.id.seq <= seq
            /\ \A b \in Addresses :
                 heap[b] # None /\ heap[b].seq = new.id.seq
                   => new.value.content = heap[b].content
      <4> SUFFICES ASSUME ~HashAvailable
                   PROVE  /\ new.id.seq # 0 /\ new.id.seq <= seq
                          /\ \A b \in Addresses :
                               heap[b] # None /\ heap[b].seq = new.id.seq
                                 => new.value.content = heap[b].content
        OBVIOUS
      <4>1. new.id.seq = heap[a].seq
        BY <2>4, <2>7, <3>1
      <4>2. heap[a].seq # 0
        BY <2>5, <3>1 DEF Fits
      <4>3. QED
        BY <2>1, <2>2, <2>4, <2>6, <4>1, <4>2 DEF FreshInv
    <3>5. QED
      BY <2>1, <3>1, <3>2, <3>3, <3>4
  <2>10. QED
    BY <2>8, <2>9
<1>8. QED
  BY <1>1, <1>2, <1>3, <1>4, <1>5, <1>6, <1>7, StepCases

LEMMA IStep == IInv /\ [Next]_vars => IInv'
  BY TypeStep, FreshStep, LiveStep, FitStep DEF IInv

\* A request only evaluates what its own configuration compiles to.
THEOREM OwnConfiguration == Spec => []ServesOwnConfiguration
<1>1. IInv => ServesOwnConfiguration
  BY DEF IInv, FitInv
<1>2. QED
  BY IInit, IStep, <1>1, PTL DEF Spec

\* The worker keeps the entries of one generation per instance, whatever the
\* order in which old and new requests ask for their identity.
THEOREM OneGeneration == Spec => []OneGenerationPerInstance
<1>1. IInv => OneGenerationPerInstance
  BY DEF IInv, LiveInv
<1>2. QED
  BY IInit, IStep, <1>1, PTL DEF Spec

\* The step LiveNeverGoesBack allows.
LiveAdvances ==
  \A p \in Instances :
    conf_cache_live[p] # None =>
      /\ conf_cache_live'[p] # None
      /\ generations'[conf_cache_live'[p]].seq >= generations[conf_cache_live[p]].seq

LEMMA LiveAdvancesStep ==
  ASSUME IInv, [Next]_vars PROVE LiveAdvances
<1> USE ConfCacheAssumption DEF IInv, LiveAdvances, kong, identities
<1>0. \A p \in Instances : conf_cache_live[p] # None =>
        /\ conf_cache_live[p] \in Seqs
        /\ generations[conf_cache_live[p]] # None
        /\ generations[conf_cache_live[p]].seq \in Nat
  BY DEF TypeInv, TypeOK, HeapInv, Generations, Seqs
<1>1. CASE UNCHANGED <<generations, conf_cache_live>>
  BY <1>0, <1>1
<1>2. ASSUME NEW r \in Requests, NEW a \in Addresses, IdentifySame(r, a)
      PROVE  LiveAdvances
  BY <1>0, <1>2, IdentifySameEffect
<1>3. ASSUME NEW r \in Requests, NEW a \in Addresses, IdentifyNew(r, a)
      PROVE  LiveAdvances
  <2> DEFINE g == heap[a].seq
             q == heap[a].pid
             old == conf_cache_live[q]
  <2>1. /\ g \in Seqs /\ heap[a] \in Tables
        /\ HasLive(heap[a]) => generations[old].seq <= g
        /\ conf_cache_live' = [conf_cache_live EXCEPT ![q] = g]
        /\ generations'[g].seq = g
    BY <1>3, IdentifyNewEffect
  <2>2. q \in Instances
    BY <2>1 DEF Tables
  <2>3. old # None => generations[old].seq <= g
    BY <2>1 DEF HasLive
  <2> HIDE DEF g, q
  <2>4. conf_cache_live'[q] = g /\ g # None /\ g \in Nat
    BY <2>1, <2>2 DEF TypeInv, TypeOK, Seqs
  <2>5. ASSUME NEW p \in Instances, p # q, conf_cache_live[p] # None
        PROVE  /\ conf_cache_live'[p] = conf_cache_live[p]
               /\ generations'[conf_cache_live[p]].seq = generations[conf_cache_live[p]].seq
    <3>1. conf_cache_live'[p] = conf_cache_live[p]
      BY <2>1, <2>5 DEF TypeInv, TypeOK
    <3>2. conf_cache_live[p] # g /\ conf_cache_live[p] # old
      <4>1. generations[g] = None
        BY <1>3, IdentifyNewEffect DEF g
      <4>2. generations[conf_cache_live[p]].id.pid = p /\ (old # None => generations[old].id.pid = q)
        BY <2>2, <2>5 DEF LiveInv
      <4>3. QED
        BY <1>0, <2>2, <2>5, <4>1, <4>2
    <3>3. generations' = [Retired(heap[a]) EXCEPT ![g] =
                            [seq |-> g, id |-> IdOf(heap[a]), dead |-> FALSE]]
      BY <1>3 DEF IdentifyNew, g
    <3>4. Retired(heap[a])[conf_cache_live[p]] = generations[conf_cache_live[p]]
      <4>1. CASE HasLive(heap[a])
        BY <4>1, <1>0, <2>5, <3>2 DEF Retired, q, TypeInv, TypeOK
      <4>2. CASE ~HasLive(heap[a])
        BY <4>2 DEF Retired
      <4>3. QED
        BY <4>1, <4>2
    <3>5. DOMAIN Retired(heap[a]) = Seqs
      BY DEF Retired, TypeInv, TypeOK
    <3>6. QED
      BY <1>0, <2>5, <3>1, <3>2, <3>3, <3>4, <3>5
  <2>6. ASSUME NEW p \in Instances, conf_cache_live[p] # None
        PROVE  /\ conf_cache_live'[p] # None
               /\ generations'[conf_cache_live'[p]].seq >= generations[conf_cache_live[p]].seq
    <3>1. CASE p = q
      BY <3>1, <2>1, <2>3, <2>4, <2>6, <1>0
    <3>2. CASE p # q
      BY <3>2, <2>5, <2>6, <1>0
    <3>3. QED
      BY <3>1, <3>2
  <2>7. QED
    BY <2>6
<1>4. CASE Quiet
  BY <1>1, <1>4, OtherSteps DEF Quiet
<1>5. ASSUME NEW p \in Instances, NEW a \in Addresses, NEW c \in Contents,
             NewTable(p, a, c)
      PROVE  LiveAdvances
  BY <1>1, <1>5, NewTableEffect
<1>6. ASSUME NEW a \in Addresses, Collect(a) PROVE LiveAdvances
  BY <1>1, <1>6, CollectEffect
<1>7. ASSUME NEW r \in Requests, NEW a \in Addresses,
             IdentifyUnsafe(r, a) \/ IdentifyOlder(r, a)
      PROVE  LiveAdvances
  BY <1>1, <1>7, IdentifyQuietly
<1>8. ASSUME NEW r \in Requests, NEW a \in Addresses, NEW prefix \in Prefixes,
             Get(r, a, prefix)
      PROVE  LiveAdvances
  BY <1>1, <1>8, GetEffect
<1>9. QED
  BY <1>2, <1>3, <1>4, <1>5, <1>6, <1>7, <1>8, StepCases

\* No straggler displaces the generation that replaced its own.
THEOREM NoGoingBack == Spec => LiveNeverGoesBack
<1>1. IInv /\ [Next]_vars => [LiveAdvances]_vars
  BY LiveAdvancesStep
<1>2. QED
  BY IInit, IStep, <1>1, PTL DEF Spec, LiveNeverGoesBack, LiveAdvances
=============================================================================
