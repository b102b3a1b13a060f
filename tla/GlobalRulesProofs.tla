------------------------- MODULE GlobalRulesProofs -------------------------
(***************************************************************************)
(* TLAPS proofs about GlobalRules, for every set of workers, overlapping   *)
(* polls, publishers and blobs, and every value of the bounds.             *)
(***************************************************************************)
EXTENDS GlobalRules, TLAPS

-----------------------------------------------------------------------------
(* Type correctness.                                                       *)

\* A publication built from a well-typed run is a well-typed pack.
LEMMA NewPackType ==
  ASSUME NEW run \in Readers, NEW signed \in BOOLEAN
  PROVE  NewPack(run, signed) \in Hashes
  BY DEF Readers, NewPack, Hashes, NewContent, NextVersion, VersionOf, Kept,
         EmptyPack, ContentOf, Blobs

\* Replacing the poll of one timer slot keeps the table of polls well typed.
LEMMA PollUpdateType ==
  ASSUME NEW w \in Workers, NEW t \in Ticks, NEW poll \in Polls,
         NEW table \in [Workers -> [Ticks -> Polls]]
  PROVE  [table EXCEPT ![w][t] = poll] \in [Workers -> [Ticks -> Polls]]
  OBVIOUS

\* Every variable keeps its type: a poll in flight always carries a version and
\* either no snapshot or a whole one.
THEOREM TypeCorrect == Spec => []TypeOK
<1> USE GlobalRulesAssumption
<1>1. Init => TypeOK
  BY DEF Init, TypeOK, IdleReader, Readers, IdlePoll, Polls, PollStates
<1>2. TypeOK /\ [Next]_vars => TypeOK'
  <2> SUFFICES ASSUME TypeOK, [Next]_vars PROVE TypeOK'
    OBVIOUS
  <2> USE DEF TypeOK
  <2>1. CASE UNCHANGED vars
    BY <2>1 DEF vars
  <2>2. ASSUME NEW p \in Publishers, ReadCurrent(p) PROVE TypeOK'
    BY <2>2 DEF ReadCurrent, Readers
  <2>3. ASSUME NEW p \in Publishers, Abandon(p) PROVE TypeOK'
    BY <2>3 DEF Abandon, IdleReader, Readers
  <2>4. ASSUME NEW p \in Publishers, Publish(p) PROVE TypeOK'
    <3>1. PICK signed \in BOOLEAN :
             /\ hash' = NewPack(reading[p], signed)
             /\ published' = published \cup {NewPack(reading[p], signed)}
      BY <2>4 DEF Publish
    <3>2. NewPack(reading[p], signed) \in Hashes
      BY NewPackType
    <3>3. reading' \in [Publishers -> Readers]
      BY <2>4 DEF Publish, IdleReader, Readers
    <3>4. QED
      BY <2>4, <3>1, <3>2, <3>3 DEF Publish
  <2>5. CASE Delete
    BY <2>5 DEF Delete
  <2>6. ASSUME NEW w \in Workers, Restart(w) PROVE TypeOK'
    BY <2>6 DEF Restart, IdlePoll, Polls, PollStates
  <2>7. ASSUME NEW w \in Workers, NEW t \in Ticks, ServeVersion(w, t) PROVE TypeOK'
    BY <2>7 DEF ServeVersion, VersionOf, Polls, PollStates, Hashes
  <2>8. ASSUME NEW w \in Workers, NEW t \in Ticks, HandleAbsent(w, t) PROVE TypeOK'
    <3> tick' = [tick EXCEPT ![w][t] = IdlePoll]
      BY <2>8 DEF HandleAbsent
    <3>1. tick' \in [Workers -> [Ticks -> Polls]]
      BY DEF IdlePoll, Polls, PollStates
    <3>2. EmptyPack \in Contents
      BY DEF EmptyPack, Contents, Blobs
    <3>3. /\ \/ /\ redis_pack' = [redis_pack EXCEPT ![w] = EmptyPack]
                /\ last_version' = [last_version EXCEPT ![w] = 0]
             \/ UNCHANGED <<redis_pack, last_version>>
          /\ UNCHANGED <<hash, published, reading, writes, restarts, faults>>
      BY <2>8 DEF HandleAbsent
    <3>4. redis_pack' \in [Workers -> Contents \cup {NoPack}]
      BY <3>2, <3>3
    <3>5. last_version' \in [Workers -> Nat]
      BY <3>3
    <3>6. QED
      BY <3>1, <3>3, <3>4, <3>5
  <2>9. ASSUME NEW w \in Workers, NEW t \in Ticks, HandleUnchanged(w, t) PROVE TypeOK'
    BY <2>9 DEF HandleUnchanged, IdlePoll, Polls, PollStates
  <2>10. ASSUME NEW w \in Workers, NEW t \in Ticks, HandleMoved(w, t) PROVE TypeOK'
    BY <2>10 DEF HandleMoved, Polls, PollStates
  <2>11. ASSUME NEW w \in Workers, NEW t \in Ticks, ServeFields(w, t) PROVE TypeOK'
    BY <2>11 DEF ServeFields, Polls, PollStates
  <2>12. ASSUME NEW w \in Workers, NEW t \in Ticks, HandleFields(w, t) PROVE TypeOK'
    <3>1. tick[w][t] \in Polls
      OBVIOUS
    <3>2. tick' \in [Workers -> [Ticks -> Polls]]
      BY <2>12 DEF HandleFields, IdlePoll, Polls, PollStates
    <3>3. CASE MayApply(w, tick[w][t].fields)
      <4>1. tick[w][t].fields \in Hashes
        BY <3>1, <3>3 DEF MayApply, Polls
      <4>2. /\ ContentOf(tick[w][t].fields) \in Contents
            /\ AppliedVersion(tick[w][t]) \in Nat
        BY <4>1 DEF ContentOf, Contents, AppliedVersion, Hashes
      <4>3. QED
        BY <2>12, <3>2, <3>3, <4>2 DEF HandleFields
    <3>4. CASE ~MayApply(w, tick[w][t].fields)
      BY <2>12, <3>2, <3>4 DEF HandleFields
    <3>5. QED
      BY <3>3, <3>4
  <2>13. ASSUME NEW w \in Workers, NEW t \in Ticks, LosePoll(w, t) PROVE TypeOK'
    BY <2>13 DEF LosePoll, IdlePoll, Polls, PollStates
  <2>14. QED
    BY <2>1, <2>2, <2>3, <2>4, <2>5, <2>6, <2>7, <2>8, <2>9, <2>10, <2>11, <2>12,
       <2>13 DEF Next, Poll
<1>3. QED
  BY <1>1, <1>2, PTL DEF Spec

-----------------------------------------------------------------------------
(* A worker serves what it reports.                                        *)

\* Whatever Redis answered, now or to a poll still in flight, was written by one
\* publication.
SnapshotsArePublications ==
  /\ hash # NoHash => hash \in published
  /\ \A w \in Workers : \A t \in Ticks :
       tick[w][t].fields # NoHash => tick[w][t].fields \in published

ServesInv == SnapshotsArePublications /\ ServesWhatItReports

\* Publications are never forgotten, so a step that leaves a worker's pack and
\* version alone keeps what that worker serves accounted for.
LEMMA ServesStep ==
  ASSUME ServesWhatItReports, published \subseteq published',
         UNCHANGED <<redis_pack, last_version>>
  PROVE  ServesWhatItReports'
  BY DEF ServesWhatItReports, Acceptable, Verified, Builds

LEMMA ServesInvStep == TypeOK /\ ServesInv /\ [Next]_vars => ServesInv'
<1> SUFFICES ASSUME TypeOK, ServesInv, [Next]_vars PROVE ServesInv'
  OBVIOUS
<1> USE DEF ServesInv, SnapshotsArePublications
<1>1. CASE UNCHANGED vars
  BY <1>1, ServesStep DEF vars
<1>2. ASSUME NEW p \in Publishers, ReadCurrent(p) \/ Abandon(p) PROVE ServesInv'
  BY <1>2, ServesStep DEF ReadCurrent, Abandon
<1>3. ASSUME NEW p \in Publishers, Publish(p) PROVE ServesInv'
  BY <1>3, ServesStep DEF Publish
<1>4. CASE Delete
  BY <1>4, ServesStep DEF Delete
<1>5. ASSUME NEW w \in Workers, Restart(w) PROVE ServesInv'
  BY <1>5 DEF Restart, TypeOK, ServesWhatItReports, IdlePoll, Acceptable, Verified, Builds
<1>6. ASSUME NEW w \in Workers, NEW t \in Ticks, ServeVersion(w, t) PROVE ServesInv'
  BY <1>6, ServesStep DEF ServeVersion, TypeOK
<1>7. ASSUME NEW w \in Workers, NEW t \in Ticks, HandleAbsent(w, t) PROVE ServesInv'
  <2>1. SnapshotsArePublications'
    BY <1>7 DEF HandleAbsent, TypeOK, IdlePoll
  <2>2. CASE PackHasRules(redis_pack[w])
    <3>1. ServesWhatItReports'
      BY <1>7, <2>2 DEF HandleAbsent, TypeOK, ServesWhatItReports, Acceptable,
         Verified, Builds
    <3>2. QED
      BY <2>1, <3>1
  <2>3. CASE ~PackHasRules(redis_pack[w])
    BY <1>7, <2>1, <2>3, ServesStep DEF HandleAbsent
  <2>4. QED
    BY <2>2, <2>3
<1>8. ASSUME NEW w \in Workers, NEW t \in Ticks, HandleUnchanged(w, t) PROVE ServesInv'
  BY <1>8, ServesStep DEF HandleUnchanged, TypeOK, IdlePoll
<1>9. ASSUME NEW w \in Workers, NEW t \in Ticks, HandleMoved(w, t) PROVE ServesInv'
  BY <1>9, ServesStep DEF HandleMoved, TypeOK
<1>10. ASSUME NEW w \in Workers, NEW t \in Ticks, ServeFields(w, t) PROVE ServesInv'
  BY <1>10, ServesStep DEF ServeFields, TypeOK
<1>11. ASSUME NEW w \in Workers, NEW t \in Ticks, HandleFields(w, t) PROVE ServesInv'
  <2> DEFINE fields == tick[w][t].fields
  <2>1. SnapshotsArePublications'
    BY <1>11 DEF HandleFields, TypeOK, IdlePoll
  <2>2. CASE MayApply(w, fields)
    <3>1. fields \in published /\ Acceptable(fields)
      BY <2>2 DEF MayApply, Acceptable
    <3>2. /\ redis_pack' = [redis_pack EXCEPT ![w] = ContentOf(fields)]
          /\ last_version' = [last_version EXCEPT ![w] = fields.version]
          /\ published' = published
      BY <1>11, <2>2 DEF HandleFields, AppliedVersion
    <3>3. ServesWhatItReports'
      BY <3>1, <3>2 DEF ServesWhatItReports, TypeOK, Acceptable, Verified, Builds
    <3>4. QED
      BY <2>1, <3>3
  <2>3. CASE ~MayApply(w, fields)
    BY <1>11, <2>1, <2>3, ServesStep DEF HandleFields
  <2>4. QED
    BY <2>2, <2>3
<1>12. ASSUME NEW w \in Workers, NEW t \in Ticks, LosePoll(w, t) PROVE ServesInv'
  BY <1>12, ServesStep DEF LosePoll, TypeOK, IdlePoll
<1>13. QED
  BY <1>1, <1>2, <1>3, <1>4, <1>5, <1>6, <1>7, <1>8, <1>9, <1>10, <1>11, <1>12
     DEF Next, Poll

\* For any number of publishers, workers and overlapping polls, deletions and
\* respawns included: the rules a worker serves are those of one acceptable
\* publication, the one whose version it reports.
THEOREM ServesReported == Spec => []ServesWhatItReports
<1>1. Init => ServesInv
  BY DEF Init, ServesInv, SnapshotsArePublications, ServesWhatItReports, IdlePoll
<1>2. QED
  BY <1>1, ServesInvStep, TypeCorrect, PTL DEF Spec, ServesInv

-----------------------------------------------------------------------------
(* With one publisher and no deletion, a version names one set of rules.   *)

\* The publisher always computes from the hash as it stands, so versions grow
\* with every publication and none is used twice.
VersionsAreUnique ==
  /\ \A g, h \in published : g.version = h.version => g = h
  /\ hash = NoHash => published = {}
  /\ hash # NoHash => \A h \in published : h.version <= hash.version
  /\ \A p \in Publishers : reading[p].busy => reading[p].snapshot = hash

LEMMA VersionsAreUniqueStep ==
  ASSUME NEW op, Publishers = {op}, ~MayDelete
  PROVE  TypeOK /\ VersionsAreUnique /\ [Next]_vars => VersionsAreUnique'
<1> SUFFICES ASSUME TypeOK, VersionsAreUnique, [Next]_vars PROVE VersionsAreUnique'
  OBVIOUS
<1> USE DEF VersionsAreUnique
<1>1. CASE UNCHANGED <<hash, published, reading>>
  BY <1>1
<1>2. ASSUME NEW p \in Publishers, ReadCurrent(p) PROVE VersionsAreUnique'
  BY <1>2 DEF ReadCurrent, TypeOK
<1>3. ASSUME NEW p \in Publishers, Abandon(p) PROVE VersionsAreUnique'
  BY <1>3 DEF Abandon, TypeOK, IdleReader
<1>4. ASSUME NEW p \in Publishers, Publish(p) PROVE VersionsAreUnique'
  <2>1. PICK signed \in BOOLEAN :
           /\ hash' = NewPack(reading[p], signed)
           /\ published' = published \cup {NewPack(reading[p], signed)}
    BY <1>4 DEF Publish
  <2>2. hash' \in Hashes
    BY <2>1, NewPackType DEF TypeOK
  <2>3. reading[p].snapshot = hash
    BY <1>4 DEF Publish
  <2>4. hash'.version = VersionOf(hash) + 1
    BY <2>1, <2>3 DEF NewPack, NextVersion
  <2>5. \A h \in published : h.version \in Nat /\ h.version < hash'.version
    BY <2>4 DEF VersionOf, TypeOK, Hashes
  <2>6. published' = published \cup {hash'} /\ hash' \in published'
    BY <2>1
  <2>7. hash'.version \in Nat
    BY <2>2 DEF Hashes
  <2>8. /\ \A h \in published' : h.version <= hash'.version
        /\ \A g, h \in published' : g.version = h.version => g = h
    BY <2>5, <2>6, <2>7
  <2>9. \A q \in Publishers : ~reading'[q].busy
    BY <1>4 DEF Publish, TypeOK, IdleReader
  <2>10. hash' # NoHash
    BY <2>2, GlobalRulesAssumption
  <2>11. QED
    BY <2>8, <2>9, <2>10
<1>5. QED
  BY <1>1, <1>2, <1>3, <1>4 DEF Next, Poll, vars, Delete, Restart, ServeVersion,
     HandleAbsent, HandleUnchanged, HandleMoved, ServeFields, HandleFields, LosePoll

\* Under a single publisher that never deletes the hash, workers that report the
\* same version serve the same rules.
THEOREM VersionNamesRules ==
  ASSUME NEW op, Publishers = {op}, ~MayDelete
  PROVE  Spec => []VersionIdentifiesRules
<1>1. Init => ServesInv /\ VersionsAreUnique
  BY DEF Init, ServesInv, SnapshotsArePublications, ServesWhatItReports, IdlePoll,
     VersionsAreUnique, IdleReader
<1>2. TypeOK /\ VersionsAreUnique /\ [Next]_vars => VersionsAreUnique'
  BY VersionsAreUniqueStep
<1>3. ServesInv /\ VersionsAreUnique => VersionIdentifiesRules
  BY DEF ServesInv, ServesWhatItReports, VersionsAreUnique, VersionIdentifiesRules
<1>4. QED
  BY <1>1, <1>2, <1>3, ServesInvStep, TypeCorrect, PTL DEF Spec

-----------------------------------------------------------------------------
(* A worker never steps back.                                              *)

\* However polls overlap, only a respawn or an absent hash lowers the version a
\* worker has in force.
THEOREM NoStepBack == Spec => NeverStepsBack
<1>1. TypeOK /\ [Next]_vars =>
        [\A w \in Workers :
           last_version'[w] < last_version[w]
             => /\ last_version'[w] = 0
                /\ redis_pack'[w] \in {NoPack, EmptyPack}]_vars
  <2> SUFFICES ASSUME TypeOK, [Next]_vars, NEW w \in Workers,
                      last_version'[w] < last_version[w]
               PROVE  /\ last_version'[w] = 0
                      /\ redis_pack'[w] \in {NoPack, EmptyPack}
    OBVIOUS
  <2>0. last_version[w] \in Nat
    BY DEF TypeOK
  <2>1. ASSUME last_version' = last_version PROVE FALSE
    BY <2>0, <2>1
  <2>2. ASSUME NEW v \in Workers, Restart(v)
        PROVE  last_version'[w] = 0 /\ redis_pack'[w] = NoPack
    BY <2>0, <2>2 DEF Restart, TypeOK
  <2>3. ASSUME NEW v \in Workers, NEW t \in Ticks, HandleAbsent(v, t)
        PROVE  last_version'[w] = 0 /\ redis_pack'[w] = EmptyPack
    BY <2>0, <2>3 DEF HandleAbsent, TypeOK
  <2>4. ASSUME NEW v \in Workers, NEW t \in Ticks, HandleFields(v, t)
        PROVE  FALSE
    <3>1. CASE MayApply(v, tick[v][t].fields)
      <4>1. /\ last_version' = [last_version EXCEPT ![v] = tick[v][t].fields.version]
            /\ tick[v][t].fields.version > last_version[v]
        BY <2>4, <3>1 DEF HandleFields, MayApply, AppliedVersion
      <4>2. tick[v][t].fields.version \in Nat
        <5>1. tick[v][t] \in Polls
          BY DEF TypeOK, HandleFields
        <5>2. QED
          BY <5>1, <3>1 DEF Polls, MayApply, Hashes
      <4>3. QED
        BY <2>0, <4>1, <4>2 DEF TypeOK
    <3>2. CASE ~MayApply(v, tick[v][t].fields)
      BY <2>1, <2>4, <3>2 DEF HandleFields
    <3>3. QED
      BY <3>1, <3>2
  <2>5. QED
    BY <2>1, <2>2, <2>3, <2>4 DEF Next, Poll, vars, ReadCurrent, Abandon, Publish,
       Delete, ServeVersion, HandleUnchanged, HandleMoved, ServeFields, LosePoll
<1>2. QED
  BY <1>1, TypeCorrect, PTL DEF Spec, NeverStepsBack

-----------------------------------------------------------------------------
(* What may take rules away from a worker.                                 *)

\* Every way in which a worker's rules change: a respawn, a poll that found no hash,
\* a snapshot that was fit to apply.
LEMMA PackChanges ==
  ASSUME TypeOK, [Next]_vars, NEW w \in Workers, redis_pack'[w] # redis_pack[w]
  PROVE  \/ restarts' = restarts + 1
         \/ \E t \in Ticks : tick[w][t].pc = "version" /\ tick[w][t].version = 0
         \/ \E t \in Ticks : /\ tick[w][t].pc = "fields"
                             /\ Acceptable(tick[w][t].fields)
                             /\ ContentOf(tick[w][t].fields) = redis_pack'[w]
<1>1. ASSUME redis_pack' = redis_pack PROVE FALSE
  BY <1>1
<1>2. ASSUME NEW v \in Workers, Restart(v) PROVE restarts' = restarts + 1
  BY <1>2 DEF Restart
<1>3. ASSUME NEW v \in Workers, NEW t \in Ticks, HandleAbsent(v, t)
      PROVE  tick[w][t].pc = "version" /\ tick[w][t].version = 0
  BY <1>3 DEF HandleAbsent, TypeOK
<1>4. ASSUME NEW v \in Workers, NEW t \in Ticks, HandleFields(v, t)
      PROVE  /\ tick[w][t].pc = "fields" /\ Acceptable(tick[w][t].fields)
             /\ ContentOf(tick[w][t].fields) = redis_pack'[w]
  <2>1. /\ MayApply(v, tick[v][t].fields) /\ tick[v][t].pc = "fields"
        /\ redis_pack' = [redis_pack EXCEPT ![v] = ContentOf(tick[v][t].fields)]
    BY <1>1, <1>4 DEF HandleFields
  <2>2. v = w /\ redis_pack'[w] = ContentOf(tick[w][t].fields)
    BY <2>1 DEF TypeOK
  <2> QED
    BY <2>1, <2>2 DEF MayApply, Acceptable
<1> QED
  BY <1>1, <1>2, <1>3, <1>4 DEF Next, Poll, vars, ReadCurrent, Abandon, Publish,
     Delete, ServeVersion, HandleUnchanged, HandleMoved, ServeFields, LosePoll

\* A publication that is unsigned, unparseable or stale, and a poll that fails, never
\* leave a worker without the rules it has.
THEOREM GoodPackStays == Spec => LastGoodPackStays
<1>1. TypeOK /\ [Next]_vars =>
        [\A w \in Workers :
           PackHasRules(redis_pack[w]) /\ ~PackHasRules(redis_pack'[w])
             => \/ restarts' = restarts + 1
                \/ \E t \in Ticks : tick[w][t].pc = "version" /\ tick[w][t].version = 0
                \/ \E t \in Ticks : /\ tick[w][t].pc = "fields"
                                    /\ Acceptable(tick[w][t].fields)
                                    /\ ContentOf(tick[w][t].fields) = redis_pack'[w]]_vars
  BY PackChanges
<1> QED
  BY <1>1, TypeCorrect, PTL DEF Spec, LastGoodPackStays
=============================================================================
