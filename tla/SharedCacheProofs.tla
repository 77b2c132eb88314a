------------------------- MODULE SharedCacheProofs -------------------------
(***************************************************************************)
(* Theorems about SharedCache, for any number of workers, loads, commits   *)
(* and faults.                                                             *)
(***************************************************************************)
EXTENDS SharedCache, FiniteSetTheorems, TLAPS

USE CacheConstants DEF Commits, Versions, Gens, Phases, Steps, Entries, LoadRecords, Tasks

-----------------------------------------------------------------------------
(* The inductive invariant                                                 *)

\* Commits whose INCR is still to come.
Due == {c \in Commits : task[c] \in [step : {"clear", "incr"}, at : Workers]}

\* There are at most as many generations as commits: each INCR has one of its own.
GenerationsCounted ==
    /\ gen + Cardinality(Due) <= db
    /\ \A c \in Commits : task[c] \in Tasks => c <= db

OpenedBefore == \A g \in Gens : opened[g] <= db

\* What is stored, on its way to Redis or in the hands of a load is as new as its generation.
ValuesUnderGeneration ==
    /\ \A g \in Gens : record[g] # Nothing => g <= gen /\ record[g] >= opened[g]
    /\ \A x \in late : x[1] <= gen /\ x[2] >= opened[x[1]]
    /\ \A l \in Loads :
         /\ load[l].gen <= gen
         /\ load[l].val # Nothing => load[l].val >= opened[load[l].gen]
         /\ load[l].phase \in {"refresh", "write"} => load[l].val # Nothing
         /\ load[l].phase \in {"idle", "keys"} => load[l].val = Nothing

\* The commit a message speaks of was made before the current generation was opened.
MessagesCovered ==
    /\ \A w \in Workers : heard[w] <= opened[gen]
    /\ \A w \in Workers : \A c \in inbox[w] : c <= opened[gen]
    /\ \A c \in Commits :
         task[c] \in Tasks /\ task[c].step = "publish" => c <= opened[gen]

\* A load whose entry is still in the map read its generation after the messages
\* the worker has handled.
Keyed == {"get", "lock", "refresh", "load", "write", "release", "wait"}
AttachedLoads ==
    \A l \in Loads :
        Attached(l) /\ load[l].phase \in Keyed => opened[load[l].gen] >= heard[At[l]]

IInv == /\ TypeOK
        /\ GenerationsCounted
        /\ OpenedBefore
        /\ ValuesUnderGeneration
        /\ MessagesCovered
        /\ AttachedLoads
        /\ EntryNotOlderThanMessage

\* An empty cache satisfies the inductive invariant.
THEOREM InitInv == Init => IInv
<1> SUFFICES ASSUME Init PROVE IInv
  OBVIOUS
<1>1. TypeOK
  BY DEF Init, TypeOK, Idle, Outside
<1>2. GenerationsCounted
  <2>1. Due = {}
    BY DEF Init, Due
  <2>2. QED
    BY <2>1, FS_EmptySet DEF Init, GenerationsCounted
<1>3. OpenedBefore /\ ValuesUnderGeneration /\ MessagesCovered
  BY DEF Init, Idle, Outside, OpenedBefore, ValuesUnderGeneration, MessagesCovered
<1>4. AttachedLoads /\ EntryNotOlderThanMessage
  BY DEF Init, Idle, Outside, AttachedLoads, EntryNotOlderThanMessage, Keyed
<1>5. QED
  BY <1>1, <1>2, <1>3, <1>4 DEF IInv

-----------------------------------------------------------------------------
(* What the steps of loads, of Redis and of maps share                     *)

\* Nothing that concerns commits, generations and messages moves.
Quiet == UNCHANGED <<db, task, gen, opened, inbox, heard>>

LEMMA QuietKeeps ==
    ASSUME IInv, Quiet
    PROVE  GenerationsCounted' /\ OpenedBefore' /\ MessagesCovered'
<1>1. Due' = Due
  BY DEF Quiet, Due
<1>2. QED
  BY <1>1 DEF IInv, Quiet, GenerationsCounted, OpenedBefore, MessagesCovered

\* Every generation that is open reflects at least what a worker has been told.
LEMMA GenerationCoversHeard ==
    ASSUME IInv, NEW w \in Workers
    PROVE  heard[w] <= opened[gen] /\ opened[gen] <= db /\ heard[w] <= db
  BY DEF IInv, TypeOK, OpenedBefore, MessagesCovered

\* A load's answer, when it is at least as new as what its worker has heard, is
\* a sound entry; the load is no longer attached.
LEMMA AnsweredKeeps ==
    ASSUME IInv, NEW l \in Loads, NEW v \in Versions,
           Attached(l) => v >= heard[At[l]],
           entry' = Answered(l, v), UNCHANGED heard
    PROVE  /\ entry' \in [Workers -> Entries \cup {Nothing}]
           /\ EntryNotOlderThanMessage'
           /\ \A k \in Loads : Attached(k)' => Attached(k) /\ k # l
<1>1. At[l] \in Workers
  OBVIOUS
<1>2. entry' \in [Workers -> Entries \cup {Nothing}]
  BY <1>1 DEF IInv, TypeOK, Answered
<1>3. EntryNotOlderThanMessage'
  BY <1>1 DEF IInv, TypeOK, Answered, EntryNotOlderThanMessage
<1>4. \A k \in Loads : Attached(k)' => Attached(k) /\ k # l
  BY <1>1 DEF IInv, TypeOK, Answered, Attached
<1>5. QED
  BY <1>2, <1>3, <1>4

-----------------------------------------------------------------------------
(* A step of a load                                                        *)

\* A load that ends with an answer that is new enough.
LEMMA FinishKeeps ==
    ASSUME IInv, NEW l \in Loads, NEW v \in Versions,
           Attached(l) => v >= heard[At[l]],
           entry' = Answered(l, v), Finish(l),
           UNCHANGED <<db, task, gen, opened, record, late, inbox, heard>>
    PROVE  /\ load' \in [Loads -> LoadRecords]
           /\ entry' \in [Workers -> Entries \cup {Nothing}]
           /\ ValuesUnderGeneration'
           /\ AttachedLoads'
           /\ EntryNotOlderThanMessage'
<1>1. load' \in [Loads -> LoadRecords]
  BY DEF IInv, TypeOK, Finish, Idle, Outside
<1>2. ValuesUnderGeneration'
  BY DEF IInv, TypeOK, ValuesUnderGeneration, Finish, Idle, Outside
<1>3. /\ entry' \in [Workers -> Entries \cup {Nothing}]
      /\ EntryNotOlderThanMessage'
      /\ \A k \in Loads : Attached(k)' => Attached(k) /\ k # l
  BY AnsweredKeeps
<1>4. AttachedLoads'
  BY <1>3 DEF IInv, TypeOK, AttachedLoads, Finish, Idle, Outside
<1>5. QED
  BY <1>1, <1>2, <1>3, <1>4

\* A value read under the generation of an attached load is new enough for its entry.
LEMMA KeyedValueCovers ==
    ASSUME IInv, NEW l \in Loads, load[l].phase \in Keyed, Attached(l),
           NEW v \in Versions, v >= opened[load[l].gen]
    PROVE  v >= heard[At[l]]
<1>1. /\ opened[load[l].gen] >= heard[At[l]]
      /\ opened[load[l].gen] \in Nat
      /\ heard[At[l]] \in Nat
  BY DEF IInv, TypeOK, AttachedLoads
<1>2. QED
  BY <1>1

\* What one load's new record must satisfy when the rest stays as it is.
LoadSound(r, w, attached) ==
    /\ r \in LoadRecords
    /\ r.gen <= gen
    /\ r.val # Nothing => r.val >= opened[r.gen]
    /\ r.phase \in {"refresh", "write"} => r.val # Nothing
    /\ r.phase \in {"idle", "keys"} => r.val = Nothing
    /\ attached /\ r.phase \in Keyed => opened[r.gen] >= heard[w]

\* A load that changes its own record only.
LEMMA OwnRecordKeeps ==
    ASSUME IInv, NEW l \in Loads, NEW r, LoadSound(r, At[l], Attached(l)),
           load' = [load EXCEPT ![l] = r],
           UNCHANGED <<gen, opened, record, late, heard, entry>>
    PROVE  /\ load' \in [Loads -> LoadRecords]
           /\ ValuesUnderGeneration'
           /\ AttachedLoads'
           /\ EntryNotOlderThanMessage'
<1>1. /\ load' \in [Loads -> LoadRecords]
      /\ load'[l] = r
      /\ \A k \in Loads \ {l} : load'[k] = load[k]
  BY DEF IInv, TypeOK, LoadSound
<1>2. ValuesUnderGeneration'
  BY <1>1 DEF IInv, ValuesUnderGeneration, LoadSound
<1>3. AttachedLoads'
  BY <1>1 DEF IInv, AttachedLoads, Attached, LoadSound
<1>4. EntryNotOlderThanMessage'
  BY DEF IInv, EntryNotOlderThanMessage
<1>5. QED
  BY <1>1, <1>2, <1>3, <1>4

\* A keyed load that goes on under its generation, with the value it had or none.
LEMMA SameGenerationSound ==
    ASSUME IInv, NEW l \in Loads, load[l].phase \in Keyed,
           NEW r \in LoadRecords, r.gen = load[l].gen,
           r.val = Nothing \/ r.val >= opened[load[l].gen],
           r.phase \in {"refresh", "write"} => r.val # Nothing,
           r.phase \notin {"idle", "keys"}
    PROVE  LoadSound(r, At[l], Attached(l))
  BY DEF IInv, ValuesUnderGeneration, AttachedLoads, LoadSound

\* A load that falls back to the plain loader.
LEMMA FallBackSound ==
    ASSUME IInv, NEW l \in Loads
    PROVE  LoadSound(Outside("plain"), At[l], Attached(l))
  BY DEF IInv, TypeOK, LoadSound, Outside, Keyed

\* Entries lose their value, their load or their place, and gain nothing.
EntriesShrink ==
    /\ entry' \in [Workers -> Entries \cup {Nothing}]
    /\ \A w \in Workers :
         entry'[w] # Nothing =>
            /\ entry[w] # Nothing
            /\ entry'[w].val \in {entry[w].val, Nothing}
            /\ entry'[w].pending \in {entry[w].pending, NoLoad}

LEMMA ShrinkKeeps ==
    ASSUME IInv, EntriesShrink, UNCHANGED heard
    PROVE  /\ EntryNotOlderThanMessage'
           /\ \A k \in Loads : Attached(k)' => Attached(k)
<1>1. EntryNotOlderThanMessage'
  BY DEF IInv, EntriesShrink, EntryNotOlderThanMessage
<1>2. \A k \in Loads : Attached(k)' => Attached(k)
  BY DEF EntriesShrink, Attached
<1>3. QED
  BY <1>1, <1>2

\* Deleting one worker's entry, dropping its value or its load.
LEMMA OneEntryShrinks ==
    ASSUME TypeOK, NEW w \in Workers,
           \/ entry' = [entry EXCEPT ![w] = Nothing]
           \/ entry[w] # Nothing /\ entry' = [entry EXCEPT ![w] = Entry(Nothing, @.pending)]
           \/ entry[w] # Nothing /\ entry' = [entry EXCEPT ![w] = Entry(@.val, NoLoad)]
           \/ UNCHANGED entry
    PROVE  EntriesShrink
<1>1. CASE entry' = [entry EXCEPT ![w] = Nothing]
  BY <1>1 DEF TypeOK, EntriesShrink
<1>2. CASE entry[w] # Nothing /\ entry' = [entry EXCEPT ![w] = Entry(Nothing, @.pending)]
  <2>1. entry[w] \in Entries
    BY <1>2 DEF TypeOK
  <2>2. QED
    BY <1>2, <2>1 DEF TypeOK, EntriesShrink, Entry
<1>3. CASE entry[w] # Nothing /\ entry' = [entry EXCEPT ![w] = Entry(@.val, NoLoad)]
  <2>1. entry[w] \in Entries
    BY <1>3 DEF TypeOK
  <2>2. QED
    BY <1>3, <2>1 DEF TypeOK, EntriesShrink, Entry
<1>4. CASE UNCHANGED entry
  BY <1>4 DEF TypeOK, EntriesShrink
<1>5. QED
  BY <1>1, <1>2, <1>3, <1>4

\* A value the load may answer with is a sound entry wherever the answer lands.
LEMMA AnswerSound ==
    ASSUME IInv, NEW l \in Loads, load[l].phase \in Keyed,
           NEW v \in Versions, v >= opened[load[l].gen]
    PROVE  Attached(l) => v >= heard[At[l]]
  BY KeyedValueCovers

\* No step of a load breaks the invariant.
LEMMA LoadStepKeeps ==
    ASSUME IInv, NEW l \in Loads, LoadStep(l)
    PROVE  IInv'
<1> USE DEF write, redis, bus
<1> DEFINE Rest == ValuesUnderGeneration' /\ AttachedLoads' /\ EntryNotOlderThanMessage'
<1>t. /\ TypeOK
      /\ load[l] \in LoadRecords
      /\ At[l] \in Workers
      /\ load[l].gen \in Gens
      /\ load[l].val \in Versions \cup {Nothing}
      /\ record[load[l].gen] # Nothing => record[load[l].gen] >= opened[load[l].gen]
      /\ load[l].val # Nothing => load[l].val >= opened[load[l].gen]
  BY DEF IInv, TypeOK, ValuesUnderGeneration
<1>f. Fault \/ UNCHANGED faults => faults' \in 0 .. MaxFaults
  BY DEF IInv, TypeOK, Fault
<1>l. /\ [lock EXCEPT ![load[l].gen] = l] \in [Gens -> Loads \cup {NoLoad}]
      /\ Unlocked(l) \in [Gens -> Loads \cup {NoLoad}]
      /\ lock \in [Gens -> Loads \cup {NoLoad}]
  BY <1>t DEF TypeOK, Unlocked
<1> SUFFICES TypeOK' /\ Rest
  <2>1. Quiet
    BY DEF LoadStep, ReadKeys, ReadRecord, TakeLock, Refresh, RunLoader, WriteRecord,
           WriteTimesOut, Release, Poll, WaitTimesOut, RedisFails, RunPlainLoader, Quiet
  <2>2. QED
    BY <2>1, QuietKeeps DEF IInv
<1>1. CASE ReadKeys(l)
  <2> DEFINE r == [load[l] EXCEPT !.phase = "get", !.gen = gen]
  <2>1. load' = [load EXCEPT ![l] = r]
    BY <1>1 DEF ReadKeys
  <2>2. LoadSound(r, At[l], Attached(l))
    <3>1. r \in LoadRecords /\ r.phase = "get" /\ r.gen = gen /\ r.val = Nothing
      BY <1>1, <1>t DEF IInv, TypeOK, ReadKeys, ValuesUnderGeneration
    <3>2. opened[gen] >= heard[At[l]]
      BY <1>t, GenerationCoversHeard DEF TypeOK
    <3>3. QED
      BY <3>1, <3>2, <1>t DEF LoadSound, TypeOK
  <2>3. Rest /\ load' \in [Loads -> LoadRecords]
    BY <1>1, <2>1, <2>2, OwnRecordKeeps DEF ReadKeys
  <2>4. QED
    BY <1>1, <1>f, <2>3, <1>t DEF TypeOK, ReadKeys
<1>2. CASE ReadRecord(l)
  <2> DEFINE found == record[load[l].gen]
  <2>1. CASE found = Nothing /\ GoTo(l, "lock") /\ UNCHANGED entry
    <3> DEFINE r == [load[l] EXCEPT !.phase = "lock"]
    <3>1. load' = [load EXCEPT ![l] = r]
      BY <2>1 DEF GoTo
    <3>2. r \in LoadRecords /\ r.phase = "lock" /\ r.gen = load[l].gen /\ r.val = load[l].val
      BY <1>t
    <3>3. LoadSound(r, At[l], Attached(l))
      BY <1>2, <1>t, <3>2, SameGenerationSound DEF ReadRecord, Keyed
    <3>4. Rest /\ load' \in [Loads -> LoadRecords]
      BY <1>2, <2>1, <3>1, <3>3, OwnRecordKeeps DEF ReadRecord
    <3>5. QED
      BY <1>2, <1>f, <2>1, <3>4, <1>t DEF TypeOK, ReadRecord
  <2>2. CASE found # Nothing /\ entry' = Answered(l, found) /\ Finish(l)
    <3>1. found \in Versions /\ (Attached(l) => found >= heard[At[l]])
      BY <1>2, <2>2, <1>t, AnswerSound DEF TypeOK, ReadRecord, Keyed
    <3>2. Rest /\ load' \in [Loads -> LoadRecords] /\ entry' \in [Workers -> Entries \cup {Nothing}]
      BY <1>2, <2>2, <3>1, FinishKeeps DEF ReadRecord
    <3>3. QED
      BY <1>2, <1>f, <3>2, <1>t DEF TypeOK, ReadRecord
  <2>3. CASE /\ found # Nothing /\ UNCHANGED entry
             /\ load' = [load EXCEPT ![l].phase = "refresh", ![l].val = found]
    <3> DEFINE r == [load[l] EXCEPT !.phase = "refresh", !.val = found]
    <3>1. load' = [load EXCEPT ![l] = r]
      BY <2>3
    <3>2. r \in LoadRecords /\ r.phase = "refresh" /\ r.gen = load[l].gen /\ r.val = found
      BY <1>t, <2>3 DEF TypeOK
    <3>3. LoadSound(r, At[l], Attached(l))
      BY <1>2, <2>3, <1>t, <3>2, SameGenerationSound DEF ReadRecord, Keyed
    <3>4. Rest /\ load' \in [Loads -> LoadRecords]
      BY <1>2, <2>3, <3>1, <3>3, OwnRecordKeeps DEF ReadRecord
    <3>5. QED
      BY <1>2, <1>f, <2>3, <3>4, <1>t DEF TypeOK, ReadRecord
  <2>4. QED
    BY <1>2, <2>1, <2>2, <2>3 DEF ReadRecord
<1>3. CASE TakeLock(l)
  <2> DEFINE r(phase) == [load[l] EXCEPT !.phase = phase]
  <2>1. PICK phase \in {"load", "wait"} : load' = [load EXCEPT ![l] = r(phase)]
    BY <1>3 DEF TakeLock, GoTo
  <2>2. /\ r(phase) \in LoadRecords
        /\ r(phase).phase = phase
        /\ r(phase).gen = load[l].gen
        /\ r(phase).val = load[l].val
    BY <1>t
  <2>3. LoadSound(r(phase), At[l], Attached(l))
    BY <1>3, <1>t, <2>2, SameGenerationSound DEF TakeLock, Keyed
  <2>4. Rest /\ load' \in [Loads -> LoadRecords]
    BY <1>3, <2>1, <2>3, OwnRecordKeeps DEF TakeLock
  <2>5. QED
    <3>1. lock' \in [Gens -> Loads \cup {NoLoad}]
      BY <1>3, <1>l DEF TakeLock
    <3>2. QED
      BY <1>3, <1>f, <2>4, <3>1, <1>t DEF TypeOK, TakeLock
<1>4. CASE Refresh(l)
  <2>0. load[l].val \in Versions /\ (Attached(l) => load[l].val >= heard[At[l]])
    <3>1. load[l].val # Nothing
      BY <1>4 DEF IInv, ValuesUnderGeneration, Refresh
    <3>2. QED
      BY <1>4, <3>1, <1>t, AnswerSound DEF Refresh, Keyed
  <2>1. CASE Finish(l)
    <3>1. Rest /\ load' \in [Loads -> LoadRecords] /\ entry' \in [Workers -> Entries \cup {Nothing}]
      BY <1>4, <2>0, <2>1, FinishKeeps DEF Refresh
    <3>2. lock' \in [Gens -> Loads \cup {NoLoad}]
      BY <1>4, <1>l DEF Refresh
    <3>3. QED
      BY <1>4, <1>f, <3>1, <3>2, <1>t DEF TypeOK, Refresh
  <2>2. CASE load' = [load EXCEPT ![l].phase = "load", ![l].val = Nothing,
                                  ![l].background = TRUE]
    <3> DEFINE r == [load[l] EXCEPT !.phase = "load", !.val = Nothing, !.background = TRUE]
    <3>1. /\ load' \in [Loads -> LoadRecords]
          /\ load'[l].phase = "load"
          /\ load'[l].gen = load[l].gen
          /\ load'[l].val = Nothing
          /\ \A k \in Loads \ {l} : load'[k] = load[k]
      BY <2>2, <1>t DEF TypeOK
    <3>2. /\ entry' \in [Workers -> Entries \cup {Nothing}]
          /\ EntryNotOlderThanMessage'
          /\ \A k \in Loads : Attached(k)' => Attached(k) /\ k # l
      BY <1>4, <2>0, AnsweredKeeps DEF Refresh
    <3>3. ValuesUnderGeneration'
      BY <1>4, <3>1 DEF IInv, ValuesUnderGeneration, Refresh
    <3>4. AttachedLoads'
      BY <1>4, <3>1, <3>2 DEF IInv, AttachedLoads, Refresh
    <3>5. lock' \in [Gens -> Loads \cup {NoLoad}]
      BY <1>4, <1>l DEF Refresh
    <3>6. QED
      BY <1>4, <1>f, <3>1, <3>2, <3>3, <3>4, <3>5, <1>t DEF TypeOK, Refresh
  <2>3. QED
    BY <1>4, <2>1, <2>2 DEF Refresh
<1>5. CASE RunLoader(l)
  <2>1. CASE load' = [load EXCEPT ![l].phase = "write", ![l].val = db] /\ UNCHANGED faults
    <3> DEFINE r == [load[l] EXCEPT !.phase = "write", !.val = db]
    <3>1. load' = [load EXCEPT ![l] = r]
      BY <2>1
    <3>2. r \in LoadRecords /\ r.phase = "write" /\ r.gen = load[l].gen /\ r.val = db
      BY <1>t DEF TypeOK
    <3>3. db >= opened[load[l].gen] /\ db # Nothing
      <4>1. load[l].gen \in Gens
        BY <1>t
      <4>2. opened[load[l].gen] \in Nat /\ opened[load[l].gen] <= db
        BY <4>1 DEF IInv, TypeOK, OpenedBefore
      <4>3. db \in Nat
        BY DEF IInv, TypeOK
      <4>4. QED
        BY <4>2, <4>3
    <3>4. LoadSound(r, At[l], Attached(l))
      BY <1>5, <1>t, <3>2, <3>3, SameGenerationSound DEF RunLoader, Keyed
    <3>5. Rest /\ load' \in [Loads -> LoadRecords]
      BY <1>5, <3>1, <3>4, OwnRecordKeeps DEF RunLoader
    <3>6. QED
      BY <1>5, <1>f, <3>5, <1>t DEF TypeOK, RunLoader
  <2>2. CASE GoTo(l, "release") /\ Fault
    <3> DEFINE r == [load[l] EXCEPT !.phase = "release"]
    <3>1. load' = [load EXCEPT ![l] = r]
      BY <2>2 DEF GoTo
    <3>2. r \in LoadRecords /\ r.phase = "release" /\ r.gen = load[l].gen /\ r.val = load[l].val
      BY <1>t
    <3>3. LoadSound(r, At[l], Attached(l))
      BY <1>5, <1>t, <3>2, SameGenerationSound DEF RunLoader, Keyed
    <3>4. Rest /\ load' \in [Loads -> LoadRecords]
      BY <1>5, <3>1, <3>3, OwnRecordKeeps DEF RunLoader
    <3>5. QED
      BY <1>5, <1>f, <2>2, <3>4, <1>t DEF TypeOK, RunLoader
  <2>3. QED
    BY <1>5, <2>1, <2>2 DEF RunLoader
<1>6. CASE WriteRecord(l)
  <2> DEFINE g == load[l].gen
             v == load[l].val
  <2>1. g \in Gens /\ g <= gen /\ v \in Versions /\ v >= opened[g]
    BY <1>6, <1>t DEF IInv, ValuesUnderGeneration, WriteRecord
  <2>2. record' = [record EXCEPT ![g] = v]
    BY <1>6 DEF WriteRecord, KeyGeneration
  <2>3. record' \in [Gens -> Versions \cup {Nothing}]
    BY <2>1, <2>2, <1>t DEF TypeOK
  <2>4. \A h \in Gens : record'[h] # Nothing => h <= gen /\ record'[h] >= opened[h]
    BY <2>1, <2>2, <1>t DEF IInv, TypeOK, ValuesUnderGeneration
  <2>5. /\ load' \in [Loads -> LoadRecords]
        /\ load'[l].phase = "release"
        /\ load'[l].gen = load[l].gen
        /\ load'[l].val = load[l].val
        /\ \A k \in Loads \ {l} : load'[k] = load[k]
    BY <1>6, <1>t DEF TypeOK, WriteRecord, GoTo
  <2>6. ValuesUnderGeneration'
    BY <1>6, <2>4, <2>5 DEF IInv, ValuesUnderGeneration, WriteRecord
  <2>7. AttachedLoads' /\ EntryNotOlderThanMessage'
    BY <1>6, <2>5 DEF IInv, AttachedLoads, Attached, EntryNotOlderThanMessage, WriteRecord, Keyed
  <2>8. QED
    BY <1>6, <1>f, <2>3, <2>5, <2>6, <2>7, <1>t DEF TypeOK, WriteRecord
<1>7. CASE WriteTimesOut(l)
  <2> DEFINE g == load[l].gen
             v == load[l].val
  <2>1. g \in Gens /\ g <= gen /\ v \in Versions /\ v >= opened[g]
    BY <1>7, <1>t DEF IInv, ValuesUnderGeneration, WriteTimesOut
  <2>2. late' = late \cup {<<g, v>>}
    BY <1>7 DEF WriteTimesOut, KeyGeneration
  <2>3. late' \subseteq Gens \X Versions /\ \A x \in late' : x[1] <= gen /\ x[2] >= opened[x[1]]
    BY <2>1, <2>2, <1>t DEF IInv, TypeOK, ValuesUnderGeneration
  <2>5. /\ load' \in [Loads -> LoadRecords]
        /\ load'[l].phase = "release"
        /\ load'[l].gen = load[l].gen
        /\ load'[l].val = Nothing
        /\ \A k \in Loads \ {l} : load'[k] = load[k]
    BY <1>7, <1>t DEF TypeOK, WriteTimesOut
  <2>6. ValuesUnderGeneration'
    BY <1>7, <2>3, <2>5 DEF IInv, ValuesUnderGeneration, WriteTimesOut
  <2>7. AttachedLoads' /\ EntryNotOlderThanMessage'
    BY <1>7, <2>5 DEF IInv, AttachedLoads, Attached, EntryNotOlderThanMessage, WriteTimesOut, Keyed
  <2>8. QED
    BY <1>7, <1>f, <2>3, <2>5, <2>6, <2>7, <1>t DEF TypeOK, WriteTimesOut
<1>8. CASE Release(l)
  <2>l. lock' \in [Gens -> Loads \cup {NoLoad}] /\ faults' \in 0 .. MaxFaults
    BY <1>8, <1>l, <1>f DEF Release
  <2>1. CASE load[l].background /\ Finish(l) /\ UNCHANGED entry
    <3>1. load' = [load EXCEPT ![l] = Idle]
      BY <2>1 DEF Finish
    <3>2. LoadSound(Idle, At[l], Attached(l))
      BY <1>t DEF TypeOK, LoadSound, Idle, Outside, Keyed
    <3>3. Rest /\ load' \in [Loads -> LoadRecords]
      BY <1>8, <2>1, <3>1, <3>2, OwnRecordKeeps DEF Release
    <3>4. QED
      BY <1>8, <2>l, <2>1, <3>3, <1>t DEF TypeOK, Release
  <2>2. CASE load[l].val # Nothing /\ entry' = Answered(l, load[l].val) /\ Finish(l)
    <3>1. load[l].val \in Versions /\ (Attached(l) => load[l].val >= heard[At[l]])
      BY <1>8, <2>2, <1>t, AnswerSound DEF Release, Keyed
    <3>2. Rest /\ load' \in [Loads -> LoadRecords] /\ entry' \in [Workers -> Entries \cup {Nothing}]
      BY <1>8, <2>2, <3>1, FinishKeeps DEF Release
    <3>3. QED
      BY <1>8, <2>l, <3>2, <1>t DEF TypeOK, Release
  <2>3. CASE FallBack(l) /\ UNCHANGED entry
    <3>1. load' = [load EXCEPT ![l] = Outside("plain")]
      BY <2>3 DEF FallBack
    <3>2. Rest /\ load' \in [Loads -> LoadRecords]
      BY <1>8, <2>3, <3>1, FallBackSound, OwnRecordKeeps DEF Release
    <3>3. QED
      BY <1>8, <2>l, <2>3, <3>2, <1>t DEF TypeOK, Release
  <2>4. QED
    BY <1>8, <2>1, <2>2, <2>3 DEF Release
<1>9. CASE Poll(l)
  <2> DEFINE found == record[load[l].gen]
  <2>1. found \in Versions /\ (Attached(l) => found >= heard[At[l]])
    BY <1>9, <1>t, AnswerSound DEF TypeOK, Poll, Keyed
  <2>2. Rest /\ load' \in [Loads -> LoadRecords] /\ entry' \in [Workers -> Entries \cup {Nothing}]
    BY <1>9, <2>1, FinishKeeps DEF Poll
  <2>3. QED
    BY <1>9, <1>f, <2>2, <1>t DEF TypeOK, Poll
<1>10. CASE WaitTimesOut(l) \/ RedisFails(l)
  <2>1. load' = [load EXCEPT ![l] = Outside("plain")]
    BY <1>10 DEF FallBack, WaitTimesOut, RedisFails
  <2>2. Rest /\ load' \in [Loads -> LoadRecords]
    BY <1>10, <2>1, FallBackSound, OwnRecordKeeps DEF WaitTimesOut, RedisFails
  <2>3. lock' \in [Gens -> Loads \cup {NoLoad}]
    BY <1>10, <1>l DEF WaitTimesOut, RedisFails
  <2>4. QED
    BY <1>10, <1>f, <2>2, <2>3, <1>t DEF TypeOK, WaitTimesOut, RedisFails
<1>11. CASE RunPlainLoader(l)
  <2>1. CASE entry' = Answered(l, db) /\ UNCHANGED faults
    <3>1. db \in Versions /\ db >= heard[At[l]]
      BY <1>t, GenerationCoversHeard DEF TypeOK
    <3>2. Rest /\ load' \in [Loads -> LoadRecords] /\ entry' \in [Workers -> Entries \cup {Nothing}]
      BY <1>11, <2>1, <3>1, FinishKeeps DEF RunPlainLoader
    <3>3. QED
      BY <1>11, <1>f, <2>1, <3>2, <1>t DEF TypeOK, RunPlainLoader
  <2>2. CASE entry' \in Failed(l) /\ Fault
    <3>1. /\ entry' \in [Workers -> Entries \cup {Nothing}]
          /\ EntryNotOlderThanMessage'
          /\ \A k \in Loads : Attached(k)' => Attached(k)
      <4>1. Attached(l) => entry[At[l]] # Nothing
        BY DEF Attached
      <4>2. EntriesShrink
        BY <2>2, <4>1, <1>t, OneEntryShrinks DEF Failed
      <4>3. QED
        BY <1>11, <4>2, ShrinkKeeps DEF RunPlainLoader, EntriesShrink
    <3>2. /\ load' \in [Loads -> LoadRecords]
          /\ load'[l] = Idle
          /\ \A k \in Loads \ {l} : load'[k] = load[k]
      BY <1>11, <1>t DEF TypeOK, RunPlainLoader, Finish, Idle, Outside
    <3>3. ValuesUnderGeneration'
      <4>1. load'[l].gen = 0 /\ load'[l].val = Nothing /\ load'[l].phase = "idle" /\ 0 <= gen
        BY <3>2, <1>t DEF TypeOK, Idle, Outside
      <4>2. QED
        BY <1>11, <3>2, <4>1 DEF IInv, ValuesUnderGeneration, RunPlainLoader
    <3>4. AttachedLoads'
      BY <1>11, <3>1, <3>2 DEF IInv, AttachedLoads, RunPlainLoader, Idle, Outside, Keyed
    <3>5. QED
      BY <1>11, <2>2, <1>f, <3>1, <3>2, <3>3, <3>4, <1>t DEF TypeOK, RunPlainLoader
  <2>3. QED
    BY <1>11, <2>1, <2>2 DEF RunPlainLoader
<1>12. QED
  BY <1>1, <1>2, <1>3, <1>4, <1>5, <1>6, <1>7, <1>8, <1>9, <1>10, <1>11 DEF LoadStep

-----------------------------------------------------------------------------
(* The other steps                                                         *)

\* The fault counter stays within its bound.
LEMMA FaultType ==
    ASSUME TypeOK, Fault \/ UNCHANGED faults
    PROVE  faults' \in 0 .. MaxFaults
  BY DEF TypeOK, Fault

\* A step that leaves loads, records and generations alone, and entries too or
\* takes something from them, keeps the invariant if it keeps the types and
\* does not touch commits and messages.
LEMMA BystanderKeeps ==
    ASSUME IInv, Quiet, EntriesShrink, UNCHANGED <<record, late, load>>, TypeOK'
    PROVE  IInv'
<1>1. ValuesUnderGeneration'
  BY DEF IInv, Quiet, ValuesUnderGeneration
<1>2. EntryNotOlderThanMessage' /\ \A k \in Loads : Attached(k)' => Attached(k)
  BY ShrinkKeeps DEF Quiet
<1>3. AttachedLoads'
  BY <1>2 DEF IInv, Quiet, AttachedLoads
<1>4. QED
  BY <1>1, <1>2, <1>3, QuietKeeps DEF IInv

\* A load that starts has no value and no generation yet.
LEMMA StartLoadKeeps ==
    ASSUME IInv, NEW l \in Loads, StartLoad(l)
    PROVE  IInv'
<1> DEFINE w == At[l]
<1>t. TypeOK /\ load[l] \in LoadRecords /\ w \in Workers
  BY DEF IInv, TypeOK
<1>1. Quiet /\ UNCHANGED <<record, late, lock>>
  BY DEF StartLoad, write, redis, bus, Quiet
<1>2. PICK phase \in {"keys", "plain"} :
         /\ load' \in [Loads -> LoadRecords]
         /\ load'[l].phase = phase
         /\ load'[l].gen <= gen
         /\ load'[l].val = Nothing
         /\ \A k \in Loads \ {l} : load'[k] = load[k]
  <2>1. CASE GoTo(l, "keys")
    <3>1. load'[l] = [load[l] EXCEPT !.phase = "keys"]
      BY <2>1, <1>t DEF TypeOK, GoTo
    <3>2. load[l].val = Nothing /\ load[l].gen <= gen
      BY DEF IInv, ValuesUnderGeneration, StartLoad
    <3>3. load'[l].phase = "keys" /\ load'[l].gen <= gen /\ load'[l].val = Nothing
      BY <3>1, <3>2, <1>t
    <3>4. load' \in [Loads -> LoadRecords] /\ \A k \in Loads \ {l} : load'[k] = load[k]
      BY <2>1, <1>t DEF TypeOK, GoTo
    <3>5. QED
      BY <3>3, <3>4
  <2>2. CASE FallBack(l)
    BY <2>2, <1>t DEF TypeOK, FallBack, Outside
  <2>3. QED
    BY <2>1, <2>2 DEF StartLoad
<1>3. entry' \in [Workers -> Entries \cup {Nothing}]
  BY <1>t DEF TypeOK, StartLoad, Entry
<1>4. /\ \A v \in Workers \ {w} : entry'[v] = entry[v]
      /\ entry'[w].pending = l
      /\ entry'[w].val # Nothing => entry[w] # Nothing /\ entry'[w].val = entry[w].val
  BY <1>t DEF TypeOK, StartLoad, Entry
<1>5. EntryNotOlderThanMessage'
  BY <1>1, <1>4, <1>t DEF IInv, Quiet, EntryNotOlderThanMessage
<1>6. \A k \in Loads \ {l} : Attached(k)' => Attached(k)
  BY <1>4 DEF Attached
<1>7. AttachedLoads'
  BY <1>1, <1>2, <1>6 DEF IInv, Quiet, AttachedLoads, Keyed
<1>8. ValuesUnderGeneration'
  BY <1>1, <1>2 DEF IInv, Quiet, ValuesUnderGeneration
<1>9. TypeOK'
  <2>1. faults' \in 0 .. MaxFaults
    BY <1>t, FaultType DEF StartLoad
  <2>2. QED
    BY <1>1, <1>2, <1>3, <2>1, <1>t DEF TypeOK, Quiet
<1>10. QED
  BY <1>1, <1>5, <1>7, <1>8, <1>9, QuietKeeps DEF IInv

\* What Redis does by itself, and what maps lose.
LEMMA ClockKeeps ==
    ASSUME IInv
    PROVE  /\ \A w \in Workers : Evict(w) \/ EntryExpires(w) => IInv'
           /\ \A g \in Gens : RecordExpires(g) \/ LockExpires(g) => IInv'
           /\ \A g \in Gens, v \in Versions : LateWrite(g, v) => IInv'
<1> USE DEF write, redis, bus
<1>t. TypeOK
  BY DEF IInv
<1>1. ASSUME NEW w \in Workers, Evict(w) \/ EntryExpires(w) PROVE IInv'
  <2>1. EntriesShrink
    BY <1>1, <1>t, OneEntryShrinks DEF Evict, EntryExpires
  <2>2. Quiet /\ UNCHANGED <<record, late, load>>
    BY <1>1 DEF Evict, EntryExpires, Quiet
  <2>3. TypeOK'
    BY <1>1, <1>t, <2>1 DEF TypeOK, Evict, EntryExpires, EntriesShrink
  <2>4. QED
    BY <2>1, <2>2, <2>3, BystanderKeeps
<1>2. ASSUME NEW g \in Gens, LockExpires(g) PROVE IInv'
  <2>1. EntriesShrink
    BY <1>2, <1>t DEF TypeOK, LockExpires, EntriesShrink
  <2>2. Quiet /\ UNCHANGED <<record, late, load>>
    BY <1>2 DEF LockExpires, Quiet
  <2>3. TypeOK'
    <3>1. faults' \in 0 .. MaxFaults
      BY <1>2, <1>t, FaultType DEF LockExpires
    <3>2. lock' \in [Gens -> Loads \cup {NoLoad}]
      BY <1>2, <1>t DEF TypeOK, LockExpires
    <3>3. QED
      BY <1>2, <2>2, <3>1, <3>2, <1>t DEF TypeOK, Quiet, LockExpires
  <2>4. QED
    BY <2>1, <2>2, <2>3, BystanderKeeps
<1>3. ASSUME NEW g \in Gens, RecordExpires(g) \/ \E v \in Versions : LateWrite(g, v) PROVE IInv'
  <2>1. Quiet /\ UNCHANGED <<lock, entry, load, faults>> /\ late' \subseteq late
    BY <1>3 DEF RecordExpires, LateWrite, Quiet
  <2>2. PICK v \in Versions \cup {Nothing} :
          /\ record' = [record EXCEPT ![g] = v] \/ UNCHANGED record
          /\ v # Nothing => <<g, v>> \in late
    BY <1>3 DEF RecordExpires, LateWrite
  <2>3. v # Nothing => g <= gen /\ v >= opened[g]
    BY <2>2 DEF IInv, ValuesUnderGeneration
  <2>4. /\ record' \in [Gens -> Versions \cup {Nothing}]
        /\ \A h \in Gens : record'[h] # Nothing => h <= gen /\ record'[h] >= opened[h]
    <3>1. \A h \in Gens : record[h] # Nothing => h <= gen /\ record[h] >= opened[h]
      BY DEF IInv, ValuesUnderGeneration
    <3>2. record \in [Gens -> Versions \cup {Nothing}]
      BY <1>t DEF TypeOK
    <3>3. QED
      BY <2>2, <2>3, <3>1, <3>2
  <2>5. ValuesUnderGeneration'
    BY <2>1, <2>4 DEF IInv, Quiet, ValuesUnderGeneration
  <2>6. AttachedLoads' /\ EntryNotOlderThanMessage'
    BY <2>1 DEF IInv, Quiet, AttachedLoads, Attached, EntryNotOlderThanMessage
  <2>7. TypeOK'
    BY <2>1, <2>4, <1>t DEF TypeOK, Quiet
  <2>8. QED
    BY <2>1, <2>5, <2>6, <2>7, QuietKeeps DEF IInv
<1>4. QED
  BY <1>1, <1>2, <1>3

\* The invalidations still to come shrink, and nothing else concerning them moves.
LEMMA FewerDue ==
    ASSUME TypeOK, UNCHANGED <<db, gen>>, Due' \subseteq Due, GenerationsCounted,
           \A c \in Commits : task'[c] \in Tasks => task[c] \in Tasks
    PROVE  GenerationsCounted'
<1>1. IsFiniteSet(Due)
  <2>1. IsFiniteSet(Commits)
    BY FS_Interval
  <2>2. QED
    BY <2>1, FS_Subset DEF Due
<1>2. /\ Cardinality(Due') <= Cardinality(Due)
      /\ Cardinality(Due') \in Nat
      /\ Cardinality(Due) \in Nat
  BY <1>1, FS_Subset, FS_CardinalityType
<1>3. gen \in Int /\ db \in Int /\ gen' = gen /\ db' = db
  BY DEF TypeOK
<1>4. (gen + Cardinality(Due) <= db)'
  BY <1>2, <1>3 DEF GenerationsCounted
<1>5. QED
  BY <1>3, <1>4 DEF GenerationsCounted

\* A step of an invalidation, or of a worker, that ends invalidations or takes them
\* further without opening a generation, and may take entries from the maps.
LEMMA InvalidationKeeps ==
    ASSUME IInv, UNCHANGED <<db, gen, opened, record, late, heard>>,
           TypeOK', EntriesShrink, Due' \subseteq Due,
           \A c \in Commits : task'[c] \in Tasks => task[c] \in Tasks,
           \A c \in Commits : task'[c] \in Tasks /\ task'[c].step = "publish" => task'[c] = task[c],
           \A w \in Workers : \A c \in inbox'[w] :
                c \in inbox[w] \/ (task[c] \in Tasks /\ task[c].step = "publish"),
           \A l \in Loads : load'[l] = load[l] \/ load'[l] = Idle
    PROVE  IInv'
<1>1. GenerationsCounted'
  BY FewerDue DEF IInv
<1>2. OpenedBefore'
  BY DEF IInv, OpenedBefore
<1>3. MessagesCovered'
  BY DEF IInv, TypeOK, MessagesCovered
<1>4. \A l \in Loads :
         /\ load'[l].gen <= gen
         /\ load'[l].val # Nothing => load'[l].val >= opened[load'[l].gen]
         /\ load'[l].phase \in {"refresh", "write"} => load'[l].val # Nothing
         /\ load'[l].phase \in {"idle", "keys"} => load'[l].val = Nothing
         /\ load'[l].phase \in Keyed => load'[l] = load[l]
  <2> TAKE l \in Loads
  <2>1. CASE load'[l] = load[l]
    BY <2>1 DEF IInv, ValuesUnderGeneration
  <2>2. CASE load'[l] = Idle
    <3>1. /\ load'[l].phase = "idle"
          /\ load'[l].gen = 0
          /\ load'[l].val = Nothing
          /\ 0 <= gen
      BY <2>2 DEF IInv, TypeOK, Idle, Outside
    <3>2. QED
      BY <3>1 DEF Keyed
  <2>3. QED
    BY <2>1, <2>2
<1>5. ValuesUnderGeneration'
  BY <1>4 DEF IInv, ValuesUnderGeneration
<1>6. EntryNotOlderThanMessage' /\ \A k \in Loads : Attached(k)' => Attached(k)
  BY ShrinkKeeps
<1>7. AttachedLoads'
  BY <1>4, <1>6 DEF IInv, AttachedLoads
<1>8. QED
  BY <1>1, <1>2, <1>3, <1>5, <1>6, <1>7 DEF IInv

\* A commit adds one invalidation to those that are due, and one version.
LEMMA CommitKeeps ==
    ASSUME IInv, NEW w \in Workers, Commit(w)
    PROVE  IInv'
<1> USE DEF redis, bus
<1> DEFINE n == db + 1
           t == [step |-> "clear", at |-> w]
<1>t. TypeOK /\ n \in Commits /\ t \in Tasks /\ gen \in Nat /\ db \in Nat
  <2>1. TypeOK
    BY DEF IInv
  <2>2. db \in 0 .. MaxCommits /\ gen \in 0 .. MaxCommits
    BY <2>1 DEF TypeOK
  <2>3. n \in Commits
    BY <2>2 DEF Commit
  <2>4. t \in Tasks
    OBVIOUS
  <2>5. QED
    BY <2>1, <2>2, <2>3, <2>4
<1>1. task' = [task EXCEPT ![n] = t] /\ task \in [Commits -> Tasks \cup {Nothing}]
  BY <1>t DEF Commit, TypeOK
<1>2. /\ \A c \in Commits \ {n} : task'[c] = task[c]
      /\ task'[n] = t
      /\ task' \in [Commits -> Tasks \cup {Nothing}]
  BY <1>1, <1>t
<1>3. TypeOK'
  BY <1>2, <1>t DEF TypeOK, Commit
<1>4. GenerationsCounted'
  <2>1. Due' \subseteq Due \cup {n}
    BY <1>2 DEF Due
  <2>2. IsFiniteSet(Due)
    <3>1. IsFiniteSet(Commits)
      BY FS_Interval
    <3>2. QED
      BY <3>1, FS_Subset DEF Due
  <2>3. /\ IsFiniteSet(Due \cup {n})
        /\ Cardinality(Due \cup {n}) <= Cardinality(Due) + 1
        /\ Cardinality(Due) \in Nat
        /\ Cardinality(Due \cup {n}) \in Nat
    <3>1. /\ IsFiniteSet(Due \cup {n})
          /\ Cardinality(Due \cup {n}) = IF n \in Due THEN Cardinality(Due)
                                                      ELSE Cardinality(Due) + 1
      BY <2>2, FS_AddElement
    <3>2. Cardinality(Due) \in Nat /\ Cardinality(Due \cup {n}) \in Nat
      BY <2>2, <3>1, FS_CardinalityType
    <3>3. QED
      BY <3>1, <3>2
  <2>4. Cardinality(Due') <= Cardinality(Due \cup {n}) /\ IsFiniteSet(Due')
    BY <2>1, <2>3, FS_Subset
  <2>5. Cardinality(Due') \in Nat
    BY <2>4, FS_CardinalityType
  <2>6. gen' = gen /\ db' = db + 1 /\ gen + Cardinality(Due) <= db
    BY DEF Commit, IInv, GenerationsCounted
  <2>7. (gen + Cardinality(Due) <= db)'
    BY <2>3, <2>4, <2>5, <2>6, <1>t
  <2>8. \A c \in Commits : task'[c] \in Tasks => c <= db'
    BY <1>2, <1>t, <2>6 DEF IInv, GenerationsCounted
  <2>9. QED
    BY <2>7, <2>8 DEF GenerationsCounted
<1>5. OpenedBefore'
  BY <1>t DEF IInv, TypeOK, OpenedBefore, Commit
<1>6. MessagesCovered'
  BY <1>2, <1>t DEF IInv, MessagesCovered, Commit
<1>7. ValuesUnderGeneration' /\ AttachedLoads' /\ EntryNotOlderThanMessage'
  BY DEF IInv, ValuesUnderGeneration, AttachedLoads, Attached, EntryNotOlderThanMessage, Commit
<1>8. QED
  BY <1>3, <1>4, <1>5, <1>6, <1>7 DEF IInv

\* INCR uses up an invalidation that was due; the new generation is empty and
\* reflects every commit there is.
LEMMA NextGenerationKeeps ==
    ASSUME IInv, NEW w \in Workers, NEW c \in Commits, NextGeneration(w, c)
    PROVE  IInv'
<1>t. TypeOK /\ gen \in Nat /\ db \in Nat /\ c \in Due
  BY DEF IInv, TypeOK, NextGeneration, Due
<1>1. /\ \A d \in Commits \ {c} : task'[d] = task[d]
      /\ task'[c] = Nothing \/ task'[c] = [step |-> "publish", at |-> w]
      /\ task' \in [Commits -> Tasks \cup {Nothing}]
  <2> DEFINE t == [task[c] EXCEPT !.step = "publish"]
  <2>1. task[c] = [step |-> "incr", at |-> w] /\ task \in [Commits -> Tasks \cup {Nothing}]
    BY <1>t DEF TypeOK, NextGeneration
  <2>2. t = [step |-> "publish", at |-> w] /\ t \in Tasks
    BY <2>1
  <2>3. task' = [task EXCEPT ![c] = t] \/ task' = [task EXCEPT ![c] = Nothing]
    BY DEF NextGeneration, AfterFailure
  <2>4. QED
    BY <2>1, <2>2, <2>3
<1>2. IsFiniteSet(Due)
  <2>1. IsFiniteSet(Commits)
    BY FS_Interval
  <2>2. QED
    BY <2>1, FS_Subset DEF Due
<1>3. Cardinality(Due \ {c}) = Cardinality(Due) - 1 /\ IsFiniteSet(Due \ {c})
  BY <1>2, <1>t, FS_RemoveElement
<1>4. Due' \subseteq Due \ {c}
  BY <1>1 DEF Due
<1>5. /\ Cardinality(Due') <= Cardinality(Due) - 1
      /\ Cardinality(Due) \in Nat
      /\ Cardinality(Due') \in Nat
      /\ Cardinality(Due) >= 1
  <2>1. Cardinality(Due') <= Cardinality(Due) - 1 /\ IsFiniteSet(Due')
    BY <1>3, <1>4, FS_Subset
  <2>2. Cardinality(Due) \in Nat /\ Cardinality(Due') \in Nat /\ Cardinality(Due \ {c}) \in Nat
    BY <2>1, <1>2, <1>3, FS_CardinalityType
  <2>3. QED
    BY <2>1, <2>2, <1>3
<1>6. gen' = gen + 1 /\ db' = db /\ gen + Cardinality(Due) <= db
  BY DEF NextGeneration, IInv, GenerationsCounted
<1>7. gen + 1 \in Gens
  BY <1>5, <1>6, <1>t DEF TypeOK
<1>8. /\ opened' \in [Gens -> Versions]
      /\ opened'[gen + 1] = db
      /\ \A g \in Gens : g <= gen => opened'[g] = opened[g]
      /\ \A g \in Gens : opened'[g] = opened[g] \/ opened'[g] = db
  BY <1>7, <1>t DEF TypeOK, NextGeneration
<1>9. TypeOK'
  <2>1. faults' \in 0 .. MaxFaults
    BY <1>t, FaultType DEF NextGeneration
  <2>2. QED
    BY <1>1, <1>6, <1>7, <1>8, <2>1, <1>t DEF TypeOK, NextGeneration, bus
<1>10. GenerationsCounted'
  <2>1. (gen + Cardinality(Due) <= db)'
    BY <1>5, <1>6, <1>t
  <2>2. \A d \in Commits : task'[d] \in Tasks => d <= db
    BY <1>1, <1>t DEF IInv, GenerationsCounted, Due
  <2>3. QED
    BY <2>1, <2>2, <1>6 DEF GenerationsCounted
<1>11. OpenedBefore'
  <2>1. \A g \in Gens : opened[g] <= db
    BY DEF IInv, OpenedBefore
  <2>2. \A g \in Gens : opened'[g] <= db
    <3> TAKE g \in Gens
    <3>1. opened'[g] = opened[g] \/ opened'[g] = db
      BY <1>8
    <3>2. QED
      BY <2>1, <3>1, <1>t
  <2>3. QED
    BY <2>2, <1>6 DEF OpenedBefore
<1>12. MessagesCovered'
  <2>1. opened'[gen'] = db
    BY <1>6, <1>8
  <2>2. \A v \in Workers : heard[v] <= db
    BY GenerationCoversHeard
  <2>3. \A v \in Workers : \A d \in inbox[v] : d <= db
    BY DEF IInv, TypeOK, MessagesCovered, OpenedBefore
  <2>4. \A d \in Commits : task'[d] \in Tasks => d <= db
    BY <1>1, <1>t DEF IInv, GenerationsCounted, Due
  <2>5. QED
    BY <2>1, <2>2, <2>3, <2>4 DEF MessagesCovered, NextGeneration, bus
<1>13. ValuesUnderGeneration'
  <2>1. \A g \in Gens : record[g] # Nothing => g <= gen' /\ record[g] >= opened'[g]
    <3>1. \A g \in Gens : record[g] # Nothing => g <= gen /\ record[g] >= opened[g]
      BY DEF IInv, ValuesUnderGeneration
    <3>2. \A g \in Gens : g <= gen => opened'[g] = opened[g] /\ g <= gen'
      BY <1>6, <1>8, <1>t
    <3>3. QED
      BY <3>1, <3>2
  <2>2. \A x \in late : x[1] <= gen' /\ x[2] >= opened'[x[1]]
    <3> TAKE x \in late
    <3>1. x[1] \in Gens /\ x[1] <= gen /\ x[2] >= opened[x[1]]
      BY <1>t DEF IInv, TypeOK, ValuesUnderGeneration
    <3>2. opened'[x[1]] = opened[x[1]] /\ x[1] <= gen'
      BY <3>1, <1>6, <1>8, <1>t
    <3>3. QED
      BY <3>1, <3>2
  <2>3. \A l \in Loads : load[l].gen \in Gens /\ load[l].gen <= gen
    BY DEF IInv, TypeOK, ValuesUnderGeneration
  <2>4. \A l \in Loads :
           /\ load[l].gen <= gen'
           /\ load[l].val # Nothing => load[l].val >= opened'[load[l].gen]
    <3> TAKE l \in Loads
    <3>1. load[l].gen <= gen /\ (load[l].val # Nothing => load[l].val >= opened[load[l].gen])
      BY DEF IInv, ValuesUnderGeneration
    <3>2. opened'[load[l].gen] = opened[load[l].gen] /\ load[l].gen <= gen'
      <4>1. load[l].gen \in Gens /\ load[l].gen <= gen
        BY <2>3
      <4>2. opened'[load[l].gen] = opened[load[l].gen]
        BY <4>1, <1>8
      <4>3. load[l].gen <= gen + 1
        BY <4>1, <1>t
      <4>4. QED
        BY <4>2, <4>3, <1>6
    <3>3. QED
      <4>1. CASE load[l].val = Nothing
        BY <4>1, <3>2
      <4>2. CASE load[l].val # Nothing
        <5>1. load[l].val >= opened[load[l].gen]
          BY <4>2, <3>1
        <5>2. QED
          BY <5>1, <3>2
      <4>3. QED
        BY <4>1, <4>2
  <2>5. QED
    BY <2>1, <2>2, <2>4 DEF IInv, ValuesUnderGeneration, NextGeneration
<1>14. AttachedLoads' /\ EntryNotOlderThanMessage'
  <2>1. \A l \in Loads : opened'[load[l].gen] = opened[load[l].gen]
    BY <1>8 DEF IInv, TypeOK, ValuesUnderGeneration
  <2>2. QED
    BY <2>1 DEF IInv, AttachedLoads, Attached, EntryNotOlderThanMessage, NextGeneration, bus
<1>15. QED
  BY <1>9, <1>10, <1>11, <1>12, <1>13, <1>14 DEF IInv

\* The steps of an invalidation that open no generation, and a restart.
LEMMA WorkerKeeps ==
    ASSUME IInv, NEW w \in Workers
    PROVE  /\ \A c \in Commits :
                ClearOwn(w, c) \/ Publish(w, c) \/ InvalidationFails(w, c) => IInv'
           /\ Restart(w) => IInv'
<1> USE DEF write, redis, bus
<1>t. TypeOK /\ task \in [Commits -> Tasks \cup {Nothing}]
  BY DEF IInv, TypeOK
<1>e. UNCHANGED entry => EntriesShrink
  BY <1>t, OneEntryShrinks
<1>1. ASSUME NEW c \in Commits, ClearOwn(w, c) PROVE IInv'
  <2>1. EntriesShrink
    BY <1>1, <1>t, OneEntryShrinks DEF ClearOwn
  <2>2. /\ \A d \in Commits \ {c} : task'[d] = task[d]
        /\ task'[c] = Nothing \/ task'[c] = [step |-> "incr", at |-> w]
        /\ task[c] = [step |-> "clear", at |-> w]
        /\ task' \in [Commits -> Tasks \cup {Nothing}]
    <3> DEFINE t == [task[c] EXCEPT !.step = "incr"]
    <3>1. task[c] = [step |-> "clear", at |-> w]
      BY <1>1 DEF ClearOwn
    <3>2. t = [step |-> "incr", at |-> w] /\ t \in Tasks
      <4>1. t = [step |-> "incr", at |-> w]
        BY <3>1
      <4>2. w \in Workers
        OBVIOUS
      <4>3. QED
        BY <4>1, <4>2
    <3>3. task' = [task EXCEPT ![c] = t] \/ task' = [task EXCEPT ![c] = Nothing]
      BY <1>1 DEF ClearOwn
    <3> HIDE DEF t
    <3>4. ASSUME NEW u \in Tasks \cup {Nothing}, task' = [task EXCEPT ![c] = u]
          PROVE  /\ \A d \in Commits \ {c} : task'[d] = task[d]
                 /\ task'[c] = u
                 /\ task' \in [Commits -> Tasks \cup {Nothing}]
      BY <3>4, <1>t
    <3>5. QED
      BY <3>1, <3>2, <3>3, <3>4
  <2>3. TypeOK'
    <3>1. faults' \in 0 .. MaxFaults
      BY <1>1, <1>t, FaultType DEF ClearOwn
    <3>2. QED
      BY <1>1, <2>1, <2>2, <3>1, <1>t DEF TypeOK, ClearOwn, EntriesShrink
  <2>4. Due' \subseteq Due /\ \A d \in Commits : task'[d] \in Tasks => task[d] \in Tasks
    BY <2>2 DEF Due
  <2>5. \A d \in Commits : task'[d] \in Tasks /\ task'[d].step = "publish" => task'[d] = task[d]
    BY <2>2
  <2>6. QED
    BY <1>1, <2>1, <2>3, <2>4, <2>5, InvalidationKeeps DEF ClearOwn
<1>2. ASSUME NEW c \in Commits, Publish(w, c) PROVE IInv'
  <2>1. EntriesShrink
    BY <1>2, <1>e DEF Publish
  <2>2. /\ \A d \in Commits \ {c} : task'[d] = task[d]
        /\ task'[c] = Nothing
        /\ task' \in [Commits -> Tasks \cup {Nothing}]
    BY <1>2, <1>t DEF Publish
  <2>3. /\ inbox' \in [Workers -> SUBSET Commits]
        /\ \A v \in Workers : \A d \in inbox'[v] : d \in inbox[v] \/ d = c
    BY <1>2, <1>t DEF TypeOK, Publish
  <2>4. TypeOK'
    <3>1. faults' \in 0 .. MaxFaults
      BY <1>2, <1>t, FaultType DEF Publish
    <3>2. QED
      BY <1>2, <2>2, <2>3, <3>1, <1>t DEF TypeOK, Publish
  <2>5. Due' \subseteq Due /\ \A d \in Commits : task'[d] \in Tasks => task[d] \in Tasks
    BY <2>2 DEF Due
  <2>6. \A d \in Commits : task'[d] \in Tasks /\ task'[d].step = "publish" => task'[d] = task[d]
    BY <2>2
  <2>7. task[c] \in Tasks /\ task[c].step = "publish"
    BY <1>2 DEF Publish
  <2>8. QED
    BY <1>2, <2>1, <2>3, <2>4, <2>5, <2>6, <2>7, InvalidationKeeps DEF Publish
<1>3. ASSUME NEW c \in Commits, InvalidationFails(w, c) PROVE IInv'
  <2>1. EntriesShrink
    BY <1>3, <1>e DEF InvalidationFails
  <2>2. /\ \A d \in Commits \ {c} : task'[d] = task[d]
        /\ task'[c] = Nothing
        /\ task' \in [Commits -> Tasks \cup {Nothing}]
    BY <1>3, <1>t DEF InvalidationFails, AfterFailure
  <2>3. TypeOK'
    <3>1. faults' \in 0 .. MaxFaults
      BY <1>3, <1>t, FaultType DEF InvalidationFails
    <3>2. QED
      BY <1>3, <2>2, <3>1, <1>t DEF TypeOK, InvalidationFails
  <2>4. Due' \subseteq Due /\ \A d \in Commits : task'[d] \in Tasks => task[d] \in Tasks
    BY <2>2 DEF Due
  <2>5. \A d \in Commits : task'[d] \in Tasks /\ task'[d].step = "publish" => task'[d] = task[d]
    BY <2>2
  <2>6. QED
    BY <1>3, <2>1, <2>3, <2>4, <2>5, InvalidationKeeps DEF InvalidationFails
<1>4. ASSUME Restart(w) PROVE IInv'
  <2>1. EntriesShrink
    BY <1>4, <1>t, OneEntryShrinks DEF Restart
  <2>2. /\ task' \in [Commits -> Tasks \cup {Nothing}]
        /\ \A d \in Commits : task'[d] = task[d] \/ task'[d] = Nothing
    BY <1>4, <1>t DEF Restart
  <2>3. /\ inbox' \in [Workers -> SUBSET Commits]
        /\ \A v \in Workers : inbox'[v] \subseteq inbox[v]
    BY <1>4, <1>t DEF TypeOK, Restart
  <2>4. /\ load' \in [Loads -> LoadRecords]
        /\ \A l \in Loads : load'[l] = load[l] \/ load'[l] = Idle
    BY <1>4, <1>t DEF TypeOK, Restart, Idle, Outside
  <2>5. TypeOK'
    <3>1. faults' \in 0 .. MaxFaults
      BY <1>4, <1>t, FaultType DEF Restart
    <3>2. QED
      BY <1>4, <2>1, <2>2, <2>3, <2>4, <3>1, <1>t DEF TypeOK, Restart, EntriesShrink
  <2>6. Due' \subseteq Due /\ \A d \in Commits : task'[d] \in Tasks => task[d] \in Tasks
    BY <2>2 DEF Due
  <2>7. \A d \in Commits : task'[d] \in Tasks /\ task'[d].step = "publish" => task'[d] = task[d]
    BY <2>2
  <2>8. QED
    BY <1>4, <2>1, <2>3, <2>4, <2>5, <2>6, <2>7, InvalidationKeeps DEF Restart
<1>5. QED
  BY <1>1, <1>2, <1>3, <1>4

\* The map is cleared in the step in which the worker hears of the commit.
LEMMA HandleKeeps ==
    ASSUME IInv, NEW w \in Workers, NEW c \in Commits, Handle(w, c)
    PROVE  IInv'
<1> USE DEF write, redis
<1>t. TypeOK /\ gen \in Gens /\ c \in inbox[w]
  BY DEF IInv, TypeOK, Handle
<1>1. /\ entry' \in [Workers -> Entries \cup {Nothing}]
      /\ entry'[w] = Nothing
      /\ \A v \in Workers \ {w} : entry'[v] = entry[v]
  BY <1>t DEF TypeOK, Handle
<1>2. /\ heard' \in [Workers -> Versions]
      /\ heard'[w] = c \/ heard'[w] = heard[w]
      /\ \A v \in Workers \ {w} : heard'[v] = heard[v]
  <2>1. heard \in [Workers -> Versions] /\ c \in Versions
    BY <1>t DEF TypeOK
  <2>2. heard' = [heard EXCEPT ![w] = c] \/ heard' = heard
    BY <2>1 DEF Handle
  <2>3. QED
    BY <2>1, <2>2
<1>3. /\ inbox' \in [Workers -> SUBSET Commits]
      /\ \A v \in Workers : inbox'[v] \subseteq inbox[v]
  BY <1>t DEF TypeOK, Handle
<1>4. TypeOK'
  BY <1>1, <1>2, <1>3, <1>t DEF TypeOK, Handle
<1>5. GenerationsCounted' /\ OpenedBefore'
  <2>1. Due' = Due
    BY DEF Due, Handle
  <2>2. QED
    BY <2>1 DEF IInv, GenerationsCounted, OpenedBefore, Handle
<1>6. MessagesCovered'
  BY <1>2, <1>3, <1>t DEF IInv, MessagesCovered, Handle
<1>7. ValuesUnderGeneration'
  BY DEF IInv, ValuesUnderGeneration, Handle
<1>8. EntryNotOlderThanMessage'
  BY <1>1, <1>2 DEF IInv, EntryNotOlderThanMessage
<1>9. \A k \in Loads : Attached(k)' => Attached(k) /\ heard'[At[k]] = heard[At[k]]
  BY <1>1, <1>2 DEF Attached
<1>10. AttachedLoads'
  BY <1>9 DEF IInv, AttachedLoads, Handle
<1>11. QED
  BY <1>4, <1>5, <1>6, <1>7, <1>8, <1>10 DEF IInv

-----------------------------------------------------------------------------
(* The theorems                                                            *)

\* No step leaves the inductive invariant.
THEOREM StepInv == IInv /\ [Next]_vars => IInv'
<1> SUFFICES ASSUME IInv, [Next]_vars PROVE IInv'
  OBVIOUS
<1>1. CASE UNCHANGED vars
  <2>1. Due' = Due
    BY <1>1 DEF vars, write, Due
  <2>2. QED
    BY <1>1, <2>1 DEF vars, write, redis, bus, IInv, TypeOK, GenerationsCounted, OpenedBefore,
       ValuesUnderGeneration, MessagesCovered, AttachedLoads, Attached, EntryNotOlderThanMessage
<1>2. CASE \E l \in Loads : StartLoad(l) \/ LoadStep(l)
  BY <1>2, StartLoadKeeps, LoadStepKeeps
<1>3. CASE \E w \in Workers : Evict(w) \/ EntryExpires(w) \/ Commit(w) \/ Restart(w)
  BY <1>3, ClockKeeps, CommitKeeps, WorkerKeeps
<1>4. CASE \/ \E g \in Gens : RecordExpires(g) \/ LockExpires(g)
           \/ \E g \in Gens, v \in Versions : LateWrite(g, v)
  BY <1>4, ClockKeeps
<1>5. CASE \E w \in Workers, c \in Commits :
             \/ ClearOwn(w, c) \/ NextGeneration(w, c) \/ Publish(w, c)
             \/ InvalidationFails(w, c) \/ Handle(w, c)
  BY <1>5, WorkerKeeps, NextGenerationKeeps, HandleKeeps
<1>6. QED
  BY <1>1, <1>2, <1>3, <1>4, <1>5 DEF Next

\* So every reachable state satisfies it.
THEOREM CacheInvariant == Spec => []IInv
  BY InitInv, StepInv, PTL DEF Spec

\* The state keeps its types; in particular there is never a generation without
\* a commit of its own, so no INCR is executed twice for one invalidation.
THEOREM TypeCorrect == Spec => []TypeOK
<1>1. IInv => TypeOK
  BY DEF IInv
<1>2. QED
  BY <1>1, CacheInvariant, PTL

\* Whatever load wrote it and however late, a record reflects every commit made
\* before its generation was opened.
THEOREM RecordsAreRecent == Spec => []RecordNotOlderThanGeneration
<1>1. IInv => RecordNotOlderThanGeneration
  BY DEF IInv, ValuesUnderGeneration, RecordNotOlderThanGeneration
<1>2. QED
  BY <1>1, CacheInvariant, PTL

\* No map holds a value older than a commit whose message its worker has handled.
THEOREM MapsAreRecent == Spec => []EntryNotOlderThanMessage
<1>1. IInv => EntryNotOlderThanMessage
  BY DEF IInv
<1>2. QED
  BY <1>1, CacheInvariant, PTL

\* A lock is given back by its holder or by its expiry.
THEOREM LocksAreOwned == Spec => LockOnlyByOwner
<1> DEFINE Step == \A g \in Gens :
                     lock[g] # NoLoad /\ lock'[g] # lock[g] =>
                        LockExpires(g) \/ Release(lock[g])
<1>1. IInv /\ [Next]_vars => [Step]_vars
  <2> SUFFICES ASSUME IInv, Next, NEW g \in Gens, lock[g] # NoLoad, lock'[g] # lock[g]
               PROVE  LockExpires(g) \/ Release(lock[g])
    OBVIOUS
  <2>t. lock \in [Gens -> Loads \cup {NoLoad}] /\ \A l \in Loads : load[l].gen \in Gens
    BY DEF IInv, TypeOK
  <2>1. ASSUME NEW l \in Loads, StartLoad(l) \/ LoadStep(l) PROVE Release(lock[g])
    <3>1. ~(StartLoad(l) \/ ReadKeys(l) \/ ReadRecord(l) \/ RunLoader(l) \/ WriteRecord(l)
            \/ WriteTimesOut(l) \/ Poll(l) \/ WaitTimesOut(l) \/ RunPlainLoader(l))
      BY DEF StartLoad, ReadKeys, ReadRecord, RunLoader, WriteRecord, WriteTimesOut, Poll,
             WaitTimesOut, RunPlainLoader, redis
    <3>2. ~(TakeLock(l) \/ Refresh(l) \/ RedisFails(l))
      BY <2>t DEF TakeLock, Refresh, RedisFails
    <3>3. Release(l)
      BY <2>1, <3>1, <3>2 DEF LoadStep
    <3>4. lock[g] = l
      BY <2>t, <3>3 DEF Release, Unlocked
    <3>5. QED
      BY <3>3, <3>4
  <2>2. ASSUME NEW h \in Gens, RecordExpires(h) \/ LockExpires(h) PROVE LockExpires(g)
    BY <2>2, <2>t DEF RecordExpires, LockExpires
  <2>3. ~(\E w \in Workers : Evict(w) \/ EntryExpires(w) \/ Commit(w) \/ Restart(w))
    BY DEF Evict, EntryExpires, Commit, Restart, redis
  <2>4. ~(\E h \in Gens, v \in Versions : LateWrite(h, v))
    BY DEF LateWrite
  <2>5. ~(\E w \in Workers, c \in Commits :
            \/ ClearOwn(w, c) \/ NextGeneration(w, c) \/ Publish(w, c)
            \/ InvalidationFails(w, c) \/ Handle(w, c))
    BY DEF ClearOwn, NextGeneration, Publish, InvalidationFails, Handle, redis
  <2>6. QED
    BY <2>1, <2>2, <2>3, <2>4, <2>5 DEF Next
<1>2. QED
  BY <1>1, CacheInvariant, PTL DEF Spec, LockOnlyByOwner

-----------------------------------------------------------------------------
(* Bounded staleness                                                       *)

\* A value reflects commits that were made.
Committed(v) == v # Nothing => v <= db

EntryCommitted(x) == x # Nothing => Committed(x.val)

ValuesCommitted ==
    /\ \A w \in Workers : EntryCommitted(entry[w])
    /\ \A g \in Gens : Committed(record[g])
    /\ \A x \in late : x[2] <= db
    /\ \A l \in Loads : Committed(load[l].val)

\* A step rewrites the entry of one worker, with a value that was committed, or none.
OneEntry ==
    \/ UNCHANGED entry
    \/ \E w \in Workers : \E x \in Entries \cup {Nothing} :
          entry' = [entry EXCEPT ![w] = x] /\ EntryCommitted(x)

\* An answer with a committed value rewrites at most the entry of the load's worker.
LEMMA AnsweredOne ==
    ASSUME TypeOK, NEW l \in Loads, NEW v \in Versions, v <= db, entry' = Answered(l, v)
    PROVE  OneEntry
<1>1. At[l] \in Workers /\ [val |-> v, pending |-> NoLoad] \in Entries
  OBVIOUS
<1>2. EntryCommitted([val |-> v, pending |-> NoLoad])
  BY DEF EntryCommitted, Committed
<1>3. QED
  BY <1>1, <1>2 DEF Answered, OneEntry

\* An entry that loses its value or its load keeps what it has.
LEMMA ShrunkOne ==
    ASSUME TypeOK, ValuesCommitted, NEW w \in Workers, NEW v, NEW l \in Loads \cup {NoLoad},
           v = Nothing \/ (entry[w] # Nothing /\ v = entry[w].val),
           entry' = [entry EXCEPT ![w] = Entry(v, l)]
    PROVE  OneEntry
<1>1. v \in Versions \cup {Nothing} /\ Committed(v)
  BY DEF TypeOK, ValuesCommitted, EntryCommitted, Committed
<1>2. Entry(v, l) \in Entries \cup {Nothing} /\ EntryCommitted(Entry(v, l))
  BY <1>1 DEF Entry, EntryCommitted
<1>3. QED
  BY <1>2 DEF OneEntry

LEMMA ClearedOne ==
    ASSUME NEW w \in Workers, entry' = [entry EXCEPT ![w] = Nothing]
    PROVE  OneEntry
  BY DEF OneEntry, EntryCommitted

\* Every step of the cache does: what it writes into a map was read from the database or
\* from something that holds committed values.
LEMMA StepOneEntry ==
    ASSUME IInv, ValuesCommitted, [Next]_vars
    PROVE  OneEntry
<1>0. TypeOK
  BY DEF IInv
<1>1. CASE UNCHANGED entry
  BY <1>1 DEF OneEntry
<1>2. ASSUME NEW l \in Loads, StartLoad(l) \/ LoadStep(l) PROVE OneEntry
  <2>t. /\ At[l] \in Workers /\ load[l].gen \in Gens /\ db \in Versions
        /\ load[l].val \in Versions \cup {Nothing}
        /\ record[load[l].gen] \in Versions \cup {Nothing}
    BY <1>0 DEF TypeOK
  <2>c. Committed(load[l].val) /\ Committed(record[load[l].gen])
    BY <2>t DEF ValuesCommitted
  <2>1. ASSUME NEW v \in {load[l].val, record[load[l].gen]}, v # Nothing, entry' = Answered(l, v)
        PROVE  OneEntry
    BY <2>t, <2>c, <2>1, <1>0, AnsweredOne DEF Committed
  <2>2. CASE StartLoad(l)
    <3>1. entry' = [entry EXCEPT ![At[l]] =
                      Entry(IF entry[At[l]] = Nothing THEN Nothing ELSE entry[At[l]].val, l)]
      BY <2>2 DEF StartLoad
    <3>2. QED
      BY <1>0, <2>t, <3>1, ShrunkOne
  <2>3. CASE ReadRecord(l) \/ Poll(l) \/ Release(l)
    BY <1>1, <2>1, <2>3 DEF ReadRecord, Poll, Release
  <2>4. CASE Refresh(l)
    <3>1. load[l].val # Nothing
      BY <2>4 DEF Refresh, IInv, ValuesUnderGeneration
    <3>2. QED
      BY <2>1, <2>4, <3>1 DEF Refresh
  <2>5. CASE RunPlainLoader(l)
    <3>1. CASE entry' = Answered(l, db)
      BY <1>0, <2>t, <3>1, AnsweredOne
    <3>2. CASE entry' \in Failed(l)
      <4>1. CASE Attached(l) /\ entry' = [entry EXCEPT ![At[l]] = Entry(@.val, NoLoad)]
        BY <1>0, <2>t, <4>1, ShrunkOne DEF Attached
      <4>2. CASE entry' \in {entry, [entry EXCEPT ![At[l]] = Nothing]}
        BY <1>1, <2>t, <4>2, ClearedOne
      <4>3. QED
        BY <3>2, <4>1, <4>2 DEF Failed
    <3>3. QED
      BY <2>5, <3>1, <3>2 DEF RunPlainLoader
  <2>6. CASE \/ ReadKeys(l) \/ TakeLock(l) \/ RunLoader(l) \/ WriteRecord(l)
             \/ WriteTimesOut(l) \/ WaitTimesOut(l) \/ RedisFails(l)
    BY <1>1, <2>6 DEF ReadKeys, TakeLock, RunLoader, WriteRecord, WriteTimesOut, WaitTimesOut,
                      RedisFails
  <2>7. QED
    BY <1>2, <2>2, <2>3, <2>4, <2>5, <2>6 DEF LoadStep
<1>3. ASSUME NEW w \in Workers, Evict(w) \/ EntryExpires(w) \/ Commit(w) \/ Restart(w)
      PROVE  OneEntry
  <2>1. CASE EntryExpires(w)
    <3>1. entry[w].pending \in Loads \cup {NoLoad}
      BY <1>0, <2>1 DEF EntryExpires, TypeOK
    <3>2. QED
      BY <1>0, <2>1, <3>1, ShrunkOne DEF EntryExpires
  <2>2. QED
    BY <1>1, <1>3, <2>1, ClearedOne DEF Evict, Commit, Restart
<1>4. ASSUME NEW g \in Gens, \/ RecordExpires(g) \/ LockExpires(g)
                            \/ \E v \in Versions : LateWrite(g, v)
      PROVE  OneEntry
  BY <1>1, <1>4 DEF RecordExpires, LockExpires, LateWrite
<1>5. ASSUME NEW w \in Workers, NEW c \in Commits,
             \/ ClearOwn(w, c) \/ NextGeneration(w, c) \/ Publish(w, c)
             \/ InvalidationFails(w, c) \/ Handle(w, c)
      PROVE  OneEntry
  BY <1>1, <1>5, ClearedOne DEF ClearOwn, NextGeneration, Publish, InvalidationFails, Handle
<1>6. CASE UNCHANGED vars
  BY <1>1, <1>6 DEF vars
<1>7. QED
  BY <1>2, <1>3, <1>4, <1>5, <1>6 DEF Next

\* Values stay committed: Redis and the loads hold what the database or Redis gave them.
LEMMA StepCommitted ==
    ASSUME IInv, IInv', ValuesCommitted, [Next]_vars
    PROVE  ValuesCommitted'
<1> DEFINE Still(v) == v # Nothing => v <= db'
           RedisStill == (\A g \in Gens : Still(record'[g])) /\ (\A x \in late' : Still(x[2]))
<1>t. /\ db \in Versions /\ db' \in Versions
      /\ record \in [Gens -> Versions \cup {Nothing}]
      /\ late \subseteq Gens \X Versions
      /\ entry \in [Workers -> Entries \cup {Nothing}]
      /\ load \in [Loads -> LoadRecords]
  BY DEF IInv, TypeOK
<1>d. db' = db \/ db' = db + 1
  BY DEF Next, StartLoad, LoadStep, ReadKeys, ReadRecord, TakeLock, Refresh,
     RunLoader, WriteRecord, WriteTimesOut, Release, Poll, WaitTimesOut, RedisFails,
     RunPlainLoader, Evict, EntryExpires, Commit, Restart, RecordExpires, LockExpires,
     LateWrite, ClearOwn, NextGeneration, Publish, InvalidationFails, Handle, vars, write
<1>g. \A v \in Versions \cup {Nothing} : Committed(v) => Still(v)
  BY <1>t, <1>d DEF Committed
<1>1. ASSUME NEW w \in Workers PROVE entry'[w] # Nothing => Still(entry'[w].val)
  <2>1. EntryCommitted(entry[w]) /\ entry[w] \in Entries \cup {Nothing}
    BY <1>t DEF ValuesCommitted
  <2>2. \E x \in Entries \cup {Nothing} : entry'[w] = x /\ EntryCommitted(x)
    BY <1>t, <2>1, StepOneEntry DEF OneEntry
  <2>3. QED
    BY <1>g, <2>2 DEF EntryCommitted
<1>2. ASSUME NEW l \in Loads PROVE Still(load'[l].val)
  <2>1. load'[l].val \in {load[l].val, Nothing, db, record[load[l].gen]}
    <3>1. ASSUME NEW k \in Loads, StartLoad(k) \/ LoadStep(k)
          PROVE  load'[l].val \in {load[l].val, Nothing, db, record[load[l].gen]}
      <4>1. load'[k].val \in {load[k].val, Nothing, db, record[load[k].gen]}
        <5>1. CASE StartLoad(k)
          BY <1>t, <5>1 DEF StartLoad, GoTo, FallBack, Outside
        <5>2. CASE ReadKeys(k) \/ ReadRecord(k)
          BY <1>t, <5>2 DEF ReadKeys, ReadRecord, GoTo, Finish, Idle, Outside
        <5>3. CASE TakeLock(k) \/ Refresh(k) \/ RunLoader(k)
          BY <1>t, <5>3 DEF TakeLock, Refresh, RunLoader, GoTo, Finish, Idle, Outside
        <5>4. CASE WriteRecord(k) \/ WriteTimesOut(k) \/ Release(k)
          BY <1>t, <5>4 DEF WriteRecord, WriteTimesOut, Release, GoTo, Finish, FallBack, Idle,
                            Outside
        <5>5. CASE Poll(k) \/ WaitTimesOut(k) \/ RedisFails(k) \/ RunPlainLoader(k)
          BY <1>t, <5>5 DEF Poll, WaitTimesOut, RedisFails, RunPlainLoader, Finish, FallBack,
                            Idle, Outside
        <5>6. QED
          BY <3>1, <5>1, <5>2, <5>3, <5>4, <5>5 DEF LoadStep
      <4>2. k # l => load'[l] = load[l]
        BY <1>t, <3>1 DEF LoadStep, StartLoad, ReadKeys, ReadRecord, TakeLock, Refresh,
           RunLoader, WriteRecord, WriteTimesOut, Release, Poll, WaitTimesOut, RedisFails,
           RunPlainLoader, GoTo, Finish, FallBack
      <4>3. QED
        BY <4>1, <4>2
    <3>2. ASSUME NEW w \in Workers, Restart(w) PROVE load'[l].val \in {load[l].val, Nothing}
      BY <1>t, <3>2 DEF Restart, Idle, Outside
    <3>3. CASE UNCHANGED load
      BY <3>3
    <3>4. QED
      BY <3>1, <3>2, <3>3 DEF Next, Evict, EntryExpires, Commit, RecordExpires, LockExpires,
         LateWrite, ClearOwn, NextGeneration, Publish, InvalidationFails, Handle, vars
  <2>2. load[l].gen \in Gens /\ load[l].val \in Versions \cup {Nothing}
    BY <1>t
  <2>3. Committed(load[l].val) /\ Committed(record[load[l].gen]) /\ Committed(db)
    BY <1>t, <2>2 DEF ValuesCommitted, Committed
  <2>4. QED
    BY <1>t, <1>g, <2>1, <2>2, <2>3 DEF Committed
<1>3. RedisStill
  <2>0. /\ \A g \in Gens : Still(record[g])
        /\ \A x \in late : Still(x[2])
    BY <1>t, <1>g DEF ValuesCommitted, Committed
  <2>1. CASE UNCHANGED <<record, late>>
    BY <2>0, <2>1
  <2>2. ASSUME NEW l \in Loads, WriteRecord(l) \/ WriteTimesOut(l) PROVE RedisStill
    <3>1. Still(load[l].val)
      BY <1>t, <1>g DEF ValuesCommitted
    <3>2. CASE WriteRecord(l)
      BY <1>t, <2>0, <3>1, <3>2 DEF WriteRecord
    <3>3. CASE WriteTimesOut(l)
      BY <2>0, <3>1, <3>3 DEF WriteTimesOut
    <3>4. QED
      BY <2>2, <3>2, <3>3
  <2>3. ASSUME NEW g \in Gens, RecordExpires(g) PROVE RedisStill
    BY <1>t, <2>0, <2>3 DEF RecordExpires
  <2>4. ASSUME NEW g \in Gens, NEW v \in Versions, LateWrite(g, v) PROVE RedisStill
    BY <1>t, <2>0, <2>4 DEF LateWrite
  <2>5. QED
    BY <2>1, <2>2, <2>3, <2>4 DEF Next, StartLoad, LoadStep, ReadKeys, ReadRecord, TakeLock,
       Refresh, RunLoader, Release, Poll, WaitTimesOut, RedisFails, RunPlainLoader, Evict,
       EntryExpires, Commit, Restart, LockExpires, ClearOwn, NextGeneration, Publish,
       InvalidationFails, Handle, vars, redis
<1>4. \A x \in late' : x[2] <= db'
  <2>1. late' \subseteq Gens \X Versions
    BY DEF IInv, TypeOK
  <2>2. QED
    BY <1>3, <2>1
<1>5. QED
  BY <1>1, <1>2, <1>3, <1>4 DEF ValuesCommitted, EntryCommitted, Committed

\* Hence every step of the cache is one of the abstract readers, or none they can see.
LEMMA StepRefines ==
    ASSUME IInv, IInv', ValuesCommitted, [Next]_vars
    PROVE  [Readable!Next]_(Readable!vars)
<1>t. /\ db \in Versions /\ heard \in [Workers -> Versions]
      /\ entry \in [Workers -> Entries \cup {Nothing}]
  BY DEF IInv, TypeOK
<1>1. ASSUME UNCHANGED <<db, heard>> PROVE Readable!Next \/ UNCHANGED Readable!vars
  <2>1. CASE UNCHANGED entry
    BY <1>1, <2>1 DEF Held, Readable!vars
  <2>2. ASSUME NEW w \in Workers, NEW x \in Entries \cup {Nothing},
               entry' = [entry EXCEPT ![w] = x], EntryCommitted(x)
        PROVE  Readable!Next
    <3>1. CASE x = Nothing \/ (x # Nothing /\ x.val = Nothing)
      <4>1. Held' = [Held EXCEPT ![w] = {}]
        BY <1>t, <2>2, <3>1 DEF Held
      <4>2. QED
        BY <1>1, <4>1 DEF Readable!Next, Readable!Drop
    <3>2. CASE x # Nothing /\ x.val # Nothing
      <4>1. Held' = [Held EXCEPT ![w] = {x.val}]
        BY <1>t, <2>2, <3>2 DEF Held
      <4>2. x.val <= db
        BY <2>2, <3>2 DEF EntryCommitted, Committed
      <4>3. heard[w] <= x.val
        <5>1. EntryNotOlderThanMessage' /\ entry'[w] = x
          BY <1>t, <2>2 DEF IInv
        <5>2. QED
          BY <1>1, <1>t, <3>2, <5>1 DEF EntryNotOlderThanMessage
      <4>4. x.val \in heard[w] .. db
        BY <1>t, <3>2, <4>2, <4>3
      <4>5. QED
        BY <1>1, <4>1, <4>4 DEF Readable!Next, Readable!Hold
    <3>3. QED
      BY <3>1, <3>2
  <2>3. QED
    BY <2>1, <2>2, StepOneEntry DEF OneEntry
<1>2. ASSUME NEW w \in Workers, Commit(w) PROVE Readable!Next
  BY <1>2 DEF Commit, bus, Held, Readable!Next, Readable!Commit
<1>3. ASSUME NEW w \in Workers, NEW c \in Commits, Handle(w, c) PROVE Readable!Next
  <2>1. c \in 1 .. db
    <3>0. c \in Nat \ {0}
      OBVIOUS
    <3>1. gen \in Gens /\ opened[gen] \in Versions
      BY DEF IInv, TypeOK
    <3>2. c <= opened[gen] /\ opened[gen] <= db
      BY <1>3, <3>1 DEF Handle, IInv, MessagesCovered, OpenedBefore
    <3>3. QED
      BY <1>t, <3>0, <3>1, <3>2
  <2>2. Held' = [Held EXCEPT ![w] = {}]
    BY <1>t, <1>3 DEF Handle, Held
  <2>3. QED
    BY <1>3, <2>1, <2>2 DEF Handle, write, Readable!Next, Readable!Hear
<1>4. CASE UNCHANGED <<db, heard>>
  BY <1>1, <1>4
<1>5. QED
  BY <1>2, <1>3, <1>4 DEF Next, StartLoad, LoadStep, ReadKeys, ReadRecord, TakeLock, Refresh,
     RunLoader, WriteRecord, WriteTimesOut, Release, Poll, WaitTimesOut, RedisFails,
     RunPlainLoader, Evict, EntryExpires, Restart, RecordExpires, LockExpires, LateWrite,
     ClearOwn, NextGeneration, Publish, InvalidationFails, vars, write, bus

\* The cache over Redis is a cache of bounded staleness: what a map holds was committed,
\* and is not older than what its worker has been told, whatever Redis loses or delays.
THEOREM CacheIsBoundedlyStale == Spec => ImplementsStaleness
<1>1. Init => ValuesCommitted /\ Readable!Init
  BY DEF Init, Idle, Outside, ValuesCommitted, EntryCommitted, Committed, Held, Readable!Init
<1>2. IInv /\ IInv' /\ ValuesCommitted /\ [Next]_vars => ValuesCommitted'
  BY StepCommitted
<1>3. IInv /\ IInv' /\ ValuesCommitted /\ [Next]_vars => [Readable!Next]_(Readable!vars)
  BY StepRefines
<1>4. QED
  BY <1>1, <1>2, <1>3, CacheInvariant, PTL DEF Spec, ImplementsStaleness, Readable!Spec

=============================================================================
