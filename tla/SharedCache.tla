---------------------------- MODULE SharedCache ----------------------------
(***************************************************************************)
(* The read cache of the HQ web workers: a map in each worker's memory     *)
(* (enterprise-read-cache.ts) over one Redis (enterprise-shared-cache.ts), *)
(* for one key.  A value is represented by the number of commits it        *)
(* reflects.                                                               *)
(*                                                                         *)
(* Redis keys carry a generation.  A load reads the generation first, then *)
(* the cached record, then takes a lock, runs the loader against the       *)
(* database and writes the record under the generation it read.  After a   *)
(* commit the worker clears its own map and, without waiting, increments   *)
(* the generation and publishes a message that makes every worker clear    *)
(* its map.  So a load in flight when the data change ends up under a      *)
(* generation nobody reads and in a map entry that is no longer there.     *)
(*                                                                         *)
(* Faults: any Redis command may fail or time out, executed or not, a SET  *)
(* that timed out may execute later; the loader may fail; a message may be *)
(* lost; a worker may restart.  Clocks: a value is there until it expires; *)
(* whether one that is there is still fresh when it is read is left open.  *)
(***************************************************************************)
EXTENDS Naturals, FiniteSets

CONSTANTS
    Workers,    \* HQ web processes
    Loads,      \* slots for concurrent runs of getEnterpriseSharedCachedRead
    At,         \* At[l]: the worker whose load l is
    MaxCommits, \* bound: commits that change the cached data
    MaxFaults,  \* bound: faults
    NoLoad,     \* no lock token, no pending load
    Nothing     \* no record, no entry, no value

(* What an invalidation does next, and at which worker.                     *)
Steps == {"clear", "incr", "publish"}
Tasks == [step : Steps, at : Workers]

ASSUME CacheConstants ==
    /\ At \in [Loads -> Workers]
    /\ MaxCommits \in Nat
    /\ MaxFaults \in Nat
    /\ NoLoad \notin Loads
    /\ Nothing \notin Nat \cup Tasks

Commits == 1 .. MaxCommits
Versions == 0 .. MaxCommits
Gens == 0 .. MaxCommits

VARIABLES
    db,      \* commits so far: the version a loader reads now
    task,    \* task[c]: how far the invalidation that follows commit c got,
             \* and at which worker, while it is under way
    gen,     \* the generation in Redis
    opened,  \* opened[g]: commits there were when generation g was opened
    record,  \* record[g]: the value key of generation g, until it expires
    lock,    \* lock[g]: the token in the lock key of generation g
    late,    \* SET commands that timed out at the client and may still execute
    inbox,   \* inbox[w]: published invalidations worker w has not handled
    heard,   \* heard[w]: the newest commit whose message w has handled
    entry,   \* entry[w]: the key's entry in w's map, its value until it expires
    load,    \* load[l]: a run of getEnterpriseSharedCachedRead
    faults   \* faults so far

redis == <<gen, opened, record, lock, late>>
bus   == <<inbox, heard>>
write == <<db, task>>
vars  == <<write, redis, bus, entry, load, faults>>

Entries == [val : Versions \cup {Nothing}, pending : Loads \cup {NoLoad}]

(* keys: reads the generation; get: reads the record; lock: wants the lock, *)
(* having missed; refresh: wants it, having found a stale record; load: the *)
(* loader runs under the lock; write, release: what follows it; wait: polls *)
(* for the holder's record; plain: the loader runs without Redis.           *)
Phases == {"idle", "keys", "get", "lock", "refresh", "load", "write",
           "release", "wait", "plain"}

(* background: the caller has had its answer, the refresh goes on.          *)
LoadRecords ==
    [phase : Phases, gen : Gens, val : Versions \cup {Nothing}, background : BOOLEAN]

Outside(phase) == [phase |-> phase, gen |-> 0, val |-> Nothing, background |-> FALSE]
Idle == Outside("idle")

Init ==
    /\ db = 0
    /\ task = [c \in Commits |-> Nothing]
    /\ gen = 0
    /\ opened = [g \in Gens |-> 0]
    /\ record = [g \in Gens |-> Nothing]
    /\ lock = [g \in Gens |-> NoLoad]
    /\ late = {}
    /\ inbox = [w \in Workers |-> {}]
    /\ heard = [w \in Workers |-> 0]
    /\ entry = [w \in Workers |-> Nothing]
    /\ load = [l \in Loads |-> Idle]
    /\ faults = 0

-----------------------------------------------------------------------------
(* The map of a worker.                                                     *)

\* Mutant: the load writes to whatever entry the map holds for the key.
BugAttached(l) == entry[At[l]] # Nothing

(* The load writes into the entry object it was started for, which the map  *)
(* may no longer hold.                                                      *)
Attached(l) ==
    /\ entry[At[l]] # Nothing
    /\ entry[At[l]].pending = l

(* What the map holds once load l has answered with value v.                *)
Answered(l, v) ==
    IF Attached(l)
    THEN [entry EXCEPT ![At[l]] = [val |-> v, pending |-> NoLoad]]
    ELSE entry

(* An entry without value and without load is as good as none.              *)
Entry(v, l) ==
    IF v = Nothing /\ l = NoLoad THEN Nothing ELSE [val |-> v, pending |-> l]

(* What it may hold once load l has failed.  An entry that has no value is   *)
(* deleted by its key; when the load's entry is no longer in the map (and it *)
(* is not known here whether it had a value), that hits the one that is.     *)
Failed(l) ==
    IF Attached(l)
    THEN {[entry EXCEPT ![At[l]] = Entry(@.val, NoLoad)]}
    ELSE {entry, [entry EXCEPT ![At[l]] = Nothing]}

Fault == faults < MaxFaults /\ faults' = faults + 1

Finish(l) == load' = [load EXCEPT ![l] = Idle]
GoTo(l, phase) == load' = [load EXCEPT ![l].phase = phase]
FallBack(l) == load' = [load EXCEPT ![l] = Outside("plain")]

(* A read that finds no value, or one no longer fresh, and no load pending   *)
(* starts a load; without a Redis client it goes straight to the loader.     *)
(* (A read that finds a fresh value or a pending load changes nothing.)      *)
StartLoad(l) ==
    LET w == At[l] IN
    /\ load[l].phase = "idle"
    /\ entry[w] # Nothing => entry[w].pending = NoLoad
    /\ entry' = [entry EXCEPT ![w] =
                    Entry(IF entry[w] = Nothing THEN Nothing ELSE entry[w].val, l)]
    /\ \/ GoTo(l, "keys") /\ UNCHANGED faults
       \/ FallBack(l) /\ Fault
    /\ UNCHANGED <<write, redis, bus>>

(* A miss on another key pushes the entry out of a full map.                 *)
Evict(w) ==
    /\ entry[w] # Nothing
    /\ entry[w].pending = NoLoad
    /\ entry' = [entry EXCEPT ![w] = Nothing]
    /\ UNCHANGED <<write, redis, bus, load, faults>>

EntryExpires(w) ==
    /\ entry[w] # Nothing
    /\ entry[w].val # Nothing
    /\ entry' = [entry EXCEPT ![w] = Entry(Nothing, @.pending)]
    /\ UNCHANGED <<write, redis, bus, load, faults>>

-----------------------------------------------------------------------------
(* One run of getEnterpriseSharedCachedRead.                                *)

ReadKeys(l) ==
    /\ load[l].phase = "keys"
    /\ load' = [load EXCEPT ![l].phase = "get", ![l].gen = gen]
    /\ UNCHANGED <<write, redis, bus, entry, faults>>

(* A fresh record is the answer, one no longer fresh calls for a refresh.    *)
ReadRecord(l) ==
    LET found == record[load[l].gen] IN
    /\ load[l].phase = "get"
    /\ \/ /\ found = Nothing
          /\ GoTo(l, "lock")
          /\ UNCHANGED entry
       \/ /\ found # Nothing
          /\ entry' = Answered(l, found)
          /\ Finish(l)
       \/ /\ found # Nothing
          /\ load' = [load EXCEPT ![l].phase = "refresh", ![l].val = found]
          /\ UNCHANGED entry
    /\ UNCHANGED <<write, redis, bus, faults>>

TakeLock(l) ==
    /\ load[l].phase = "lock"
    /\ IF lock[load[l].gen] = NoLoad
       THEN /\ lock' = [lock EXCEPT ![load[l].gen] = l]
            /\ GoTo(l, "load")
       ELSE GoTo(l, "wait") /\ UNCHANGED lock
    /\ UNCHANGED <<write, gen, opened, record, late, bus, entry, faults>>

(* The caller gets the stale value at once; the load goes on only if it got  *)
(* the lock.                                                                 *)
Refresh(l) ==
    /\ load[l].phase = "refresh"
    /\ entry' = Answered(l, load[l].val)
    /\ IF lock[load[l].gen] = NoLoad
       THEN /\ lock' = [lock EXCEPT ![load[l].gen] = l]
            /\ load' = [load EXCEPT ![l].phase = "load", ![l].val = Nothing,
                                    ![l].background = TRUE]
       ELSE Finish(l) /\ UNCHANGED lock
    /\ UNCHANGED <<write, gen, opened, record, late, bus, faults>>

(* The loader under the lock; when it fails the lock is released all the same. *)
RunLoader(l) ==
    /\ load[l].phase = "load"
    /\ \/ /\ load' = [load EXCEPT ![l].phase = "write", ![l].val = db]
          /\ UNCHANGED faults
       \/ GoTo(l, "release") /\ Fault
    /\ UNCHANGED <<write, redis, bus, entry>>

\* Mutant: the record is written under the generation of the moment.
BugKeyGeneration(l) == gen

(* The record is written under the generation read at the start.             *)
KeyGeneration(l) == load[l].gen

WriteRecord(l) ==
    /\ load[l].phase = "write"
    /\ record' = [record EXCEPT ![KeyGeneration(l)] = load[l].val]
    /\ GoTo(l, "release")
    /\ UNCHANGED <<write, gen, opened, lock, late, bus, entry, faults>>

WriteTimesOut(l) ==
    /\ load[l].phase = "write"
    /\ late' = late \cup {<<KeyGeneration(l), load[l].val>>}
    /\ load' = [load EXCEPT ![l].phase = "release", ![l].val = Nothing]
    /\ Fault
    /\ UNCHANGED <<write, gen, opened, record, lock, bus, entry>>

\* Mutant: the lock key is deleted whatever it holds.
BugUnlocked(l) == [lock EXCEPT ![load[l].gen] = NoLoad]

(* The script that deletes the lock key only if it still holds this token;   *)
(* its failure is swallowed.                                                 *)
Unlocked(l) ==
    IF lock[load[l].gen] = l THEN [lock EXCEPT ![load[l].gen] = NoLoad] ELSE lock

Release(l) ==
    /\ load[l].phase = "release"
    /\ \/ lock' = Unlocked(l) /\ UNCHANGED faults
       \/ UNCHANGED lock /\ Fault
    /\ \/ /\ load[l].background
          /\ Finish(l)
          /\ UNCHANGED entry
       \/ /\ ~load[l].background
          /\ load[l].val # Nothing
          /\ entry' = Answered(l, load[l].val)
          /\ Finish(l)
       \/ /\ ~load[l].background
          /\ load[l].val = Nothing
          /\ FallBack(l)
          /\ UNCHANGED entry
    /\ UNCHANGED <<write, gen, opened, record, late, bus>>

(* waitForRecord: polls until somebody's record is there or its deadline.    *)
Poll(l) ==
    LET found == record[load[l].gen] IN
    /\ load[l].phase = "wait"
    /\ found # Nothing
    /\ entry' = Answered(l, found)
    /\ Finish(l)
    /\ UNCHANGED <<write, redis, bus, faults>>

\* Mutant: after the deadline it polls on.
BugWaitTimesOut(l) == load[l].phase = "wait" /\ UNCHANGED vars

WaitTimesOut(l) ==
    /\ load[l].phase = "wait"
    /\ FallBack(l)
    /\ UNCHANGED <<write, redis, bus, entry, faults>>

(* A Redis command fails; the lock may have been taken all the same.         *)
RedisFails(l) ==
    /\ load[l].phase \in {"keys", "get", "lock", "refresh", "wait"}
    /\ FallBack(l)
    /\ \/ UNCHANGED lock
       \/ /\ load[l].phase \in {"lock", "refresh"}
          /\ lock[load[l].gen] = NoLoad
          /\ lock' = [lock EXCEPT ![load[l].gen] = l]
    /\ Fault
    /\ UNCHANGED <<write, gen, opened, record, late, bus, entry>>

RunPlainLoader(l) ==
    /\ load[l].phase = "plain"
    /\ \/ entry' = Answered(l, db) /\ UNCHANGED faults
       \/ entry' \in Failed(l) /\ Fault
    /\ Finish(l)
    /\ UNCHANGED <<write, redis, bus>>

LoadStep(l) ==
    \/ ReadKeys(l) \/ ReadRecord(l) \/ TakeLock(l) \/ Refresh(l)
    \/ RunLoader(l) \/ WriteRecord(l) \/ WriteTimesOut(l) \/ Release(l)
    \/ Poll(l) \/ WaitTimesOut(l) \/ RedisFails(l) \/ RunPlainLoader(l)

-----------------------------------------------------------------------------
(* Redis by itself.                                                         *)

\* Mutant: the SET gives the record no lifetime.
BugRecordExpires(g) == record[g] # Nothing /\ UNCHANGED vars

RecordExpires(g) ==
    /\ record[g] # Nothing
    /\ record' = [record EXCEPT ![g] = Nothing]
    /\ UNCHANGED <<write, gen, opened, lock, late, bus, entry, load, faults>>

LockExpires(g) ==
    /\ lock[g] # NoLoad
    /\ lock' = [lock EXCEPT ![g] = NoLoad]
    /\ Fault
    /\ UNCHANGED <<write, gen, opened, record, late, bus, entry, load>>

(* The SET that timed out executes after all, or is lost.                    *)
LateWrite(g, v) ==
    /\ <<g, v>> \in late
    /\ late' = late \ {<<g, v>>}
    /\ record' \in {record, [record EXCEPT ![g] = v]}
    /\ UNCHANGED <<write, gen, opened, lock, bus, entry, load, faults>>

-----------------------------------------------------------------------------
(* A change of the data and the invalidation that follows it.               *)

Commit(w) ==
    /\ db < MaxCommits
    /\ db' = db + 1
    /\ task' = [task EXCEPT ![db + 1] = [step |-> "clear", at |-> w]]
    /\ UNCHANGED <<redis, bus, entry, load, faults>>

(* invalidateEnterpriseReadCache: the worker's own map at once, Redis later  *)
(* ("void"), or not at all without a client.                                 *)
ClearOwn(w, c) ==
    /\ task[c] = [step |-> "clear", at |-> w]
    /\ entry' = [entry EXCEPT ![w] = Nothing]
    /\ \/ task' = [task EXCEPT ![c].step = "incr"] /\ UNCHANGED faults
       \/ task' = [task EXCEPT ![c] = Nothing] /\ Fault
    /\ UNCHANGED <<db, redis, bus, load>>

\* Mutant: the invalidation is tried again, though its INCR may have executed.
BugAfterFailure(c) == [task[c] EXCEPT !.step = "incr"]

(* A failure is recorded and answered with false; nobody tries again.        *)
AfterFailure(c) == Nothing

(* INCR executes; when its answer does not come in time nothing is published. *)
NextGeneration(w, c) ==
    /\ task[c] = [step |-> "incr", at |-> w]
    /\ gen' = gen + 1
    /\ opened' = [opened EXCEPT ![gen + 1] = db]
    /\ \/ task' = [task EXCEPT ![c].step = "publish"] /\ UNCHANGED faults
       \/ task' = [task EXCEPT ![c] = AfterFailure(c)] /\ Fault
    /\ UNCHANGED <<db, record, lock, late, bus, entry, load>>

(* The message reaches the workers whose subscriber is connected; those that *)
(* do not read the key have nothing to clear and are left out.               *)
Readers == {At[l] : l \in Loads}

Publish(w, c) ==
    /\ task[c] = [step |-> "publish", at |-> w]
    /\ task' = [task EXCEPT ![c] = Nothing]
    /\ \E reached \in SUBSET Readers :
         /\ inbox' = [v \in Workers |-> IF v \in reached THEN inbox[v] \cup {c} ELSE inbox[v]]
         /\ IF reached = Readers THEN UNCHANGED faults ELSE Fault
    /\ UNCHANGED <<db, redis, heard, entry, load>>

InvalidationFails(w, c) ==
    /\ task[c] \in [step : {"incr", "publish"}, at : {w}]
    /\ task' = [task EXCEPT ![c] = AfterFailure(c)]
    /\ Fault
    /\ UNCHANGED <<db, redis, bus, entry, load>>

Handle(w, c) ==
    /\ c \in inbox[w]
    /\ inbox' = [inbox EXCEPT ![w] = @ \ {c}]
    /\ heard' = [heard EXCEPT ![w] = IF c > @ THEN c ELSE @]
    /\ entry' = [entry EXCEPT ![w] = Nothing]
    /\ UNCHANGED <<write, redis, load, faults>>

(* The process dies with its map, its loads and its invalidations under way; *)
(* its locks stay in Redis.                                                  *)
Restart(w) ==
    /\ entry' = [entry EXCEPT ![w] = Nothing]
    /\ load' = [l \in Loads |-> IF At[l] = w THEN Idle ELSE load[l]]
    /\ inbox' = [inbox EXCEPT ![w] = {}]
    /\ task' = [c \in Commits |->
                  IF task[c] \in [step : Steps, at : {w}] THEN Nothing ELSE task[c]]
    /\ Fault
    /\ UNCHANGED <<db, redis, heard>>

-----------------------------------------------------------------------------
Next ==
    \/ \E l \in Loads : StartLoad(l) \/ LoadStep(l)
    \/ \E w \in Workers : Evict(w) \/ EntryExpires(w) \/ Commit(w) \/ Restart(w)
    \/ \E g \in Gens : RecordExpires(g) \/ LockExpires(g)
    \/ \E g \in Gens, v \in Versions : LateWrite(g, v)
    \/ \E w \in Workers, c \in Commits :
         \/ ClearOwn(w, c) \/ NextGeneration(w, c) \/ Publish(w, c)
         \/ InvalidationFails(w, c) \/ Handle(w, c)

Spec == Init /\ [][Next]_vars

(* Every await of a load comes to an end (commands by their timeout, the     *)
(* wait by its deadline, the loader by the database's), and clocks go on.    *)
FairSpec ==
    /\ Spec
    /\ \A l \in Loads : WF_vars(LoadStep(l))
    /\ \A w \in Readers : WF_vars(EntryExpires(w))
    /\ \A g \in Gens : WF_vars(RecordExpires(g))

-----------------------------------------------------------------------------
TypeOK ==
    /\ db \in Versions
    /\ task \in [Commits -> Tasks \cup {Nothing}]
    /\ gen \in Gens
    /\ opened \in [Gens -> Versions]
    /\ record \in [Gens -> Versions \cup {Nothing}]
    /\ lock \in [Gens -> Loads \cup {NoLoad}]
    /\ late \subseteq Gens \X Versions
    /\ inbox \in [Workers -> SUBSET Commits]
    /\ heard \in [Workers -> Versions]
    /\ faults \in 0 .. MaxFaults
    /\ entry \in [Workers -> Entries \cup {Nothing}]
    /\ load \in [Loads -> LoadRecords]

(* A record under a generation reflects every commit made before the         *)
(* generation was opened, whatever load wrote it and however late.           *)
RecordNotOlderThanGeneration ==
    \A g \in Gens : record[g] # Nothing => record[g] >= opened[g]

(* Once a worker has handled the message of a commit, its map never again    *)
(* holds a value older than that commit: not from a load that was in flight, *)
(* not from Redis.                                                           *)
EntryNotOlderThanMessage ==
    \A w \in Workers :
        entry[w] # Nothing /\ entry[w].val # Nothing => entry[w].val >= heard[w]

(* A lock is given back by the load that holds it or by its expiry, never by *)
(* a load whose lock expired while it worked and was taken by another.       *)
LockOnlyByOwner ==
    [][\A g \in Gens :
         lock[g] # NoLoad /\ lock'[g] # lock[g] =>
            LockExpires(g) \/ Release(lock[g])]_vars

(* Every read gets an answer, even when the holder of the lock it waits for  *)
(* has died.                                                                 *)
LoadsAnswered == \A l \in Loads : load[l].phase # "idle" ~> load[l].phase = "idle"

(* Once the data stop changing, in the end no worker serves an older value,  *)
(* even if every invalidation failed or was lost.                            *)
StaleDiesOut ==
    <>[](\A w \in Workers :
           entry[w] # Nothing /\ entry[w].val # Nothing => entry[w].val = db)

-----------------------------------------------------------------------------
(* What the cache implements.                                               *)
Held == [w \in Workers |->
            IF entry[w] = Nothing THEN {} ELSE {entry[w].val} \ {Nothing}]

Readable == INSTANCE BoundedStaleness WITH held <- Held

(* The cache over Redis implements BoundedStaleness.                         *)
ImplementsStaleness == Readable!Spec
=============================================================================
