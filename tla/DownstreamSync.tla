--------------------------- MODULE DownstreamSync ---------------------------
(***************************************************************************)
(* Delivery of HQ publications to one store.                               *)
(*                                                                         *)
(* HQ queues a packet in SyncOutboxEvent for every published version of a  *)
(* record.  A store's sync cycle (runRemoteSyncCycle) re-applies inbox     *)
(* rows that failed before, pulls pages of packets and applies each page   *)
(* in one local transaction, then reports in its push which packets are    *)
(* applied and which failed.  HQ redelivers what is in flight once its     *)
(* retry window has passed and dead-letters it after MaxAttempts pulls.    *)
(*                                                                         *)
(* Requests and responses can be lost, a push can reach HQ after the store *)
(* has given up on it, a packet may lack something the store gets later,   *)
(* and operators replay packets at HQ or requeue rows at the store.        *)
(*                                                                         *)
(* Packets are numbered in the order HQ created them (createdAt, id); all  *)
(* are of one priority class.                                              *)
(***************************************************************************)
EXTENDS Naturals, FiniteSets

CONSTANTS
    Packets,     \* packets HQ may publish to the store
    RecordOf,    \* RecordOf[p]: the record p is a version of
    Guarded,     \* records whose payload carries a version the store compares
    PageLimit,   \* packets in one pull response
    MaxAttempts, \* MAX_SYNC_RETRY_ATTEMPTS
    MaxFaults,   \* bound: failed requests
    MaxLate,     \* bound: pushes that outlive their cycle
    MaxOperator  \* bound: replays at HQ and requeues at the store

Records == {RecordOf[p] : p \in Packets}

ASSUME PacketAssumption ==
    /\ Packets \subseteq Nat \ {0}
    /\ IsFiniteSet(Packets)
    /\ DOMAIN RecordOf = Packets
    /\ Guarded \subseteq Records

ASSUME LimitsAssumption ==
    /\ PageLimit \in Nat \ {0} /\ MaxAttempts \in Nat \ {0}
    /\ MaxFaults \in Nat /\ MaxLate \in Nat /\ MaxOperator \in Nat

VARIABLES
    queue,     \* SyncOutboxEvent.status at HQ; NONE before publication
    tries,     \* SyncOutboxEvent.attemptCount
    waiting,   \* in-flight packets whose retry window has not elapsed
    inbox,     \* sync_inbox.status at the store; NONE before the row exists
    received,  \* sync_inbox.received_at: rows of one page share it, later pages have a later one
    acked,     \* rows with acknowledged_at
    content,   \* content[r]: the packet the store's copy of r comes from, or 0
    applied,   \* how often p's payload has been applied (history)
    lacking,   \* packets the store cannot apply yet
    phase,     \* where the sync cycle is
    page,      \* the pull response on its way to the store
    acks,      \* packets the cycle will acknowledge
    report,    \* packets the push reports as failed
    answer,    \* acknowledgedDownstreamEventIds of the push response
    late,      \* pushes still on their way to HQ although nobody waits for them
    faults, operator

hqVars    == <<queue, tries, waiting>>
storeVars == <<inbox, received, acked, content, applied>>
cycleVars == <<phase, page, acks, report, answer>>
vars == <<hqVars, storeVars, lacking, cycleVars, late, faults, operator>>

Init ==
    /\ queue = [p \in Packets |-> "NONE"]
    /\ tries = [p \in Packets |-> 0]
    /\ waiting = {}
    /\ inbox = [p \in Packets |-> "NONE"]
    /\ received = [p \in Packets |-> 0]
    /\ acked = {}
    /\ content = [r \in Records |-> 0]
    /\ applied = [p \in Packets |-> 0]
    /\ lacking \in SUBSET Packets
    /\ phase = "idle"
    /\ page = {} /\ acks = {} /\ report = {} /\ answer = {}
    /\ late = {}
    /\ faults = 0 /\ operator = 0

-----------------------------------------------------------------------------
(* HQ's queue                                                              *)

\* queueAutomaticStoreMasterDataPublications, or an operator's publication.
Publish(p) ==
    /\ queue[p] = "NONE"
    /\ \A q \in Packets : q < p => queue[q] # "NONE"
    /\ queue' = [queue EXCEPT ![p] = "PENDING"]
    /\ UNCHANGED <<tries, waiting, storeVars, lacking, cycleVars, late, faults, operator>>

\* Time passes the retry delay of an in-flight packet.
RetryElapses(p) ==
    /\ p \in waiting
    /\ waiting' = waiting \ {p}
    /\ UNCHANGED <<queue, tries, storeVars, lacking, cycleVars, late, faults, operator>>

FirstOf(S, n) == {p \in S : Cardinality({q \in S : q < p}) < n}

\* Mutant: packets that have used up their attempts stay in flight.
BugExhausted == {}

Exhausted == {p \in Packets : queue[p] = "IN_FLIGHT" /\ tries[p] >= MaxAttempts}

Pending == {p \in Packets : queue[p] = "PENDING"}

\* Mutant: one redelivery too many.
BugDueInFlight(forced) == {p \in Packets : /\ queue[p] = "IN_FLIGHT"
                                           /\ tries[p] <= MaxAttempts
                                           /\ forced \/ p \notin waiting}

\* forced: a manual or tray sync does not wait for the retry window.
DueInFlight(forced) == {p \in Packets : /\ queue[p] = "IN_FLIGHT"
                                        /\ tries[p] < MaxAttempts
                                        /\ forced \/ p \notin waiting}

\* New packets first, then due ones as far as the page has room.
Served(forced) ==
    LET new == FirstOf(Pending, PageLimit)
    IN new \cup FirstOf(DueInFlight(forced), PageLimit - Cardinality(new))

\* pullStoreNodeSync.
HqPull ==
    /\ phase = "pulling"
    /\ \E forced \in BOOLEAN :
        LET served == Served(forced)
        IN /\ queue' = [p \in Packets |-> IF p \in Exhausted THEN "DEAD_LETTER"
                                          ELSE IF p \in served THEN "IN_FLIGHT" ELSE queue[p]]
           /\ tries' = [p \in Packets |-> IF p \in served THEN tries[p] + 1 ELSE tries[p]]
           /\ waiting' = (waiting \cup served) \ Exhausted
           /\ page' = served
    /\ phase' = "pulled"
    /\ UNCHANGED <<storeVars, lacking, acks, report, answer, late, faults, operator>>

\* The packets of S that are in a state in which they can be acknowledged.
Acknowledgeable(S) == {p \in S : queue[p] \in {"IN_FLIGHT", "ACKNOWLEDGED"}}

\* pushStoreNodeSync as far as downstream packets go: failures are written over any
\* state, then acknowledgements are taken.
HandlePush(failed, ids) ==
    /\ queue' = [p \in Packets |-> IF p \in Acknowledgeable(ids \ failed) THEN "ACKNOWLEDGED"
                                   ELSE IF p \in failed THEN "FAILED" ELSE queue[p]]
    /\ tries' = [p \in Packets |-> IF p \in failed /\ tries[p] = 0 THEN 1 ELSE tries[p]]
    /\ waiting' = waiting \ (failed \cup Acknowledgeable(ids \ failed))

HqPush ==
    /\ phase = "sent"
    /\ HandlePush(report, acks)
    /\ answer' = Acknowledgeable(acks \ report)
    /\ phase' = "answered"
    /\ UNCHANGED <<storeVars, lacking, page, acks, report, late, faults, operator>>

HqLatePush ==
    /\ \E push \in late : HandlePush(push.failed, push.ids) /\ late' = late \ {push}
    /\ UNCHANGED <<storeVars, lacking, cycleVars, faults, operator>>

\* replayStoreNodeDownstream and replayStoreNodeDownstreamEvent.
Replay(S) ==
    /\ S # {} /\ operator < MaxOperator
    /\ \A p \in S : queue[p] \in {"FAILED", "DEAD_LETTER"}
    /\ queue' = [p \in Packets |-> IF p \in S THEN "PENDING" ELSE queue[p]]
    /\ tries' = [p \in Packets |-> IF p \in S THEN 0 ELSE tries[p]]
    /\ operator' = operator + 1
    /\ UNCHANGED <<waiting, storeVars, lacking, cycleVars, late, faults>>

-----------------------------------------------------------------------------
(* The store                                                               *)

\* The store gets what p needs (a product, a role, a location ...).
DependencyArrives(p) ==
    /\ p \in lacking
    /\ lacking' = lacking \ {p}
    /\ UNCHANGED <<hqVars, storeVars, cycleVars, late, faults, operator>>

Of(r, S) == {p \in S : RecordOf[p] = r}

Newest(S) == {p \in S : \A q \in S : q <= p}

\* Where reapplyFailedDownstreamInbox ends: the rows of a page have no order among them.
LastReceived(S) == {p \in S : \A q \in S : received[q] <= received[p]}

\* Mutant: the payload applied last wins for every record.
BugCopiesAfter(r, S, last) == IF S = {} THEN {content[r]} ELSE last

\* The packets the store's copy of r may come from after the payloads S, with one of last
\* at the end: a guarded record keeps the newest version, any other the one applied last.
CopiesAfter(r, S, last) ==
    IF S = {} THEN {content[r]}
    ELSE IF r \in Guarded THEN Newest(S \cup {content[r]})
    ELSE last

CountApplied(S) ==
    applied' = [p \in Packets |-> IF p \in S THEN applied[p] + 1 ELSE applied[p]]

\* Mutants: rows that are applied already are applied again; rows that are there and have
\* not failed count as applied.
BugNotApplied(S) == S
BugNotAppliedReceived(S) == {p \in S : inbox[p] \notin {"APPLIED", "RECEIVED"}}

NotApplied(S) == {p \in S : inbox[p] # "APPLIED"}

\* Mutant: whatever was received is acknowledged.
BugAppliedAfter(S) == S

\* What applyDownstreamBatch returns: the packets of S the store has now.
AppliedAfter(S) == S \ (NotApplied(S) \cap lacking)

\* A cycle starts: reapplyFailedDownstreamInbox, in the order the rows were received,
\* then getPendingDownstreamAcknowledgements.
StartCycle ==
    /\ phase = "idle"
    /\ LET redone == {p \in Packets : inbox[p] = "FAILED"} \ lacking
       IN /\ CountApplied(redone)
          /\ content' \in [Records -> Packets \cup {0}]
          /\ \A r \in Records :
                content'[r] \in CopiesAfter(r, Of(r, redone), LastReceived(Of(r, redone)))
          /\ inbox' = [p \in Packets |-> IF p \in redone THEN "APPLIED" ELSE inbox[p]]
          /\ acks' = redone \cup {p \in Packets : inbox[p] = "APPLIED" /\ p \notin acked}
    /\ phase' = "pulling"
    /\ UNCHANGED <<hqVars, received, acked, lacking, page, report, answer, late, faults, operator>>

Rows == {p \in Packets : inbox[p] # "NONE"}

\* applyDownstreamBatch.  After a full page the cycle may pull another one
\* (the pass limit depends on what triggered it).
ApplyPage ==
    /\ phase = "pulled"
    /\ LET new  == NotApplied(page)
           done == new \ lacking
       IN /\ CountApplied(done)
          /\ content' \in [Records -> Packets \cup {0}]
          /\ \A r \in Records : content'[r] \in CopiesAfter(r, Of(r, done), Newest(Of(r, done)))
          /\ inbox' = [p \in Packets |-> IF p \in done THEN "APPLIED"
                                         ELSE IF p \in new THEN "FAILED" ELSE inbox[p]]
          /\ received' = [p \in Packets |-> IF p \in new \ Rows THEN Cardinality(Rows) + 1
                                            ELSE received[p]]
          /\ acks' = acks \cup AppliedAfter(page)
    /\ page' = {}
    /\ \/ phase' = "ready"
       \/ Cardinality(page) = PageLimit /\ phase' = "pulling"
    /\ UNCHANGED <<hqVars, acked, lacking, report, answer, late, faults, operator>>

SendPush ==
    /\ phase = "ready"
    /\ report' = {p \in Packets : inbox[p] = "FAILED"}
    /\ phase' = "sent"
    /\ UNCHANGED <<hqVars, storeVars, lacking, page, acks, answer, late, faults, operator>>

\* markInboxAcknowledged.
ReceiveAnswer ==
    /\ phase = "answered"
    /\ acked' = acked \cup answer
    /\ phase' = "idle"
    /\ page' = {} /\ acks' = {} /\ report' = {} /\ answer' = {}
    /\ UNCHANGED <<hqVars, inbox, received, content, applied, lacking, late, faults, operator>>

\* A pull or push fails or its response is lost, or the process is killed: the cycle
\* ends; a push nobody waits for may still be on its way.
CycleFails ==
    /\ phase # "idle"
    /\ faults < MaxFaults
    /\ faults' = faults + 1
    /\ \/ UNCHANGED late
       \/ /\ phase = "sent" /\ Cardinality(late) < MaxLate
          /\ late' = late \cup {[failed |-> report, ids |-> acks]}
    /\ phase' = "idle"
    /\ page' = {} /\ acks' = {} /\ report' = {} /\ answer' = {}
    /\ UNCHANGED <<hqVars, storeVars, lacking, operator>>

\* requeueDeadLetters as far as the inbox goes: failed rows become RECEIVED.
Requeue ==
    /\ operator < MaxOperator
    /\ operator' = operator + 1
    /\ inbox' = [p \in Packets |-> IF inbox[p] = "FAILED" THEN "RECEIVED" ELSE inbox[p]]
    /\ UNCHANGED <<hqVars, received, acked, content, applied, lacking, cycleVars, late, faults>>

-----------------------------------------------------------------------------
Cycle == \/ StartCycle \/ HqPull \/ ApplyPage \/ SendPush \/ HqPush
         \/ ReceiveAnswer \/ CycleFails

PacketStep(p) == Publish(p) \/ RetryElapses(p) \/ DependencyArrives(p)

Next == \/ Cycle
        \/ \E p \in Packets : PacketStep(p)
        \/ \E S \in SUBSET Packets : Replay(S)
        \/ HqLatePush
        \/ Requeue

Spec == Init /\ [][Next]_vars

(* The poller starts cycle after cycle, a request that is out is answered   *)
(* or fails (a bounded number of times here), and retry delays elapse.      *)
(* Nothing is assumed of operators, publications, faults, late pushes or    *)
(* missing dependencies.                                                    *)
Fairness ==
    /\ \A p \in Packets : WF_vars(RetryElapses(p))
    /\ WF_vars(StartCycle) /\ WF_vars(HqPull) /\ WF_vars(ApplyPage)
    /\ WF_vars(SendPush) /\ WF_vars(HqPush) /\ WF_vars(ReceiveAnswer)

FairSpec == Spec /\ Fairness
-----------------------------------------------------------------------------
(* Properties                                                              *)

\* Type invariant.
TypeOK ==
    /\ queue \in [Packets -> {"NONE", "PENDING", "IN_FLIGHT", "FAILED", "DEAD_LETTER", "ACKNOWLEDGED"}]
    /\ tries \in [Packets -> 0..MaxAttempts]
    /\ waiting \in SUBSET Packets
    /\ inbox \in [Packets -> {"NONE", "RECEIVED", "FAILED", "APPLIED"}]
    /\ received \in [Packets -> Nat]
    /\ acked \in SUBSET Packets
    /\ content \in [Records -> Packets \cup {0}]
    /\ applied \in [Packets -> Nat]
    /\ lacking \in SUBSET Packets
    /\ phase \in {"idle", "pulling", "pulled", "ready", "sent", "answered"}
    /\ page \in SUBSET Packets /\ acks \in SUBSET Packets
    /\ report \in SUBSET Packets /\ answer \in SUBSET Packets
    /\ late \in SUBSET [failed : SUBSET Packets, ids : SUBSET Packets]
    /\ faults \in Nat /\ operator \in Nat

\* A payload is applied at most once, whether it comes by a pull, by a redelivery or
\* from the inbox rows that failed before: inventory packets add to stock.
AppliedOnce == \A p \in Packets : applied[p] <= 1

\* Once HQ has handed out everything and every packet of a record is acknowledged, the
\* store's copy is HQ's last version (docs/03: enterprise-owned master data is
\* authoritative downstream).
StoreHasLatest ==
    \A r \in Records :
        LET own == {p \in Packets : RecordOf[p] = r}
        IN (\A p \in own : queue[p] = "ACKNOWLEDGED") => \A p \in own : p <= content[r]

\* A queued packet does not stay queued: it is acknowledged, reported as failed or
\* dead-lettered for an operator (docs/09), and not starved by newer ones.
QueueDrains ==
    \A p \in Packets : queue[p] \in {"PENDING", "IN_FLIGHT"} ~>
                       queue[p] \in {"ACKNOWLEDGED", "FAILED", "DEAD_LETTER"}

\* A row an operator requeued (requeueDeadLetters) is RECEIVED, which no cycle of the store
\* selects: HQ's redelivery still applies its packet, or the packet stays on HQ's list of
\* failed and dead-lettered ones, where it can be replayed.
RequeuedIsNotLost ==
    \A p \in Packets : inbox[p] = "RECEIVED" ~>
                       inbox[p] = "APPLIED" \/ queue[p] \in {"FAILED", "DEAD_LETTER"}

-----------------------------------------------------------------------------
(* What the protocol implements                                            *)

Promise == INSTANCE ReliableDelivery WITH
    Events    <- Packets,
    recorded  <- {p \in Packets : queue[p] # "NONE"},
    projected <- {p \in Packets : inbox[p] = "APPLIED"},
    confirmed <- {p \in Packets : queue[p] = "ACKNOWLEDGED"}

\* Downstream delivery implements ReliableDelivery: the store applies only what HQ
\* published, and HQ counts as acknowledged only what the store has applied, also when
\* acknowledgements are stray or stale (docs/09).
ImplementsPromise == Promise!Spec
=============================================================================
