---------------------------- MODULE UpstreamSync ----------------------------
(***************************************************************************)
(* Delivery of store events to HQ.                                         *)
(*                                                                         *)
(* A store writes every sale, receipt, order ... together with a row of    *)
(* its local sync_outbox.  Cycle processes (the Electron process and the   *)
(* detached sync worker) each run runRemoteSyncCycle: expire exhausted     *)
(* rows, select a batch, pull, count the attempt, POST the batch to HQ and *)
(* record what HQ answered.  HQ handles a push in one database transaction *)
(* keyed by idempotency key: it projects events it has not projected yet   *)
(* and answers accepted, retryable or permanent for each.                  *)
(*                                                                         *)
(* Requests and responses can be lost, a request can reach HQ after the    *)
(* store has given up on it, a cycle process can be killed at any point,   *)
(* and operators requeue failed rows at the store or reprocess failed      *)
(* packets at HQ.                                                          *)
(*                                                                         *)
(* Event identity stands for the row id and its idempotency key; payloads  *)
(* are abstracted to the verdict HQ's projector gives on them.             *)
(***************************************************************************)
EXTENDS Naturals, FiniteSets

CONSTANTS
    Events,       \* rows the store may write into sync_outbox
    Workers,      \* processes that can run a sync cycle on the store database
    MaxAttempts,  \* MAX_SYNC_RETRY_ATTEMPTS
    BatchLimit,   \* LIMIT of getPendingUpstreamRows
    Rank,         \* Rank[e]: position in the ORDER BY of getPendingUpstreamRows
    Foreign,      \* events HQ refuses before it stores them
    Number,       \* Number[e]: which numbering scheme a sale's receipt uses
    MaxFaults,    \* bound: failed requests and killed processes
    MaxRequeues,  \* bound: operator requeues at the store
    MaxLate       \* bound: requests that outlive the cycle that sent them

Numbering == {"current", "legacy", "ecommerce"}

ASSUME BoundsAssumption ==
    /\ MaxAttempts \in Nat \ {0}
    /\ BatchLimit \in Nat \ {0}
    /\ MaxFaults \in Nat /\ MaxRequeues \in Nat /\ MaxLate \in Nat

ASSUME EventsAssumption ==
    /\ IsFiniteSet(Events)
    /\ Rank \in [Events -> Nat]
    /\ \A e, f \in Events : Rank[e] = Rank[f] => e = f
    /\ Foreign \subseteq Events
    /\ Number \in [Events -> Numbering]

ASSUME WorkersAssumption == IsFiniteSet(Workers)

VARIABLES
    status,    \* sync_outbox.status at the store; NONE before the row exists
    attempts,  \* sync_outbox.attempt_count
    waiting,   \* rows whose next_retry_at is still to come
    kind,      \* sync_outbox.failure_kind
    renamed,   \* rows whose id and key repairLegacyPosTransactionConflicts changed
    phase,     \* where each cycle process is
    batch,     \* the rows its cycle has read
    answer,    \* what HQ's response says of each event
    late,      \* requests still on their way to HQ although nobody waits for them
    inbound,   \* SyncInboundEvent.status at HQ; NONE before the row exists
    applied,   \* how often the event's projection has been committed (history)
    verdict,   \* what HQ's projector would answer now
    faults, requeues

storeVars == <<status, attempts, waiting, kind, renamed>>
cycleVars == <<phase, batch, answer>>
hqVars    == <<inbound, applied>>
vars == <<storeVars, cycleVars, late, hqVars, verdict, faults, requeues>>

RowStatus == {"NONE", "PENDING", "IN_FLIGHT", "FAILED", "DEAD_LETTER", "ACKNOWLEDGED"}
Active    == {"PENDING", "IN_FLIGHT", "FAILED"}
Verdicts  == {"accepted", "retryable", "permanent", "taken"}
Kinds     == {"none", "transport", "retryable", "permanent", "taken"}
Phases    == {"idle", "selected", "sent", "answered"}
\* failure kinds requeueDeadLetters leaves alone: STALE_VERSION, INVALID_PAYLOAD ...
PermanentKinds == {"permanent", "taken"}

Recorded == {e \in Events : status[e] # "NONE"}

NoAnswer == [e \in Events |-> "retryable"]

Init ==
    /\ status = [e \in Events |-> "NONE"]
    /\ attempts = [e \in Events |-> 0]
    /\ waiting = {}
    /\ kind = [e \in Events |-> "none"]
    /\ renamed = {}
    /\ phase = [w \in Workers |-> "idle"]
    /\ batch = [w \in Workers |-> {}]
    /\ answer = [w \in Workers |-> NoAnswer]
    /\ late = {}
    /\ inbound = [e \in Events |-> "NONE"]
    /\ applied = [e \in Events |-> 0]
    /\ verdict \in [Events -> Verdicts]
    /\ faults = 0
    /\ requeues = 0

-----------------------------------------------------------------------------
(* The store                                                               *)

\* A business write commits its outbox row in the same local transaction.
Record(e) ==
    /\ status[e] = "NONE"
    /\ status' = [status EXCEPT ![e] = "PENDING"]
    /\ UNCHANGED <<attempts, waiting, kind, renamed, cycleVars, late, hqVars, verdict, faults, requeues>>

\* Time passes next_retry_at.
RetryElapses(e) ==
    /\ e \in waiting
    /\ waiting' = waiting \ {e}
    /\ UNCHANGED <<status, attempts, kind, renamed, cycleVars, late, hqVars, verdict, faults, requeues>>

\* Mutant: only rows left FAILED expire, not those a killed cycle left IN_FLIGHT.
BugExhausted(e) == status[e] = "FAILED" /\ attempts[e] >= MaxAttempts

Exhausted(e) == status[e] \in Active /\ attempts[e] >= MaxAttempts

\* Mutants: the SELECT forgets its status filter, or its retry-window filter.
BugEligibleStatus == {e \in Recorded : attempts[e] < MaxAttempts /\ e \notin waiting}
BugEligibleWindow == {e \in Events : status[e] \in Active /\ attempts[e] < MaxAttempts}

Eligible == {e \in Events : /\ status[e] \in Active
                            /\ attempts[e] < MaxAttempts
                            /\ e \notin waiting}

FirstRows(rows) ==
    {e \in rows : Cardinality({f \in rows : Rank[f] < Rank[e]}) < BatchLimit}

\* Mutant: neither expires exhausted rows nor leaves them out of the batch.
BugStartCycle(w) ==
    /\ phase[w] = "idle"
    /\ phase' = [phase EXCEPT ![w] = "selected"]
    /\ batch' = [batch EXCEPT ![w] =
                    FirstRows({e \in Events : status[e] \in Active /\ e \notin waiting})]
    /\ UNCHANGED <<storeVars, answer, late, hqVars, verdict, faults, requeues>>

\* The start of a cycle: expireExhaustedOutboxRetries, then getPendingUpstreamRows.
StartCycle(w) ==
    /\ phase[w] = "idle"
    /\ status' = [e \in Events |-> IF Exhausted(e) THEN "DEAD_LETTER" ELSE status[e]]
    /\ waiting' = {e \in waiting : ~Exhausted(e)}
    /\ phase' = [phase EXCEPT ![w] = "selected"]
    /\ batch' = [batch EXCEPT ![w] = FirstRows(Eligible)]
    /\ UNCHANGED <<attempts, kind, renamed, answer, late, hqVars, verdict, faults, requeues>>

EndCycle(w) ==
    /\ phase' = [phase EXCEPT ![w] = "idle"]
    /\ batch' = [batch EXCEPT ![w] = {}]
    /\ answer' = [answer EXCEPT ![w] = NoAnswer]

\* The pull that precedes the push fails: the cycle ends, no attempt is counted.
PullFailed(w) ==
    /\ phase[w] = "selected"
    /\ EndCycle(w)
    /\ UNCHANGED <<storeVars, late, hqVars, verdict, faults, requeues>>

\* The rows of w's batch that its statements WHERE id = ? still find.
Found(w) == batch[w] \ renamed

\* markOutboxAttemptStarted, and the request leaves the store.
StartPush(w) ==
    /\ phase[w] = "selected"
    /\ LET started == {e \in Found(w) : status[e] \in Active}
       IN /\ status' = [e \in Events |-> IF e \in started THEN "IN_FLIGHT" ELSE status[e]]
          /\ attempts' = [e \in Events |-> IF e \in started THEN attempts[e] + 1 ELSE attempts[e]]
          /\ waiting' = waiting \ started
          /\ kind' = [e \in Events |-> IF e \in started THEN "none" ELSE kind[e]]
    /\ phase' = [phase EXCEPT ![w] = "sent"]
    /\ UNCHANGED <<renamed, batch, answer, late, hqVars, verdict, faults, requeues>>

\* A request nobody waits for any more is lost or is still under way.
Abandon(w) ==
    IF phase[w] = "sent"
    THEN \/ UNCHANGED late
         \/ Cardinality(late) < MaxLate /\ late' = late \cup {batch[w]}
    ELSE UNCHANGED late

MarkRows(accepted, failed, gaveUp, why) ==
    /\ status' = [e \in Events |-> IF e \in accepted THEN "ACKNOWLEDGED"
                                   ELSE IF e \in gaveUp THEN "DEAD_LETTER"
                                   ELSE IF e \in failed THEN "FAILED" ELSE status[e]]
    /\ waiting' = (waiting \ (accepted \cup gaveUp)) \cup (failed \ gaveUp)
    /\ kind' = [e \in Events |-> IF e \in accepted THEN "none"
                                 ELSE IF e \in failed THEN why[e] ELSE kind[e]]

\* Mutant: counts the attempt that just failed a second time.
BugMark(accepted, failed, why) ==
    MarkRows(accepted, failed,
             {e \in failed : why[e] \in PermanentKinds \/ attempts[e] + 1 >= MaxAttempts}, why)

\* What a finished push does to its rows: an accepted row is acknowledged, any other
\* is dead-lettered or waits out its retry delay, with the reason written on it.
Mark(accepted, failed, why) ==
    MarkRows(accepted, failed,
             {e \in failed : why[e] \in PermanentKinds \/ attempts[e] >= MaxAttempts}, why)

\* The push times out, the connection breaks or HQ aborts: markOutboxTransportFailure.
PushFailed(w) ==
    /\ phase[w] \in {"sent", "answered"}
    /\ faults < MaxFaults
    /\ faults' = faults + 1
    /\ Abandon(w)
    /\ Mark({}, Found(w), [e \in Events |-> "transport"])
    /\ EndCycle(w)
    /\ UNCHANGED <<attempts, renamed, hqVars, verdict, requeues>>

\* The response arrives: markOutboxAccepted and markOutboxRejected in one transaction.
ReceiveResponse(w) ==
    /\ phase[w] = "answered"
    /\ LET accepted == {e \in Found(w) : answer[w][e] = "accepted"}
       IN Mark(accepted, Found(w) \ accepted, answer[w])
    /\ EndCycle(w)
    /\ UNCHANGED <<attempts, renamed, late, hqVars, verdict, faults, requeues>>

\* The cycle process is killed (watchdog, power loss, window closed).
Crash(w) ==
    /\ phase[w] # "idle"
    /\ faults < MaxFaults
    /\ faults' = faults + 1
    /\ Abandon(w)
    /\ EndCycle(w)
    /\ UNCHANGED <<storeVars, hqVars, verdict, requeues>>

\* Sales repairLegacyPosTransactionConflicts finds: the number belongs to another event.
Conflicting == {e \in Events : status[e] \in {"FAILED", "DEAD_LETTER"} /\ kind[e] = "taken"}

\* requeueDeadLetters: repair the number conflicts, then requeue what may be retried.
Requeue ==
    LET renumbered == {e \in Conflicting \ renamed : Number[e] = "legacy"}
        released   == {e \in Conflicting : Number[e] = "ecommerce"}
        requeued   == {e \in Events : /\ status[e] \in {"FAILED", "DEAD_LETTER"}
                                      /\ kind[e] \notin PermanentKinds \/ e \in released}
    IN /\ requeues < MaxRequeues
       /\ requeues' = requeues + 1
       /\ renamed' = renamed \cup renumbered
       /\ status' = [e \in Events |-> IF e \in requeued THEN "PENDING" ELSE status[e]]
       /\ attempts' = [e \in Events |-> IF e \in requeued THEN 0 ELSE attempts[e]]
       /\ waiting' = waiting \ requeued
       /\ kind' = [e \in Events |-> IF e \in requeued THEN "none" ELSE kind[e]]
       /\ UNCHANGED <<cycleVars, late, hqVars, verdict, faults>>

-----------------------------------------------------------------------------
(* HQ                                                                      *)

\* Mutants: any known key is answered as a duplicate; the stored status is answered.
BugReplyDuplicate(e) == IF e \in Foreign THEN "permanent"
                        ELSE IF inbound[e] # "NONE" THEN "accepted" ELSE verdict[e]
BugReplyStatus(e) == IF e \in Foreign THEN "permanent"
                     ELSE IF inbound[e] # "NONE" THEN inbound[e] ELSE verdict[e]

\* What a push answers for e: refused, a duplicate, or the projector's verdict.
Reply(e) == IF e \in Foreign THEN "permanent"
            ELSE IF inbound[e] = "ACKNOWLEDGED" THEN "accepted"
            ELSE verdict[e]

\* Where applyInboundProjectionEvent leaves the inbound row.
Outcome(e) == CASE verdict[e] = "accepted"  -> "ACKNOWLEDGED"
                [] verdict[e] = "retryable" -> "FAILED"
                [] OTHER                    -> "DEAD_LETTER"

CountProjections(tried) ==
    applied' = [e \in Events |->
        IF e \in tried /\ verdict[e] = "accepted" THEN applied[e] + 1 ELSE applied[e]]

\* Mutant: the key is not looked up, and an event that is there already conflicts.
BugProject(b) ==
    /\ inbound' = [e \in Events |-> IF e \notin b \ Foreign THEN inbound[e]
                                    ELSE IF inbound[e] = "ACKNOWLEDGED" THEN "DEAD_LETTER"
                                    ELSE Outcome(e)]
    /\ CountProjections(b \ Foreign)

\* One transaction: create or reopen the inbound rows of b and project them.
\* Failed and dead-lettered rows are projected again, acknowledged ones are not.
Project(b) ==
    LET tried  == {e \in b \ Foreign : inbound[e] # "ACKNOWLEDGED"}
    IN /\ inbound' = [e \in Events |-> IF e \in tried THEN Outcome(e) ELSE inbound[e]]
       /\ CountProjections(tried)

\* pushStoreNodeSync handles the request of a cycle that is waiting for it.
HqPush(w) ==
    /\ phase[w] = "sent"
    /\ Project(batch[w])
    /\ answer' = [answer EXCEPT ![w] = [e \in Events |-> IF e \in batch[w] THEN Reply(e) ELSE NoAnswer[e]]]
    /\ phase' = [phase EXCEPT ![w] = "answered"]
    /\ UNCHANGED <<storeVars, batch, late, verdict, faults, requeues>>

\* pushStoreNodeSync handles a request whose sender has given up.
HqLatePush ==
    /\ \E b \in late : Project(b) /\ late' = late \ {b}
    /\ UNCHANGED <<storeVars, cycleVars, verdict, faults, requeues>>

\* reprocessStoreInboundEvent: an HQ operator retries a failed packet.
HqReprocess(e) ==
    /\ inbound[e] \in {"FAILED", "DEAD_LETTER"}
    /\ Project({e})
    /\ UNCHANGED <<storeVars, cycleVars, late, verdict, faults, requeues>>

\* Missing master data arrives at HQ, or a conflicting record is put right.
HqCorrects(e) ==
    /\ verdict[e] # "accepted"
    /\ verdict' = [verdict EXCEPT ![e] = "accepted"]
    /\ UNCHANGED <<storeVars, cycleVars, late, hqVars, faults, requeues>>

-----------------------------------------------------------------------------
Cycle(w) == \/ StartCycle(w) \/ PullFailed(w) \/ StartPush(w)
            \/ HqPush(w) \/ PushFailed(w) \/ ReceiveResponse(w) \/ Crash(w)

EventStep(e) == Record(e) \/ RetryElapses(e) \/ HqReprocess(e) \/ HqCorrects(e)

Next == \/ \E w \in Workers : Cycle(w)
        \/ \E e \in Events : EventStep(e)
        \/ HqLatePush
        \/ Requeue

Spec == Init /\ [][Next]_vars

(* The poller starts cycles again and again, delays elapse, a request that *)
(* is out either fails or is answered, and HQ is reachable again and again *)
(* (strong fairness of StartPush: the pull before it can keep failing for  *)
(* a while, not for ever).  Nothing is assumed of operators, of recording, *)
(* of faults or of late requests.                                          *)
Fairness ==
    /\ \A e \in Events : WF_vars(RetryElapses(e))
    /\ \A w \in Workers : /\ WF_vars(StartCycle(w))
                          /\ SF_vars(StartPush(w))
                          /\ WF_vars(HqPush(w))
                          /\ WF_vars(ReceiveResponse(w))

FairSpec == Spec /\ Fairness
-----------------------------------------------------------------------------
(* Properties                                                              *)

\* Type invariant: every variable holds values the columns and enums allow.
TypeOK ==
    /\ status \in [Events -> RowStatus]
    /\ attempts \in [Events -> Nat]
    /\ waiting \in SUBSET Events
    /\ kind \in [Events -> Kinds]
    /\ renamed \in SUBSET Events
    /\ phase \in [Workers -> Phases]
    /\ batch \in [Workers -> SUBSET Events]
    /\ answer \in [Workers -> [Events -> Verdicts]]
    /\ late \in SUBSET SUBSET Events
    /\ inbound \in [Events -> {"NONE", "FAILED", "DEAD_LETTER", "ACKNOWLEDGED"}]
    /\ applied \in [Events -> Nat]
    /\ verdict \in [Events -> Verdicts]
    /\ faults \in Nat
    /\ requeues \in Nat

\* A row the store shows as ACKNOWLEDGED is projected and acknowledged at HQ, and
\* was not refused: markOutboxAccepted never outruns pushStoreNodeSync, whatever
\* was lost, resent, reordered or handled by another cycle process.
ConfirmedIsProjected ==
    \A e \in Events : status[e] = "ACKNOWLEDGED" =>
        inbound[e] = "ACKNOWLEDGED" /\ applied[e] = 1 /\ e \notin Foreign

\* However often a batch is resent, arrives late, or is reprocessed by an operator,
\* the projection of an event is committed at most once (unique idempotencyKey).
ProjectedAtMostOnce == \A e \in Events : applied[e] <= 1

\* The attempt counter passes MAX_SYNC_RETRY_ATTEMPTS only by the cycle processes
\* that had read the row before it got there: with one process it is a hard limit.
AttemptsBounded ==
    \A e \in Events : attempts[e] <= MaxAttempts + Cardinality(Workers) - 1

\* A dead letter at the store has a cause on the row: HQ rejected it permanently, or
\* its attempts are used up.  No interleaving of cycles, crashes and requeues
\* dead-letters a row early.
DeadLetterHasCause ==
    \A e \in Events : status[e] = "DEAD_LETTER" =>
        kind[e] \in PermanentKinds \/ attempts[e] >= MaxAttempts

\* Once HQ has acknowledged an event no later push, late request or reprocessing
\* reopens it.
HqAckIsFinal ==
    [][\A e \in Events : inbound[e] = "ACKNOWLEDGED" => inbound'[e] = "ACKNOWLEDGED"]_vars

\* A row that waits out its retry delay is not sent before the delay has passed
\* (docs/09: only packets whose retry window has elapsed are retried).  Holds for
\* one cycle process.
RetryWindowRespected ==
    [][\A e \in Events : attempts'[e] > attempts[e] => e \notin waiting]_vars

\* The store never takes back an acknowledgement.  Holds for one cycle process.
StoreAckIsFinal ==
    [][\A e \in Events : status[e] = "ACKNOWLEDGED" => status'[e] = "ACKNOWLEDGED"]_vars

\* Every queued row is eventually acknowledged or moved to DEAD_LETTER: nothing loops
\* silently (docs/09), no row starves behind rows of higher priority.
EventuallySettles ==
    \A e \in Events : status[e] \in Active ~> status[e] \in {"ACKNOWLEDGED", "DEAD_LETTER"}

\* With fewer faults than MaxAttempts, a queued event that HQ is able to project is
\* acknowledged at the store without an operator: that is what the retry budget is for.
FaultsAreSurvived ==
    \A e \in Events \ Foreign :
        (status[e] = "PENDING" /\ verdict[e] = "accepted") ~> status[e] = "ACKNOWLEDGED"

\* Only failed requests and killed cycles use up retries: a queued row that HQ is able to
\* project is not dead-lettered before MaxAttempts of them have happened since, whatever
\* is requeued, answered late or put right in between.  Holds for one cycle process.
OnlyFaultsUseUpRetries ==
    \A e \in Events \ Foreign, n \in 0 .. MaxFaults :
        [](status[e] = "PENDING" /\ verdict[e] = "accepted" /\ faults = n =>
             [](status[e] = "DEAD_LETTER" => faults >= n + MaxAttempts))

-----------------------------------------------------------------------------
(* Claims of the repository that the code does not keep                    *)

\* requeueDeadLetters reports: eligible items were moved back into active queues,
\* permanent conflicts were left unchanged.
RequeueMovesOrLeaves ==
    [][requeues' # requeues =>
        \A e \in Events : \/ status'[e] = "PENDING"
                          \/ (e \in renamed') = (e \in renamed)]_vars

-----------------------------------------------------------------------------
(* What the protocol implements                                            *)

Promise == INSTANCE ReliableDelivery WITH
    recorded  <- Recorded,
    projected <- {e \in Events : inbound[e] = "ACKNOWLEDGED"},
    confirmed <- {e \in Events : status[e] = "ACKNOWLEDGED"}

\* The delivery protocol implements ReliableDelivery.
ImplementsPromise == Promise!Spec
=============================================================================
