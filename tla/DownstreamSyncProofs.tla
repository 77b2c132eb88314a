------------------------ MODULE DownstreamSyncProofs ------------------------
(***************************************************************************)
(* Theorems about DownstreamSync, for every finite set of packets, every   *)
(* assignment of packets to records and every bound.                       *)
(***************************************************************************)
EXTENDS DownstreamSync, RankedSelection, FiniteSetTheorems, TLAPS

-----------------------------------------------------------------------------
(* Type correctness                                                        *)

\* What a push does to HQ's queue keeps its columns well typed.
LEMMA HandlePushType ==
    ASSUME TypeOK, NEW failed \in SUBSET Packets, NEW ids \in SUBSET Packets,
           HandlePush(failed, ids)
    PROVE  /\ queue' \in [Packets -> {"NONE", "PENDING", "IN_FLIGHT", "FAILED", "DEAD_LETTER",
                                      "ACKNOWLEDGED"}]
           /\ tries' \in [Packets -> 0..MaxAttempts]
           /\ waiting' \in SUBSET Packets
<1>1. 1 \in 0..MaxAttempts
  BY LimitsAssumption
<1>2. queue' \in [Packets -> {"NONE", "PENDING", "IN_FLIGHT", "FAILED", "DEAD_LETTER",
                              "ACKNOWLEDGED"}]
  BY DEF HandlePush, TypeOK
<1>3. tries' \in [Packets -> 0..MaxAttempts]
  BY <1>1 DEF HandlePush, TypeOK
<1>4. waiting' \in SUBSET Packets
  BY DEF HandlePush, TypeOK
<1>5. QED
  BY <1>2, <1>3, <1>4

\* A pull counts one more attempt only for packets that have one left, and for new ones.
LEMMA PullType ==
    ASSUME TypeOK, \A p \in Packets : queue[p] = "PENDING" => tries[p] = 0, HqPull
    PROVE  /\ queue' \in [Packets -> {"NONE", "PENDING", "IN_FLIGHT", "FAILED", "DEAD_LETTER",
                                      "ACKNOWLEDGED"}]
           /\ tries' \in [Packets -> 0..MaxAttempts]
           /\ waiting' \in SUBSET Packets
           /\ page' \in SUBSET Packets
<1>1. PICK forced \in BOOLEAN :
        /\ queue' = [p \in Packets |-> IF p \in Exhausted THEN "DEAD_LETTER"
                                       ELSE IF p \in Served(forced) THEN "IN_FLIGHT" ELSE queue[p]]
        /\ tries' = [p \in Packets |-> IF p \in Served(forced) THEN tries[p] + 1 ELSE tries[p]]
        /\ waiting' = (waiting \cup Served(forced)) \ Exhausted
        /\ page' = Served(forced)
  BY DEF HqPull
<1>2. Served(forced) \subseteq Pending \cup DueInFlight(forced)
  BY DEF Served, FirstOf
<1>3. Served(forced) \in SUBSET Packets
  BY <1>2 DEF Pending, DueInFlight
<1>4. ASSUME NEW p \in Served(forced) PROVE tries[p] + 1 \in 0..MaxAttempts
  <2>1. p \in Packets /\ tries[p] \in 0..MaxAttempts
    BY <1>3 DEF TypeOK
  <2>2. tries[p] < MaxAttempts
    BY <1>2, <2>1, LimitsAssumption DEF Pending, DueInFlight
  <2>3. QED
    BY <2>1, <2>2, LimitsAssumption
<1>5. tries' \in [Packets -> 0..MaxAttempts]
  BY <1>1, <1>4 DEF TypeOK
<1>6. queue' \in [Packets -> {"NONE", "PENDING", "IN_FLIGHT", "FAILED", "DEAD_LETTER",
                              "ACKNOWLEDGED"}]
  BY <1>1 DEF TypeOK
<1>7. QED
  BY <1>1, <1>3, <1>5, <1>6 DEF TypeOK

\* A packet that waits to be pulled for the first time, or again after a replay, has no
\* attempts: what bounds its redeliveries.
PendingUntried == \A p \in Packets : queue[p] \in {"NONE", "PENDING"} => tries[p] = 0

\* Every step of HQ, of the cycle, of operators and of time keeps the types.
LEMMA NextType == TypeOK /\ PendingUntried /\ [Next]_vars => TypeOK'
<1> SUFFICES ASSUME TypeOK, PendingUntried, [Next]_vars PROVE TypeOK'
  OBVIOUS
<1>1. CASE UNCHANGED vars
  BY <1>1 DEF TypeOK, vars, hqVars, storeVars, cycleVars
<1>2. CASE Cycle
  <2>1. CASE StartCycle
    <3>1. applied' \in [Packets -> Nat]
      BY <2>1 DEF StartCycle, CountApplied, TypeOK
    <3>2. inbox' \in [Packets -> {"NONE", "RECEIVED", "FAILED", "APPLIED"}]
      BY <2>1 DEF StartCycle, TypeOK
    <3>3. acks' \in SUBSET Packets
      BY <2>1 DEF StartCycle, TypeOK
    <3>4. QED
      BY <2>1, <3>1, <3>2, <3>3 DEF StartCycle, TypeOK, hqVars
  <2>2. CASE HqPull
    <3>1. \A p \in Packets : queue[p] = "PENDING" => tries[p] = 0
      BY DEF PendingUntried
    <3>2. QED
      BY <2>2, <3>1, PullType DEF HqPull, TypeOK, storeVars
  <2>3. CASE ApplyPage
    <3>1. applied' \in [Packets -> Nat]
      BY <2>3 DEF ApplyPage, CountApplied, TypeOK
    <3>2. inbox' \in [Packets -> {"NONE", "RECEIVED", "FAILED", "APPLIED"}]
      BY <2>3 DEF ApplyPage, TypeOK
    <3>3. IsFiniteSet(Rows) /\ Cardinality(Rows) \in Nat
      BY PacketAssumption, FS_Subset, FS_CardinalityType DEF Rows
    <3>4. received' \in [Packets -> Nat]
      BY <2>3, <3>3 DEF ApplyPage, TypeOK
    <3>5. acks' \in SUBSET Packets
      BY <2>3 DEF ApplyPage, AppliedAfter, TypeOK
    <3>6. QED
      BY <2>3, <3>1, <3>2, <3>4, <3>5 DEF ApplyPage, TypeOK, hqVars
  <2>4. CASE SendPush
    BY <2>4 DEF SendPush, TypeOK, hqVars, storeVars
  <2>5. CASE HqPush
    <3>1. HandlePush(report, acks) /\ report \in SUBSET Packets /\ acks \in SUBSET Packets
      BY <2>5 DEF HqPush, TypeOK
    <3>2. answer' \in SUBSET Packets
      BY <2>5 DEF HqPush, Acknowledgeable, TypeOK
    <3>3. QED
      BY <2>5, <3>1, <3>2, HandlePushType DEF HqPush, TypeOK, storeVars
  <2>6. CASE ReceiveAnswer
    BY <2>6 DEF ReceiveAnswer, TypeOK, hqVars
  <2>7. CASE CycleFails
    <3>1. late' \in SUBSET [failed : SUBSET Packets, ids : SUBSET Packets]
      BY <2>7 DEF CycleFails, TypeOK
    <3>2. QED
      BY <2>7, <3>1 DEF CycleFails, TypeOK, hqVars, storeVars
  <2>8. QED
    BY <1>2, <2>1, <2>2, <2>3, <2>4, <2>5, <2>6, <2>7 DEF Cycle
<1>3. ASSUME NEW p \in Packets, PacketStep(p) PROVE TypeOK'
  BY <1>3 DEF PacketStep, Publish, RetryElapses, DependencyArrives, TypeOK, hqVars, storeVars,
              cycleVars
<1>4. ASSUME NEW S \in SUBSET Packets, Replay(S) PROVE TypeOK'
  <2>1. tries' \in [Packets -> 0..MaxAttempts]
    BY <1>4, LimitsAssumption DEF Replay, TypeOK
  <2>2. QED
    BY <1>4, <2>1 DEF Replay, TypeOK, storeVars, cycleVars
<1>5. CASE HqLatePush
  <2>1. PICK push \in late : HandlePush(push.failed, push.ids) /\ late' = late \ {push}
    BY <1>5 DEF HqLatePush
  <2>2. push.failed \in SUBSET Packets /\ push.ids \in SUBSET Packets
    BY <2>1 DEF TypeOK
  <2>3. QED
    BY <1>5, <2>1, <2>2, HandlePushType DEF HqLatePush, TypeOK, storeVars, cycleVars
<1>6. CASE Requeue
  BY <1>6 DEF Requeue, TypeOK, hqVars, cycleVars
<1>7. QED
  BY <1>1, <1>2, <1>3, <1>4, <1>5, <1>6 DEF Next

-----------------------------------------------------------------------------
(* The inductive invariant                                                 *)

Published == {p \in Packets : queue[p] # "NONE"}
Applied   == {p \in Packets : inbox[p] = "APPLIED"}

\* Nothing reaches the store, a page or a report that HQ did not publish.
OnlyPublished ==
    /\ Rows \subseteq Published
    /\ page \subseteq Published
    /\ report \subseteq Published
    /\ \A push \in late : push.failed \subseteq Published

\* What the store acknowledges, in this push or in one still under way, it has applied.
AcksAreTrue ==
    /\ acks \subseteq Applied
    /\ \A push \in late : push.ids \subseteq Applied
    /\ \A p \in Packets : queue[p] = "ACKNOWLEDGED" => p \in Applied

\* The history counter and the inbox agree.
AppliedMatchesInbox == \A p \in Packets : applied[p] = IF p \in Applied THEN 1 ELSE 0

\* The store's copy of a guarded record is at least as new as every version applied.
GuardedCopyIsNewest == \A p \in Applied : RecordOf[p] \in Guarded => p <= content[RecordOf[p]]

IInv == /\ TypeOK
        /\ PendingUntried
        /\ OnlyPublished
        /\ AcksAreTrue
        /\ AppliedMatchesInbox
        /\ GuardedCopyIsNewest

\* The invariant's parts about the store hold after a step of HQ's queue that withdraws no
\* publication and acknowledges only what is applied.
LEMMA QueueStep ==
    ASSUME IInv, TypeOK', UNCHANGED storeVars,
           Published \subseteq Published',
           \A p \in Packets : queue'[p] = "ACKNOWLEDGED" => p \in Applied,
           page' \subseteq page \cup Published, report' = report, acks' = acks,
           late' \subseteq late,
           PendingUntried'
    PROVE  IInv'
<1>1. Applied' = Applied /\ Rows' = Rows
  BY DEF storeVars, Applied, Rows
<1>2. OnlyPublished'
  BY <1>1 DEF IInv, OnlyPublished
<1>3. AcksAreTrue'
  BY <1>1 DEF IInv, AcksAreTrue
<1>4. AppliedMatchesInbox' /\ GuardedCopyIsNewest'
  BY <1>1 DEF IInv, AppliedMatchesInbox, GuardedCopyIsNewest, storeVars
<1>5. QED
  BY <1>2, <1>3, <1>4 DEF IInv

\* Handling a push withdraws nothing, acknowledges only applied packets, and writes an
\* attempt only on packets it marks as failed.
LEMMA HandlePushEffect ==
    ASSUME IInv, NEW failed \in SUBSET Published, NEW ids \in SUBSET Applied,
           HandlePush(failed, ids)
    PROVE  /\ Published' = Published
           /\ \A p \in Packets : queue'[p] = "ACKNOWLEDGED" => p \in Applied
           /\ PendingUntried'
<1>1. ASSUME NEW p \in Packets
      PROVE  /\ queue'[p] = IF p \in Acknowledgeable(ids \ failed) THEN "ACKNOWLEDGED"
                            ELSE IF p \in failed THEN "FAILED" ELSE queue[p]
             /\ tries'[p] = IF p \in failed /\ tries[p] = 0 THEN 1 ELSE tries[p]
  BY <1>1 DEF HandlePush
<1>2. Acknowledgeable(ids \ failed) \subseteq ids \cap Published
  BY DEF Acknowledgeable, Published, Applied
<1>3. Published' = Published
  BY <1>1, <1>2 DEF Published
<1>4. \A p \in Packets : queue'[p] = "ACKNOWLEDGED" => p \in Applied
  BY <1>1, <1>2 DEF IInv, AcksAreTrue
<1>5. PendingUntried'
  BY <1>1 DEF IInv, PendingUntried
<1>6. QED
  BY <1>3, <1>4, <1>5

\* Applying payloads for the first time adds one to their counters, and the copy of a
\* guarded record becomes at least as new as each of them.
LEMMA ApplyEffect ==
    ASSUME IInv, NEW done \in SUBSET (Packets \ Applied), CountApplied(done),
           Applied' = Applied \cup done,
           \A r \in Records : \E last : content'[r] \in CopiesAfter(r, Of(r, done), last)
    PROVE  AppliedMatchesInbox' /\ GuardedCopyIsNewest'
<1>1. AppliedMatchesInbox'
  BY DEF IInv, TypeOK, AppliedMatchesInbox, CountApplied
<1>2. ASSUME NEW p \in Applied', RecordOf[p] \in Guarded PROVE p <= content'[RecordOf[p]]
  <2> DEFINE r == RecordOf[p]
  <2>1. p \in Packets /\ p \in Nat /\ r \in Records
    BY PacketAssumption DEF Applied, Records
  <2>2. content[r] \in Nat /\ content[r] \in Packets \cup {0}
    <3>1. content \in [Records -> Packets \cup {0}]
      BY DEF IInv, TypeOK
    <3>2. content[r] \in Packets \cup {0}
      BY <2>1, <3>1
    <3>3. Packets \cup {0} \subseteq Nat
      BY PacketAssumption
    <3>4. QED
      BY <3>2, <3>3
  <2>3. PICK last : content'[r] \in CopiesAfter(r, Of(r, done), last)
    BY <2>1
  <2>4. p \in Applied => p <= content[r]
    BY <1>2 DEF IInv, GuardedCopyIsNewest
  <2>5. CASE Of(r, done) = {}
    <3>1. content'[r] = content[r]
      BY <2>3, <2>5 DEF CopiesAfter
    <3>2. p \notin done
      BY <2>5 DEF Of
    <3>3. QED
      BY <1>2, <2>4, <3>1, <3>2
  <2>6. CASE Of(r, done) # {}
    <3>1. content'[r] \in Newest(Of(r, done) \cup {content[r]})
      BY <1>2, <2>3, <2>6 DEF CopiesAfter
    <3>2. /\ content'[r] \in Of(r, done) \cup {content[r]}
          /\ \A q \in Of(r, done) \cup {content[r]} : q <= content'[r]
      BY <3>1 DEF Newest
    <3>3. content'[r] \in Nat
      BY <2>2, <3>2, PacketAssumption DEF Of
    <3>4. CASE p \in done
      BY <3>2, <3>4 DEF Of
    <3>5. CASE p \in Applied
      BY <2>1, <2>2, <2>4, <3>2, <3>3, <3>5
    <3>6. QED
      BY <1>2, <3>4, <3>5
  <2>7. QED
    BY <2>5, <2>6
<1>3. QED
  BY <1>1, <1>2 DEF GuardedCopyIsNewest

\* Every step keeps the inductive invariant.
LEMMA NextIInv == IInv /\ [Next]_vars => IInv'
<1> SUFFICES ASSUME IInv, [Next]_vars PROVE IInv'
  OBVIOUS
<1>0. TypeOK'
  BY NextType DEF IInv
<1>1. CASE UNCHANGED vars
  BY <1>0, <1>1, QueueStep DEF vars, hqVars, storeVars, cycleVars, IInv, Published, AcksAreTrue,
                               PendingUntried
<1>2. CASE Cycle
  <2>1. CASE StartCycle
    <3> DEFINE redone == {p \in Packets : inbox[p] = "FAILED"} \ lacking
    <3>1. /\ CountApplied(redone)
          /\ \A r \in Records :
                content'[r] \in CopiesAfter(r, Of(r, redone), LastReceived(Of(r, redone)))
          /\ inbox' = [p \in Packets |-> IF p \in redone THEN "APPLIED" ELSE inbox[p]]
          /\ acks' = redone \cup {p \in Packets : inbox[p] = "APPLIED" /\ p \notin acked}
          /\ UNCHANGED <<hqVars, page, report, late>>
      BY <2>1 DEF StartCycle
    <3>2. redone \in SUBSET (Packets \ Applied) /\ Applied' = Applied \cup redone
      BY <3>1 DEF Applied
    <3>3. Published' = Published /\ Rows' \subseteq Rows /\ Applied \subseteq Applied'
      BY <3>1, <3>2 DEF Published, hqVars, Rows
    <3>4. acks' \subseteq Applied'
      BY <3>1, <3>2 DEF Applied
    <3>5. OnlyPublished'
      BY <3>1, <3>3 DEF IInv, OnlyPublished
    <3>6. AcksAreTrue'
      BY <3>1, <3>3, <3>4 DEF IInv, AcksAreTrue, hqVars
    <3>7. AppliedMatchesInbox' /\ GuardedCopyIsNewest'
      BY <3>1, <3>2, ApplyEffect
    <3>8. PendingUntried'
      BY <3>1 DEF IInv, PendingUntried, hqVars
    <3>9. QED
      BY <1>0, <3>5, <3>6, <3>7, <3>8 DEF IInv
  <2>2. CASE HqPull
    <3>1. PICK forced \in BOOLEAN :
            /\ queue' = [p \in Packets |-> IF p \in Exhausted THEN "DEAD_LETTER"
                                           ELSE IF p \in Served(forced) THEN "IN_FLIGHT"
                                           ELSE queue[p]]
            /\ tries' = [p \in Packets |-> IF p \in Served(forced) THEN tries[p] + 1 ELSE tries[p]]
            /\ page' = Served(forced)
      BY <2>2 DEF HqPull
    <3>2. Served(forced) \subseteq Published /\ Exhausted \subseteq Published
      BY DEF Served, FirstOf, Pending, DueInFlight, Exhausted, Published
    <3>3. Published' = Published
      BY <3>1, <3>2 DEF Published
    <3>4. \A p \in Packets : queue'[p] = "ACKNOWLEDGED" => p \in Applied
      BY <3>1 DEF IInv, AcksAreTrue
    <3>5. PendingUntried'
      BY <3>1, <3>2 DEF IInv, PendingUntried
    <3>6. UNCHANGED <<storeVars, acks, report, late>>
      BY <2>2 DEF HqPull
    <3>7. QED
      BY <1>0, <3>1, <3>2, <3>3, <3>4, <3>5, <3>6, QueueStep
  <2>3. CASE ApplyPage
    <3> DEFINE done == NotApplied(page) \ lacking
    <3>1. /\ CountApplied(done)
          /\ \A r \in Records : content'[r] \in CopiesAfter(r, Of(r, done), Newest(Of(r, done)))
          /\ inbox' = [p \in Packets |-> IF p \in done THEN "APPLIED"
                                         ELSE IF p \in NotApplied(page) THEN "FAILED" ELSE inbox[p]]
          /\ acks' = acks \cup AppliedAfter(page)
          /\ page' = {}
          /\ UNCHANGED <<hqVars, report, late>>
      BY <2>3 DEF ApplyPage
    <3>2. page \subseteq Packets
      BY DEF IInv, TypeOK
    <3>3. done \in SUBSET (Packets \ Applied) /\ Applied' = Applied \cup done
      BY <3>1, <3>2 DEF Applied, NotApplied
    <3>4. AppliedAfter(page) \subseteq Applied'
      BY <3>2, <3>3 DEF AppliedAfter, NotApplied, Applied
    <3>5. Published' = Published /\ Rows' \subseteq Rows \cup page
      BY <3>1 DEF Published, hqVars, Rows, NotApplied
    <3>6. OnlyPublished'
      BY <3>1, <3>5 DEF IInv, OnlyPublished
    <3>7. AcksAreTrue'
      BY <3>1, <3>3, <3>4 DEF IInv, AcksAreTrue, hqVars
    <3>8. AppliedMatchesInbox' /\ GuardedCopyIsNewest'
      BY <3>1, <3>3, ApplyEffect
    <3>9. PendingUntried'
      BY <3>1 DEF IInv, PendingUntried, hqVars
    <3>10. QED
      BY <1>0, <3>6, <3>7, <3>8, <3>9 DEF IInv
  <2>4. CASE SendPush
    <3>1. /\ report' = {p \in Packets : inbox[p] = "FAILED"}
          /\ UNCHANGED <<hqVars, storeVars, page, acks, late>>
      BY <2>4 DEF SendPush
    <3>2. report' \subseteq Rows /\ Rows' = Rows /\ Published' = Published /\ Applied' = Applied
      BY <3>1 DEF Rows, Published, Applied, hqVars, storeVars
    <3>3. OnlyPublished'
      BY <3>1, <3>2 DEF IInv, OnlyPublished
    <3>4. AcksAreTrue' /\ PendingUntried' /\ AppliedMatchesInbox' /\ GuardedCopyIsNewest'
      BY <3>1, <3>2 DEF IInv, AcksAreTrue, PendingUntried, AppliedMatchesInbox,
                        GuardedCopyIsNewest, hqVars, storeVars
    <3>5. QED
      BY <1>0, <3>3, <3>4 DEF IInv
  <2>5. CASE HqPush
    <3>1. /\ HandlePush(report, acks)
          /\ UNCHANGED <<storeVars, page, acks, report, late>>
      BY <2>5 DEF HqPush
    <3>2. report \in SUBSET Published /\ acks \in SUBSET Applied
      BY DEF IInv, OnlyPublished, AcksAreTrue
    <3>3. /\ Published' = Published
          /\ \A p \in Packets : queue'[p] = "ACKNOWLEDGED" => p \in Applied
          /\ PendingUntried'
      BY <3>1, <3>2, HandlePushEffect
    <3>4. QED
      BY <1>0, <3>1, <3>3, QueueStep
  <2>6. CASE ReceiveAnswer
    <3>1. /\ page' = {} /\ acks' = {} /\ report' = {}
          /\ UNCHANGED <<hqVars, inbox, content, applied, late>>
      BY <2>6 DEF ReceiveAnswer
    <3>2. QED
      BY <1>0, <3>1 DEF IInv, OnlyPublished, AcksAreTrue, PendingUntried, AppliedMatchesInbox,
                        GuardedCopyIsNewest, Published, Applied, Rows, hqVars
  <2>7. CASE CycleFails
    <3>1. /\ page' = {} /\ acks' = {} /\ report' = {}
          /\ late' \subseteq late \cup {[failed |-> report, ids |-> acks]}
          /\ UNCHANGED <<hqVars, storeVars>>
      BY <2>7 DEF CycleFails
    <3>2. Published' = Published /\ Applied' = Applied /\ Rows' = Rows
      BY <3>1 DEF Published, Applied, Rows, hqVars, storeVars
    <3>3. OnlyPublished' /\ AcksAreTrue'
      BY <3>1, <3>2 DEF IInv, OnlyPublished, AcksAreTrue, hqVars
    <3>4. PendingUntried' /\ AppliedMatchesInbox' /\ GuardedCopyIsNewest'
      BY <3>1, <3>2 DEF IInv, PendingUntried, AppliedMatchesInbox, GuardedCopyIsNewest, hqVars,
                        storeVars
    <3>5. QED
      BY <1>0, <3>3, <3>4 DEF IInv
  <2>8. QED
    BY <1>2, <2>1, <2>2, <2>3, <2>4, <2>5, <2>6, <2>7 DEF Cycle
<1>3. ASSUME NEW p \in Packets, PacketStep(p) PROVE IInv'
  <2>1. UNCHANGED <<storeVars, cycleVars, late, tries>>
    BY <1>3 DEF PacketStep, Publish, RetryElapses, DependencyArrives, hqVars
  <2>2. \/ UNCHANGED queue
        \/ queue[p] = "NONE" /\ queue' = [queue EXCEPT ![p] = "PENDING"]
    BY <1>3 DEF PacketStep, Publish, RetryElapses, DependencyArrives, hqVars
  <2>3. Published \subseteq Published'
    BY <2>2 DEF Published, IInv, TypeOK
  <2>4. \A q \in Packets : queue'[q] = "ACKNOWLEDGED" => q \in Applied
    BY <2>2 DEF IInv, TypeOK, AcksAreTrue
  <2>5. PendingUntried'
    BY <2>1, <2>2 DEF IInv, TypeOK, PendingUntried
  <2>6. QED
    BY <1>0, <2>1, <2>3, <2>4, <2>5, QueueStep DEF cycleVars
<1>4. ASSUME NEW S \in SUBSET Packets, Replay(S) PROVE IInv'
  <2>1. /\ queue' = [p \in Packets |-> IF p \in S THEN "PENDING" ELSE queue[p]]
        /\ tries' = [p \in Packets |-> IF p \in S THEN 0 ELSE tries[p]]
        /\ UNCHANGED <<storeVars, cycleVars, late>>
    BY <1>4 DEF Replay
  <2>2. Published \subseteq Published'
    BY <2>1 DEF Published
  <2>3. \A p \in Packets : queue'[p] = "ACKNOWLEDGED" => p \in Applied
    BY <2>1 DEF IInv, AcksAreTrue
  <2>4. PendingUntried'
    BY <2>1 DEF IInv, PendingUntried
  <2>5. QED
    BY <1>0, <2>1, <2>2, <2>3, <2>4, QueueStep DEF cycleVars
<1>5. CASE HqLatePush
  <2>1. PICK push \in late : HandlePush(push.failed, push.ids) /\ late' = late \ {push}
    BY <1>5 DEF HqLatePush
  <2>2. push.failed \in SUBSET Published /\ push.ids \in SUBSET Applied
    BY <2>1 DEF IInv, OnlyPublished, AcksAreTrue
  <2>3. /\ Published' = Published
        /\ \A p \in Packets : queue'[p] = "ACKNOWLEDGED" => p \in Applied
        /\ PendingUntried'
    BY <2>1, <2>2, HandlePushEffect
  <2>4. UNCHANGED <<storeVars, cycleVars>>
    BY <1>5 DEF HqLatePush
  <2>5. QED
    BY <1>0, <2>1, <2>3, <2>4, QueueStep DEF cycleVars
<1>6. CASE Requeue
  <2>1. /\ inbox' = [p \in Packets |-> IF inbox[p] = "FAILED" THEN "RECEIVED" ELSE inbox[p]]
        /\ UNCHANGED <<hqVars, content, applied, cycleVars, late>>
    BY <1>6 DEF Requeue
  <2>2. Published' = Published /\ Applied' = Applied /\ Rows' \subseteq Rows
    BY <2>1 DEF Published, Applied, Rows, hqVars
  <2>3. OnlyPublished' /\ AcksAreTrue'
    BY <2>1, <2>2 DEF IInv, OnlyPublished, AcksAreTrue, hqVars, cycleVars
  <2>4. PendingUntried' /\ AppliedMatchesInbox' /\ GuardedCopyIsNewest'
    BY <2>1, <2>2 DEF IInv, PendingUntried, AppliedMatchesInbox, GuardedCopyIsNewest, hqVars
  <2>5. QED
    BY <1>0, <2>3, <2>4 DEF IInv
<1>7. QED
  BY <1>1, <1>2, <1>3, <1>4, <1>5, <1>6 DEF Next

\* In every reachable state the store holds only what HQ published, its acknowledgements
\* are true, payloads are counted once and guarded copies are the newest applied.
LEMMA InductiveInvariant == Spec => []IInv
<1>1. Init => TypeOK
  BY PacketAssumption, LimitsAssumption DEF Init, TypeOK
<1>2. Init => IInv
  BY <1>1 DEF Init, IInv, PendingUntried, OnlyPublished, AcksAreTrue, AppliedMatchesInbox,
              GuardedCopyIsNewest, Rows, Applied, Published
<1>3. QED
  BY <1>2, NextIInv, PTL DEF Spec

\* Every status, attempt count, page and push keeps its type; no packet is handed out more
\* than MaxAttempts times between two replays.
THEOREM TypeCorrect == Spec => []TypeOK
<1>1. IInv => TypeOK
  BY DEF IInv
<1>2. QED
  BY <1>1, InductiveInvariant, PTL

\* No packet is applied twice, whatever is lost, redelivered, replayed or requeued.
THEOREM NothingIsAppliedTwice == Spec => []AppliedOnce
<1>1. IInv => AppliedOnce
  BY DEF IInv, AppliedOnce, AppliedMatchesInbox
<1>2. QED
  BY <1>1, InductiveInvariant, PTL

\* Where every payload carries a version the store compares, acknowledged records are up
\* to date, whatever order failed packets were applied in.
THEOREM GuardedRecordsAreCurrent ==
    ASSUME Guarded = Records
    PROVE  Spec => []StoreHasLatest
<1>1. IInv => StoreHasLatest
  <2> SUFFICES ASSUME IInv, NEW r \in Records,
                      \A p \in Of(r, Packets) : queue[p] = "ACKNOWLEDGED",
                      NEW p \in Of(r, Packets)
               PROVE  p <= content[r]
    BY DEF StoreHasLatest, Of
  <2>1. p \in Applied /\ RecordOf[p] = r /\ r \in Guarded
    BY DEF IInv, AcksAreTrue, Of
  <2>2. QED
    BY <2>1 DEF IInv, GuardedCopyIsNewest
<1>2. QED
  BY <1>1, InductiveInvariant, PTL

-----------------------------------------------------------------------------
(* Refinement                                                              *)

Confirmed == {p \in Packets : queue[p] = "ACKNOWLEDGED"}

\* A step publishes one packet, applies some at the store, or changes neither what is
\* published nor what is applied.
LEMMA StepKinds ==
    ASSUME IInv, Next
    PROVE  \/ /\ \E p \in Packets \ Published : Published' = Published \cup {p}
              /\ Applied' = Applied /\ Confirmed' = Confirmed
           \/ Published' = Published /\ Applied \subseteq Applied' /\ Confirmed' = Confirmed
           \/ Published' = Published /\ Applied' = Applied
<1> DEFINE publishes == /\ \E p \in Packets \ Published : Published' = Published \cup {p}
                        /\ Applied' = Applied /\ Confirmed' = Confirmed
           applies   == Published' = Published /\ Applied \subseteq Applied' /\ Confirmed' = Confirmed
           confirms  == Published' = Published /\ Applied' = Applied
<1>1. CASE StartCycle
  <2>1. UNCHANGED queue /\ Applied \subseteq Applied'
    BY <1>1 DEF StartCycle, hqVars, Applied
  <2>2. QED
    BY <2>1 DEF Published, Confirmed
<1>2. CASE ApplyPage
  <2>1. UNCHANGED queue /\ Applied \subseteq Applied'
    BY <1>2 DEF ApplyPage, NotApplied, hqVars, Applied
  <2>2. QED
    BY <2>1 DEF Published, Confirmed
<1>3. CASE HqPull
  <2>1. PICK forced \in BOOLEAN :
          queue' = [p \in Packets |-> IF p \in Exhausted THEN "DEAD_LETTER"
                                     ELSE IF p \in Served(forced) THEN "IN_FLIGHT" ELSE queue[p]]
    BY <1>3 DEF HqPull
  <2>2. Served(forced) \subseteq Published /\ Exhausted \subseteq Published
    BY DEF Served, FirstOf, Pending, DueInFlight, Exhausted, Published
  <2>3. confirms
    BY <1>3, <2>1, <2>2 DEF HqPull, storeVars, Published, Applied
  <2>4. QED
    BY <2>3
<1>4. CASE HqPush
  <2>1. HandlePush(report, acks) /\ UNCHANGED inbox
    BY <1>4 DEF HqPush, storeVars
  <2>2. report \in SUBSET Published /\ acks \in SUBSET Applied
    BY DEF IInv, OnlyPublished, AcksAreTrue
  <2>3. QED
    BY <2>1, <2>2, HandlePushEffect DEF Applied
<1>5. CASE HqLatePush
  <2>1. PICK push \in late : HandlePush(push.failed, push.ids)
    BY <1>5 DEF HqLatePush
  <2>2. push.failed \in SUBSET Published /\ push.ids \in SUBSET Applied
    BY <2>1 DEF IInv, OnlyPublished, AcksAreTrue
  <2>3. QED
    BY <1>5, <2>1, <2>2, HandlePushEffect DEF HqLatePush, storeVars, Applied
<1>6. CASE SendPush \/ ReceiveAnswer \/ CycleFails
  BY <1>6 DEF SendPush, ReceiveAnswer, CycleFails, hqVars, storeVars, Published, Applied
<1>7. ASSUME NEW p \in Packets, PacketStep(p) PROVE publishes \/ confirms
  <2>1. CASE Publish(p)
    <3>1. p \notin Published /\ queue' = [queue EXCEPT ![p] = "PENDING"] /\ UNCHANGED inbox
      BY <2>1 DEF Publish, storeVars, Published
    <3>2. Published' = Published \cup {p} /\ Confirmed' = Confirmed
      BY <3>1 DEF Published, Confirmed, IInv, TypeOK
    <3>3. QED
      BY <3>1, <3>2 DEF Applied
  <2>2. CASE RetryElapses(p) \/ DependencyArrives(p)
    BY <2>2 DEF RetryElapses, DependencyArrives, hqVars, storeVars, Published, Applied
  <2>3. QED
    BY <1>7, <2>1, <2>2 DEF PacketStep
<1>8. ASSUME NEW S \in SUBSET Packets, Replay(S) PROVE confirms
  BY <1>8 DEF Replay, storeVars, Published, Applied
<1>9. CASE Requeue
  BY <1>9 DEF Requeue, hqVars, Published, Applied
<1>10. QED
  BY <1>1, <1>2, <1>3, <1>4, <1>5, <1>6, <1>7, <1>8, <1>9 DEF Next, Cycle

\* Each kind of step is a step of the abstract specification.
LEMMA StepRefines == IInv /\ IInv' /\ [Next]_vars => [Promise!Next]_(Promise!vars)
<1> SUFFICES ASSUME IInv, IInv', [Next]_vars
             PROVE  Promise!Next \/ UNCHANGED Promise!vars
  OBVIOUS
<1>0. /\ Confirmed' \subseteq Applied' /\ Applied' \subseteq Published'
      /\ Confirmed \subseteq Applied
  BY DEF IInv, AcksAreTrue, OnlyPublished, Rows, Applied, Confirmed
<1>1. CASE UNCHANGED vars
  BY <1>1 DEF vars, hqVars, storeVars, Promise!vars
<1>2. CASE /\ \E p \in Packets \ Published : Published' = Published \cup {p}
           /\ Applied' = Applied /\ Confirmed' = Confirmed
  <2>1. PICK p \in Packets \ Published : Published' = Published \cup {p}
    BY <1>2
  <2>2. Promise!Record(p)
    BY <1>2, <2>1 DEF Promise!Record, Published, Applied, Confirmed
  <2>3. QED
    BY <2>2 DEF Promise!Next
<1>3. CASE Published' = Published /\ Applied \subseteq Applied' /\ Confirmed' = Confirmed
  <2>1. Applied' \ Applied \in SUBSET (Published \ Applied)
    BY <1>0, <1>3
  <2>2. Applied' = Applied \cup (Applied' \ Applied)
    BY <1>3
  <2>3. QED
    BY <1>3, <2>1, <2>2 DEF Promise!Next, Promise!Project, Published, Applied, Confirmed
<1>4. CASE Published' = Published /\ Applied' = Applied
  <2>1. Confirmed' \in SUBSET Applied
    BY <1>0, <1>4
  <2>2. QED
    BY <1>4, <2>1 DEF Promise!Next, Promise!Report, Published, Applied, Confirmed
<1>5. QED
  BY <1>1, <1>2, <1>3, <1>4, StepKinds

\* Downstream delivery keeps the promise: the store applies only published packets, each
\* once, and HQ counts as acknowledged only applied ones.
THEOREM DeliveryImplementsPromise == Spec => ImplementsPromise
<1>1. Init => Promise!Init
  BY DEF Init, Promise!Init
<1>2. QED
  BY <1>1, StepRefines, InductiveInvariant, PTL DEF Spec, ImplementsPromise, Promise!Spec

-----------------------------------------------------------------------------
(* Pages                                                                   *)

\* The page takes the first n packets of S.
LEMMA FirstOfSelection ==
    ASSUME NEW S \in SUBSET Packets, NEW n \in Nat
    PROVE  /\ IsFiniteSet(FirstOf(S, n)) /\ Cardinality(FirstOf(S, n)) \in 0 .. n
           /\ FirstOf(S, n) # S => Cardinality(FirstOf(S, n)) = n
           /\ \A p \in FirstOf(S, n), q \in S \ FirstOf(S, n) : p < q
<1> DEFINE R == [p \in Packets |-> p]
<1>1. FirstOf(S, n) = Lowest(S, R, n)
  <2>1. \A p \in S : {q \in S : q < p} = Below(S, R, p)
    BY DEF Below
  <2>2. QED
    BY <2>1 DEF FirstOf, Lowest
<1>2. IsFiniteSet(S) /\ \A p \in S : R[p] = p /\ R[p] \in Nat
  BY PacketAssumption, FS_Subset
<1> HIDE DEF R
<1>3. \A p, q \in S : R[p] = R[q] => p = q
  BY <1>2
<1>4. /\ IsFiniteSet(FirstOf(S, n)) /\ Cardinality(FirstOf(S, n)) \in 0 .. n
      /\ FirstOf(S, n) # S => Cardinality(FirstOf(S, n)) = n
      /\ \A p \in FirstOf(S, n), q \in S \ FirstOf(S, n) : R[p] < R[q]
  BY <1>1, <1>2, <1>3, LowestSelection
<1>5. FirstOf(S, n) \subseteq S
  BY DEF FirstOf
<1>6. QED
  BY <1>2, <1>4, <1>5

\* A pull response carries at most the limit, and a packet that was never handed out waits
\* only behind a page full of earlier ones: redeliveries do not crowd out new packets.
LEMMA ServedSelection ==
    ASSUME NEW forced \in BOOLEAN
    PROVE  /\ Cardinality(Served(forced)) <= PageLimit
           /\ \A p \in Pending \ Served(forced) :
                Cardinality({q \in Served(forced) \cap Pending : q < p}) = PageLimit
<1> DEFINE new == FirstOf(Pending, PageLimit)
           room == PageLimit - Cardinality(new)
           again == FirstOf(DueInFlight(forced), room)
<1>0. Pending \in SUBSET Packets /\ DueInFlight(forced) \in SUBSET Packets /\ PageLimit \in Nat
  BY LimitsAssumption DEF Pending, DueInFlight
<1>1. /\ IsFiniteSet(new) /\ Cardinality(new) \in 0 .. PageLimit
      /\ new # Pending => Cardinality(new) = PageLimit
      /\ \A p \in new, q \in Pending \ new : p < q
  BY <1>0, FirstOfSelection
<1>2. room \in Nat
  BY <1>0, <1>1
<1>3. IsFiniteSet(again) /\ Cardinality(again) \in 0 .. room
  BY <1>0, <1>2, FirstOfSelection
<1>4. new \subseteq Pending /\ again \cap Pending = {}
  BY DEF FirstOf, DueInFlight, Pending
<1>5. Served(forced) = new \cup again /\ Served(forced) \cap Pending = new
  BY <1>4 DEF Served
<1>6. Cardinality(Served(forced)) <= PageLimit
  <2>1. Cardinality(new \cup again) =
          Cardinality(new) + Cardinality(again) - Cardinality(new \cap again)
    BY <1>1, <1>3, FS_Union
  <2>2. Cardinality(new \cap again) \in Nat
    BY <1>1, FS_Intersection, FS_CardinalityType
  <2>3. QED
    BY <1>0, <1>1, <1>3, <1>5, <2>1, <2>2
<1>7. ASSUME NEW p \in Pending \ Served(forced)
      PROVE  Cardinality({q \in Served(forced) \cap Pending : q < p}) = PageLimit
  <2>1. {q \in Served(forced) \cap Pending : q < p} = new
    BY <1>1, <1>5
  <2>2. QED
    BY <1>1, <1>5, <2>1
<1>8. QED
  BY <1>6, <1>7

\* No pull response on its way to the store holds more than the page limit.
THEOREM PagesAreBounded == Spec => [](Cardinality(page) <= PageLimit)
<1> DEFINE Bounded == Cardinality(page) <= PageLimit
<1>1. Init => Bounded
  BY FS_EmptySet, LimitsAssumption DEF Init
<1>2. Bounded /\ [Next]_vars => Bounded'
  <2> SUFFICES ASSUME Bounded, [Next]_vars PROVE Bounded'
    OBVIOUS
  <2>1. CASE HqPull
    BY <2>1, ServedSelection DEF HqPull
  <2>2. CASE page' = page \/ page' = {}
    BY <2>2, FS_EmptySet, LimitsAssumption
  <2>3. QED
    BY <2>1, <2>2 DEF Next, Cycle, PacketStep, StartCycle, ApplyPage, SendPush, HqPush,
       ReceiveAnswer, CycleFails, Publish, RetryElapses, DependencyArrives, Replay, HqLatePush,
       Requeue, cycleVars, vars
<1>3. QED
  BY <1>1, <1>2, PTL DEF Spec

\* A new packet is passed over only by a page full of earlier new ones.
NewPacketsFirst ==
    [][HqPull => \A p \in Pending \ page' :
         Cardinality({q \in page' \cap Pending : q < p}) = PageLimit]_vars

THEOREM NewPacketsAreServedFirst == Spec => NewPacketsFirst
<1>1. [HqPull => \A p \in Pending \ page' :
         Cardinality({q \in page' \cap Pending : q < p}) = PageLimit]_vars
  BY ServedSelection DEF HqPull
<1>2. QED
  BY <1>1, PTL DEF NewPacketsFirst

=============================================================================
