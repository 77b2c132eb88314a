------------------------- MODULE UpstreamSyncProofs -------------------------
(***************************************************************************)
(* Theorems about UpstreamSync, for every set of events and cycle          *)
(* processes and every bound.                                              *)
(***************************************************************************)
EXTENDS UpstreamSync, RankedSelection, FiniteSetTheorems, TLAPS

USE DEF RowStatus, Verdicts, Kinds, Phases, Active

-----------------------------------------------------------------------------
(* The inductive invariant                                                 *)

\* The history counter and HQ's row agree.
AppliedMatchesInbound ==
    \A e \in Events : applied[e] = IF inbound[e] = "ACKNOWLEDGED" THEN 1 ELSE 0

\* HQ never stores an event it refuses at the door.
ForeignNeverStored == \A e \in Foreign : inbound[e] = "NONE"

\* A response that says accepted speaks of an acknowledged row, and stays true.
AnswersAreTrue ==
    \A w \in Workers : \A e \in Events :
        answer[w][e] = "accepted" => inbound[e] = "ACKNOWLEDGED"

AcksAreTrue ==
    \A e \in Events : status[e] = "ACKNOWLEDGED" => inbound[e] = "ACKNOWLEDGED"

\* Whatever is under way or known to HQ was recorded at the store first.
OnlyRecorded ==
    /\ \A w \in Workers : batch[w] \subseteq Recorded
    /\ \A b \in late : b \subseteq Recorded
    /\ \A e \in Events : inbound[e] # "NONE" => e \in Recorded

IInv == /\ TypeOK
        /\ AppliedMatchesInbound
        /\ ForeignNeverStored
        /\ AnswersAreTrue
        /\ AcksAreTrue
        /\ OnlyRecorded

-----------------------------------------------------------------------------
(* Type correctness                                                        *)

\* An empty queue, idle processes and any verdicts are well typed.
LEMMA InitType == Init => TypeOK
  BY BoundsAssumption DEF Init, TypeOK, NoAnswer

\* One push transaction keeps HQ's rows well typed.
LEMMA ProjectType ==
    ASSUME TypeOK, NEW b \in SUBSET Events, Project(b)
    PROVE  /\ inbound' \in [Events -> {"NONE", "FAILED", "DEAD_LETTER", "ACKNOWLEDGED"}]
           /\ applied' \in [Events -> Nat]
  BY DEF TypeOK, Project, Outcome, CountProjections

\* The request of a stopped cycle is one of its batches, so late stays a set of batches.
LEMMA AbandonType ==
    ASSUME TypeOK, NEW w \in Workers, Abandon(w)
    PROVE  late' \in SUBSET SUBSET Events
  BY DEF TypeOK, Abandon

\* A cycle that ends leaves the variables of its process well typed.
LEMMA EndCycleType ==
    ASSUME TypeOK, NEW w \in Workers, EndCycle(w)
    PROVE  /\ phase' \in [Workers -> Phases]
           /\ batch' \in [Workers -> SUBSET Events]
           /\ answer' \in [Workers -> [Events -> Verdicts]]
  BY DEF TypeOK, EndCycle, NoAnswer

\* Writing the outcome of a push on rows of the batch keeps the queue's columns well typed.
LEMMA MarkType ==
    ASSUME TypeOK, NEW w \in Workers, NEW accepted, accepted \subseteq Found(w),
           NEW failed, failed \subseteq Found(w),
           NEW why, \A e \in failed : why[e] \in Kinds,
           Mark(accepted, failed, why)
    PROVE  /\ status' \in [Events -> RowStatus]
           /\ waiting' \in SUBSET Events
           /\ kind' \in [Events -> Kinds]
  BY DEF TypeOK, Mark, MarkRows, Found

\* No step of the store, of a cycle process or of HQ leaves the types.
LEMMA NextType == TypeOK /\ [Next]_vars => TypeOK'
<1> SUFFICES ASSUME TypeOK, [Next]_vars PROVE TypeOK'
  OBVIOUS
<1>1. CASE UNCHANGED vars
  BY <1>1 DEF TypeOK, vars, storeVars, cycleVars, hqVars
<1>2. ASSUME NEW w \in Workers, Cycle(w) PROVE TypeOK'
  <2>1. CASE StartCycle(w)
    BY <2>1 DEF TypeOK, StartCycle, FirstRows, Eligible, hqVars
  <2>2. CASE PullFailed(w)
    BY <2>2, EndCycleType DEF TypeOK, PullFailed, storeVars, hqVars
  <2>3. CASE StartPush(w)
    BY <2>3 DEF TypeOK, StartPush, hqVars
  <2>4. CASE HqPush(w)
    <3>1. batch[w] \in SUBSET Events
      BY DEF TypeOK
    <3>2. answer' \in [Workers -> [Events -> Verdicts]]
      BY <2>4 DEF TypeOK, HqPush, Reply, NoAnswer
    <3>3. QED
      BY <2>4, <3>1, <3>2, ProjectType DEF TypeOK, HqPush, storeVars
  <2>5. CASE PushFailed(w)
    <3>1. EndCycle(w) /\ Abandon(w) /\ Mark({}, Found(w), [e \in Events |-> "transport"])
      BY <2>5 DEF PushFailed
    <3>2. \A e \in Found(w) : [f \in Events |-> "transport"][e] \in Kinds
      BY DEF TypeOK, Found
    <3>3. /\ status' \in [Events -> RowStatus]
          /\ waiting' \in SUBSET Events
          /\ kind' \in [Events -> Kinds]
      BY <3>1, <3>2, MarkType
    <3>4. QED
      BY <2>5, <3>1, <3>3, EndCycleType, AbandonType DEF TypeOK, PushFailed, hqVars
  <2>6. CASE ReceiveResponse(w)
    <3> DEFINE accepted == {e \in Found(w) : answer[w][e] = "accepted"}
    <3>1. EndCycle(w) /\ Mark(accepted, Found(w) \ accepted, answer[w])
      BY <2>6 DEF ReceiveResponse
    <3>2. \A e \in Found(w) \ accepted : answer[w][e] \in Kinds
      BY DEF TypeOK, Found
    <3>3. accepted \subseteq Found(w)
      OBVIOUS
    <3> HIDE DEF accepted
    <3>4. /\ status' \in [Events -> RowStatus]
          /\ waiting' \in SUBSET Events
          /\ kind' \in [Events -> Kinds]
      BY <3>1, <3>2, <3>3, MarkType
    <3>5. QED
      BY <2>6, <3>1, <3>4, EndCycleType DEF TypeOK, ReceiveResponse, hqVars
  <2>7. CASE Crash(w)
    BY <2>7, EndCycleType, AbandonType DEF TypeOK, Crash, storeVars, hqVars
  <2>8. QED
    BY <1>2, <2>1, <2>2, <2>3, <2>4, <2>5, <2>6, <2>7 DEF Cycle
<1>3. ASSUME NEW e \in Events, EventStep(e) PROVE TypeOK'
  <2>1. CASE Record(e)
    BY <2>1 DEF TypeOK, Record, cycleVars, hqVars
  <2>2. CASE RetryElapses(e)
    BY <2>2 DEF TypeOK, RetryElapses, cycleVars, hqVars
  <2>3. CASE HqReprocess(e)
    BY <2>3, ProjectType DEF TypeOK, HqReprocess, storeVars, cycleVars
  <2>4. CASE HqCorrects(e)
    BY <2>4 DEF TypeOK, HqCorrects, storeVars, cycleVars, hqVars
  <2>5. QED
    BY <1>3, <2>1, <2>2, <2>3, <2>4 DEF EventStep
<1>4. CASE HqLatePush
  BY <1>4, ProjectType DEF TypeOK, HqLatePush, storeVars, cycleVars
<1>5. CASE Requeue
  BY <1>5 DEF TypeOK, Requeue, Conflicting, cycleVars, hqVars
<1>6. QED
  BY <1>1, <1>2, <1>3, <1>4, <1>5 DEF Next

\* Every variable keeps the type its column, enum or map allows.
THEOREM TypeCorrect == Spec => []TypeOK
<1>1. Init => TypeOK
  BY InitType
<1>2. TypeOK /\ [Next]_vars => TypeOK'
  BY NextType
<1>3. QED
  BY <1>1, <1>2, PTL DEF Spec

-----------------------------------------------------------------------------
(* Safety                                                                  *)

\* A push transaction keeps acknowledged rows, counts each projection once, stores
\* nothing foreign and nothing that was not in the request.
LEMMA ProjectEffect ==
    ASSUME TypeOK, AppliedMatchesInbound, ForeignNeverStored,
           NEW b \in SUBSET Events, Project(b)
    PROVE  /\ \A e \in Events : inbound[e] = "ACKNOWLEDGED" => inbound'[e] = "ACKNOWLEDGED"
           /\ AppliedMatchesInbound'
           /\ ForeignNeverStored'
           /\ \A e \in Events : inbound'[e] # "NONE" => inbound[e] # "NONE" \/ e \in b
  BY EventsAssumption DEF TypeOK, AppliedMatchesInbound, ForeignNeverStored, Project, Outcome, CountProjections

\* An event is acknowledged by the transaction that answers accepted for it.
LEMMA ReplyIsTrue ==
    ASSUME TypeOK, NEW b \in SUBSET Events, Project(b), NEW e \in b, Reply(e) = "accepted"
    PROVE  inbound'[e] = "ACKNOWLEDGED"
  BY DEF TypeOK, Project, Reply, Outcome, CountProjections

\* The inductive invariant holds before anything is recorded.
LEMMA InitIInv == Init => IInv
  BY InitType, EventsAssumption
     DEF IInv, Init, AppliedMatchesInbound, ForeignNeverStored, AnswersAreTrue,
         AcksAreTrue, OnlyRecorded, NoAnswer

\* Every step keeps the inductive invariant.
LEMMA NextIInv == IInv /\ [Next]_vars => IInv'
<1> SUFFICES ASSUME IInv, [Next]_vars PROVE IInv'
  OBVIOUS
<1> USE DEF IInv
<1>0. TypeOK'
  BY NextType
<1>1. CASE UNCHANGED vars
  BY <1>1, <1>0 DEF vars, storeVars, cycleVars, hqVars, AppliedMatchesInbound,
     ForeignNeverStored, AnswersAreTrue, AcksAreTrue, OnlyRecorded, Recorded
<1>2. ASSUME NEW w \in Workers, Cycle(w) PROVE IInv'
  <2>1. CASE StartCycle(w)
    <3>1. UNCHANGED <<answer, late, inbound, applied>>
      BY <2>1 DEF StartCycle, hqVars
    <3>2. AcksAreTrue' /\ Recorded \subseteq Recorded'
      BY <2>1, <3>1 DEF StartCycle, TypeOK, AcksAreTrue, Exhausted, Recorded
    <3>3. \A v \in Workers : batch'[v] \subseteq Recorded'
      BY <2>1, <3>2 DEF StartCycle, TypeOK, OnlyRecorded, FirstRows, Eligible, Recorded
    <3>4. QED
      BY <1>0, <3>1, <3>2, <3>3
      DEF AppliedMatchesInbound, ForeignNeverStored, AnswersAreTrue, OnlyRecorded
  <2>2. CASE PullFailed(w)
    BY <2>2, <1>0 DEF PullFailed, EndCycle, NoAnswer, storeVars, hqVars, TypeOK,
       AppliedMatchesInbound, ForeignNeverStored, AnswersAreTrue, AcksAreTrue,
       OnlyRecorded, Recorded
  <2>3. CASE StartPush(w)
    <3>1. UNCHANGED <<batch, answer, late, inbound, applied>>
      BY <2>3 DEF StartPush, hqVars
    <3>2. AcksAreTrue' /\ Recorded \subseteq Recorded'
      BY <2>3, <3>1 DEF StartPush, TypeOK, AcksAreTrue, Recorded
    <3>3. QED
      BY <1>0, <3>1, <3>2
      DEF AppliedMatchesInbound, ForeignNeverStored, AnswersAreTrue, OnlyRecorded
  <2>4. CASE HqPush(w)
    <3>1. /\ UNCHANGED <<batch, late, status>>
          /\ Project(batch[w])
          /\ batch[w] \in SUBSET Events
          /\ batch[w] \subseteq Recorded
      BY <2>4 DEF HqPush, storeVars, TypeOK, OnlyRecorded
    <3>2. AnswersAreTrue'
      <4>1. SUFFICES ASSUME NEW v \in Workers, NEW e \in Events, answer'[v][e] = "accepted"
                     PROVE  inbound'[e] = "ACKNOWLEDGED"
        BY DEF AnswersAreTrue
      <4>2. CASE v = w
        <5>1. e \in batch[w] /\ Reply(e) = "accepted"
          BY <2>4, <4>1, <4>2 DEF HqPush, TypeOK, NoAnswer
        <5>2. QED
          BY <3>1, <5>1, ReplyIsTrue
      <4>3. CASE v # w
        <5>1. inbound[e] = "ACKNOWLEDGED"
          BY <2>4, <4>1, <4>3 DEF HqPush, TypeOK, AnswersAreTrue
        <5>2. QED
          BY <3>1, <5>1, ProjectEffect
      <4>4. QED
        BY <4>2, <4>3
    <3>3. QED
      BY <1>0, <3>1, <3>2, ProjectEffect DEF AcksAreTrue, OnlyRecorded, Recorded
  <2>5. CASE PushFailed(w)
    <3>1. /\ UNCHANGED <<inbound, applied>>
          /\ EndCycle(w) /\ Abandon(w)
          /\ Mark({}, Found(w), [e \in Events |-> "transport"])
      BY <2>5 DEF PushFailed, hqVars
    <3>2. AcksAreTrue' /\ Recorded \subseteq Recorded'
      BY <3>1 DEF Mark, MarkRows, TypeOK, AcksAreTrue, Recorded
    <3>3. \A b \in late' : b \subseteq Recorded'
      BY <3>1, <3>2 DEF Abandon, OnlyRecorded
    <3>4. \A v \in Workers : batch'[v] \subseteq Recorded'
      BY <3>1, <3>2 DEF EndCycle, TypeOK, OnlyRecorded
    <3>5. QED
      BY <1>0, <3>1, <3>2, <3>3, <3>4 DEF EndCycle, NoAnswer, TypeOK,
         AppliedMatchesInbound, ForeignNeverStored, AnswersAreTrue, OnlyRecorded
  <2>6. CASE ReceiveResponse(w)
    <3> DEFINE accepted == {e \in Found(w) : answer[w][e] = "accepted"}
    <3>1. /\ UNCHANGED <<inbound, applied, late>>
          /\ EndCycle(w)
          /\ Mark(accepted, Found(w) \ accepted, answer[w])
      BY <2>6 DEF ReceiveResponse, hqVars
    <3>2. \A e \in accepted : e \in Events => inbound[e] = "ACKNOWLEDGED"
      BY DEF AnswersAreTrue
    <3> HIDE DEF accepted
    <3>3. AcksAreTrue'
      <4>1. SUFFICES ASSUME NEW e \in Events, status'[e] = "ACKNOWLEDGED"
                     PROVE  inbound[e] = "ACKNOWLEDGED"
        BY <3>1 DEF AcksAreTrue
      <4>2. e \in accepted \/ status[e] = "ACKNOWLEDGED"
        BY <3>1, <4>1 DEF Mark, MarkRows, TypeOK
      <4>3. QED
        BY <4>2, <3>2 DEF AcksAreTrue
    <3>4. Recorded \subseteq Recorded'
      BY <3>1 DEF Mark, MarkRows, TypeOK, Recorded
    <3>5. QED
      BY <1>0, <3>1, <3>3, <3>4 DEF EndCycle, NoAnswer, TypeOK,
         AppliedMatchesInbound, ForeignNeverStored, AnswersAreTrue, OnlyRecorded
  <2>7. CASE Crash(w)
    BY <2>7, <1>0 DEF Crash, EndCycle, Abandon, NoAnswer, storeVars, hqVars, TypeOK,
       AppliedMatchesInbound, ForeignNeverStored, AnswersAreTrue, AcksAreTrue,
       OnlyRecorded, Recorded
  <2>8. QED
    BY <1>2, <2>1, <2>2, <2>3, <2>4, <2>5, <2>6, <2>7 DEF Cycle
<1>3. ASSUME NEW e \in Events, EventStep(e) PROVE IInv'
  <2>1. CASE Record(e)
    BY <2>1, <1>0 DEF Record, cycleVars, hqVars, TypeOK, AppliedMatchesInbound,
       ForeignNeverStored, AnswersAreTrue, AcksAreTrue, OnlyRecorded, Recorded
  <2>2. CASE RetryElapses(e)
    BY <2>2, <1>0 DEF RetryElapses, cycleVars, hqVars, AppliedMatchesInbound,
       ForeignNeverStored, AnswersAreTrue, AcksAreTrue, OnlyRecorded, Recorded
  <2>3. CASE HqReprocess(e)
    <3>1. /\ UNCHANGED <<status, batch, answer, late>>
          /\ inbound[e] # "NONE"
          /\ Project({e})
      BY <2>3 DEF HqReprocess, storeVars, cycleVars
    <3>2. QED
      BY <1>0, <3>1, ProjectEffect
      DEF AnswersAreTrue, AcksAreTrue, OnlyRecorded, Recorded
  <2>4. CASE HqCorrects(e)
    BY <2>4, <1>0 DEF HqCorrects, storeVars, cycleVars, hqVars, AppliedMatchesInbound,
       ForeignNeverStored, AnswersAreTrue, AcksAreTrue, OnlyRecorded, Recorded
  <2>5. QED
    BY <1>3, <2>1, <2>2, <2>3, <2>4 DEF EventStep
<1>4. CASE HqLatePush
  <2>1. PICK b \in late : Project(b) /\ late' = late \ {b}
    BY <1>4 DEF HqLatePush
  <2>2. /\ UNCHANGED <<status, batch, answer>>
        /\ b \in SUBSET Events
        /\ b \subseteq Recorded
    BY <1>4, <2>1 DEF HqLatePush, storeVars, cycleVars, TypeOK, OnlyRecorded
  <2>3. QED
    BY <1>0, <2>1, <2>2, ProjectEffect
    DEF AnswersAreTrue, AcksAreTrue, OnlyRecorded, Recorded
<1>5. CASE Requeue
  <2>1. UNCHANGED <<batch, answer, late, inbound, applied>>
    BY <1>5 DEF Requeue, cycleVars, hqVars
  <2>2. AcksAreTrue' /\ Recorded \subseteq Recorded'
    BY <1>5, <2>1 DEF Requeue, TypeOK, AcksAreTrue, Recorded
  <2>3. QED
    BY <1>0, <2>1, <2>2
    DEF AppliedMatchesInbound, ForeignNeverStored, AnswersAreTrue, OnlyRecorded
<1>6. QED
  BY <1>1, <1>2, <1>3, <1>4, <1>5 DEF Next

\* In every reachable state the counter of projections agrees with HQ's row, responses
\* and store acknowledgements are true, and HQ knows only events the store recorded.
THEOREM InductiveInvariant == Spec => []IInv
<1>1. Init => IInv
  BY InitIInv
<1>2. IInv /\ [Next]_vars => IInv'
  BY NextIInv
<1>3. QED
  BY <1>1, <1>2, PTL DEF Spec

\* The store calls a row acknowledged only when HQ has projected it, exactly once.
THEOREM ConfirmedEventsAreProjected == Spec => []ConfirmedIsProjected
<1>1. IInv => ConfirmedIsProjected
  BY DEF IInv, AppliedMatchesInbound, ForeignNeverStored, AcksAreTrue, ConfirmedIsProjected
<1>2. QED
  BY <1>1, InductiveInvariant, PTL

\* No number of resends, late requests and reprocessings projects an event twice.
THEOREM NothingIsProjectedTwice == Spec => []ProjectedAtMostOnce
<1>1. IInv => ProjectedAtMostOnce
  BY DEF IInv, AppliedMatchesInbound, ProjectedAtMostOnce
<1>2. QED
  BY <1>1, InductiveInvariant, PTL

-----------------------------------------------------------------------------
(* Steps of HQ and steps of the store                                      *)

HqStep == \/ \E w \in Workers : HqPush(w)
          \/ HqLatePush
          \/ \E e \in Events : HqReprocess(e)

\* Every step records an event, is a transaction at HQ, or leaves the set of recorded
\* events and HQ's rows as they are.
LEMMA StepKinds ==
    ASSUME IInv, Next
    PROVE  \/ \E e \in Events : Record(e)
           \/ HqStep
           \/ Recorded' = Recorded /\ UNCHANGED <<inbound, applied>>
<1> USE DEF IInv
<1>1. ASSUME NEW w \in Workers, Cycle(w), ~HqPush(w)
      PROVE  Recorded' = Recorded /\ UNCHANGED <<inbound, applied>>
  <2>1. CASE StartCycle(w)
    BY <2>1 DEF StartCycle, TypeOK, Exhausted, Recorded, hqVars
  <2>2. CASE PullFailed(w)
    BY <2>2 DEF PullFailed, Recorded, storeVars, hqVars
  <2>3. CASE StartPush(w)
    BY <2>3 DEF StartPush, TypeOK, Recorded, hqVars
  <2>4. CASE PushFailed(w)
    <3>1. /\ UNCHANGED <<inbound, applied>>
          /\ Mark({}, Found(w), [e \in Events |-> "transport"])
      BY <2>4 DEF PushFailed, hqVars
    <3>2. Found(w) \subseteq Recorded
      BY DEF Found, OnlyRecorded
    <3>3. QED
      BY <3>1, <3>2 DEF Mark, MarkRows, TypeOK, Recorded
  <2>5. CASE ReceiveResponse(w)
    <3> DEFINE accepted == {e \in Found(w) : answer[w][e] = "accepted"}
    <3>1. /\ UNCHANGED <<inbound, applied>>
          /\ Mark(accepted, Found(w) \ accepted, answer[w])
      BY <2>5 DEF ReceiveResponse, hqVars
    <3>2. accepted \subseteq Recorded /\ Found(w) \ accepted \subseteq Recorded
      BY DEF Found, OnlyRecorded
    <3> HIDE DEF accepted
    <3>3. QED
      BY <3>1, <3>2 DEF Mark, MarkRows, TypeOK, Recorded
  <2>6. CASE Crash(w)
    BY <2>6 DEF Crash, Recorded, storeVars, hqVars
  <2>7. QED
    BY <1>1, <2>1, <2>2, <2>3, <2>4, <2>5, <2>6 DEF Cycle
<1>2. ASSUME NEW e \in Events, RetryElapses(e) \/ HqCorrects(e)
      PROVE  Recorded' = Recorded /\ UNCHANGED <<inbound, applied>>
  BY <1>2 DEF RetryElapses, HqCorrects, Recorded, storeVars, hqVars
<1>3. CASE Requeue
  BY <1>3 DEF Requeue, TypeOK, Recorded, hqVars
<1>4. QED
  BY <1>1, <1>2, <1>3 DEF Next, EventStep, HqStep

\* A transaction at HQ changes nothing at the store and keeps acknowledged rows.
LEMMA HqStepEffect ==
    ASSUME IInv, HqStep
    PROVE  /\ UNCHANGED status
           /\ \A e \in Events : inbound[e] = "ACKNOWLEDGED" => inbound'[e] = "ACKNOWLEDGED"
<1> USE DEF IInv
<1>1. ASSUME NEW w \in Workers, HqPush(w)
      PROVE  UNCHANGED status /\ \E b \in SUBSET Events : Project(b)
  BY <1>1 DEF HqPush, storeVars, TypeOK
<1>2. ASSUME HqLatePush
      PROVE  UNCHANGED status /\ \E b \in SUBSET Events : Project(b)
  BY <1>2 DEF HqLatePush, storeVars, TypeOK
<1>3. ASSUME NEW e \in Events, HqReprocess(e)
      PROVE  UNCHANGED status /\ \E b \in SUBSET Events : Project(b)
  BY <1>3 DEF HqReprocess, storeVars
<1>4. QED
  BY <1>1, <1>2, <1>3, ProjectEffect DEF HqStep

\* An event HQ has acknowledged stays acknowledged at HQ.
THEOREM HqAcksAreFinal == Spec => HqAckIsFinal
<1> DEFINE Final == \A e \in Events :
                        inbound[e] = "ACKNOWLEDGED" => inbound'[e] = "ACKNOWLEDGED"
<1>1. IInv /\ [Next]_vars => Final \/ UNCHANGED vars
  <2> SUFFICES ASSUME IInv, Next PROVE Final
    OBVIOUS
  <2>1. CASE \E e \in Events : Record(e)
    BY <2>1 DEF Record, hqVars
  <2>2. CASE HqStep
    BY <2>2, HqStepEffect
  <2>3. CASE UNCHANGED <<inbound, applied>>
    BY <2>3
  <2>4. QED
    BY <2>1, <2>2, <2>3, StepKinds
<1>2. IInv /\ [Next]_vars => [Final]_vars
  BY <1>1
<1>3. Spec => [][Final]_vars
  BY <1>2, InductiveInvariant, PTL DEF Spec
<1>4. QED
  BY <1>3 DEF HqAckIsFinal

-----------------------------------------------------------------------------
(* Refinement                                                              *)

\* The empty queue is the initial state of the abstract specification.
LEMMA InitRefines == Init => Promise!Init
  BY DEF Init, Promise!Init, Recorded

\* Every step records an event, projects some, confirms some, or is none of the abstract
\* specification's business.
LEMMA StepRefines == IInv /\ IInv' /\ [Next]_vars => [Promise!Next]_(Promise!vars)
<1> SUFFICES ASSUME IInv, IInv', [Next]_vars
             PROVE  Promise!Next \/ UNCHANGED Promise!vars
  OBVIOUS
<1> DEFINE projected == {e \in Events : inbound[e] = "ACKNOWLEDGED"}
           confirmed == {e \in Events : status[e] = "ACKNOWLEDGED"}
<1>1. CASE UNCHANGED vars
  BY <1>1 DEF vars, storeVars, hqVars, Promise!vars, Recorded
<1>2. ASSUME NEW e \in Events, Record(e) PROVE Promise!Next
  <2>1. Recorded' = Recorded \cup {e} /\ e \notin Recorded
    BY <1>2 DEF IInv, TypeOK, Record, Recorded
  <2>2. projected' = projected /\ confirmed' = confirmed
    BY <1>2 DEF IInv, TypeOK, Record, hqVars
  <2>3. QED
    BY <2>1, <2>2 DEF Promise!Next, Promise!Record
<1>3. CASE HqStep
  <2>1. UNCHANGED status
    BY <1>3, HqStepEffect
  <2>2. projected \subseteq projected'
    BY <1>3, HqStepEffect
  <2>3. projected' \subseteq Recorded
    BY <2>1 DEF IInv, OnlyRecorded, Recorded
  <2>4. Recorded' = Recorded /\ confirmed' = confirmed
    BY <2>1 DEF Recorded
  <2>5. projected' \ projected \in SUBSET (Recorded \ projected)
    BY <2>3
  <2>6. projected' = projected \cup (projected' \ projected)
    BY <2>2
  <2>7. QED
    BY <2>4, <2>5, <2>6 DEF Promise!Next, Promise!Project
<1>4. CASE Recorded' = Recorded /\ UNCHANGED <<inbound, applied>>
  <2>1. projected' = projected
    BY <1>4
  <2>2. confirmed' \subseteq projected
    BY <1>4 DEF IInv, AcksAreTrue
  <2>3. QED
    BY <1>4, <2>1, <2>2 DEF Promise!Next, Promise!Report
<1>5. QED
  BY <1>1, <1>2, <1>3, <1>4, StepKinds

\* The protocol keeps the promise: HQ projects only recorded events, each once, and the
\* store confirms only projected ones.
THEOREM ProtocolImplementsPromise == Spec => ImplementsPromise
<1>1. Init => Promise!Init
  BY InitRefines
<1>2. IInv /\ IInv' /\ [Next]_vars => [Promise!Next]_(Promise!vars)
  BY StepRefines
<1>3. QED
  BY <1>1, <1>2, InductiveInvariant, PTL DEF Spec, ImplementsPromise, Promise!Spec

-----------------------------------------------------------------------------
(* Dead letters and attempts                                               *)

\* A row that just became a dead letter through Mark was rejected for good or is out of
\* attempts, and the rows Mark leaves alone keep their cause.
LEMMA MarkKeepsCause ==
    ASSUME TypeOK, DeadLetterHasCause, UNCHANGED attempts,
           NEW accepted, NEW failed, NEW why, Mark(accepted, failed, why)
    PROVE  DeadLetterHasCause'
  BY DEF TypeOK, DeadLetterHasCause, Mark, MarkRows

\* Every step keeps a cause on each dead letter.
LEMMA NextCause == TypeOK /\ DeadLetterHasCause /\ [Next]_vars => DeadLetterHasCause'
<1> SUFFICES ASSUME TypeOK, DeadLetterHasCause, [Next]_vars PROVE DeadLetterHasCause'
  OBVIOUS
<1>1. CASE UNCHANGED <<status, kind, attempts>>
  BY <1>1 DEF DeadLetterHasCause
<1>2. ASSUME NEW w \in Workers, Cycle(w) PROVE DeadLetterHasCause'
  <2>1. CASE StartCycle(w)
    BY <2>1 DEF StartCycle, TypeOK, Exhausted, DeadLetterHasCause
  <2>2. CASE StartPush(w)
    BY <2>2, BoundsAssumption DEF StartPush, TypeOK, DeadLetterHasCause
  <2>3. CASE PushFailed(w)
    BY <2>3, MarkKeepsCause DEF PushFailed
  <2>4. CASE ReceiveResponse(w)
    BY <2>4, MarkKeepsCause DEF ReceiveResponse
  <2>5. CASE PullFailed(w) \/ HqPush(w) \/ Crash(w)
    BY <2>5, <1>1 DEF PullFailed, HqPush, Crash, storeVars
  <2>6. QED
    BY <1>2, <2>1, <2>2, <2>3, <2>4, <2>5 DEF Cycle
<1>3. ASSUME NEW e \in Events, EventStep(e) PROVE DeadLetterHasCause'
  <2>1. CASE Record(e)
    BY <2>1 DEF Record, TypeOK, DeadLetterHasCause
  <2>2. CASE RetryElapses(e) \/ HqReprocess(e) \/ HqCorrects(e)
    BY <2>2, <1>1 DEF RetryElapses, HqReprocess, HqCorrects, storeVars
  <2>3. QED
    BY <1>3, <2>1, <2>2 DEF EventStep
<1>4. CASE HqLatePush
  BY <1>4, <1>1 DEF HqLatePush, storeVars
<1>5. CASE Requeue
  BY <1>5 DEF Requeue, TypeOK, DeadLetterHasCause
<1>6. CASE UNCHANGED vars
  BY <1>6, <1>1 DEF vars, storeVars
<1>7. QED
  BY <1>2, <1>3, <1>4, <1>5, <1>6 DEF Next

\* A dead letter at the store was rejected for good by HQ or has used up its attempts.
THEOREM DeadLettersHaveCause == Spec => []DeadLetterHasCause
<1>1. Init => DeadLetterHasCause
  BY DEF Init, DeadLetterHasCause
<1>2. TypeOK /\ DeadLetterHasCause /\ [Next]_vars => DeadLetterHasCause'
  BY NextCause
<1>3. QED
  BY <1>1, <1>2, TypeCorrect, PTL DEF Spec

\* The cycle processes that have read row e and not yet started their push.
Readers(e) == {w \in Workers : phase[w] = "selected" /\ e \in batch[w]}

\* Past the limit, every further attempt uses up one of the processes that had read the
\* row before: this is what makes AttemptsBounded inductive.
AttemptsInv ==
    \A e \in Events :
        \/ attempts[e] < MaxAttempts
        \/ attempts[e] + Cardinality(Readers(e)) < MaxAttempts + Cardinality(Workers)

\* The processes that have read a row and not yet sent it are a finite number.
LEMMA ReadersFinite ==
    ASSUME NEW e \in Events
    PROVE  /\ IsFiniteSet(Readers(e)) /\ IsFiniteSet(Readers(e)')
           /\ Cardinality(Readers(e)) \in Nat /\ Cardinality(Readers(e)') \in Nat
           /\ Cardinality(Workers) \in Nat
<1>1. Readers(e) \subseteq Workers /\ Readers(e)' \subseteq Workers
  BY DEF Readers
<1>2. QED
  BY <1>1, WorkersAssumption, FS_Subset, FS_CardinalityType

\* The bound on attempts survives when there are fewer such processes and no more attempts.
LEMMA FewerReaders ==
    ASSUME TypeOK, AttemptsInv, NEW e \in Events,
           Readers(e)' \subseteq Readers(e), attempts'[e] = attempts[e]
    PROVE  \/ attempts'[e] < MaxAttempts
           \/ attempts'[e] + Cardinality(Readers(e)') < MaxAttempts + Cardinality(Workers)
<1>1. Cardinality(Readers(e)') <= Cardinality(Readers(e))
  BY ReadersFinite, FS_Subset
<1>2. attempts[e] \in Nat
  BY DEF TypeOK
<1>3. QED
  BY <1>1, <1>2, ReadersFinite, BoundsAssumption DEF AttemptsInv

\* Counting an attempt uses up the process that had read the row.
LEMMA StartPushAttempts ==
    ASSUME TypeOK, AttemptsInv, NEW w \in Workers, StartPush(w)
    PROVE  AttemptsInv'
<1> SUFFICES ASSUME NEW e \in Events
             PROVE  \/ attempts'[e] < MaxAttempts
                    \/ attempts'[e] + Cardinality(Readers(e)') < MaxAttempts + Cardinality(Workers)
  BY DEF AttemptsInv
<1>1. Readers(e)' = Readers(e) \ {w}
  BY DEF StartPush, TypeOK, Readers
<1>2. CASE e \in batch[w] /\ attempts'[e] = attempts[e] + 1
  <2>1. w \in Readers(e)
    BY <1>2 DEF StartPush, Readers
  <2>2. Cardinality(Readers(e)') = Cardinality(Readers(e)) - 1
    BY <1>1, <2>1, ReadersFinite, FS_RemoveElement
  <2>3. Cardinality(Readers(e)) <= Cardinality(Workers)
    BY WorkersAssumption, FS_Subset DEF Readers
  <2>4. attempts[e] \in Nat
    BY DEF TypeOK
  <2>5. QED
    BY <1>2, <2>2, <2>3, <2>4, ReadersFinite, BoundsAssumption DEF AttemptsInv
<1>3. CASE attempts'[e] = attempts[e]
  BY <1>1, <1>3, FewerReaders
<1>4. QED
  BY <1>2, <1>3 DEF StartPush, Found, TypeOK

\* Every step keeps the bound on attempts and pending readers.
LEMMA NextAttempts == TypeOK /\ AttemptsInv /\ [Next]_vars => AttemptsInv'
<1> SUFFICES ASSUME TypeOK, AttemptsInv, [Next]_vars PROVE AttemptsInv'
  OBVIOUS
<1>1. ASSUME UNCHANGED attempts, \A e \in Events : Readers(e)' \subseteq Readers(e)
      PROVE  AttemptsInv'
  BY <1>1, FewerReaders DEF AttemptsInv
<1>2. CASE UNCHANGED <<attempts, phase, batch>>
  BY <1>1, <1>2 DEF Readers
<1>3. ASSUME NEW w \in Workers, Cycle(w) PROVE AttemptsInv'
  <2>1. CASE StartCycle(w)
    <3> SUFFICES ASSUME NEW e \in Events
                 PROVE  \/ attempts'[e] < MaxAttempts
                        \/ attempts'[e] + Cardinality(Readers(e)') < MaxAttempts + Cardinality(Workers)
      BY DEF AttemptsInv
    <3>1. attempts'[e] = attempts[e]
      BY <2>1 DEF StartCycle
    <3>2. CASE attempts[e] < MaxAttempts
      BY <3>1, <3>2
    <3>3. CASE ~(attempts[e] < MaxAttempts)
      <4>1. e \notin batch'[w]
        BY <2>1, <3>3 DEF StartCycle, TypeOK, FirstRows, Eligible
      <4>2. Readers(e)' \subseteq Readers(e)
        BY <2>1, <4>1 DEF StartCycle, TypeOK, Readers
      <4>3. QED
        BY <3>1, <4>2, FewerReaders
    <3>4. QED
      BY <3>2, <3>3
  <2>2. CASE StartPush(w)
    BY <2>2, StartPushAttempts
  <2>3. CASE HqPush(w)
    BY <2>3, <1>1 DEF HqPush, storeVars, TypeOK, Readers
  <2>4. CASE PullFailed(w) \/ PushFailed(w) \/ ReceiveResponse(w) \/ Crash(w)
    <3>1. UNCHANGED attempts /\ EndCycle(w)
      BY <2>4 DEF PullFailed, PushFailed, ReceiveResponse, Crash, storeVars
    <3>2. \A e \in Events : Readers(e)' \subseteq Readers(e)
      BY <3>1 DEF EndCycle, TypeOK, Readers
    <3>3. QED
      BY <3>1, <3>2, <1>1
  <2>5. QED
    BY <1>3, <2>1, <2>2, <2>3, <2>4 DEF Cycle
<1>4. ASSUME NEW e \in Events, EventStep(e) PROVE AttemptsInv'
  BY <1>4, <1>2 DEF EventStep, Record, RetryElapses, HqReprocess, HqCorrects, storeVars, cycleVars
<1>5. CASE HqLatePush
  BY <1>5, <1>2 DEF HqLatePush, storeVars, cycleVars
<1>6. CASE Requeue
  <2> SUFFICES ASSUME NEW e \in Events
               PROVE  \/ attempts'[e] < MaxAttempts
                      \/ attempts'[e] + Cardinality(Readers(e)') < MaxAttempts + Cardinality(Workers)
    BY DEF AttemptsInv
  <2>1. Readers(e)' = Readers(e)
    BY <1>6 DEF Requeue, cycleVars, Readers
  <2>2. attempts'[e] = 0 \/ attempts'[e] = attempts[e]
    BY <1>6 DEF Requeue, TypeOK
  <2>3. QED
    BY <2>1, <2>2, FewerReaders, BoundsAssumption
<1>7. CASE UNCHANGED vars
  BY <1>7, <1>2 DEF vars, storeVars, cycleVars
<1>8. QED
  BY <1>3, <1>4, <1>5, <1>6, <1>7 DEF Next

\* A row is sent at most MaxAttempts times, plus once for every further process that had
\* read it before: MAX_SYNC_RETRY_ATTEMPTS is a hard limit for one process.
THEOREM AttemptsAreBounded == Spec => []AttemptsBounded
<1>1. Init => AttemptsInv
  BY BoundsAssumption DEF Init, AttemptsInv
<1>2. TypeOK /\ AttemptsInv /\ [Next]_vars => AttemptsInv'
  BY NextAttempts
<1>3. TypeOK /\ AttemptsInv => AttemptsBounded
  BY ReadersFinite, BoundsAssumption DEF TypeOK, AttemptsInv, AttemptsBounded
<1>4. QED
  BY <1>1, <1>2, <1>3, TypeCorrect, PTL DEF Spec

-----------------------------------------------------------------------------
(* One cycle process                                                       *)

\* What runSyncCycle's in-flight guard gives inside one process, and what nothing gives
\* across processes.
OneProcess == \A v, w \in Workers : v = w

\* The rows a cycle holds are not acknowledged, and until they are sent not waiting.
BatchInv ==
    \A w \in Workers : \A e \in batch[w] :
        /\ status[e] # "ACKNOWLEDGED"
        /\ phase[w] = "selected" => e \notin waiting

\* With one process every step keeps what it knows of the rows it has read.
LEMMA NextBatch ==
    ASSUME OneProcess
    PROVE  TypeOK /\ BatchInv /\ [Next]_vars => BatchInv'
<1> SUFFICES ASSUME TypeOK, BatchInv, [Next]_vars PROVE BatchInv'
  OBVIOUS
<1>1. ASSUME UNCHANGED <<status, phase, batch>>, waiting' \subseteq waiting PROVE BatchInv'
  BY <1>1 DEF BatchInv
<1>2. ASSUME NEW w \in Workers, Cycle(w) PROVE BatchInv'
  <2>0. \A v \in Workers : v = w
    BY DEF OneProcess
  <2>1. CASE StartCycle(w)
    <3>1. batch'[w] \subseteq Eligible
      BY <2>1 DEF StartCycle, TypeOK, FirstRows
    <3>2. \A e \in Eligible : status'[e] = status[e] /\ e \notin waiting'
      BY <2>1, BoundsAssumption DEF StartCycle, TypeOK, Eligible, Exhausted
    <3>3. \A e \in Eligible : status[e] # "ACKNOWLEDGED"
      BY DEF Eligible
    <3>4. QED
      BY <2>0, <3>1, <3>2, <3>3 DEF BatchInv
  <2>2. CASE StartPush(w)
    BY <2>0, <2>2 DEF StartPush, TypeOK, BatchInv
  <2>3. CASE HqPush(w)
    BY <2>0, <2>3 DEF HqPush, TypeOK, BatchInv, storeVars
  <2>4. CASE PullFailed(w) \/ PushFailed(w) \/ ReceiveResponse(w) \/ Crash(w)
    <3>1. EndCycle(w)
      BY <2>4 DEF PullFailed, PushFailed, ReceiveResponse, Crash
    <3>2. QED
      BY <2>0, <3>1 DEF EndCycle, TypeOK, BatchInv
  <2>5. QED
    BY <1>2, <2>1, <2>2, <2>3, <2>4 DEF Cycle
<1>3. ASSUME NEW e \in Events, EventStep(e) PROVE BatchInv'
  <2>1. CASE Record(e)
    BY <2>1 DEF Record, cycleVars, TypeOK, BatchInv
  <2>2. CASE RetryElapses(e) \/ HqReprocess(e) \/ HqCorrects(e)
    BY <2>2, <1>1 DEF RetryElapses, HqReprocess, HqCorrects, storeVars, cycleVars
  <2>3. QED
    BY <1>3, <2>1, <2>2 DEF EventStep
<1>4. CASE HqLatePush
  BY <1>4, <1>1 DEF HqLatePush, storeVars, cycleVars
<1>5. CASE Requeue
  BY <1>5 DEF Requeue, cycleVars, TypeOK, BatchInv
<1>6. CASE UNCHANGED vars
  BY <1>6, <1>1 DEF vars, storeVars, cycleVars
<1>7. QED
  BY <1>2, <1>3, <1>4, <1>5, <1>6 DEF Next

\* With one process the rows it has read are active until it has dealt with them.
LEMMA BatchInvariant == ASSUME OneProcess PROVE Spec => []BatchInv
<1>1. Init => BatchInv
  BY DEF Init, BatchInv
<1>2. TypeOK /\ BatchInv /\ [Next]_vars => BatchInv'
  BY NextBatch
<1>3. QED
  BY <1>1, <1>2, TypeCorrect, PTL DEF Spec

\* With one cycle process no row is sent again before its retry window has elapsed.
THEOREM RetryWindowIsRespected == ASSUME OneProcess PROVE Spec => RetryWindowRespected
<1> DEFINE Waits == \A e \in Events : attempts'[e] > attempts[e] => e \notin waiting
<1>1. ASSUME TypeOK, BatchInv, Next PROVE Waits
  <2>1. ASSUME NEW w \in Workers, StartPush(w) PROVE Waits
    <3>1. \A e \in Events : e \notin batch[w] => attempts'[e] = attempts[e]
      BY <2>1 DEF StartPush, Found, TypeOK
    <3>2. \A e \in batch[w] : e \notin waiting
      BY <2>1, <1>1 DEF StartPush, BatchInv
    <3>3. \A e \in Events : attempts[e] \in Nat
      BY <1>1 DEF TypeOK
    <3>4. QED
      BY <3>1, <3>2, <3>3
  <2>2. CASE Requeue
    BY <2>2, <1>1 DEF Requeue, TypeOK
  <2>3. CASE UNCHANGED attempts
    BY <2>3, <1>1 DEF TypeOK
  <2>4. QED
    BY <1>1, <2>1, <2>2, <2>3 DEF Next, Cycle, EventStep, StartCycle, PullFailed, HqPush,
       PushFailed, ReceiveResponse, Crash, Record, RetryElapses, HqReprocess, HqCorrects,
       HqLatePush, storeVars
<1>2. TypeOK /\ BatchInv /\ [Next]_vars => [Waits]_vars
  BY <1>1
<1>3. Spec => [][Waits]_vars
  BY <1>2, TypeCorrect, BatchInvariant, PTL DEF Spec
<1>4. QED
  BY <1>3 DEF RetryWindowRespected

\* With one process no step takes back an acknowledgement: it marks only rows it holds.
LEMMA NextKeepsAcks ==
    ASSUME OneProcess, TypeOK, BatchInv, [Next]_vars
    PROVE  \A e \in Events : status[e] = "ACKNOWLEDGED" => status'[e] = "ACKNOWLEDGED"
<1> DEFINE Final == \A e \in Events :
                        status[e] = "ACKNOWLEDGED" => status'[e] = "ACKNOWLEDGED"
<1>1. ASSUME NEW w \in Workers, NEW accepted, NEW why,
             NEW failed, failed \subseteq Found(w), Mark(accepted, failed, why)
      PROVE  Final
  <2>1. \A e \in failed : status[e] # "ACKNOWLEDGED"
    BY <1>1 DEF Found, BatchInv
  <2>2. QED
    BY <1>1, <2>1 DEF Mark, MarkRows
<1>2. ASSUME NEW w \in Workers, Cycle(w) PROVE Final
  <2>1. CASE StartCycle(w)
    BY <2>1 DEF StartCycle, Exhausted
  <2>2. CASE StartPush(w)
    BY <2>2 DEF StartPush
  <2>3. CASE PushFailed(w)
    BY <2>3, <1>1 DEF PushFailed
  <2>4. CASE ReceiveResponse(w)
    BY <2>4, <1>1 DEF ReceiveResponse
  <2>5. CASE PullFailed(w) \/ HqPush(w) \/ Crash(w)
    BY <2>5 DEF PullFailed, HqPush, Crash, storeVars
  <2>6. QED
    BY <1>2, <2>1, <2>2, <2>3, <2>4, <2>5 DEF Cycle
<1>3. CASE Requeue
  BY <1>3 DEF Requeue
<1>4. CASE HqLatePush \/ \E e \in Events : EventStep(e)
  BY <1>4 DEF HqLatePush, EventStep, Record, RetryElapses, HqReprocess, HqCorrects,
     storeVars, TypeOK
<1>5. CASE UNCHANGED vars
  BY <1>5 DEF vars, storeVars
<1>6. QED
  BY <1>2, <1>3, <1>4, <1>5 DEF Next

\* With one cycle process an acknowledgement at the store is never taken back.
THEOREM StoreAcksAreFinal == ASSUME OneProcess PROVE Spec => StoreAckIsFinal
<1> DEFINE Final == \A e \in Events :
                        status[e] = "ACKNOWLEDGED" => status'[e] = "ACKNOWLEDGED"
<1>1. TypeOK /\ BatchInv /\ [Next]_vars => [Final]_vars
  BY NextKeepsAcks
<1>2. Spec => [][Final]_vars
  BY <1>1, TypeCorrect, BatchInvariant, PTL DEF Spec
<1>3. QED
  BY <1>2 DEF StoreAckIsFinal

-----------------------------------------------------------------------------
(* The retry budget                                                        *)

\* A row queued afresh starts with a full budget and nothing held against it; a renamed
\* one is never queued again.
QueuedAfresh ==
    \A e \in Events :
        /\ status[e] \in {"NONE", "PENDING"} => attempts[e] = 0 /\ kind[e] = "none"
        /\ e \in renamed => /\ status[e] \in {"FAILED", "DEAD_LETTER"}
                            /\ kind[e] = "taken" /\ Number[e] = "legacy"

\* With one process, a row it has read is active, and in flight once it is sent.
HeldRows ==
    \A w \in Workers : \A e \in Found(w) :
        /\ status[e] \in Active
        /\ phase[w] \in {"sent", "answered"} => status[e] = "IN_FLIGHT"

\* Every step starts rows afresh or not at all, and renames only rows it cannot requeue.
LEMMA NextQueued == TypeOK /\ QueuedAfresh /\ [Next]_vars => QueuedAfresh'
<1> SUFFICES ASSUME TypeOK, QueuedAfresh, [Next]_vars PROVE QueuedAfresh'
  OBVIOUS
<1>1. CASE UNCHANGED storeVars
  BY <1>1 DEF storeVars, QueuedAfresh
<1>2. ASSUME NEW w \in Workers, NEW accepted, accepted \subseteq Found(w),
             NEW failed, failed \subseteq Found(w), NEW why,
             UNCHANGED <<attempts, renamed>>, Mark(accepted, failed, why)
      PROVE  QueuedAfresh'
  BY <1>2 DEF TypeOK, QueuedAfresh, Mark, MarkRows, Found
<1>3. ASSUME NEW w \in Workers, Cycle(w) PROVE QueuedAfresh'
  <2>1. CASE StartCycle(w)
    BY <2>1 DEF StartCycle, TypeOK, Exhausted, QueuedAfresh
  <2>2. CASE StartPush(w)
    BY <2>2 DEF StartPush, TypeOK, Found, QueuedAfresh
  <2>3. CASE PushFailed(w)
    BY <2>3, <1>2 DEF PushFailed
  <2>4. CASE ReceiveResponse(w)
    BY <2>4, <1>2 DEF ReceiveResponse
  <2>5. CASE PullFailed(w) \/ HqPush(w) \/ Crash(w)
    BY <2>5, <1>1 DEF PullFailed, HqPush, Crash
  <2>6. QED
    BY <1>3, <2>1, <2>2, <2>3, <2>4, <2>5 DEF Cycle
<1>4. ASSUME NEW e \in Events, EventStep(e) PROVE QueuedAfresh'
  <2>1. CASE Record(e)
    BY <2>1 DEF Record, TypeOK, QueuedAfresh
  <2>2. CASE RetryElapses(e) \/ HqReprocess(e) \/ HqCorrects(e)
    BY <2>2 DEF RetryElapses, HqReprocess, HqCorrects, storeVars, QueuedAfresh
  <2>3. QED
    BY <1>4, <2>1, <2>2 DEF EventStep
<1>5. CASE HqLatePush
  BY <1>5, <1>1 DEF HqLatePush
<1>6. CASE Requeue
  BY <1>6 DEF Requeue, Conflicting, PermanentKinds, TypeOK, QueuedAfresh
<1>7. CASE UNCHANGED vars
  BY <1>7, <1>1 DEF vars
<1>8. QED
  BY <1>3, <1>4, <1>5, <1>6, <1>7 DEF Next

\* With one process the rows it has read stay active, whatever else happens to the queue.
LEMMA NextHeld ==
    ASSUME OneProcess
    PROVE  TypeOK /\ HeldRows /\ [Next]_vars => HeldRows'
<1> SUFFICES ASSUME TypeOK, HeldRows, [Next]_vars PROVE HeldRows'
  OBVIOUS
<1>1. CASE UNCHANGED <<status, renamed, phase, batch>>
  BY <1>1 DEF HeldRows, Found
<1>2. ASSUME NEW w \in Workers, Cycle(w) PROVE HeldRows'
  <2>0. \A v \in Workers : v = w
    BY DEF OneProcess
  <2>1. CASE StartCycle(w)
    <3>1. batch'[w] \subseteq Eligible /\ phase'[w] = "selected"
      BY <2>1 DEF StartCycle, TypeOK, FirstRows
    <3>2. \A e \in Eligible : status'[e] = status[e] /\ status[e] \in Active
      BY <2>1, BoundsAssumption DEF StartCycle, TypeOK, Eligible, Exhausted
    <3>3. QED
      BY <2>0, <3>1, <3>2 DEF HeldRows, Found
  <2>2. CASE StartPush(w)
    BY <2>0, <2>2 DEF StartPush, TypeOK, HeldRows, Found
  <2>3. CASE HqPush(w)
    BY <2>0, <2>3 DEF HqPush, TypeOK, HeldRows, Found, storeVars
  <2>4. CASE PullFailed(w) \/ PushFailed(w) \/ ReceiveResponse(w) \/ Crash(w)
    <3>1. EndCycle(w)
      BY <2>4 DEF PullFailed, PushFailed, ReceiveResponse, Crash
    <3>2. QED
      BY <2>0, <3>1 DEF EndCycle, TypeOK, HeldRows, Found
  <2>5. QED
    BY <1>2, <2>1, <2>2, <2>3, <2>4 DEF Cycle
<1>3. ASSUME NEW e \in Events, EventStep(e) PROVE HeldRows'
  <2>1. CASE Record(e)
    BY <2>1 DEF Record, cycleVars, TypeOK, HeldRows, Found
  <2>2. CASE RetryElapses(e) \/ HqReprocess(e) \/ HqCorrects(e)
    BY <2>2, <1>1 DEF RetryElapses, HqReprocess, HqCorrects, storeVars, cycleVars
  <2>3. QED
    BY <1>3, <2>1, <2>2 DEF EventStep
<1>4. CASE HqLatePush
  BY <1>4, <1>1 DEF HqLatePush, storeVars, cycleVars
<1>5. CASE Requeue
  BY <1>5 DEF Requeue, cycleVars, TypeOK, HeldRows, Found
<1>6. CASE UNCHANGED vars
  BY <1>6, <1>1 DEF vars, storeVars, cycleVars
<1>7. QED
  BY <1>2, <1>3, <1>4, <1>5, <1>6 DEF Next

\* A process has sent e and not yet dealt with the outcome.
Out(e) == \E w \in Workers : phase[w] \in {"sent", "answered"} /\ e \in batch[w]

\* The account of a row HQ is able to project since n faults ago: every attempt but the
\* one that is out has cost a fault.
Budget(e, n) ==
    /\ verdict[e] = "accepted"
    /\ e \notin renamed /\ kind[e] \in {"none", "transport"}
    /\ \A w \in Workers :
         phase[w] = "answered" /\ e \in batch[w] => answer[w][e] = "accepted"
    /\ status[e] # "ACKNOWLEDGED" =>
         n + attempts[e] <= faults + 1 /\ (~Out(e) => n + attempts[e] <= faults)
    /\ status[e] = "DEAD_LETTER" => n + MaxAttempts <= faults

\* A row queued afresh that HQ is able to project has spent nothing of its budget.
LEMMA BudgetOpens ==
    ASSUME TypeOK, QueuedAfresh, HeldRows, NEW e \in Events,
           status[e] = "PENDING", verdict[e] = "accepted"
    PROVE  Budget(e, faults)
<1>1. e \notin renamed /\ attempts[e] = 0 /\ kind[e] = "none"
  BY DEF QueuedAfresh
<1>2. \A w \in Workers : phase[w] = "answered" => e \notin batch[w]
  BY <1>1 DEF HeldRows, Found
<1>3. QED
  BY <1>1, <1>2 DEF Budget, TypeOK

\* Every step of one process spends an attempt, gets an answer, or is a fault.
LEMMA NextBudget ==
    ASSUME OneProcess, NEW e \in Events \ Foreign, NEW n \in Nat
    PROVE  TypeOK /\ BatchInv /\ HeldRows /\ Budget(e, n) /\ [Next]_vars => Budget(e, n)'
<1> SUFFICES ASSUME TypeOK, BatchInv, HeldRows, Budget(e, n), [Next]_vars
             PROVE  Budget(e, n)'
  OBVIOUS
<1>0. /\ status'[e] # "ACKNOWLEDGED" => status[e] # "ACKNOWLEDGED"
      /\ attempts[e] \in Nat /\ faults \in Nat /\ MaxAttempts \in Nat \ {0}
  BY NextKeepsAcks, BoundsAssumption DEF TypeOK
<1>1. CASE UNCHANGED <<status, attempts, kind, renamed, cycleVars, verdict, faults>>
  BY <1>1 DEF Budget, Out, cycleVars
<1>2. ASSUME NEW w \in Workers, Cycle(w) PROVE Budget(e, n)'
  <2>0. \A v \in Workers : v = w
    BY DEF OneProcess
  <2>1. CASE StartCycle(w)
    <3>1. ~Out(e) /\ UNCHANGED <<attempts, kind, renamed, answer, verdict, faults>>
      BY <2>0, <2>1 DEF StartCycle, Out
    <3>2. phase'[w] = "selected" /\ ~Out(e)'
      BY <2>0, <2>1 DEF StartCycle, TypeOK, Out
    <3>3. \/ status'[e] = status[e]
          \/ /\ status'[e] = "DEAD_LETTER" /\ status[e] # "ACKNOWLEDGED"
             /\ attempts[e] >= MaxAttempts
      BY <2>1 DEF StartCycle, Exhausted, Active
    <3>4. CASE status'[e] = status[e]
      BY <1>0, <2>0, <3>1, <3>2, <3>4 DEF Budget
    <3>5. CASE /\ status'[e] = "DEAD_LETTER" /\ status[e] # "ACKNOWLEDGED"
               /\ attempts[e] >= MaxAttempts
      <4>1. n + attempts[e] <= faults
        BY <3>1, <3>5 DEF Budget
      <4>2. n + MaxAttempts <= faults
        BY <1>0, <3>5, <4>1
      <4>3. QED
        BY <2>0, <3>1, <3>2, <3>5, <4>1, <4>2 DEF Budget
    <3>6. QED
      BY <3>3, <3>4, <3>5
  <2>2. CASE PullFailed(w)
    <3>1. ~Out(e) /\ UNCHANGED <<status, attempts, kind, renamed, verdict, faults>>
      BY <2>0, <2>2 DEF PullFailed, storeVars, Out
    <3>2. phase'[w] = "idle"
      BY <2>2 DEF PullFailed, EndCycle, TypeOK
    <3>3. QED
      BY <2>0, <3>1, <3>2 DEF Budget
  <2>3. CASE StartPush(w)
    <3>1. /\ UNCHANGED <<renamed, batch, answer, verdict, faults>>
          /\ phase[w] = "selected" /\ phase'[w] = "sent"
      BY <2>3 DEF StartPush, TypeOK
    <3>2. ~Out(e) /\ (e \in batch[w] => Out(e)')
      BY <2>0, <3>1 DEF Out
    <3>3. \/ UNCHANGED <<status[e], attempts[e], kind[e]>>
          \/ /\ e \in batch[w] /\ status'[e] = "IN_FLIGHT" /\ kind'[e] = "none"
             /\ attempts'[e] = attempts[e] + 1 /\ status[e] # "ACKNOWLEDGED"
      BY <2>3 DEF StartPush, Found, TypeOK
    <3>4. QED
      BY <1>0, <2>0, <3>1, <3>2, <3>3 DEF Budget
  <2>4. CASE HqPush(w)
    <3>1. /\ UNCHANGED <<status, attempts, kind, renamed, batch, verdict, faults>>
          /\ phase[w] = "sent" /\ phase'[w] = "answered"
      BY <2>4 DEF HqPush, storeVars, TypeOK
    <3>2. Out(e)' <=> Out(e)
      BY <2>0, <3>1 DEF Out
    <3>3. e \in batch[w] => answer'[w][e] = "accepted"
      BY <2>4 DEF HqPush, Reply, Budget, TypeOK
    <3>4. QED
      BY <2>0, <3>1, <3>2, <3>3 DEF Budget
  <2>5. CASE PushFailed(w)
    <3>1. /\ UNCHANGED <<attempts, renamed, verdict>> /\ faults' = faults + 1
          /\ Mark({}, Found(w), [f \in Events |-> "transport"])
          /\ phase'[w] = "idle"
      BY <2>5 DEF PushFailed, EndCycle, TypeOK
    <3>2. \/ status'[e] = status[e] /\ kind'[e] = kind[e]
          \/ /\ kind'[e] = "transport" /\ status[e] # "ACKNOWLEDGED"
             /\ status'[e] = "DEAD_LETTER" => attempts[e] >= MaxAttempts
      BY <3>1 DEF Mark, MarkRows, PermanentKinds, HeldRows, TypeOK
    <3>3. QED
      BY <1>0, <2>0, <3>1, <3>2 DEF Budget
  <2>6. CASE ReceiveResponse(w)
    <3> DEFINE accepted == {f \in Found(w) : answer[w][f] = "accepted"}
    <3>1. /\ UNCHANGED <<attempts, renamed, verdict, faults>>
          /\ Mark(accepted, Found(w) \ accepted, answer[w])
          /\ phase[w] = "answered" /\ phase'[w] = "idle"
      BY <2>6 DEF ReceiveResponse, EndCycle, TypeOK
    <3>2. CASE e \in batch[w]
      <4>1. e \in accepted
        BY <3>1, <3>2 DEF Budget, Found
      <4>2. status'[e] = "ACKNOWLEDGED" /\ kind'[e] = "none"
        BY <3>1, <4>1 DEF Mark, MarkRows
      <4>3. QED
        BY <2>0, <3>1, <4>2 DEF Budget
    <3>3. CASE e \notin batch[w]
      <4>1. e \notin Found(w) /\ ~Out(e)
        BY <2>0, <3>3 DEF Found, Out
      <4>2. status'[e] = status[e] /\ kind'[e] = kind[e]
        BY <3>1, <4>1 DEF Mark, MarkRows
      <4>3. QED
        BY <2>0, <3>1, <4>1, <4>2 DEF Budget
    <3>4. QED
      BY <3>2, <3>3
  <2>7. CASE Crash(w)
    <3>1. /\ UNCHANGED <<status, attempts, kind, renamed, verdict>> /\ faults' = faults + 1
          /\ phase'[w] = "idle"
      BY <2>7 DEF Crash, EndCycle, storeVars, TypeOK
    <3>2. QED
      BY <1>0, <2>0, <3>1 DEF Budget
  <2>8. QED
    BY <1>2, <2>1, <2>2, <2>3, <2>4, <2>5, <2>6, <2>7 DEF Cycle
<1>3. ASSUME NEW f \in Events, EventStep(f) PROVE Budget(e, n)'
  <2>1. CASE Record(f)
    <3>1. UNCHANGED <<attempts, kind, renamed, phase, batch, answer, verdict, faults>>
      BY <2>1 DEF Record, cycleVars
    <3>2. \/ status'[e] = status[e]
          \/ status[e] = "NONE" /\ status'[e] = "PENDING"
      BY <2>1 DEF Record, TypeOK
    <3>3. Out(e)' <=> Out(e)
      BY <3>1 DEF Out
    <3>4. QED
      BY <1>0, <3>1, <3>2, <3>3 DEF Budget
  <2>2. CASE RetryElapses(f) \/ HqReprocess(f)
    BY <2>2, <1>1 DEF RetryElapses, HqReprocess, storeVars
  <2>3. CASE HqCorrects(f)
    <3>1. UNCHANGED <<status, attempts, kind, renamed, cycleVars, faults>>
      BY <2>3 DEF HqCorrects, storeVars
    <3>2. verdict'[e] = "accepted"
      BY <2>3 DEF HqCorrects, TypeOK, Budget
    <3>3. QED
      BY <3>1, <3>2 DEF Budget, Out, cycleVars
  <2>4. QED
    BY <1>3, <2>1, <2>2, <2>3 DEF EventStep
<1>4. CASE HqLatePush
  BY <1>4, <1>1 DEF HqLatePush, storeVars
<1>5. CASE Requeue
  <2>1. UNCHANGED <<cycleVars, verdict, faults>>
    BY <1>5 DEF Requeue
  <2>2. e \notin renamed'
    BY <1>5 DEF Requeue, Conflicting, Budget
  <2>3. \/ UNCHANGED <<status[e], attempts[e], kind[e]>>
        \/ /\ status[e] # "ACKNOWLEDGED"
           /\ status'[e] = "PENDING" /\ attempts'[e] = 0 /\ kind'[e] = "none"
    BY <1>5 DEF Requeue, TypeOK
  <2>4. QED
    BY <1>0, <2>1, <2>2, <2>3 DEF Budget, Out, cycleVars
<1>6. CASE UNCHANGED vars
  BY <1>6, <1>1 DEF vars, storeVars
<1>7. QED
  BY <1>2, <1>3, <1>4, <1>5, <1>6 DEF Next

LEMMA QueuedInvariant == Spec => []QueuedAfresh
<1>1. Init => QueuedAfresh
  BY DEF Init, QueuedAfresh
<1>2. QED
  BY <1>1, NextQueued, TypeCorrect, PTL DEF Spec

LEMMA HeldInvariant == ASSUME OneProcess PROVE Spec => []HeldRows
<1>1. Init => HeldRows
  BY DEF Init, HeldRows, Found
<1>2. QED
  BY <1>1, NextHeld, TypeCorrect, PTL DEF Spec

\* With one cycle process a row HQ is able to project dies only of MaxAttempts faults
\* that happened after it was queued.
THEOREM OnlyFaultsKillRows == ASSUME OneProcess PROVE Spec => OnlyFaultsUseUpRetries
<1> DEFINE Queued(e, n) == status[e] = "PENDING" /\ verdict[e] = "accepted" /\ faults = n
           Cause(e, n) == status[e] = "DEAD_LETTER" => faults >= n + MaxAttempts
<1>1. ASSUME NEW e \in Events \ Foreign, NEW n \in 0 .. MaxFaults
      PROVE  Spec => [](Queued(e, n) => []Cause(e, n))
  <2>1. n \in Nat
    BY BoundsAssumption
  <2>2. TypeOK /\ QueuedAfresh /\ HeldRows /\ Queued(e, n) => Budget(e, n)
    BY BudgetOpens
  <2>3. TypeOK /\ BatchInv /\ HeldRows /\ Budget(e, n) /\ [Next]_vars => Budget(e, n)'
    BY <2>1, NextBudget
  <2>4. TypeOK /\ Budget(e, n) => Cause(e, n)
    BY <2>1, BoundsAssumption DEF TypeOK, Budget
  <2>5. QED
    BY <2>2, <2>3, <2>4, TypeCorrect, BatchInvariant, QueuedInvariant, HeldInvariant, PTL
       DEF Spec
<1>2. QED
  BY <1>1 DEF OnlyFaultsUseUpRetries

\* Hence fewer faults than attempts never kill such a row: what FaultsAreSurvived adds is
\* that it is acknowledged in the end.
THEOREM FewFaultsKillNoRow ==
    ASSUME OneProcess, MaxFaults < MaxAttempts, NEW e \in Events \ Foreign
    PROVE  Spec => [](status[e] = "PENDING" /\ verdict[e] = "accepted" =>
                        [](status[e] # "DEAD_LETTER"))
<1> DEFINE Queued == status[e] = "PENDING" /\ verdict[e] = "accepted"
           Few == faults \in 0 .. MaxFaults
<1>1. TypeOK /\ QueuedAfresh /\ HeldRows /\ Queued => Budget(e, 0)
  <2>1. TypeOK /\ Budget(e, faults) => Budget(e, 0)
    BY BoundsAssumption DEF TypeOK, Budget
  <2>2. QED
    BY <2>1, BudgetOpens
<1>2. TypeOK /\ BatchInv /\ HeldRows /\ Budget(e, 0) /\ [Next]_vars => Budget(e, 0)'
  BY NextBudget
<1>3. Few /\ Budget(e, 0) => status[e] # "DEAD_LETTER"
  BY BoundsAssumption DEF Budget
<1>4. Init => Few
  BY BoundsAssumption DEF Init
<1>5. TypeOK /\ Few /\ [Next]_vars => Few'
  <2> SUFFICES ASSUME Few, [Next]_vars PROVE Few'
    OBVIOUS
  <2>1. CASE UNCHANGED faults
    BY <2>1
  <2>2. CASE faults < MaxFaults /\ faults' = faults + 1
    BY <2>2, BoundsAssumption
  <2>3. QED
    BY <2>1, <2>2 DEF Next, Cycle, EventStep, StartCycle, PullFailed, StartPush, HqPush,
       PushFailed, ReceiveResponse, Crash, Record, RetryElapses, HqReprocess, HqCorrects,
       HqLatePush, Requeue, vars
<1>6. QED
  BY <1>1, <1>2, <1>3, <1>4, <1>5, TypeCorrect, BatchInvariant, QueuedInvariant,
     HeldInvariant, PTL DEF Spec

-----------------------------------------------------------------------------
(* Batches                                                                 *)

\* What the LIMIT of getPendingUpstreamRows lets through.
LEMMA FirstRowsSelection ==
    ASSUME NEW rows \in SUBSET Events
    PROVE  /\ Cardinality(FirstRows(rows)) \in 0 .. BatchLimit
           /\ FirstRows(rows) # rows => Cardinality(FirstRows(rows)) = BatchLimit
           /\ \A e \in FirstRows(rows), f \in rows \ FirstRows(rows) : Rank[e] < Rank[f]
<1>1. FirstRows(rows) = Lowest(rows, Rank, BatchLimit)
  BY DEF FirstRows, Lowest, Below
<1>2. IsFiniteSet(rows) /\ \A e \in rows : Rank[e] \in Nat
  BY EventsAssumption, FS_Subset
<1>3. (\A e, f \in rows : Rank[e] = Rank[f] => e = f) /\ BatchLimit \in Nat
  BY EventsAssumption, BoundsAssumption
<1>4. QED
  BY <1>1, <1>2, <1>3, LowestSelection

\* No process ever holds, sends or resends more rows than one request may carry.
BatchesWithinLimit ==
    /\ \A w \in Workers : Cardinality(batch[w]) <= BatchLimit
    /\ \A b \in late : Cardinality(b) <= BatchLimit

THEOREM BatchesAreBounded == Spec => []BatchesWithinLimit
<1>1. Init => BatchesWithinLimit
  BY FS_EmptySet, BoundsAssumption DEF Init, BatchesWithinLimit
<1>2. TypeOK /\ BatchesWithinLimit /\ [Next]_vars => BatchesWithinLimit'
  <2> SUFFICES ASSUME TypeOK, BatchesWithinLimit, [Next]_vars PROVE BatchesWithinLimit'
    OBVIOUS
  <2>1. ASSUME NEW w \in Workers, StartCycle(w) PROVE BatchesWithinLimit'
    <3>1. Cardinality(FirstRows(Eligible)) <= BatchLimit
      BY FirstRowsSelection, BoundsAssumption DEF Eligible
    <3>2. QED
      BY <2>1, <3>1 DEF StartCycle, TypeOK, BatchesWithinLimit
  <2>2. ASSUME NEW w \in Workers, EndCycle(w), Abandon(w) \/ UNCHANGED late
        PROVE  BatchesWithinLimit'
    BY <2>2, FS_EmptySet, BoundsAssumption DEF EndCycle, Abandon, TypeOK, BatchesWithinLimit
  <2>3. CASE UNCHANGED <<batch, late>>
    BY <2>3 DEF BatchesWithinLimit
  <2>4. CASE HqLatePush
    BY <2>4 DEF HqLatePush, cycleVars, BatchesWithinLimit
  <2>5. QED
    BY <2>1, <2>2, <2>3, <2>4 DEF Next, Cycle, EventStep, PullFailed, StartPush, HqPush,
       PushFailed, ReceiveResponse, Crash, Record, RetryElapses, HqReprocess, HqCorrects,
       Requeue, vars, cycleVars
<1>3. QED
  BY <1>1, <1>2, TypeCorrect, PTL DEF Spec

\* A cycle passes over a row that is due only when its batch is full of rows that come
\* before it: what a row waits for is bounded by the rows ahead of it.
BatchTakesTheFirst ==
    [][\A w \in Workers : StartCycle(w) =>
         \A e \in Eligible \ batch'[w] :
            Cardinality(batch'[w]) = BatchLimit /\ \A f \in batch'[w] : Rank[f] < Rank[e]]_vars

THEOREM RowsAreTakenInOrder == Spec => BatchTakesTheFirst
<1> DEFINE TakesFirst(w) ==
             \A e \in Eligible \ batch'[w] :
               Cardinality(batch'[w]) = BatchLimit /\ \A f \in batch'[w] : Rank[f] < Rank[e]
<1>1. TypeOK => [\A w \in Workers : StartCycle(w) => TakesFirst(w)]_vars
  <2> SUFFICES ASSUME TypeOK, NEW w \in Workers, StartCycle(w) PROVE TakesFirst(w)
    OBVIOUS
  <2>1. batch'[w] = FirstRows(Eligible)
    BY DEF StartCycle, TypeOK
  <2>2. Eligible \in SUBSET Events
    BY DEF Eligible
  <2>3. QED
    BY <2>1, <2>2, FirstRowsSelection
<1>2. QED
  BY <1>1, TypeCorrect, PTL DEF Spec, BatchTakesTheFirst

=============================================================================
