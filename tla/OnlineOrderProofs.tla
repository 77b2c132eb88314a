------------------------- MODULE OnlineOrderProofs -------------------------
(***************************************************************************)
(* What OnlineOrder's runs show of one payment and two verifications, for  *)
(* any number of payments, verifications and staff, and any amounts.  Each *)
(* invariant is inductive together with the types and those before it:     *)
(*                                                                         *)
(*   TypeOK        the types;                                              *)
(*   Vouched       a verification past the gateway's answer is about money *)
(*                 the gateway has, for a payment that was begun;          *)
(*   RecordedOnce  the payment rows;                                       *)
(*   Opened        whatever counts as money paid, and every payment too    *)
(*                 small to open the order, comes after one that opened it;*)
(*   Released      only an accepted order is published: the verifications  *)
(*                 and the staff's moves that will publish know that it is.*)
(***************************************************************************)
EXTENDS OnlineOrder, TLAPS

USE DEF At, GoTo, Return, Paying

(* The types.                                                               *)
LEMMA ProjectionIsNat == ASSUME NEW n \in Int PROVE AtLeastZero(n) \in Nat
BY DEF AtLeastZero

(* Records keep their type when fields are given values of theirs.          *)
LEMMA SaleWith ==
    ASSUME NEW r \in Sales, NEW paid \in Nat, NEW balance \in Nat, NEW version \in Nat
    PROVE  [r EXCEPT !.paid = paid, !.balance = balance, !.version = version] \in Sales
BY DEF Sales

LEMMA CopyWith ==
    ASSUME NEW r \in Copies, NEW paid \in Int, NEW balance \in Nat, NEW cash \in Int,
           NEW tendered \in BOOLEAN, NEW version \in Nat
    PROVE  [r EXCEPT !.paid = paid, !.balance = balance, !.cash = cash,
                     !.tendered = tendered, !.version = version] \in Copies
BY DEF Copies

LEMMA PaidWithinTotal ==
    ASSUME TypeOK, NEW v \in Verifiers, call[v] # Nothing
    PROVE  PaidWith(v) \in 0 .. Total
<1>1. call[v] \in Calls
    BY DEF TypeOK
<1>2. call[v].paid \in Nat /\ call[v].payment \in Payments
    BY <1>1 DEF Calls
<1>3. payment[call[v].payment] \in PaymentRecords
    BY <1>2 DEF TypeOK
<1>4. payment[call[v].payment].amount \in 0 .. Total
    BY <1>3 DEF PaymentRecords
<1> QED
    BY <1>2, <1>4, OrderConstants DEF PaidWith

LEMMA PublishType ==
    ASSUME TypeOK, sale' \in Sales, NEW due \in BOOLEAN, PublishIf(due)
    PROVE  /\ published' \in SUBSET Nat
           /\ down' \in SUBSET Sales
           /\ up' = up /\ handover' = handover /\ reading' = reading
<1>1. sale'.version \in Nat
    BY DEF Sales
<1> QED
    BY <1>1 DEF TypeOK, PublishIf, Publish, queue

LEMMA ChangeType ==
    ASSUME TypeOK, NEW copy \in Copies, Change(copy)
    PROVE  /\ till' \in Copies
           /\ up' \in SUBSET Packets
<1>1. [status |-> copy.status, paid |-> copy.paid,
       balance |-> copy.balance, version |-> copy.version] \in Packets
    BY DEF Copies, Packets
<1> QED
    BY <1>1 DEF Change, TypeOK

LEMMA CustomerType ==
    ASSUME TypeOK, NEW p \in Payments, Customer(p) PROVE TypeOK'
<1>1. payment[p] \in PaymentRecords
    BY DEF TypeOK
<1>2. payment' \in [Payments -> PaymentRecords]
    <2>1. ASSUME NEW amount \in 1 .. Total, Initialize(p, amount)
          PROVE  payment' \in [Payments -> PaymentRecords]
        <3>1. amount \in 0 .. Total
            BY OrderConstants
        <3> QED
            BY <2>1, <3>1, <1>1 DEF Initialize, TypeOK, PaymentRecords, PaymentStatuses
    <2>2. CASE CheckoutReady(p)
        BY <2>2, <1>1 DEF CheckoutReady, TypeOK, PaymentRecords, PaymentStatuses
    <2>3. CASE InitializationFails(p)
        BY <2>3, <1>1 DEF InitializationFails, TypeOK, PaymentRecords, PaymentStatuses
    <2>4. CASE Capture(p)
        BY <2>4, <1>1 DEF Capture, TypeOK, PaymentRecords
    <2> QED
        BY <2>1, <2>2, <2>3, <2>4 DEF Customer
<1>3. UNCHANGED <<kind, order, accepted, sale, source, rows, call, task, queue, till>>
    BY DEF Customer, Initialize, CheckoutReady, InitializationFails, Capture
<1> QED
    BY <1>2, <1>3 DEF TypeOK, queue

LEMMA VerifyType ==
    ASSUME TypeOK, NEW v \in Verifiers, NEW p \in Payments, Verify(v, p)
    PROVE  TypeOK'
<1>1. [payment |-> p, step |-> "ask", seen |-> order.status, paid |-> 0] \in Calls
    BY DEF TypeOK, Calls, CallSteps, Orders
<1> QED
    BY <1>1 DEF Verify, TypeOK, web, queue

LEMMA RecordPaymentType ==
    ASSUME TypeOK, NEW v \in Verifiers, RecordPayment(v) PROVE TypeOK'
<1> DEFINE p == call[v].payment
           paid == PaidWith(v)
<1>1. call[v] \in Calls
    BY DEF RecordPayment, TypeOK
<1>2. p \in Payments /\ call[v].seen \in OrderStatuses
    BY <1>1 DEF Calls
<1>3. paid \in Nat /\ Total - paid \in Nat
    BY PaidWithinTotal, OrderConstants DEF RecordPayment
<1>4. payment' \in [Payments -> PaymentRecords]
    <2>1. payment[p] \in PaymentRecords
        BY <1>2 DEF TypeOK
    <2>2. payment' = [payment EXCEPT ![p] =
                        [payment[p] EXCEPT !.status = "PAID", !.paidAt = TRUE]]
        BY <1>2 DEF RecordPayment, TypeOK
    <2>3. [payment[p] EXCEPT !.status = "PAID", !.paidAt = TRUE] \in PaymentRecords
        BY <2>1 DEF PaymentRecords, PaymentStatuses
    <2> QED
        BY <1>2, <2>2, <2>3 DEF TypeOK
<1>5. order' \in Orders
    <2>1. order' = [order EXCEPT !.paid = paid, !.balance = Total - paid]
        BY DEF RecordPayment
    <2> QED
        BY <1>3, <2>1 DEF TypeOK, Orders
<1>6. rows' \in [Payments -> Nat]
    BY <1>2 DEF RecordPayment, TypeOK
<1>7. sale' \in Sales
    <2>1. sale' = [sale EXCEPT !.paid = paid, !.balance = Total - paid, !.version = @ + 1]
        BY DEF RecordPayment
    <2>2. sale \in Sales /\ sale.version + 1 \in Nat
        BY DEF TypeOK, Sales
    <2> QED
        BY <1>3, <2>1, <2>2, SaleWith
<1>8. /\ published' \in SUBSET Nat /\ down' \in SUBSET Sales
      /\ up' = up /\ handover' = handover /\ reading' = reading
    BY <1>7, PublishType DEF RecordPayment
<1>9. call' \in [Verifiers -> Calls \cup {Nothing}]
    BY DEF RecordPayment, TypeOK
<1> QED
    BY <1>4, <1>5, <1>6, <1>7, <1>8, <1>9 DEF RecordPayment, TypeOK

LEMMA VerifyStepType ==
    ASSUME TypeOK, NEW v \in Verifiers, VerifyStep(v) PROVE TypeOK'
<1>1. CASE RecordPayment(v)
    BY <1>1, RecordPaymentType
<1>2. CASE Refuse(v)
    <2>1. call[v] \in Calls
        BY <1>2 DEF Refuse, TypeOK
    <2>2. call[v].payment \in Payments
        BY <2>1 DEF Calls
    <2>3. payment[call[v].payment] \in PaymentRecords
        BY <2>2 DEF TypeOK
    <2>4. payment' \in [Payments -> PaymentRecords]
        BY <1>2, <2>2, <2>3 DEF Refuse, TypeOK, PaymentRecords, PaymentStatuses
    <2> QED
        BY <1>2, <2>4 DEF Refuse, TypeOK, queue
<1>3. ASSUME ~RecordPayment(v), ~Refuse(v) PROVE TypeOK'
    <2>1. call[v] \in Calls
        BY <1>3 DEF VerifyStep, GatewayAnswers, GatewayFails, CheckPaid, ReadSale,
                    ReservationFails, RecordingFails, TypeOK
    <2>2. call' \in [Verifiers -> Calls \cup {Nothing}]
        <3>1. CASE GatewayAnswers(v)
            BY <3>1, <2>1 DEF GatewayAnswers, TypeOK, Calls, CallSteps
        <3>2. CASE GatewayFails(v)
            BY <3>2 DEF GatewayFails, TypeOK
        <3>3. CASE CheckPaid(v)
            BY <3>3, <2>1 DEF CheckPaid, TypeOK, Calls, CallSteps
        <3>4. CASE ReadSale(v)
            <4>1. sale.paid \in Nat
                BY DEF TypeOK, Sales
            <4> QED
                BY <3>4, <2>1, <4>1 DEF ReadSale, TypeOK, Calls, CallSteps
        <3>5. CASE ReservationFails(v)
            BY <3>5 DEF ReservationFails, TypeOK
        <3>6. CASE RecordingFails(v)
            BY <3>6 DEF RecordingFails, TypeOK
        <3> QED
            BY <1>3, <3>1, <3>2, <3>3, <3>4, <3>5, <3>6 DEF VerifyStep
    <2>3. UNCHANGED <<kind, web, task, queue, till>>
        BY <1>3 DEF VerifyStep, GatewayAnswers, GatewayFails, CheckPaid, ReadSale,
                    ReservationFails, RecordingFails
    <2> QED
        BY <2>2, <2>3 DEF TypeOK, web, queue
<1> QED
    BY <1>1, <1>2, <1>3

LEMMA StaffType ==
    ASSUME TypeOK, NEW s \in Staff, StaffStep(s) PROVE TypeOK'
<1>1. CASE \E to \in OrderStatuses : Decide(s, to)
    <2>1. PICK to \in OrderStatuses : Decide(s, to)
        BY <1>1
    <2>2. [from |-> order.status, to |-> to] \in Tasks
        BY DEF TypeOK, Orders, Tasks
    <2> QED
        BY <2>1, <2>2 DEF Decide, TypeOK, web, queue
<1>2. ASSUME MoveOrder(s), task[s] # Nothing
      PROVE  order' \in Orders /\ task' \in [Staff -> Tasks \cup {Nothing}]
    <2>1. task[s].to \in OrderStatuses
        BY <1>2 DEF TypeOK, Tasks
    <2> QED
        BY <1>2, <2>1 DEF MoveOrder, TypeOK, Orders
<1>3. CASE Accept(s)
    <2>1. sale' \in Sales /\ PublishIf(TRUE)
        BY <1>3 DEF Accept, TypeOK, PublishIf
    <2>2. /\ published' \in SUBSET Nat /\ down' \in SUBSET Sales
          /\ up' = up /\ handover' = handover /\ reading' = reading
        BY <2>1, PublishType
    <2> QED
        BY <1>2, <1>3, <2>1, <2>2 DEF Accept, TypeOK
<1>4. CASE Advance(s)
    BY <1>2, <1>4 DEF Advance, TypeOK, queue
<1>5. CASE Cancel(s)
    <2>1. sale' \in Sales
        <3>1. sale \in Sales /\ sale.version + 1 \in Nat
            BY DEF TypeOK, Sales
        <3>2. "CANCELLED" \in SaleStatuses
            BY DEF SaleStatuses
        <3>3. [sale EXCEPT !.status = "CANCELLED", !.version = sale.version + 1] \in Sales
            BY <3>1, <3>2 DEF Sales
        <3> QED
            BY <1>5, <3>1, <3>3 DEF Cancel
    <2>2. source' \in {"PARKED", "VOIDED", "COMPLETED"}
        BY <1>5 DEF Cancel, TypeOK
    <2>3. /\ published' \in SUBSET Nat /\ down' \in SUBSET Sales
          /\ up' = up /\ handover' = handover /\ reading' = reading
        BY <1>5, <2>1, PublishType DEF Cancel
    <2> QED
        BY <1>2, <1>5, <2>1, <2>2, <2>3 DEF Cancel, TypeOK
<1>6. CASE MoveFails(s)
    BY <1>6 DEF MoveFails, TypeOK, web, queue
<1> QED
    BY <1>1, <1>3, <1>4, <1>5, <1>6 DEF StaffStep

(* A change of the till's copy, with what else it may do to the types.      *)
LEMMA ChangedTillType ==
    ASSUME TypeOK, NEW copy \in Copies, Change(copy), handover' \in Handovers
    PROVE  TypeOK'
BY ChangeType DEF Change, TypeOK, web

(* Each of the till's own steps makes a copy that is one version on.        *)
NextCopy(copy) ==
    /\ Change(copy)
    /\ copy.version = till.version + 1
    /\ handover' \in Handovers

LEMMA TillChanges ==
    ASSUME TypeOK, TillStep, \A m \in down : ~Apply(m)
    PROVE  \E copy \in Copies : NextCopy(copy)
<1>1. /\ till \in Copies /\ till.paid \in Int /\ till.cash \in Int
      /\ till.version + 1 \in Nat /\ AtLeastZero(Total - till.paid) \in Nat
      /\ till.sent \in SUBSET Closings
    <2>1. till \in Copies
        BY DEF TillStep, ReceivePayment, ReleaseReservation, Close, Fulfil,
               OpenAtTill, TypeOK
    <2>2. Total - till.paid \in Int
        BY <2>1, OrderConstants DEF Copies
    <2> QED
        BY <2>1, <2>2, ProjectionIsNat DEF Copies
<1>2. handover \in Handovers
    BY DEF TypeOK
<1>3. ASSUME NEW amount \in 1 .. Total, ReceivePayment(amount)
      PROVE  \E copy \in Copies : NextCopy(copy)
    <2> DEFINE new == [till EXCEPT
            !.paid = @ + amount, !.balance = AtLeastZero(Total - (till.paid + amount)),
            !.cash = @ + amount, !.tendered = TRUE, !.version = @ + 1]
    <2>1. Change(new) /\ handover' = handover
        BY <1>3 DEF ReceivePayment
    <2>2. /\ Total - (till.paid + amount) \in Int
          /\ till.paid + amount \in Int /\ till.cash + amount \in Int
        BY <1>1, OrderConstants
    <2>3. AtLeastZero(Total - (till.paid + amount)) \in Nat /\ TRUE \in BOOLEAN
        BY <2>2, ProjectionIsNat
    <2>4. new \in Copies
        BY <1>1, <2>2, <2>3, CopyWith
    <2>5. new.version = till.version + 1
        BY <1>1 DEF Copies
    <2> HIDE DEF new
    <2> QED
        BY <1>2, <2>1, <2>4, <2>5 DEF NextCopy
<1>4. ASSUME ReleaseReservation PROVE \E copy \in Copies : NextCopy(copy)
    <2> DEFINE new == [till EXCEPT !.version = @ + 1]
    <2>1. new \in Copies /\ new.version = till.version + 1
        BY <1>1 DEF Copies
    <2> QED
        BY <1>2, <1>4, <2>1 DEF ReleaseReservation, NextCopy
<1>5. ASSUME NEW status \in Closings, NEW refund \in 0 .. Total, Close(status, refund)
      PROVE  \E copy \in Copies : NextCopy(copy)
    <2> DEFINE new == [till EXCEPT
            !.status = status, !.version = @ + 1, !.cash = @ - refund,
            !.tendered = @ \/ refund > 0, !.sent = @ \cup {status}]
    <2>1. Change(new) /\ handover' = handover
        BY <1>5 DEF Close
    <2>2. till.cash - refund \in Int /\ status \in SaleStatuses
        BY <1>1, OrderConstants DEF Closings
    <2>3. (till.tendered \/ refund > 0) \in BOOLEAN
        OBVIOUS
    <2>4. till.sent \cup {status} \in SUBSET Closings
        BY <1>1
    <2>5. new \in Copies
        BY <1>1, <2>2, <2>3, <2>4 DEF Copies
    <2>6. new.version = till.version + 1
        BY <1>1 DEF Copies
    <2> HIDE DEF new
    <2> QED
        BY <1>2, <2>1, <2>5, <2>6 DEF NextCopy
<1>6. ASSUME Fulfil PROVE \E copy \in Copies : NextCopy(copy)
    <2> DEFINE due == AtLeastZero(Total - till.paid)
    <2> DEFINE new == [till EXCEPT
            !.status = "FULFILLED", !.version = @ + 1, !.paid = till.cash + due,
            !.balance = 0, !.cash = till.cash + due, !.tendered = @ \/ due > 0,
            !.sent = @ \cup {"FULFILLED"}]
    <2>1. Change(new) /\ handover' \in Handovers
        BY <1>6 DEF Fulfil, Handovers
    <2>2. till.cash + due \in Int
        BY <1>1
    <2>3. (till.tendered \/ due > 0) \in BOOLEAN
        OBVIOUS
    <2>4. till.sent \cup {"FULFILLED"} \in SUBSET Closings
        BY <1>1 DEF Closings, SaleStatuses
    <2>5. "FULFILLED" \in SaleStatuses
        BY DEF SaleStatuses
    <2> HIDE DEF due
    <2>6. new \in Copies
        BY <1>1, <2>2, <2>3, <2>4, <2>5 DEF Copies
    <2>7. new.version = till.version + 1
        BY <1>1 DEF Copies
    <2> HIDE DEF new
    <2> QED
        BY <2>1, <2>6, <2>7 DEF NextCopy
<1> QED
    BY <1>3, <1>4, <1>5, <1>6 DEF TillStep

LEMMA TillType == ASSUME TypeOK, TillStep PROVE TypeOK'
<1>1. ASSUME NEW m \in down, Apply(m) PROVE TypeOK'
    <2>1. m \in Sales
        BY DEF TypeOK
    <2>2. CopyOf(m, 0, FALSE, {}) \in Copies
        BY <2>1 DEF CopyOf, Copies, Sales
    <2>3. ASSUME till # Nothing
          PROVE  CopyOf(m, till.cash, till.tendered, till.sent) \in Copies
        <3>1. till.cash \in Int /\ till.tendered \in BOOLEAN /\ till.sent \in SUBSET Closings
            BY <2>3 DEF TypeOK, Copies
        <3> QED
            BY <2>1, <3>1 DEF CopyOf, Copies, Sales
    <2>4. till' \in Copies \cup {Nothing}
        BY <1>1, <2>2, <2>3 DEF Apply, TypeOK, Older
    <2> QED
        BY <1>1, <2>4 DEF Apply, TypeOK, web
<1>2. CASE \A m \in down : ~Apply(m)
    BY <1>2, TillChanges, ChangedTillType DEF NextCopy
<1> QED
    BY <1>1, <1>2

LEMMA ProjectType == ASSUME TypeOK, Project PROVE TypeOK'
<1>1. ASSUME NEW m \in up, ReadPacket(m) PROVE TypeOK'
    <2>1. m \in Packets
        BY DEF TypeOK
    <2>2. reading' \in Packets \cup {Nothing} /\ up' \in SUBSET Packets
        BY <1>1, <2>1 DEF ReadPacket, TypeOK
    <2> QED
        BY <1>1, <2>2 DEF ReadPacket, TypeOK, web
<1>2. CASE ProjectOrder
    <2> DEFINE m == reading
               paid == AtLeastZero(m.paid)
    <2>1. m \in Packets
        BY <1>2 DEF ProjectOrder, TypeOK
    <2>2. paid \in Nat /\ m.balance \in Nat
        BY <2>1, ProjectionIsNat DEF Packets
    <2>3. [status |-> m.status, paid |-> paid,
           balance |-> m.balance, version |-> m.version] \in Sales
        BY <2>1, <2>2 DEF Packets, Sales
    <2>4. [order EXCEPT !.paid = paid, !.balance = m.balance] \in Orders
        BY <2>2 DEF TypeOK, Orders
    <2>5. sale' \in Sales /\ order' \in Orders
        BY <1>2, <2>3, <2>4 DEF ProjectOrder, TypeOK
    <2> QED
        BY <1>2, <2>5 DEF ProjectOrder, TypeOK
<1>3. CASE ReadSalePacket
    BY <1>3 DEF ReadSalePacket, TypeOK, Handovers, web
<1>4. CASE ReplaceSource
    BY <1>4 DEF ReplaceSource, TypeOK, Handovers
<1> QED
    BY <1>1, <1>2, <1>3, <1>4 DEF Project

LEMMA TypeInit == ASSUME Init PROVE TypeOK
<1>1. Total \in Nat
    BY OrderConstants
<1>2. NoPayment \in PaymentRecords
    BY <1>1 DEF NoPayment, PaymentRecords, PaymentStatuses
<1>3. order \in Orders /\ sale \in Sales
    BY <1>1 DEF Init, Orders, Sales, OrderStatuses, Transitions, SaleStatuses
<1> QED
    BY <1>2, <1>3 DEF Init, TypeOK, Handovers

LEMMA TypeStep == ASSUME TypeOK, [Next]_vars PROVE TypeOK'
<1>1. CASE UNCHANGED vars
    BY <1>1 DEF vars, web, queue, TypeOK
<1> QED
    BY <1>1, CustomerType, VerifyType, VerifyStepType, StaffType, TillType,
       ProjectType DEF Next

(* Every variable keeps its type.                                           *)
THEOREM TypeCorrect == Spec => []TypeOK
BY TypeInit, TypeStep, PTL DEF Spec

-----------------------------------------------------------------------------
(* What the steps of the till and of the projection leave alone.            *)
LEMMA TillFrame ==
    ASSUME TillStep
    PROVE  /\ UNCHANGED <<kind, web, call, task, published, reading>>
           /\ down # {} \/ till # Nothing
<1>1. ASSUME NEW copy, Change(copy)
      PROVE  UNCHANGED <<kind, web, call, task, published, reading>>
    BY <1>1 DEF Change
<1> QED
    BY <1>1 DEF TillStep, Apply, ReceivePayment, ReleaseReservation, Close, Fulfil,
               OpenAtTill

LEMMA ProjectFrame ==
    ASSUME Project
    PROVE  UNCHANGED <<kind, accepted, payment, call, task, published, till>>
BY DEF Project, ReadPacket, ProjectOrder, ReadSalePacket, ReplaceSource, web

(* The payments a verification is about.                                    *)
Vouched ==
    /\ \A p \in Payments :
         /\ payment[p].link \/ payment[p].captured => payment[p].status # "NONE"
         /\ payment[p].paidAt => payment[p].captured
    /\ \A v \in Verifiers : call[v] # Nothing =>
         /\ payment[call[v].payment].link
         /\ call[v].step \in {"check", "read", "write"} =>
              payment[call[v].payment].captured

(* No step takes back what a payment has reached, or changes its amount.    *)
Keeps(p) ==
    /\ payment'[p].status # "NONE"
    /\ payment'[p].amount = payment[p].amount
    /\ payment[p].link => payment'[p].link
    /\ payment[p].captured => payment'[p].captured
    /\ payment[p].paidAt => payment'[p].paidAt

LEMMA CallPays ==
    ASSUME TypeOK, NEW v \in Verifiers, call[v] # Nothing
    PROVE  call[v] \in Calls /\ call[v].payment \in Payments
BY DEF TypeOK, Calls

LEMMA PaymentsKeep ==
    ASSUME TypeOK, [Next]_vars, NEW p \in Payments, payment[p].status # "NONE"
    PROVE  Keeps(p)
<1>1. CASE payment' = payment
    BY <1>1 DEF Keeps
<1>2. ASSUME NEW q \in Payments, Customer(q) PROVE Keeps(p)
    <2>1. ASSUME NEW amount \in 1 .. Total, Initialize(q, amount) PROVE Keeps(p)
        BY <2>1 DEF Initialize, Keeps, TypeOK
    <2>2. payment[p] \in PaymentRecords
        BY DEF TypeOK
    <2>3. CASE CheckoutReady(q)
        BY <2>2, <2>3 DEF CheckoutReady, Keeps, TypeOK, PaymentRecords
    <2>4. CASE InitializationFails(q)
        BY <2>2, <2>4 DEF InitializationFails, Keeps, TypeOK, PaymentRecords
    <2>5. CASE Capture(q)
        BY <2>2, <2>5 DEF Capture, Keeps, TypeOK, PaymentRecords
    <2> QED
        BY <1>2, <2>1, <2>3, <2>4, <2>5 DEF Customer
<1>3. ASSUME NEW v \in Verifiers, VerifyStep(v), payment' # payment PROVE Keeps(p)
    <2>1. payment[p] \in PaymentRecords
        BY DEF TypeOK
    <2>2. CASE Refuse(v)
        BY <2>1, <2>2 DEF Refuse, Keeps, TypeOK, PaymentRecords
    <2>3. CASE RecordPayment(v)
        BY <2>1, <2>3 DEF RecordPayment, Keeps, TypeOK, PaymentRecords
    <2> QED
        BY <1>3, <2>2, <2>3 DEF VerifyStep, GatewayAnswers, GatewayFails, CheckPaid,
                                ReadSale, ReservationFails, RecordingFails, web
<1>4. ASSUME NEW s \in Staff, StaffStep(s) PROVE payment' = payment
    BY <1>4 DEF StaffStep, Decide, Accept, Advance, Cancel, MoveFails, web
<1> QED
    BY <1>1, <1>2, <1>3, <1>4, TillFrame, ProjectFrame
    DEF Next, Verify, vars, web

LEMMA VouchedStep == ASSUME TypeOK, Vouched, [Next]_vars PROVE Vouched'
<1>1. ASSUME NEW p \in Payments
      PROVE  /\ payment'[p].link \/ payment'[p].captured => payment'[p].status # "NONE"
             /\ payment'[p].paidAt => payment'[p].captured
    <2>1. CASE payment'[p] = payment[p]
        BY <2>1 DEF Vouched
    <2>2. payment[p] \in PaymentRecords
        BY DEF TypeOK
    <2>3. ASSUME NEW q \in Payments, Customer(q), payment'[p] # payment[p]
          PROVE  /\ payment'[p].link \/ payment'[p].captured => payment'[p].status # "NONE"
                 /\ payment'[p].paidAt => payment'[p].captured
        <3>1. p = q
            BY <2>3 DEF Customer, Initialize, CheckoutReady, InitializationFails,
                        Capture, TypeOK
        <3>2. ASSUME NEW amount \in 1 .. Total, Initialize(q, amount)
              PROVE  /\ payment'[p].status = "INITIALIZING"
                     /\ payment'[p].paidAt = payment[p].paidAt
                     /\ payment'[p].captured = payment[p].captured
            BY <2>2, <3>1, <3>2 DEF Initialize, TypeOK, PaymentRecords
        <3>3. CASE CheckoutReady(q)
            BY <2>2, <3>1, <3>3 DEF CheckoutReady, TypeOK, PaymentRecords, Vouched
        <3>4. CASE InitializationFails(q)
            BY <2>2, <3>1, <3>4 DEF InitializationFails, TypeOK, PaymentRecords, Vouched
        <3>5. CASE Capture(q)
            BY <2>2, <3>1, <3>5 DEF Capture, TypeOK, PaymentRecords, Vouched
        <3> QED
            BY <2>3, <3>2, <3>3, <3>4, <3>5 DEF Customer, Vouched
    <2>4. ASSUME NEW v \in Verifiers, VerifyStep(v), payment'[p] # payment[p]
          PROVE  /\ payment'[p].link \/ payment'[p].captured => payment'[p].status # "NONE"
                 /\ payment'[p].paidAt => payment'[p].captured
        <3>1. CASE Refuse(v)
            BY <2>2, <2>4, <3>1 DEF Refuse, TypeOK, PaymentRecords, Vouched
        <3>2. CASE RecordPayment(v)
            <4>1. p = call[v].payment
                BY <2>4, <3>2 DEF RecordPayment, TypeOK
            <4>2. payment[p].captured
                BY <3>2, <4>1 DEF RecordPayment, Vouched
            <4> QED
                BY <2>2, <3>2, <4>1, <4>2 DEF RecordPayment, TypeOK, PaymentRecords
        <3> QED
            BY <2>4, <3>1, <3>2 DEF VerifyStep, GatewayAnswers, GatewayFails, CheckPaid,
                                    ReadSale, ReservationFails, RecordingFails, web
    <2>5. ASSUME NEW s \in Staff, StaffStep(s) PROVE payment' = payment
        BY <2>5 DEF StaffStep, Decide, Accept, Advance, Cancel, MoveFails, web
    <2> QED
        BY <2>1, <2>3, <2>4, <2>5, TillFrame, ProjectFrame DEF Next, Verify, vars, web
<1>2. ASSUME NEW v \in Verifiers, call'[v] # Nothing
      PROVE  /\ payment'[call'[v].payment].link
             /\ call'[v].step \in {"check", "read", "write"} =>
                  payment'[call'[v].payment].captured
    <2>1. CASE call'[v] = call[v]
        <3>1. call[v].payment \in Payments
            BY <1>2, <2>1, CallPays
        <3>2. /\ payment[call[v].payment].link
              /\ call[v].step \in {"check", "read", "write"} =>
                   payment[call[v].payment].captured
            BY <1>2, <2>1 DEF Vouched
        <3>3. payment[call[v].payment].status # "NONE"
            BY <3>1, <3>2 DEF Vouched
        <3> QED
            BY <2>1, <3>1, <3>2, <3>3, PaymentsKeep DEF Keeps
    <2>2. ASSUME NEW w \in Verifiers, NEW p \in Payments, Verify(w, p), call'[v] # call[v]
          PROVE  /\ payment'[call'[v].payment].link
                 /\ call'[v].step \in {"check", "read", "write"} =>
                      payment'[call'[v].payment].captured
        BY <2>2 DEF Verify, TypeOK, web
    <2>3. ASSUME NEW w \in Verifiers, VerifyStep(w), call'[v] # call[v]
          PROVE  /\ payment'[call'[v].payment].link
                 /\ call'[v].step \in {"check", "read", "write"} =>
                      payment'[call'[v].payment].captured
        <3>1. w = v
            BY <2>3 DEF VerifyStep, GatewayAnswers, GatewayFails, Refuse, CheckPaid,
                        ReadSale, ReservationFails, RecordPayment, RecordingFails, TypeOK
        <3>2. call[v] # Nothing
            BY <2>3, <3>1 DEF VerifyStep, GatewayAnswers, GatewayFails, Refuse, CheckPaid,
                        ReadSale, ReservationFails, RecordPayment, RecordingFails
        <3>3. call[v] \in Calls
            BY <3>2, CallPays
        <3>4. CASE GatewayAnswers(v)
            BY <3>2, <3>3, <3>4 DEF GatewayAnswers, TypeOK, Calls, Vouched, web
        <3>5. CASE CheckPaid(v)
            BY <1>2, <3>2, <3>3, <3>5 DEF CheckPaid, TypeOK, Calls, Vouched, web
        <3>6. CASE ReadSale(v)
            BY <1>2, <3>2, <3>3, <3>6 DEF ReadSale, TypeOK, Calls, Vouched, web
        <3> QED
            BY <1>2, <2>3, <3>1, <3>4, <3>5, <3>6
            DEF VerifyStep, GatewayFails, Refuse, ReservationFails, RecordPayment,
                RecordingFails, TypeOK
    <2>4. ASSUME NEW s \in Staff, StaffStep(s) PROVE call' = call
        BY <2>4 DEF StaffStep, Decide, Accept, Advance, Cancel, MoveFails
    <2>5. ASSUME NEW p \in Payments, Customer(p) PROVE call' = call
        BY <2>5 DEF Customer, Initialize, CheckoutReady, InitializationFails, Capture
    <2> QED
        BY <2>1, <2>2, <2>3, <2>4, <2>5, TillFrame, ProjectFrame DEF Next, vars
<1> QED
    BY <1>1, <1>2 DEF Vouched

-----------------------------------------------------------------------------
(* One payment row.                                                         *)
LEMMA RecordedStep ==
    ASSUME TypeOK, Vouched, RecordedOnce, [Next]_vars PROVE RecordedOnce'
<1>1. CASE UNCHANGED <<rows, payment, source>>
    BY <1>1 DEF RecordedOnce
<1>2. ASSUME NEW q \in Payments, Customer(q) PROVE RecordedOnce'
    <2>1. rows' = rows /\ source' = source
        BY <1>2 DEF Customer, Initialize, CheckoutReady, InitializationFails, Capture
    <2>2. ASSUME NEW p \in Payments
          PROVE  /\ payment[p].captured => payment'[p].captured
                 /\ payment'[p].paidAt = payment[p].paidAt
        <3>1. payment[p] \in PaymentRecords
            BY DEF TypeOK
        <3>2. ASSUME NEW amount \in 1 .. Total, Initialize(q, amount)
              PROVE  /\ payment[p].captured => payment'[p].captured
                     /\ payment'[p].paidAt = payment[p].paidAt
            BY <3>1, <3>2 DEF Initialize, TypeOK, PaymentRecords
        <3>3. CASE CheckoutReady(q)
            BY <3>1, <3>3 DEF CheckoutReady, TypeOK, PaymentRecords
        <3>4. CASE InitializationFails(q)
            BY <3>1, <3>4 DEF InitializationFails, TypeOK, PaymentRecords
        <3>5. CASE Capture(q)
            BY <3>1, <3>5 DEF Capture, TypeOK, PaymentRecords
        <3> QED
            BY <1>2, <3>2, <3>3, <3>4, <3>5 DEF Customer
    <2> QED
        BY <2>1, <2>2 DEF RecordedOnce
<1>3. ASSUME NEW v \in Verifiers, Refuse(v) PROVE RecordedOnce'
    <2>1. ASSUME NEW p \in Payments
          PROVE  /\ payment'[p].captured = payment[p].captured
                 /\ payment'[p].paidAt = payment[p].paidAt
        <3>1. payment[p] \in PaymentRecords
            BY DEF TypeOK
        <3> QED
            BY <1>3, <3>1 DEF Refuse, TypeOK, PaymentRecords
    <2> QED
        BY <1>3, <2>1 DEF Refuse, RecordedOnce
<1>4. ASSUME NEW v \in Verifiers, RecordPayment(v) PROVE RecordedOnce'
    <2> DEFINE q == call[v].payment
    <2>1. q \in Payments /\ payment[q].captured
        BY <1>4, CallPays DEF RecordPayment, Vouched
    <2>2. source' = source
        BY <1>4 DEF RecordPayment
    <2>3. ASSUME NEW p \in Payments
          PROVE  /\ payment'[p].captured = payment[p].captured
                 /\ p # q => payment'[p].paidAt = payment[p].paidAt /\ rows'[p] = rows[p]
        <3>1. payment[p] \in PaymentRecords
            BY DEF TypeOK
        <3> QED
            BY <1>4, <3>1 DEF RecordPayment, TypeOK, PaymentRecords
    <2>4. rows[q] \in Nat /\ rows[q] <= 1
        BY <2>1 DEF TypeOK, RecordedOnce
    <2>5. rows'[q] = 1
        BY <1>4, <2>1, <2>4 DEF RecordPayment, NeedsRow, TypeOK
    <2> QED
        BY <2>1, <2>2, <2>3, <2>5 DEF RecordedOnce
<1>5. ASSUME NEW s \in Staff, Cancel(s) PROVE RecordedOnce'
    BY <1>5 DEF Cancel, RecordedOnce
<1>6. CASE ReplaceSource
    BY <1>6 DEF ReplaceSource, RecordedOnce
<1>7. ASSUME NEW v \in Verifiers, VerifyStep(v), ~Refuse(v), ~RecordPayment(v)
      PROVE  UNCHANGED <<rows, payment, source>>
    BY <1>7 DEF VerifyStep, GatewayAnswers, GatewayFails, CheckPaid, ReadSale,
                ReservationFails, RecordingFails, web
<1>8. ASSUME NEW s \in Staff, StaffStep(s), ~Cancel(s)
      PROVE  UNCHANGED <<rows, payment, source>>
    BY <1>8 DEF StaffStep, Decide, Accept, Advance, MoveFails, web
<1>9. ASSUME Project, ~ReplaceSource PROVE UNCHANGED <<rows, payment, source>>
    BY <1>9 DEF Project, ReadPacket, ProjectOrder, ReadSalePacket, web
<1> QED
    BY <1>1, <1>2, <1>3, <1>4, <1>5, <1>6, <1>7, <1>8, <1>9, TillFrame
    DEF Next, Verify, vars, web

-----------------------------------------------------------------------------
(* An order that is not accepted is at HQ only, and nothing is under way    *)
(* that would publish it or move it past acceptance.                        *)
Unaccepted ==
    /\ published = {} /\ down = {} /\ up = {} /\ till = Nothing /\ reading = Nothing
    /\ order.status \in {"PLACED", "CANCELLED"}
    /\ order.status = "CANCELLED" => sale.status # "OPEN"
    /\ \A s \in Staff : task[s] # Nothing =>
         task[s].from = "PLACED" /\ task[s].to \in {"CONFIRMED", "CANCELLED"}
    /\ \A v \in Verifiers : call[v] # Nothing /\ call[v].seen # "PLACED" =>
         call[v].step # "write" /\ sale.status # "OPEN"

Released == ~accepted => Unaccepted

(* The verifications' part of it.                                           *)
LEMMA UnacceptedVerification ==
    ASSUME TypeOK, Unaccepted, NEW v \in Verifiers, VerifyStep(v)
    PROVE  Unaccepted'
<1>1. /\ call[v] \in Calls /\ call[v] # Nothing
    BY CallPays DEF VerifyStep, GatewayAnswers, GatewayFails, Refuse, CheckPaid,
        ReadSale, ReservationFails, RecordPayment, RecordingFails
<1>2. UNCHANGED <<queue, till, task, order.status, sale.status>>
    <2>1. CASE RecordPayment(v)
        <3>1. call[v].seen = "PLACED"
            BY <2>1 DEF RecordPayment, Unaccepted
        <3>2. order'.status = order.status
            BY <2>1 DEF RecordPayment, TypeOK, Orders
        <3>3. sale'.status = sale.status
            BY <2>1 DEF RecordPayment, TypeOK, Sales
        <3> QED
            BY <2>1, <3>1, <3>2, <3>3 DEF RecordPayment, PublishIf
    <2>2. CASE ~RecordPayment(v)
        BY <2>2 DEF VerifyStep, GatewayAnswers, GatewayFails, Refuse, CheckPaid,
                    ReadSale, ReservationFails, RecordingFails, web
    <2> QED
        BY <2>1, <2>2
<1>3. ASSUME NEW w \in Verifiers, call'[w] # Nothing, call'[w].seen # "PLACED"
      PROVE  call'[w].step # "write" /\ sale'.status # "OPEN"
    <2>1. CASE call'[w] = call[w]
        BY <1>2, <1>3, <2>1 DEF Unaccepted
    <2>2. CASE call'[w] # call[w]
        <3>1. w = v
            BY <2>2 DEF VerifyStep, GatewayAnswers, GatewayFails, Refuse, CheckPaid,
                        ReadSale, ReservationFails, RecordPayment, RecordingFails, TypeOK
        <3>2. CASE GatewayAnswers(v)
            BY <1>1, <1>2, <1>3, <3>1, <3>2 DEF GatewayAnswers, TypeOK, Calls, Unaccepted
        <3>3. CASE CheckPaid(v)
            BY <1>1, <1>2, <1>3, <3>1, <3>3 DEF CheckPaid, TypeOK, Calls, Unaccepted
        <3>4. CASE ReadSale(v)
            BY <1>1, <1>2, <1>3, <3>1, <3>4 DEF ReadSale, TypeOK, Calls, Unaccepted
        <3> QED
            BY <1>3, <3>1, <3>2, <3>3, <3>4
            DEF VerifyStep, GatewayFails, Refuse, ReservationFails, RecordPayment,
                RecordingFails, TypeOK
    <2> QED
        BY <2>1, <2>2
<1> QED
    BY <1>2, <1>3 DEF Unaccepted, queue

LEMMA ReleasedStep ==
    ASSUME TypeOK, Released, [Next]_vars PROVE Released'
<1> SUFFICES ASSUME ~accepted' PROVE Unaccepted'
    BY DEF Released
<1>1. accepted' \in BOOLEAN /\ ~accepted
    <2>1. ASSUME NEW s \in Staff, StaffStep(s) PROVE accepted => accepted'
        BY <2>1 DEF StaffStep, Decide, Accept, Advance, Cancel, MoveFails, web
    <2>2. ASSUME NEW v \in Verifiers, VerifyStep(v) PROVE accepted' = accepted
        BY <2>2 DEF VerifyStep, GatewayAnswers, GatewayFails, Refuse, CheckPaid,
                    ReadSale, ReservationFails, RecordPayment, RecordingFails, web
    <2>3. ASSUME NEW p \in Payments, Customer(p) PROVE accepted' = accepted
        BY <2>3 DEF Customer, Initialize, CheckoutReady, InitializationFails, Capture
    <2>4. accepted => accepted'
        BY <2>1, <2>2, <2>3, TillFrame, ProjectFrame DEF Next, Verify, vars, web
    <2> QED
        BY <2>4, TypeStep DEF TypeOK
<1>2. Unaccepted
    BY <1>1 DEF Released
<1>3. CASE UNCHANGED vars
    BY <1>2, <1>3 DEF vars, web, queue, Unaccepted
<1>4. ASSUME NEW p \in Payments, Customer(p) PROVE Unaccepted'
    BY <1>2, <1>4 DEF Customer, Initialize, CheckoutReady, InitializationFails, Capture,
                      queue, Unaccepted
<1>5. ASSUME NEW v \in Verifiers, NEW p \in Payments, Verify(v, p) PROVE Unaccepted'
    <2>1. ASSUME NEW w \in Verifiers, call'[w] # Nothing, call'[w].seen # "PLACED"
          PROVE  call'[w].step # "write" /\ sale'.status # "OPEN"
        <3>1. CASE w = v
            BY <1>2, <1>5, <2>1, <3>1 DEF Verify, web, TypeOK, Unaccepted
        <3>2. CASE w # v
            BY <1>2, <1>5, <2>1, <3>2 DEF Verify, web, TypeOK, Unaccepted
        <3> QED
            BY <3>1, <3>2
    <2> QED
        BY <1>2, <1>5, <2>1 DEF Verify, web, queue, Unaccepted
<1>6. ASSUME NEW v \in Verifiers, VerifyStep(v) PROVE Unaccepted'
    BY <1>2, <1>6, UnacceptedVerification
<1>7. ASSUME NEW s \in Staff, StaffStep(s) PROVE Unaccepted'
    <2>1. ASSUME NEW to \in OrderStatuses, Decide(s, to) PROVE Unaccepted'
        <3>1. order.status = "PLACED" /\ to \in {"CONFIRMED", "CANCELLED"}
            BY <1>2, <2>1 DEF Decide, Unaccepted, Transitions
        <3> QED
            BY <1>2, <2>1, <3>1 DEF Decide, TypeOK, Unaccepted, web, queue
    <2>2. ~Accept(s)
        BY DEF Accept
    <2>3. ~Advance(s)
        BY <1>2 DEF Advance, Unaccepted
    <2>4. CASE Cancel(s)
        <3>1. queue' = queue /\ order'.status = "CANCELLED" /\ sale'.status # "OPEN"
            BY <1>2, <2>4 DEF Cancel, MoveOrder, PublishIf, Unaccepted, TypeOK, Orders, Sales
        <3>2. \A w \in Staff : task'[w] = task[w] \/ task'[w] = Nothing
            BY <2>4 DEF Cancel, MoveOrder, TypeOK
        <3>3. call' = call /\ till' = till
            BY <2>4 DEF Cancel
        <3> QED
            BY <1>2, <3>1, <3>2, <3>3 DEF Unaccepted, queue
    <2>5. CASE MoveFails(s)
        BY <1>2, <2>5 DEF MoveFails, TypeOK, Unaccepted, web, queue
    <2> QED
        BY <1>7, <2>1, <2>2, <2>3, <2>4, <2>5 DEF StaffStep
<1>8. ~TillStep
    BY <1>2, TillFrame DEF Unaccepted
<1>9. CASE Project
    BY <1>2, <1>9 DEF Project, ReadPacket, ProjectOrder, ReadSalePacket, ReplaceSource,
                      Unaccepted, web
<1> QED
    BY <1>3, <1>4, <1>5, <1>6, <1>7, <1>8, <1>9 DEF Next

-----------------------------------------------------------------------------
(* Until a payment opened the order, nothing counts as paid: so the next    *)
(* payment must be one that opens it, and nobody has accepted the order.    *)
Unopened ==
    /\ sale.paid = 0 /\ order.paid = 0 /\ order.balance = Total
    /\ ~accepted
    /\ \A p \in Payments : payment[p].status # "NONE" => payment[p].amount >= Opening
    /\ \A s \in Staff : task[s] # Nothing => task[s].to # "CONFIRMED"

Opened == ~OpenedWithMoney => Unopened

LEMMA KindStays == ASSUME [Next]_vars PROVE kind' = kind
<1>1. ASSUME NEW p \in Payments, Customer(p) PROVE kind' = kind
    BY <1>1 DEF Customer, Initialize, CheckoutReady, InitializationFails, Capture
<1>2. ASSUME NEW v \in Verifiers, VerifyStep(v) PROVE kind' = kind
    BY <1>2 DEF VerifyStep, GatewayAnswers, GatewayFails, Refuse, CheckPaid, ReadSale,
                ReservationFails, RecordPayment, RecordingFails
<1>3. ASSUME NEW s \in Staff, StaffStep(s) PROVE kind' = kind
    BY <1>3 DEF StaffStep, Decide, Accept, Advance, Cancel, MoveFails
<1> QED
    BY <1>1, <1>2, <1>3, TillFrame, ProjectFrame DEF Next, Verify, vars

LEMMA OpenedForGood ==
    ASSUME TypeOK, Vouched, [Next]_vars, OpenedWithMoney PROVE OpenedWithMoney'
<1>1. PICK p \in Payments :
        payment[p].paidAt /\ payment[p].captured /\ payment[p].amount >= Opening
    BY DEF OpenedWithMoney
<1>2. payment[p].status # "NONE"
    BY <1>1 DEF Vouched
<1>3. Keeps(p)
    BY <1>2, PaymentsKeep
<1>4. Opening' = Opening
    BY KindStays DEF Opening
<1> QED
    BY <1>1, <1>3, <1>4 DEF Keeps, OpenedWithMoney

(* Recording a payment opens an order that was not.                         *)
LEMMA RecordingOpens ==
    ASSUME TypeOK, Vouched, Unopened, NEW v \in Verifiers, RecordPayment(v)
    PROVE  OpenedWithMoney'
<1> DEFINE p == call[v].payment
<1>1. p \in Payments /\ payment[p].captured
    BY CallPays DEF RecordPayment, Vouched
<1>2. payment[p].amount >= Opening
    BY <1>1 DEF Vouched, Unopened
<1>3. payment[p] \in PaymentRecords
    BY <1>1 DEF TypeOK
<1>4. /\ payment'[p].paidAt /\ payment'[p].captured
      /\ payment'[p].amount = payment[p].amount
    BY <1>1, <1>3 DEF RecordPayment, TypeOK, PaymentRecords
<1>5. Opening' = Opening
    BY DEF RecordPayment, Opening
<1> QED
    BY <1>1, <1>2, <1>4, <1>5 DEF OpenedWithMoney

LEMMA OpenedStep ==
    ASSUME TypeOK, Vouched, Released, Opened, [Next]_vars PROVE Opened'
<1> SUFFICES ASSUME ~OpenedWithMoney' PROVE Unopened'
    BY DEF Opened
<1>1. Unopened
    BY OpenedForGood DEF Opened
<1>2. reading = Nothing
    BY <1>1 DEF Unopened, Released, Unaccepted
<1>3. Opening' = Opening
    BY KindStays DEF Opening
<1>4. CASE UNCHANGED <<order, sale, accepted, payment, task>>
    BY <1>1, <1>3, <1>4 DEF Unopened
<1>5. ASSUME NEW q \in Payments, Customer(q) PROVE Unopened'
    <2>1. UNCHANGED <<order, sale, accepted, task>>
        BY <1>5 DEF Customer, Initialize, CheckoutReady, InitializationFails, Capture
    <2>2. ASSUME NEW p \in Payments, payment'[p].status # "NONE"
          PROVE  payment'[p].amount >= Opening
        <3>1. CASE payment[p].status # "NONE"
            BY <1>1, <3>1, PaymentsKeep DEF Keeps, Unopened
        <3>2. CASE payment[p].status = "NONE"
            <4>1. payment[p] \in PaymentRecords
                BY DEF TypeOK
            <4>2. PICK amount \in 1 .. Total : Initialize(q, amount) /\ p = q
                <5>1. payment'[p] # payment[p]
                    BY <2>2, <3>2
                <5>2. CASE CheckoutReady(q)
                    BY <3>2, <5>1, <5>2 DEF CheckoutReady, TypeOK
                <5>3. CASE InitializationFails(q)
                    BY <3>2, <5>1, <5>3 DEF InitializationFails, TypeOK
                <5>4. CASE Capture(q)
                    BY <2>2, <3>2, <4>1, <5>1, <5>4 DEF Capture, TypeOK, PaymentRecords
                <5>5. ASSUME NEW amount \in 1 .. Total, Initialize(q, amount) PROVE p = q
                    BY <5>1, <5>5 DEF Initialize, TypeOK
                <5> QED
                    BY <1>5, <5>2, <5>3, <5>4, <5>5 DEF Customer
            <4>3. payment'[p].amount = amount
                BY <4>1, <4>2 DEF Initialize, TypeOK, PaymentRecords
            <4>4. amount >= Opening
                BY <1>1, <4>2, OrderConstants
                DEF Initialize, Opening, Unopened, TypeOK, Kinds
            <4> QED
                BY <4>3, <4>4
        <3> QED
            BY <3>1, <3>2
    <2> QED
        BY <1>1, <1>3, <2>1, <2>2 DEF Unopened
<1>6. ASSUME NEW v \in Verifiers, VerifyStep(v) PROVE Unopened'
    <2>1. ~RecordPayment(v)
        BY <1>1, RecordingOpens
    <2>2. CASE Refuse(v)
        <3>1. UNCHANGED <<order, sale, accepted, task>>
            BY <2>2 DEF Refuse
        <3>2. ASSUME NEW p \in Payments, payment'[p].status # "NONE"
              PROVE  payment'[p].amount >= Opening
            <4>1. payment[p].status # "NONE"
                <5>1. CASE p = call[v].payment
                    BY <2>2, <5>1 DEF Refuse, Vouched
                <5>2. CASE p # call[v].payment
                    BY <2>2, <3>2, <5>2 DEF Refuse, TypeOK
                <5> QED
                    BY <5>1, <5>2
            <4> QED
                BY <1>1, <4>1, PaymentsKeep DEF Keeps, Unopened
        <3> QED
            BY <1>1, <1>3, <3>1, <3>2 DEF Unopened
    <2>3. CASE ~Refuse(v)
        BY <1>4, <1>6, <2>1, <2>3
        DEF VerifyStep, GatewayAnswers, GatewayFails, CheckPaid, ReadSale,
            ReservationFails, RecordingFails, web
    <2> QED
        BY <2>2, <2>3
<1>7. ASSUME NEW s \in Staff, StaffStep(s) PROVE Unopened'
    <2>1. ASSUME NEW to \in OrderStatuses, Decide(s, to) PROVE Unopened'
        <3>1. ~Acceptable
            BY <1>1, OrderConstants DEF Unopened, Acceptable, FullyPaid
        <3>2. to # "CONFIRMED"
            BY <2>1, <3>1 DEF Decide
        <3> QED
            BY <1>1, <1>3, <2>1, <3>2 DEF Decide, TypeOK, Unopened, web
    <2>2. ~Accept(s)
        BY <1>1 DEF Accept, Unopened
    <2>3. ASSUME MoveOrder(s)
          PROVE  /\ order'.paid = order.paid /\ order'.balance = order.balance
                 /\ \A w \in Staff : task'[w] = task[w] \/ task'[w] = Nothing
        BY <2>3 DEF MoveOrder, TypeOK, Orders
    <2>4. CASE Advance(s)
        BY <1>1, <1>3, <2>3, <2>4 DEF Advance, Unopened
    <2>5. CASE Cancel(s)
        <3>1. sale'.paid = sale.paid
            BY <2>5 DEF Cancel, TypeOK, Sales
        <3> QED
            BY <1>1, <1>3, <2>3, <2>5, <3>1 DEF Cancel, Unopened
    <2>6. CASE MoveFails(s)
        BY <1>1, <1>3, <2>6 DEF MoveFails, TypeOK, Unopened, web
    <2> QED
        BY <1>7, <2>1, <2>2, <2>4, <2>5, <2>6 DEF StaffStep
<1>8. CASE Project
    BY <1>2, <1>4, <1>8 DEF Project, ReadPacket, ProjectOrder, ReadSalePacket,
                            ReplaceSource, web
<1> QED
    BY <1>4, <1>5, <1>6, <1>7, <1>8, TillFrame DEF Next, Verify, vars, web

-----------------------------------------------------------------------------
(* The customer's view.                                                     *)
LEMMA SeesStep ==
    ASSUME TypeOK, CustomerSeesSale, [Next]_vars PROVE CustomerSeesSale'
<1>1. CASE UNCHANGED <<order, sale>>
    BY <1>1 DEF CustomerSeesSale
<1>2. ASSUME NEW v \in Verifiers, RecordPayment(v) PROVE CustomerSeesSale'
    BY <1>2 DEF RecordPayment, CustomerSeesSale, TypeOK, Orders, Sales
<1>3. ASSUME NEW s \in Staff, Accept(s) \/ Advance(s) \/ Cancel(s)
      PROVE  CustomerSeesSale'
    <2>1. order'.paid = order.paid /\ order'.balance = order.balance
        BY <1>3 DEF Accept, Advance, Cancel, MoveOrder, TypeOK, Orders
    <2>2. sale' = sale \/ sale'.status = "CANCELLED"
        BY <1>3 DEF Accept, Advance, Cancel, TypeOK, Sales
    <2> QED
        BY <2>1, <2>2 DEF CustomerSeesSale
<1>4. CASE ProjectOrder
    BY <1>4 DEF ProjectOrder, Shown, CustomerSeesSale, TypeOK, Orders
<1>5. ASSUME NEW p \in Payments, Customer(p) PROVE UNCHANGED <<order, sale>>
    BY <1>5 DEF Customer, Initialize, CheckoutReady, InitializationFails, Capture
<1>6. ASSUME NEW v \in Verifiers, VerifyStep(v), ~RecordPayment(v)
      PROVE  UNCHANGED <<order, sale>>
    BY <1>6 DEF VerifyStep, GatewayAnswers, GatewayFails, Refuse, CheckPaid, ReadSale,
                ReservationFails, RecordingFails, web
<1>7. ASSUME NEW s \in Staff, StaffStep(s), ~(Accept(s) \/ Advance(s) \/ Cancel(s))
      PROVE  UNCHANGED <<order, sale>>
    BY <1>7 DEF StaffStep, Decide, MoveFails, web
<1>8. ASSUME Project, ~ProjectOrder PROVE UNCHANGED <<order, sale>>
    BY <1>8 DEF Project, ReadPacket, ReadSalePacket, ReplaceSource, web
<1> QED
    BY <1>1, <1>2, <1>3, <1>4, <1>5, <1>6, <1>7, <1>8, TillFrame
    DEF Next, Verify, vars, web

(* The till's copy.                                                         *)
LEMMA TillStepForward ==
    ASSUME TypeOK, [Next]_vars, till # Nothing
    PROVE  till' # Nothing /\ till'.version >= till.version
<1>1. till \in Copies /\ till.version \in Nat
    BY DEF TypeOK, Copies
<1>2. CASE till' = till
    BY <1>1, <1>2
<1>3. ASSUME NEW m \in down, Apply(m)
      PROVE  till' # Nothing /\ till'.version >= till.version
    <2>1. m.version \in Nat
        BY DEF TypeOK, Sales
    <2>2. CASE ~Older(m)
        <3>1. till' = CopyOf(m, till.cash, till.tendered, till.sent)
            BY <1>3, <2>2 DEF Apply
        <3>2. till'.version = m.version
            BY <3>1 DEF CopyOf
        <3>3. till' \in Copies \cup {Nothing}
            BY TypeStep DEF TypeOK
        <3>4. till' # Nothing
            <4>1. m \in Sales /\ till.cash \in Int /\ till.tendered \in BOOLEAN
                  /\ till.sent \in SUBSET Closings
                BY <1>1 DEF TypeOK, Copies
            <4>2. till' \in Copies
                BY <3>1, <4>1 DEF CopyOf, Copies, Sales
            <4> QED
                BY <4>2, NothingIsNoCopy
        <3> QED
            BY <1>1, <2>1, <2>2, <3>2, <3>4 DEF Older
    <2> QED
        BY <1>2, <1>3, <2>2 DEF Apply
<1>4. ASSUME TillStep, \A m \in down : ~Apply(m)
      PROVE  till' # Nothing /\ till'.version >= till.version
    <2>1. PICK copy \in Copies : NextCopy(copy)
        BY <1>4, TillChanges
    <2>2. till' = copy
        BY <2>1 DEF NextCopy, Change
    <2> QED
        BY <1>1, <2>1, <2>2, NothingIsNoCopy DEF NextCopy
<1>5. ASSUME NEW p \in Payments, Customer(p) PROVE till' = till
    BY <1>5 DEF Customer, Initialize, CheckoutReady, InitializationFails, Capture
<1>6. ASSUME NEW v \in Verifiers, VerifyStep(v) PROVE till' = till
    BY <1>6 DEF VerifyStep, GatewayAnswers, GatewayFails, Refuse, CheckPaid, ReadSale,
                ReservationFails, RecordPayment, RecordingFails
<1>7. ASSUME NEW s \in Staff, StaffStep(s) PROVE till' = till
    BY <1>7 DEF StaffStep, Decide, Accept, Advance, Cancel, MoveFails
<1> QED
    BY <1>2, <1>3, <1>4, <1>5, <1>6, <1>7, ProjectFrame DEF Next, Verify, vars
-----------------------------------------------------------------------------
Inv ==
    /\ TypeOK
    /\ Vouched
    /\ RecordedOnce
    /\ Released
    /\ Opened
    /\ CustomerSeesSale

LEMMA InvInit == Init => Inv
<1> SUFFICES ASSUME Init PROVE Inv
    OBVIOUS
<1>1. TypeOK
    BY TypeInit
<1>2. Vouched /\ RecordedOnce
    BY DEF Init, Vouched, RecordedOnce, NoPayment
<1>3. Released
    BY DEF Init, Released, Unaccepted
<1>4. Opened
    BY DEF Init, Opened, Unopened, NoPayment
<1>5. CustomerSeesSale
    BY DEF Init, CustomerSeesSale
<1> QED
    BY <1>1, <1>2, <1>3, <1>4, <1>5 DEF Inv

LEMMA InvStep == Inv /\ [Next]_vars => Inv'
BY TypeStep, VouchedStep, RecordedStep, ReleasedStep, OpenedStep, SeesStep DEF Inv

(* The invariant the theorems below are read off.                           *)
THEOREM OrderInvariant == Spec => []Inv
BY InvInit, InvStep, PTL DEF Spec

(* A payment is recorded in one payment row, of money the gateway has,      *)
(* however many verifications of it run at once.                            *)
THEOREM PaymentsRecordedOnce == Spec => []RecordedOnce
<1>1. Inv => RecordedOnce
    BY DEF Inv
<1> QED
    BY OrderInvariant, <1>1, PTL

(* Staff accept no order that no payment has opened.                        *)
THEOREM AcceptanceIsPaid == Spec => []AcceptedWithMoney
<1>1. Inv => AcceptedWithMoney
    BY DEF Inv, Opened, Unopened, AcceptedWithMoney
<1> QED
    BY OrderInvariant, <1>1, PTL

(* Nothing of an order is published before it is accepted.                  *)
THEOREM TillFollowsAcceptance == Spec => []TillOnlyAfterAcceptance
<1>1. Inv => TillOnlyAfterAcceptance
    BY DEF Inv, Released, Unaccepted, TillOnlyAfterAcceptance
<1> QED
    BY OrderInvariant, <1>1, PTL

(* The customer's order shows the sales order's amounts.                    *)
THEOREM CustomerSeesTheSale == Spec => []CustomerSeesSale
<1>1. Inv => CustomerSeesSale
    BY DEF Inv
<1> QED
    BY OrderInvariant, <1>1, PTL

(* The till's copy is never replaced by an older one.                       *)
THEOREM TillForward == Spec => TillNeverGoesBack
<1>1. Inv /\ [Next]_vars =>
        [till # Nothing => till' # Nothing /\ till'.version >= till.version]_till
    BY TillStepForward DEF Inv
<1> QED
    BY OrderInvariant, <1>1, PTL DEF Spec, TillNeverGoesBack

-----------------------------------------------------------------------------
(* OnlineOrder implements PrepaidOrder.                                     *)
Held     == {p \in Payments : payment[p].captured}
Recorded == {p \in Payments : payment[p].paidAt}

LEMMA InitKeepsPromise == Init => Prepaid!Init
BY DEF Init, Prepaid!Init, NoPayment

(* The gateway's money, and the rows that record it, change in four steps.  *)
LEMMA CustomerKeepsPromise ==
    ASSUME Inv, NEW p \in Payments, Customer(p)
    PROVE  [Prepaid!Next]_(Prepaid!vars)
<1>1. payment[p] \in PaymentRecords
    BY DEF Inv, TypeOK
<1>2. UNCHANGED <<accepted, till>>
    BY DEF Customer, Initialize, CheckoutReady, InitializationFails, Capture
<1>3. ASSUME ~Capture(p) PROVE Held' = Held /\ Recorded' = Recorded
    <2>1. ASSUME NEW q \in Payments
          PROVE  /\ payment'[q].captured = payment[q].captured
                 /\ payment'[q].paidAt = payment[q].paidAt
        <3>1. ASSUME NEW amount \in 1 .. Total, Initialize(p, amount)
              PROVE  /\ payment'[q].captured = payment[q].captured
                     /\ payment'[q].paidAt = payment[q].paidAt
            BY <1>1, <3>1 DEF Initialize, Inv, TypeOK, PaymentRecords
        <3>2. CASE CheckoutReady(p)
            BY <1>1, <3>2 DEF CheckoutReady, Inv, TypeOK, PaymentRecords
        <3>3. CASE InitializationFails(p)
            BY <1>1, <3>3 DEF InitializationFails, Inv, TypeOK, PaymentRecords
        <3> QED
            BY <1>3, <3>1, <3>2, <3>3 DEF Customer
    <2> QED
        BY <2>1 DEF Held, Recorded
<1>4. CASE Capture(p)
    <2>1. payment' = [payment EXCEPT ![p].captured = TRUE] /\ p \notin Held
        BY <1>4 DEF Capture, Held
    <2>2. Held' = Held \cup {p} /\ Recorded' = Recorded
        BY <1>1, <2>1 DEF Held, Recorded, Inv, TypeOK, PaymentRecords
    <2> QED
        BY <1>2, <2>1, <2>2 DEF Held, Recorded, Prepaid!Next, Prepaid!Pay
<1> QED
    BY <1>2, <1>3, <1>4 DEF Held, Recorded, Prepaid!vars

LEMMA VerifyKeepsPromise ==
    ASSUME Inv, NEW v \in Verifiers, VerifyStep(v)
    PROVE  [Prepaid!Next]_(Prepaid!vars)
<1>1. UNCHANGED <<accepted, till>>
    BY DEF VerifyStep, GatewayAnswers, GatewayFails, Refuse, CheckPaid, ReadSale,
           ReservationFails, RecordPayment, RecordingFails, web
<1>2. CASE RecordPayment(v)
    <2> DEFINE p == call[v].payment
    <2>1. p \in Payments /\ payment[p].captured
        BY <1>2, CallPays DEF RecordPayment, Inv, Vouched
    <2>2. ASSUME NEW q \in Payments
          PROVE  /\ payment'[q].captured = payment[q].captured
                 /\ payment'[q].paidAt = (payment[q].paidAt \/ q = p)
        <3>1. payment[q] \in PaymentRecords
            BY DEF Inv, TypeOK
        <3>2. CASE q = p
            BY <1>2, <2>1, <3>1, <3>2 DEF RecordPayment, Inv, TypeOK, PaymentRecords
        <3>3. CASE q # p
            <4>1. payment'[q] = payment[q]
                BY <1>2, <3>3 DEF RecordPayment, Inv, TypeOK
            <4>2. payment[q].paidAt \in BOOLEAN
                BY <3>1 DEF PaymentRecords
            <4> QED
                BY <3>3, <4>1, <4>2
        <3> QED
            BY <3>2, <3>3
    <2>3. Held' = Held /\ Recorded' = Recorded \cup {p}
        BY <2>1, <2>2 DEF Held, Recorded
    <2>4. p \in Held
        BY <2>1 DEF Held
    <2> QED
        BY <1>1, <2>1, <2>3, <2>4 DEF Held, Recorded, Prepaid!Next, Prepaid!Record
<1>3. CASE Refuse(v)
    <2>1. ASSUME NEW q \in Payments
          PROVE  /\ payment'[q].captured = payment[q].captured
                 /\ payment'[q].paidAt = payment[q].paidAt
        <3>1. payment[q] \in PaymentRecords
            BY DEF Inv, TypeOK
        <3> QED
            BY <1>3, <3>1 DEF Refuse, Inv, TypeOK, PaymentRecords
    <2>2. Held' = Held /\ Recorded' = Recorded
        BY <2>1 DEF Held, Recorded
    <2> QED
        BY <1>1, <2>2 DEF Held, Recorded, Prepaid!vars
<1>4. ASSUME ~RecordPayment(v), ~Refuse(v) PROVE payment' = payment
    BY <1>4 DEF VerifyStep, GatewayAnswers, GatewayFails, CheckPaid, ReadSale,
                ReservationFails, RecordingFails, web
<1> QED
    BY <1>1, <1>2, <1>3, <1>4 DEF Prepaid!vars

LEMMA StepKeepsPromise ==
    ASSUME Inv, [Next]_vars PROVE [Prepaid!Next]_(Prepaid!vars)
<1>1. ASSUME NEW s \in Staff, StaffStep(s) PROVE [Prepaid!Next]_(Prepaid!vars)
    <2>1. UNCHANGED <<payment, till>>
        BY <1>1 DEF StaffStep, Decide, Accept, Advance, Cancel, MoveFails, web
    <2>2. CASE Accept(s)
        <3>1. OpenedWithMoney
            BY <2>2 DEF Accept, Inv, Opened, Unopened
        <3>2. Recorded # {} /\ accepted' = TRUE
            BY <2>2, <3>1 DEF Accept, OpenedWithMoney, Recorded
        <3> QED
            BY <2>1, <3>2 DEF Recorded, Prepaid!Next, Prepaid!Accept
    <2>3. CASE ~Accept(s)
        <3>1. accepted' = accepted
            BY <1>1, <2>3 DEF StaffStep, Decide, Advance, Cancel, MoveFails, web
        <3> QED
            BY <2>1, <3>1 DEF Prepaid!vars
    <2> QED
        BY <2>2, <2>3
<1>2. CASE TillStep
    <2>1. UNCHANGED <<payment, accepted>>
        BY <1>2, TillFrame DEF web
    <2>2. accepted
        BY <1>2, TillFrame DEF Inv, Released, Unaccepted
    <2>3. CASE till # Nothing
        <3>1. till' # Nothing
            BY <1>2, <2>3, TillStepForward DEF Inv, Next
        <3> QED
            BY <2>1, <2>3, <3>1 DEF Prepaid!vars
    <2>4. CASE till = Nothing /\ till' = Nothing
        BY <2>1, <2>4 DEF Prepaid!vars
    <2>5. CASE till = Nothing /\ till' # Nothing
        BY <2>1, <2>2, <2>5 DEF Prepaid!Next, Prepaid!Deliver
    <2> QED
        BY <2>3, <2>4, <2>5
<1>3. CASE Project
    BY <1>3, ProjectFrame DEF Prepaid!vars
<1>4. ASSUME NEW v \in Verifiers, NEW p \in Payments, Verify(v, p)
      PROVE  UNCHANGED <<payment, accepted, till>>
    BY <1>4 DEF Verify, web
<1>5. CASE UNCHANGED vars
    BY <1>5 DEF vars, web, Prepaid!vars
<1> QED
    BY <1>1, <1>2, <1>3, <1>4, <1>5, CustomerKeepsPromise, VerifyKeepsPromise
    DEF Next, Prepaid!vars

(* The order keeps the promise of PrepaidOrder: each step of HQ, the        *)
(* gateway, the staff or the till takes, records, accepts or delivers, or   *)
(* is none of the promise's business.                                       *)
THEOREM OrderImplementsPrepaid == Spec => ImplementsPrepaid
<1>1. Init => Prepaid!Init
    BY InitKeepsPromise
<1>2. Inv /\ [Next]_vars => [Prepaid!Next]_(Prepaid!vars)
    BY StepKeepsPromise
<1> QED
    BY OrderInvariant, <1>1, <1>2, PTL DEF Spec, ImplementsPrepaid, Prepaid!Spec

=============================================================================
