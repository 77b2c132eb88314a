---------------------------- MODULE OnlineOrder ----------------------------
(***************************************************************************)
(* One prepaid web order, from checkout to the till that hands it over.    *)
(*                                                                         *)
(* HQ keeps the customer's order (ecommerceOrder), the sales order behind  *)
(* it, its parked source transaction with the payment rows, and one        *)
(* ecommercePayment per payment request.  The customer pays at a gateway;  *)
(* the customer's return page and the gateway's webhooks both call         *)
(* verifyEcommercePayment, at any time and as often as they like.  Staff   *)
(* move the order on (updateEcommerceOrderStatus).  Accepting it publishes *)
(* the sales order to the till, as do later payments and the cancellation; *)
(* the till's own changes come back as packets.  Both sides keep a         *)
(* recordVersion and ignore what is older than their own.                  *)
(*                                                                         *)
(* HQ's transactions run at READ COMMITTED: what a transaction has read    *)
(* may change before it writes, so a handler is split where it reads and   *)
(* where it writes.  From its first write on, a handler holds the rows the *)
(* others need, so its writes are one step.                                *)
(*                                                                         *)
(* Amounts are small numbers.  Stock reservations, fulfilment rows and     *)
(* network transfers are left out, except that reserving stock may fail.   *)
(* The sync queues deliver every message once, in any order (DownstreamSync*)
(* and UpstreamSync show how).                                             *)
(***************************************************************************)
EXTENDS Integers

CONSTANTS
    Payments,    \* payment request keys: at most one ecommercePayment each
    Verifiers,   \* slots for concurrent runs of verifyEcommercePayment
    Staff,       \* slots for concurrent runs of updateEcommerceOrderStatus
    Total,       \* the order's total amount
    Deposit,     \* a layaway's minimum opening deposit
    FullPayment, \* the layaway policy's requireFullPaymentBeforeFulfilment
    Moves,       \* bound: the statuses staff move the order to
    MaxVersion,  \* bound: the newest version the till makes
    Nothing      \* no call, no task, no packet, no copy

ASSUME OrderConstants ==
    /\ Total \in Nat
    /\ Deposit \in 1 .. Total
    /\ FullPayment \in BOOLEAN
    /\ MaxVersion \in Nat

Kinds == {"SALES_ORDER", "LAYAWAY"}

(* ecommerceStatusTransitions                                               *)
Transitions ==
    [PLACED |-> {"CONFIRMED", "CANCELLED"},
     CONFIRMED |-> {"PROCESSING", "CANCELLED"},
     PROCESSING |-> {"READY", "CANCELLED"},
     READY |-> {"OUT_FOR_DELIVERY", "DELIVERED", "CANCELLED"},
     OUT_FOR_DELIVERY |-> {"DELIVERED"},
     DELIVERED |-> {},
     CANCELLED |-> {}]
OrderStatuses == DOMAIN Transitions

SaleStatuses == {"OPEN", "FULFILLED", "CANCELLED", "EXPIRED"}
Closings == SaleStatuses \ {"OPEN"}

VARIABLES
    kind,      \* the order's type
    order,     \* the ecommerceOrder: status, paid, balance
    accepted,  \* confirmedAt is set
    sale,      \* HQ's salesOrder: status, paid, balance, version
    source,    \* status of HQ's source transaction
    rows,      \* rows[p]: posPayment rows with p's reference
    payment,   \* the ecommercePayments and what the gateway holds of them
    call,      \* call[v]: a run of verifyEcommercePayment
    task,      \* task[s]: a run of updateEcommerceOrderStatus
    published, \* versions published to the till: their keys are unique
    down,      \* publications on their way to the till
    up,        \* the till's sales-order packets on their way to HQ
    handover,  \* the till's pos.transaction.completed packet
    reading,   \* the packet HQ is projecting
    till       \* the till's copy of the sales order

web   == <<order, accepted, sale, source, rows, payment>>
queue == <<published, down, up, handover, reading>>
vars  == <<kind, web, call, task, queue, till>>

Orders  == [status : OrderStatuses, paid : Nat, balance : Nat]
Sales   == [status : SaleStatuses, paid : Nat, balance : Nat, version : Nat]
Packets == [status : SaleStatuses, paid : Int, balance : Nat, version : Nat]

PaymentStatuses == {"NONE", "INITIALIZING", "PENDING", "FAILED", "PAID"}
(* link: the customer has a checkout link; captured: the gateway has the    *)
(* money; paidAt: the verification has been recorded at least once.         *)
PaymentRecords == [status : PaymentStatuses, amount : 0 .. Total,
                   link : BOOLEAN, captured : BOOLEAN, paidAt : BOOLEAN]
NoPayment == [status |-> "NONE", amount |-> 0,
              link |-> FALSE, captured |-> FALSE, paidAt |-> FALSE]

(* ask: the gateway is asked; refuse: it has no such money; check, read,    *)
(* write: the transaction that records the payment.                         *)
CallSteps == {"ask", "refuse", "check", "read", "write"}
Calls == [payment : Payments, step : CallSteps, seen : OrderStatuses, paid : Nat]
Tasks == [from : OrderStatuses, to : OrderStatuses]

(* cash: what the till's payment rows add up to; tendered: it has some;     *)
(* sent: the closings whose outbox key, which has no version, is taken.     *)
Copies == [status : SaleStatuses, paid : Int, balance : Nat, version : Nat,
           cash : Int, tendered : BOOLEAN, sent : SUBSET Closings]

(* sent, bare: the till's completed sale is under way, with payment rows or *)
(* without any; taken: HQ has found its source transaction parked.          *)
Handovers == {"none", "sent", "bare", "taken", "projected", "rejected"}

ASSUME NothingIsNoCopy == Nothing \notin Copies

-----------------------------------------------------------------------------

Init ==
    /\ kind \in Kinds
    /\ order = [status |-> "PLACED", paid |-> 0, balance |-> Total]
    /\ accepted = FALSE
    /\ sale = [status |-> "OPEN", paid |-> 0, balance |-> Total, version |-> 1]
    /\ source = "PARKED"
    /\ rows = [p \in Payments |-> 0]
    /\ payment = [p \in Payments |-> NoPayment]
    /\ call = [v \in Verifiers |-> Nothing]
    /\ task = [s \in Staff |-> Nothing]
    /\ published = {}
    /\ down = {}
    /\ up = {}
    /\ handover = "none"
    /\ reading = Nothing
    /\ till = Nothing

(* deriveEcommercePaymentProjection: never below zero, and paid only when   *)
(* something was.                                                           *)
AtLeastZero(n) == IF n > 0 THEN n ELSE 0
FullyPaid == order.balance = 0 /\ order.paid > 0

(* queueEcommerceSalesOrderPublication, of the sales order as the           *)
(* transaction leaves it.  The outbox key ends in the version and is        *)
(* unique: a second publication of one version fails, and its transaction   *)
(* with it.                                                                 *)
Publish ==
    /\ sale'.version \notin published
    /\ published' = published \cup {sale'.version}
    /\ down' = down \cup {sale'}
    /\ UNCHANGED <<up, handover, reading>>

BugPublishIf(due) == Publish

PublishIf(due) == IF due THEN Publish ELSE UNCHANGED queue

-----------------------------------------------------------------------------
(* The customer pays: initializeEcommercePayment and the gateway.           *)

(* The row is created under the request's unique key, for an amount taken   *)
(* from the order: all of the balance, or for a layaway any part of it that *)
(* is enough to open it.                                                    *)
Initialize(p, amount) ==
    /\ payment[p].status = "NONE"
    /\ order.status # "CANCELLED"
    /\ amount \in 1 .. order.balance
    /\ kind = "SALES_ORDER" => amount = order.balance
    /\ kind = "LAYAWAY" /\ sale.paid = 0 => amount >= Deposit
    /\ payment' = [payment EXCEPT ![p].status = "INITIALIZING", ![p].amount = amount]
    /\ UNCHANGED <<kind, order, accepted, sale, source, rows, call, task, queue, till>>

(* The gateway answers with a checkout link.                                *)
CheckoutReady(p) ==
    /\ payment[p].status = "INITIALIZING"
    /\ payment' = [payment EXCEPT ![p].status = "PENDING", ![p].link = TRUE]
    /\ UNCHANGED <<kind, order, accepted, sale, source, rows, call, task, queue, till>>

(* It does not, or its answer is lost.                                      *)
InitializationFails(p) ==
    /\ payment[p].status = "INITIALIZING"
    /\ payment' = [payment EXCEPT ![p].status = "FAILED"]
    /\ UNCHANGED <<kind, order, accepted, sale, source, rows, call, task, queue, till>>

(* The customer pays at the link, whatever has become of the order.         *)
Capture(p) ==
    /\ payment[p].link
    /\ ~payment[p].captured
    /\ payment' = [payment EXCEPT ![p].captured = TRUE]
    /\ UNCHANGED <<kind, order, accepted, sale, source, rows, call, task, queue, till>>

-----------------------------------------------------------------------------
(* verifyEcommercePayment: the customer's return page, or a webhook.        *)

GoTo(v, step) == call' = [call EXCEPT ![v].step = step]
Return(v)     == call' = [call EXCEPT ![v] = Nothing]
At(v, step)   == call[v] # Nothing /\ call[v].step = step
Paying(v)     == payment[call[v].payment]

(* The payment is read with its order.  One that is PAID is answered from   *)
(* what was read.                                                           *)
BugVerify(v, p) ==
    /\ call[v] = Nothing
    /\ payment[p].link
    /\ payment[p].status = "PENDING"
    /\ call' = [call EXCEPT ![v] =
                  [payment |-> p, step |-> "ask", seen |-> order.status, paid |-> 0]]
    /\ UNCHANGED <<kind, web, task, queue, till>>

Verify(v, p) ==
    /\ call[v] = Nothing
    /\ payment[p].link
    /\ payment[p].status # "PAID"
    /\ call' = [call EXCEPT ![v] =
                  [payment |-> p, step |-> "ask", seen |-> order.status, paid |-> 0]]
    /\ UNCHANGED <<kind, web, task, queue, till>>

BugGatewayAnswers(v) ==
    /\ At(v, "ask")
    /\ GoTo(v, "check")
    /\ UNCHANGED <<kind, web, task, queue, till>>

GatewayAnswers(v) ==
    /\ At(v, "ask")
    /\ GoTo(v, IF Paying(v).captured THEN "check" ELSE "refuse")
    /\ UNCHANGED <<kind, web, task, queue, till>>

GatewayFails(v) ==
    /\ At(v, "ask")
    /\ Return(v)
    /\ UNCHANGED <<kind, web, task, queue, till>>

(* The payment is marked FAILED, whatever it has become since it was read.  *)
Refuse(v) ==
    /\ At(v, "refuse")
    /\ payment' = [payment EXCEPT ![call[v].payment].status = "FAILED"]
    /\ Return(v)
    /\ UNCHANGED <<kind, order, accepted, sale, source, rows, task, queue, till>>

(* The transaction reads the payment's status again ...                     *)
CheckPaid(v) ==
    /\ At(v, "check")
    /\ IF Paying(v).status = "PAID" THEN Return(v) ELSE GoTo(v, "read")
    /\ UNCHANGED <<kind, web, task, queue, till>>

(* ... then the sales order, which must be open ...                         *)
ReadSale(v) ==
    /\ At(v, "read")
    /\ IF sale.status = "OPEN"
       THEN call' = [call EXCEPT ![v].step = "write", ![v].paid = sale.paid]
       ELSE Return(v)
    /\ UNCHANGED <<kind, web, task, queue, till>>

(* ... reserves the stock of a layaway that this payment opens ...          *)
ReservationFails(v) ==
    /\ At(v, "write")
    /\ kind = "LAYAWAY"
    /\ call[v].paid = 0
    /\ Return(v)
    /\ UNCHANGED <<kind, web, task, queue, till>>

(* ... and records the payment.  The amount is added to what was read; the  *)
(* payment row is there already when another run got as far as this.        *)
BugPaidWith(v) == call[v].paid + Paying(v).amount

PaidWith(v) ==
    LET sum == call[v].paid + Paying(v).amount IN IF sum < Total THEN sum ELSE Total

BugNeedsRow(p) == TRUE

NeedsRow(p) == rows[p] = 0

RecordPayment(v) ==
    LET p == call[v].payment
        paid == PaidWith(v)
    IN  /\ At(v, "write")
        /\ payment' = [payment EXCEPT ![p].status = "PAID", ![p].paidAt = TRUE]
        /\ order' = [order EXCEPT !.paid = paid, !.balance = Total - paid]
        /\ rows' = IF NeedsRow(p) THEN [rows EXCEPT ![p] = @ + 1] ELSE rows
        /\ sale' = [sale EXCEPT !.paid = paid, !.balance = Total - paid,
                                !.version = @ + 1]
        /\ PublishIf(call[v].seen # "PLACED")
        /\ Return(v)
        /\ UNCHANGED <<kind, accepted, source, task, till>>

(* The publication's key is taken: everything is rolled back.               *)
RecordingFails(v) ==
    /\ At(v, "write")
    /\ call[v].seen # "PLACED"
    /\ sale.version + 1 \in published
    /\ Return(v)
    /\ UNCHANGED <<kind, web, task, queue, till>>

-----------------------------------------------------------------------------
(* updateEcommerceOrderStatus: staff.                                       *)

(* Before staff accept an order it is paid, or its opening deposit is.      *)
BugAcceptable == FullyPaid \/ kind = "LAYAWAY"

Acceptable == FullyPaid \/ (kind = "LAYAWAY" /\ sale.paid >= Deposit)

(* The order is read and the move allowed ...                               *)
Decide(s, to) ==
    /\ task[s] = Nothing
    /\ to \in Transitions[order.status] \cap Moves
    /\ to = "CONFIRMED" => Acceptable
    /\ task' = [task EXCEPT ![s] = [from |-> order.status, to |-> to]]
    /\ UNCHANGED <<kind, web, call, queue, till>>

MoveOrder(s) ==
    /\ order' = [order EXCEPT !.status = task[s].to]
    /\ task' = [task EXCEPT ![s] = Nothing]

(* ... and made, whatever the order has become.  Accepting publishes it.    *)
Accept(s) ==
    /\ task[s] # Nothing
    /\ task[s].to = "CONFIRMED"
    /\ MoveOrder(s)
    /\ accepted' = TRUE
    /\ UNCHANGED sale
    /\ Publish
    /\ UNCHANGED <<kind, source, rows, payment, call, till>>

Advance(s) ==
    /\ task[s] # Nothing
    /\ task[s].to \notin {"CONFIRMED", "CANCELLED"}
    /\ MoveOrder(s)
    /\ UNCHANGED <<kind, accepted, sale, source, rows, payment, call, queue, till>>

(* Cancelling closes the sales order and voids its transaction, if it is    *)
(* open.  The till hears of it unless the order was read before it was      *)
(* accepted.                                                                *)
Cancel(s) ==
    /\ task[s] # Nothing
    /\ task[s].to = "CANCELLED"
    /\ MoveOrder(s)
    /\ IF sale.status = "OPEN"
       THEN /\ sale' = [sale EXCEPT !.status = "CANCELLED", !.version = @ + 1]
            /\ source' = IF source = "PARKED" THEN "VOIDED" ELSE source
       ELSE UNCHANGED <<sale, source>>
    /\ PublishIf(task[s].from # "PLACED")
    /\ UNCHANGED <<kind, accepted, rows, payment, call, till>>

(* The publication's key is taken: the move fails.                          *)
MoveFails(s) ==
    /\ task[s] # Nothing
    /\ \/ task[s].to = "CONFIRMED" /\ sale.version \in published
       \/ /\ task[s].to = "CANCELLED"
          /\ task[s].from # "PLACED"
          /\ sale.version + (IF sale.status = "OPEN" THEN 1 ELSE 0) \in published
    /\ task' = [task EXCEPT ![s] = Nothing]
    /\ UNCHANGED <<kind, web, call, queue, till>>

-----------------------------------------------------------------------------
(* The till.                                                                *)

(* The till's copy as publication m leaves it.                              *)
CopyOf(m, cash, tendered, sent) ==
    [status |-> m.status, paid |-> m.paid, balance |-> m.balance,
     version |-> m.version, cash |-> cash, tendered |-> tendered, sent |-> sent]

(* sales-order.published.  A publication older than the copy is ignored,    *)
(* one as old replaces it.  One of a fulfilled order is invalid: it fails,  *)
(* and stays in the queue.                                                  *)
BugOlder(m) == FALSE

Older(m) == till # Nothing /\ till.version > m.version

Apply(m) ==
    /\ m \in down
    /\ m.status # "FULFILLED"
    /\ down' = down \ {m}
    /\ till' = CASE Older(m) -> till
                 [] till = Nothing -> CopyOf(m, 0, FALSE, {})
                 [] OTHER -> CopyOf(m, till.cash, till.tendered, till.sent)
    /\ UNCHANGED <<kind, web, call, task, published, up, handover, reading>>

OpenAtTill ==
    /\ till # Nothing
    /\ till.status = "OPEN"
    /\ till.version < MaxVersion

(* A change of the till's copy: one more version, and a packet for HQ.      *)
Change(copy) ==
    /\ till' = copy
    /\ up' = up \cup {[status |-> copy.status, paid |-> copy.paid,
                       balance |-> copy.balance, version |-> copy.version]}
    /\ UNCHANGED <<kind, web, call, task, published, down, reading>>

(* receiveLayawayPayment                                                    *)
ReceivePayment(amount) ==
    /\ OpenAtTill
    /\ kind = "LAYAWAY"
    /\ amount \in 1 .. till.balance
    /\ Change([till EXCEPT !.paid = @ + amount,
                           !.balance = AtLeastZero(Total - (till.paid + amount)),
                           !.cash = @ + amount, !.tendered = TRUE,
                           !.version = @ + 1])
    /\ UNCHANGED handover

(* releaseLayawayReservation                                                *)
ReleaseReservation ==
    /\ OpenAtTill
    /\ kind = "LAYAWAY"
    /\ Change([till EXCEPT !.version = @ + 1])
    /\ UNCHANGED handover

(* expireLayaway, cancelSalesOrder: the outbox key of a closing holds no    *)
(* version, so a copy that was reopened cannot be closed that way again.    *)
(* Cancelling a layaway pays back what the policy leaves of its payments.   *)
Close(status, refund) ==
    /\ OpenAtTill
    /\ status \in {"EXPIRED", "CANCELLED"}
    /\ status = "EXPIRED" => kind = "LAYAWAY" /\ refund = 0
    /\ kind = "SALES_ORDER" => refund = 0
    /\ refund \in 0 .. AtLeastZero(till.paid)
    /\ status \notin till.sent
    /\ Change([till EXCEPT !.status = status, !.version = @ + 1,
                           !.cash = @ - refund,
                           !.tendered = @ \/ refund > 0,
                           !.sent = @ \cup {status}])
    /\ UNCHANGED handover

(* The sale is completed: what is not paid yet is tendered, and the order   *)
(* is fulfilled with what the till's own payment rows add up to.  Two       *)
(* packets leave: the sale, with the till's rows, and the order.            *)
Fulfil ==
    LET due  == AtLeastZero(Total - till.paid)
        paid == till.cash + due
    IN  /\ OpenAtTill
        /\ kind = "LAYAWAY" /\ FullPayment => till.balance = 0
        /\ "FULFILLED" \notin till.sent
        /\ Change([till EXCEPT !.status = "FULFILLED", !.version = @ + 1,
                               !.paid = paid, !.balance = 0, !.cash = paid,
                               !.tendered = @ \/ due > 0,
                               !.sent = @ \cup {"FULFILLED"}])
        /\ handover' = IF till.tendered \/ due > 0 THEN "sent" ELSE "bare"

-----------------------------------------------------------------------------
(* HQ projects the till's packets.                                          *)

(* projectStoreSalesOrder reads the sales order ...                         *)
ReadPacket(m) ==
    /\ reading = Nothing
    /\ m \in up
    /\ IF sale.version > m.version
       THEN /\ up' = up \ {m}
            /\ reading' = Nothing
       ELSE reading' = m /\ UNCHANGED up
    /\ UNCHANGED <<kind, web, call, task, published, down, handover, till>>

(* ... and overwrites it, and of an order that was not given up the amounts *)
(* of the customer's order.  A packet with payments is then refused, while  *)
(* the source transaction is the web's, and stays projected that far.       *)
BugShown(m) == m.status = "OPEN"

Shown(m) == m.status \in {"OPEN", "FULFILLED"}

ProjectOrder ==
    LET m == reading
        paid == AtLeastZero(m.paid)
    IN  /\ m # Nothing
        /\ sale' = [status |-> m.status, paid |-> paid,
                    balance |-> m.balance, version |-> m.version]
        /\ order' = IF Shown(m)
                    THEN [order EXCEPT !.paid = paid, !.balance = m.balance]
                    ELSE order
        /\ up' = up \ {m}
        /\ reading' = Nothing
        /\ UNCHANGED <<kind, accepted, source, rows, payment, call, task,
                       published, down, handover, till>>

(* projectStorePosTransaction: a sale without payments is invalid, and only *)
(* a parked transaction is replaced ...                                     *)
ReadSalePacket ==
    /\ handover \in {"sent", "bare"}
    /\ handover' = IF handover = "sent" /\ source = "PARKED"
                   THEN "taken" ELSE "rejected"
    /\ UNCHANGED <<kind, web, call, task, published, down, up, reading, till>>

(* ... by the till's, its payment rows with it.                             *)
ReplaceSource ==
    /\ handover = "taken"
    /\ handover' = "projected"
    /\ source' = "COMPLETED"
    /\ rows' = [p \in Payments |-> 0]
    /\ UNCHANGED <<kind, order, accepted, sale, payment, call, task,
                   published, down, up, reading, till>>

-----------------------------------------------------------------------------

VerifyStep(v) ==
    \/ GatewayAnswers(v)
    \/ GatewayFails(v)
    \/ Refuse(v)
    \/ CheckPaid(v)
    \/ ReadSale(v)
    \/ ReservationFails(v)
    \/ RecordPayment(v)
    \/ RecordingFails(v)

Customer(p) ==
    \/ \E amount \in 1 .. Total : Initialize(p, amount)
    \/ CheckoutReady(p)
    \/ InitializationFails(p)
    \/ Capture(p)

StaffStep(s) ==
    \/ \E to \in OrderStatuses : Decide(s, to)
    \/ Accept(s)
    \/ Advance(s)
    \/ Cancel(s)
    \/ MoveFails(s)

TillStep ==
    \/ \E m \in down : Apply(m)
    \/ \E amount \in 1 .. Total : ReceivePayment(amount)
    \/ ReleaseReservation
    \/ \E status \in Closings, refund \in 0 .. Total : Close(status, refund)
    \/ Fulfil

Project ==
    \/ \E m \in up : ReadPacket(m)
    \/ ProjectOrder
    \/ ReadSalePacket
    \/ ReplaceSource

Next ==
    \/ \E p \in Payments : Customer(p)
    \/ \E v \in Verifiers, p \in Payments : Verify(v, p)
    \/ \E v \in Verifiers : VerifyStep(v)
    \/ \E s \in Staff : StaffStep(s)
    \/ TillStep
    \/ Project

Spec == Init /\ [][Next]_vars

(* What the environment owes: a captured payment's webhook is sent again    *)
(* until it succeeds, the gateway answers at last, and stock can be         *)
(* reserved at last.  What the code owes: a call that began goes on.        *)
Webhooks(p) ==
    /\ SF_vars(\E v \in Verifiers : Verify(v, p) /\ payment[p].captured)
    /\ SF_vars(\E v \in Verifiers : GatewayAnswers(v) /\ call[v].payment = p)
    /\ SF_vars(\E v \in Verifiers : RecordPayment(v) /\ call[v].payment = p)

FairSpec ==
    /\ Spec
    /\ \A v \in Verifiers : WF_vars(VerifyStep(v))
    /\ \A p \in Payments : Webhooks(p)

-----------------------------------------------------------------------------

TypeOK ==
    /\ kind \in Kinds
    /\ order \in Orders
    /\ accepted \in BOOLEAN
    /\ sale \in Sales
    /\ source \in {"PARKED", "VOIDED", "COMPLETED"}
    /\ rows \in [Payments -> Nat]
    /\ payment \in [Payments -> PaymentRecords]
    /\ call \in [Verifiers -> Calls \cup {Nothing}]
    /\ task \in [Staff -> Tasks \cup {Nothing}]
    /\ published \in SUBSET Nat
    /\ down \in SUBSET Sales
    /\ up \in SUBSET Packets
    /\ handover \in Handovers
    /\ reading \in Packets \cup {Nothing}
    /\ till \in Copies \cup {Nothing}

(* However often and from wherever a payment is verified, it has one        *)
(* payment row, which is money the gateway has; and the row of a payment    *)
(* that was once recorded is there until the till's sale replaces the       *)
(* source transaction.                                                      *)
RecordedOnce == \A p \in Payments :
    /\ rows[p] <= 1
    /\ rows[p] = 1 => payment[p].captured
    /\ payment[p].paidAt /\ source # "COMPLETED" => rows[p] = 1

(* No order is accepted, and none comes to the till, unless the customer    *)
(* has paid in one go the whole of it, or a layaway's opening deposit.      *)
Opening == IF kind = "LAYAWAY" THEN Deposit ELSE Total
OpenedWithMoney == \E p \in Payments :
    payment[p].paidAt /\ payment[p].captured /\ payment[p].amount >= Opening
AcceptedWithMoney == accepted => OpenedWithMoney

(* No packet of an order that staff have not accepted is published, so none *)
(* is at the till.                                                          *)
TillOnlyAfterAcceptance ==
    published # {} \/ down # {} \/ up # {} \/ till # Nothing => accepted

(* The customer sees the amounts of the sales order, while that is open and *)
(* once it is fulfilled.  This is about orders handed over at a till: HQ's  *)
(* Online POS, which is not modelled, takes layaway payments that change    *)
(* the sales order alone (receiveOnlineStoreLayawayPayment).                *)
CustomerSeesSale ==
    sale.status \in {"OPEN", "FULFILLED"} =>
        order.paid = sale.paid /\ order.balance = sale.balance

(* The till's copy never goes back to an older version.                     *)
TillNeverGoesBack == [][
    till # Nothing => till' # Nothing /\ till'.version >= till.version]_till

(* Money the gateway took for an order is recorded in the end, however many *)
(* attempts to verify it were refused, failed, or overtook each other;      *)
(* unless the order is closed first, or the key under which recording it    *)
(* would publish the order is taken.                                        *)
CapturedIsRecorded == \A p \in Payments :
    payment[p].captured ~>
        \/ payment[p].paidAt
        \/ sale.status # "OPEN"
        \/ sale.version + 1 \in published

(* The order keeps the promise of a prepaid order: no step of anybody skips *)
(* the money, its recording or the acceptance, or takes one of them back.   *)
Prepaid == INSTANCE PrepaidOrder WITH
    held      <- {p \in Payments : payment[p].captured},
    recorded  <- {p \in Payments : payment[p].paidAt},
    delivered <- till # Nothing

ImplementsPrepaid == Prepaid!Spec

(* "Store Desktop sales-order events ... now reconcile cumulative paid and  *)
(* balance amounts into the linked ecommerce order": an order the customer  *)
(* has paid in full is paid when the till has fulfilled it.                 *)
PaidOrderStaysPaid == [][
    FullyPaid /\ sale'.status = "FULFILLED" => FullyPaid']_<<order, sale>>

=============================================================================
