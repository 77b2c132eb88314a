--------------------------- MODULE SaleProjection ---------------------------
(***************************************************************************)
(* What HQ's projectors do with a sale and with its stock movements.       *)
(*                                                                         *)
(* A completed sale reaches HQ as one POS_TRANSACTION event and one        *)
(* INVENTORY_LEDGER event per movement, each delivered again and again     *)
(* until HQ acknowledges it (UpstreamSync), in any order.  A projector     *)
(* looks something up, writes, looks up the next thing, writes ...;        *)
(* applyInboundProjectionEvent catches what it throws inside the push's    *)
(* transaction, so the writes made before a failure are committed with     *)
(* the FAILED or DEAD_LETTER row, and the next delivery starts from them.  *)
(*                                                                         *)
(* Quantities are one unit per batch allocation.  What HQ lacks for a sale *)
(* is a set of hurdles, put right one at a time by HQ's users:             *)
(*   product    a product it does not have yet                             *)
(*   customer   a customer whose number is not the one of the sale         *)
(*   variant    a variant it does not have yet, or has of another product  *)
(*   serials    a serial number that is not available                      *)
(*   credit     a store-credit rule of the customer's account              *)
(*   posting    a tender without cashbook account, a closed period ...     *)
(*   numbering  no usable cashbook document sequence                       *)
(*   cost       a closed period or a missing account for cost of sales     *)
(***************************************************************************)
EXTENDS Naturals, FiniteSets

CONSTANTS
    Sales,    \* completed sales of one store
    Moves,    \* inventory ledger entries of those sales
    SaleOf,   \* SaleOf[m]: the sale m belongs to (referenceId)
    Batches,  \* expiry batches at the store's location
    Takes,    \* Takes[m]: the batches m's allocations draw from
    Order,    \* Order[b]: position of a batch among the allocations
    Shelf,    \* Shelf[b]: units HQ books with each receipt of the batch
    MaxReceipts, \* bound: receipts of a batch
    Parked,   \* sales HQ knows as parked web orders handed to the till
    Hurdles   \* the <<sale, hurdle>> pairs that may exist at the start

HurdleKinds == {"product", "customer", "variant", "serials", "credit",
                "posting", "numbering", "cost"}

ASSUME SaleConstants ==
    /\ SaleOf \in [Moves -> Sales]
    /\ Takes \in [Moves -> SUBSET Batches]
    /\ Order \in [Batches -> Nat]
    /\ \A b, c \in Batches : Order[b] = Order[c] => b = c
    /\ Shelf \in [Batches -> Nat]
    /\ MaxReceipts \in Nat \ {0}
    /\ Parked \subseteq Sales
    /\ Hurdles \subseteq Sales \X HurdleKinds

VARIABLES
    saleIn, moveIn,  \* SyncInboundEvent.status of the events; NONE before the first delivery
    sale,            \* PosTransaction.status, or ABSENT
    variants,        \* times the sale moved its variants' quantityOnHand
    customer,        \* times the sale was posted to the customer's account
    journal,         \* POS_SALE journals of the sale
    cashbook,        \* times its cashbook entries were written
    ledger,          \* times the movement's ledger entry was written
    cogs,            \* INVENTORY_COGS journals of the ledger entry
    receipts,        \* receipts of a batch HQ has booked
    stock,           \* InventoryBatch.quantityOnHand
    taken,           \* taken[m][b]: units m has taken from b
    blocked          \* hurdles that stand

saleVars  == <<sale, variants, customer>>
bookVars  == <<journal, cashbook, cogs>>
stockVars == <<stock, taken>>
vars == <<saleIn, moveIn, saleVars, bookVars, ledger, receipts, stockVars, blocked>>

Clear(s, hurdle) == <<s, hurdle>> \notin blocked

Init ==
    /\ saleIn = [s \in Sales |-> "NONE"]
    /\ moveIn = [m \in Moves |-> "NONE"]
    /\ sale = [s \in Sales |-> IF s \in Parked THEN "PARKED" ELSE "ABSENT"]
    /\ variants = [s \in Sales |-> 0]
    /\ customer = [s \in Sales |-> 0]
    /\ journal = [s \in Sales |-> 0]
    /\ cashbook = [s \in Sales |-> 0]
    /\ ledger = [m \in Moves |-> 0]
    /\ cogs = [m \in Moves |-> 0]
    /\ receipts \in [Batches -> {0, 1}]
    /\ stock = [b \in Batches |-> IF receipts[b] = 1 THEN Shelf[b] ELSE 0]
    /\ taken = [m \in Moves |-> [b \in Batches |-> 0]]
    /\ blocked \in SUBSET Hurdles

-----------------------------------------------------------------------------
(* postPosTransactionAccountingInTransaction, called by both projectors    *)

\* Mutants: the journal is posted without looking for one, or for any transaction.
BugPostsJournal(s) == Clear(s, "posting")
BugBookable(s) == TRUE

\* Only a COMPLETED transaction is accounted for.
Bookable(s) == sale'[s] = "COMPLETED"

PostsJournal(s) == journal[s] = 0 /\ Clear(s, "posting")

\* The ledger entries of s that have no cost journal yet.
Uncosted(s) == {m \in Moves : SaleOf[m] = s /\ ledger'[m] > 0 /\ cogs[m] = 0}

\* Mutant: a failed sales journal does not stop the accounting.
BugJournalled(s) == TRUE

\* The journal is there, or is written now together with its cashbook entries.
Journalled(s) == \/ journal[s] > 0
                 \/ PostsJournal(s) /\ Clear(s, "numbering")

BookingFails(s) == Bookable(s) /\ (~Journalled(s) \/ (Uncosted(s) # {} /\ ~Clear(s, "cost")))

\* The sales journal unless there is one, then its cashbook entries, then a cost journal
\* for every ledger entry without one; what throws leaves the earlier ones in place.
Book(s) ==
    LET posts == Bookable(s) /\ PostsJournal(s)
        cash  == posts /\ Clear(s, "numbering")
        costs == IF Bookable(s) /\ Journalled(s) /\ Clear(s, "cost") THEN Uncosted(s) ELSE {}
    IN /\ journal' = [journal EXCEPT ![s] = IF posts THEN @ + 1 ELSE @]
       /\ cashbook' = [cashbook EXCEPT ![s] = IF cash THEN @ + 1 ELSE @]
       /\ cogs' = [m \in Moves |-> IF m \in costs THEN cogs[m] + 1 ELSE cogs[m]]

-----------------------------------------------------------------------------
(* projectStorePosTransaction                                              *)

\* HQ has the completed transaction: the event is acknowledged, nothing is written.
SaleKnown(s) ==
    /\ saleIn[s] # "ACKNOWLEDGED"
    /\ sale[s] = "COMPLETED"
    /\ saleIn' = [saleIn EXCEPT ![s] = "ACKNOWLEDGED"]
    /\ UNCHANGED <<moveIn, saleVars, bookVars, ledger, receipts, stockVars, blocked>>

\* Mutants: the transaction HQ has is replaced whatever its status; a delivery after the
\* first one needs the parked transaction.
BugReplaceable(s) == TRUE
BugReplaceableOnce(s) == sale[s] = "PARKED" \/ saleIn[s] = "NONE"

Replaceable(s) == sale[s] # "COMPLETED"

\* A product is missing, or the customer is another one: found before anything is written.
SaleRefused(s) ==
    /\ saleIn[s] # "ACKNOWLEDGED"
    /\ Replaceable(s)
    /\ ~Clear(s, "product") \/ ~Clear(s, "customer")
    /\ saleIn' = [saleIn EXCEPT ![s] = IF ~Clear(s, "product") THEN "FAILED" ELSE "DEAD_LETTER"]
    /\ UNCHANGED <<moveIn, saleVars, bookVars, ledger, receipts, stockVars, blocked>>

Resolved(s) == Clear(s, "product") /\ Clear(s, "customer")

\* A variant is missing, or is one of another product: found while the lines of the new
\* row are built, after the parked transaction has been deleted.
SaleLacksVariant(s) ==
    /\ saleIn[s] # "ACKNOWLEDGED"
    /\ Replaceable(s)
    /\ Resolved(s)
    /\ ~Clear(s, "variant")
    /\ sale' = [sale EXCEPT ![s] = "ABSENT"]
    /\ \E verdict \in {"FAILED", "DEAD_LETTER"} : saleIn' = [saleIn EXCEPT ![s] = verdict]
    /\ UNCHANGED <<moveIn, variants, customer, bookVars, ledger, receipts, stockVars, blocked>>

\* The transaction is created; then serials, variants, customer account and
\* accounting follow until one of them throws.
ProjectSale(s) ==
    /\ saleIn[s] # "ACKNOWLEDGED"
    /\ Replaceable(s)
    /\ Resolved(s)
    /\ Clear(s, "variant")
    /\ UNCHANGED <<moveIn, ledger, receipts, stockVars, blocked>>
    /\ sale' = [sale EXCEPT ![s] = "COMPLETED"]
    /\ variants' = [variants EXCEPT ![s] = IF Clear(s, "serials") THEN @ + 1 ELSE @]
    /\ LET accepted == Clear(s, "serials") /\ Clear(s, "credit")
       IN /\ customer' = [customer EXCEPT ![s] = IF accepted THEN @ + 1 ELSE @]
          /\ IF accepted THEN Book(s) ELSE UNCHANGED bookVars
          /\ saleIn' = [saleIn EXCEPT ![s] = IF ~accepted THEN "DEAD_LETTER"
                                             ELSE IF BookingFails(s) THEN "FAILED" ELSE "ACKNOWLEDGED"]

-----------------------------------------------------------------------------
(* projectStoreInventoryLedgerEntry                                        *)

MoveKnown(m) ==
    /\ moveIn[m] # "ACKNOWLEDGED"
    /\ ledger[m] > 0
    /\ moveIn' = [moveIn EXCEPT ![m] = "ACKNOWLEDGED"]
    /\ UNCHANGED <<saleIn, saleVars, bookVars, ledger, receipts, stockVars, blocked>>

MoveLacksProduct(m) ==
    /\ moveIn[m] # "ACKNOWLEDGED"
    /\ ledger[m] = 0
    /\ ~Clear(SaleOf[m], "product")
    /\ moveIn' = [moveIn EXCEPT ![m] = "FAILED"]
    /\ UNCHANGED <<saleIn, saleVars, bookVars, ledger, receipts, stockVars, blocked>>

\* Mutant: a batch HQ has is drawn from whatever is left of it.
BugShort(m) == {b \in Takes[m] : receipts[b] = 0}

\* The allocations decreaseEnterpriseInventoryBatches cannot serve.
Short(m) == {b \in Takes[m] : receipts[b] = 0 \/ stock[b] = 0}

\* Mutant: an allocation that cannot be served is left out and the others are taken.
BugBefore(m, b) == Takes[m] \ {b}

\* The allocations that have been taken when b turns out to be short.
Before(m, b) == {c \in Takes[m] : Order[c] < Order[b]}

Take(m, from) ==
    /\ stock' = [b \in Batches |-> IF b \in from THEN stock[b] - 1 ELSE stock[b]]
    /\ taken' = [taken EXCEPT ![m] = [b \in Batches |-> IF b \in from THEN @[b] + 1 ELSE @[b]]]

\* A batch is missing or has too little: the allocations before it have been taken.
MoveFallsShort(m) ==
    /\ moveIn[m] # "ACKNOWLEDGED"
    /\ ledger[m] = 0
    /\ Clear(SaleOf[m], "product")
    /\ \E b \in Short(m) :
        /\ \A c \in Short(m) : Order[b] <= Order[c]
        /\ Take(m, Before(m, b))
        /\ moveIn' = [moveIn EXCEPT ![m] = IF receipts[b] = 0 THEN "FAILED" ELSE "DEAD_LETTER"]
    /\ UNCHANGED <<saleIn, saleVars, bookVars, ledger, receipts, blocked>>

\* All allocations are taken, the ledger entry is written, the sale is accounted for.
ProjectMove(m) ==
    /\ moveIn[m] # "ACKNOWLEDGED"
    /\ ledger[m] = 0
    /\ Clear(SaleOf[m], "product")
    /\ Short(m) = {}
    /\ Take(m, Takes[m])
    /\ ledger' = [ledger EXCEPT ![m] = @ + 1]
    /\ UNCHANGED saleVars
    /\ Book(SaleOf[m])
    /\ moveIn' = [moveIn EXCEPT ![m] = IF BookingFails(SaleOf[m]) THEN "FAILED" ELSE "ACKNOWLEDGED"]
    /\ UNCHANGED <<saleIn, receipts, blocked>>

-----------------------------------------------------------------------------
(* Finance catches up, and HQ puts right what was missing                  *)

\* materializeSalesJournals: one transaction per sale without a sales journal, rolled
\* back when the accounting throws.
MaterializeSale(s) ==
    /\ sale[s] = "COMPLETED"
    /\ journal[s] = 0
    /\ UNCHANGED <<saleVars, ledger>>
    /\ ~BookingFails(s)
    /\ Book(s)
    /\ UNCHANGED <<saleIn, moveIn, receipts, stockVars, blocked>>

\* materializeInventoryJournals: a cost journal for a ledger entry without one.
MaterializeCost(m) ==
    /\ ledger[m] > 0
    /\ cogs[m] = 0
    /\ cogs' = [cogs EXCEPT ![m] = @ + 1]
    /\ UNCHANGED <<saleIn, moveIn, saleVars, journal, cashbook, ledger, receipts, stockVars, blocked>>

\* A receipt of the batch: the first one creates it, the others add to it.
BatchArrives(b) ==
    /\ receipts[b] < MaxReceipts
    /\ receipts' = [receipts EXCEPT ![b] = @ + 1]
    /\ stock' = [stock EXCEPT ![b] = @ + Shelf[b]]
    /\ UNCHANGED <<saleIn, moveIn, saleVars, bookVars, ledger, taken, blocked>>

PutRight(h) ==
    /\ h \in blocked
    /\ blocked' = blocked \ {h}
    /\ UNCHANGED <<saleIn, moveIn, saleVars, bookVars, ledger, receipts, stockVars>>

\* A delivery of the sale's event.
DeliverSale(s) == SaleKnown(s) \/ SaleRefused(s) \/ SaleLacksVariant(s) \/ ProjectSale(s)

SaleStep(s) == DeliverSale(s) \/ MaterializeSale(s)

MoveStep(m) == \/ MoveKnown(m) \/ MoveLacksProduct(m) \/ MoveFallsShort(m)
               \/ ProjectMove(m) \/ MaterializeCost(m)

Next == \/ \E s \in Sales : SaleStep(s)
        \/ \E m \in Moves : MoveStep(m)
        \/ \E b \in Batches : BatchArrives(b)
        \/ \E h \in Hurdles : PutRight(h)

Spec == Init /\ [][Next]_vars

(* The event of a sale is delivered until HQ acknowledges it: by the cycles *)
(* of the store, then by HQ's reprocessing.  What was reported is put right *)
(* at last.  Nothing is assumed of movements, receipts or finance.          *)
Fairness == /\ \A s \in Sales : WF_vars(DeliverSale(s))
            /\ WF_vars(\E h \in Hurdles : PutRight(h))

FairSpec == Spec /\ Fairness
-----------------------------------------------------------------------------
(* Properties                                                              *)

EventStatus == {"NONE", "FAILED", "DEAD_LETTER", "ACKNOWLEDGED"}

\* Type invariant.
TypeOK ==
    /\ saleIn \in [Sales -> EventStatus]
    /\ moveIn \in [Moves -> EventStatus]
    /\ sale \in [Sales -> {"ABSENT", "PARKED", "COMPLETED"}]
    /\ variants \in [Sales -> Nat]
    /\ customer \in [Sales -> Nat]
    /\ journal \in [Sales -> Nat]
    /\ cashbook \in [Sales -> Nat]
    /\ ledger \in [Moves -> Nat]
    /\ cogs \in [Moves -> Nat]
    /\ receipts \in [Batches -> 0 .. MaxReceipts]
    /\ stock \in [Batches -> Nat]
    /\ taken \in [Moves -> [Batches -> Nat]]
    /\ blocked \in SUBSET Hurdles

\* Whatever fails and is retried, and in whatever order the sale, its movements and the
\* finance catch-up run, variants, customer account, journals and ledger are written once.
EffectsOnce ==
    /\ \A s \in Sales : /\ variants[s] <= 1 /\ customer[s] <= 1
                        /\ journal[s] <= 1 /\ cashbook[s] <= 1
    /\ \A m \in Moves : ledger[m] <= 1 /\ cogs[m] <= 1

\* An acknowledged event has left its record; revenue and cost journals are never
\* posted before the transaction and the ledger entry they account for.
PostedHasSource ==
    /\ \A s \in Sales : /\ saleIn[s] = "ACKNOWLEDGED" => sale[s] = "COMPLETED"
                        /\ journal[s] > 0 => sale[s] = "COMPLETED"
                        /\ cashbook[s] > 0 => journal[s] > 0
    /\ \A m \in Moves : /\ moveIn[m] = "ACKNOWLEDGED" => ledger[m] > 0
                        /\ cogs[m] > 0 => ledger[m] > 0

\* A ledger entry stands for stock that was taken: every allocation at least once, the
\* last one exactly once, and without a ledger entry the last one never.
LedgerMatchesStock ==
    \A m \in Moves : \A b \in Takes[m] :
        /\ ledger[m] > 0 => taken[m][b] > 0
        /\ (\A c \in Takes[m] : Order[c] <= Order[b]) => taken[m][b] = ledger[m]

\* A completed sale is never deleted or replaced by a later delivery (docs/07: no silent
\* mutation of store-captured commercial history).
CompletedIsFinal ==
    [][\A s \in Sales : sale[s] = "COMPLETED" =>
        sale'[s] = "COMPLETED" /\ variants'[s] = variants[s] /\ customer'[s] = customer[s]]_vars

\* No failure is a trap: a sale whose parked handoff was deleted by a delivery that failed,
\* or that was refused at any hurdle, is completed at HQ by a later delivery once what it
\* met is put right (docs/03: resumable).
NoSaleIsLost ==
    \A s \in Sales : saleIn[s] # "NONE" ~> saleIn[s] = "ACKNOWLEDGED" /\ sale[s] = "COMPLETED"

-----------------------------------------------------------------------------
(* What the projectors implement                                           *)

Completed == {s \in Sales : sale[s] = "COMPLETED"}
Moved     == {s \in Sales : variants[s] > 0}
Charged   == {s \in Sales : customer[s] > 0}
Revenue   == {s \in Sales : journal[s] > 0}
Cash      == {s \in Sales : cashbook[s] > 0}
Entered   == {m \in Moves : ledger[m] > 0}
Costed    == {m \in Moves : cogs[m] > 0}

Books == INSTANCE SaleBooks WITH
    completed <- Completed, moved <- Moved, charged <- Charged, entered <- Entered,
    revenue <- Revenue, cash <- Cash, cost <- Costed

\* The projectors, as they fail and resume, and the finance catch-up implement SaleBooks.
ImplementsBooks == Books!Spec

-----------------------------------------------------------------------------
(* Claims of the repository that the code does not keep                    *)

\* docs/03: sync is resumable, so an acknowledged sale has all its effects, also when an
\* attempt to project it failed before.
SaleIsResumed ==
    \A s \in Sales : saleIn[s] = "ACKNOWLEDGED" => variants[s] = 1 /\ customer[s] = 1

\* docs/03: sync is idempotent, so a movement takes its batch allocations once however
\* often it is delivered.
StockTakenOnce == \A m \in Moves : \A b \in Takes[m] : taken[m][b] <= 1
=============================================================================
