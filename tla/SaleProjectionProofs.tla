------------------------ MODULE SaleProjectionProofs ------------------------
(***************************************************************************)
(* Theorems about SaleProjection, for every set of sales, movements,       *)
(* batches and hurdles.                                                    *)
(***************************************************************************)
EXTENDS SaleProjection, TLAPS

USE DEF EventStatus

-----------------------------------------------------------------------------
(* Accounting                                                              *)

\* Accounting keeps its counters well typed.
LEMMA BookType ==
    ASSUME TypeOK, NEW s \in Sales, Book(s)
    PROVE  /\ journal' \in [Sales -> Nat]
           /\ cashbook' \in [Sales -> Nat]
           /\ cogs' \in [Moves -> Nat]
  BY DEF TypeOK, Book

\* Accounting writes each journal and the cashbook entries at most once, and only for a
\* transaction and ledger entries that are there.
LEMMA BookEffect ==
    ASSUME TypeOK, NEW s \in Sales, Book(s)
    PROVE  /\ \A t \in Sales :
                /\ journal'[t] = journal[t] \/ (journal[t] = 0 /\ journal'[t] = 1)
                /\ cashbook'[t] = cashbook[t]
                     \/ (journal[t] = 0 /\ journal'[t] = 1 /\ cashbook'[t] = cashbook[t] + 1)
                /\ journal'[t] # journal[t] => t = s /\ sale'[s] = "COMPLETED"
           /\ \A m \in Moves :
                cogs'[m] = cogs[m] \/ (cogs[m] = 0 /\ cogs'[m] = 1 /\ ledger'[m] > 0)
<1>1. ASSUME NEW t \in Sales
      PROVE  /\ journal'[t] = journal[t] \/ (journal[t] = 0 /\ journal'[t] = 1)
             /\ cashbook'[t] = cashbook[t]
                  \/ (journal[t] = 0 /\ journal'[t] = 1 /\ cashbook'[t] = cashbook[t] + 1)
             /\ journal'[t] # journal[t] => t = s /\ sale'[s] = "COMPLETED"
  BY <1>1 DEF TypeOK, Book, PostsJournal, Bookable
<1>2. ASSUME NEW m \in Moves
      PROVE  cogs'[m] = cogs[m] \/ (cogs[m] = 0 /\ cogs'[m] = 1 /\ ledger'[m] > 0)
  BY <1>2 DEF TypeOK, Book, Uncosted
<1>3. QED
  BY <1>1, <1>2

-----------------------------------------------------------------------------
(* Stock                                                                   *)

\* A batch taken before the first short one, or by a movement without short ones, holds a unit.
LEMMA TakenIsThere ==
    ASSUME TypeOK, NEW m \in Moves, NEW b \in Batches, NEW c \in Takes[m],
           \/ Short(m) = {}
           \/ (\A d \in Short(m) : Order[b] <= Order[d]) /\ c \in Before(m, b)
    PROVE  stock[c] \in Nat \ {0}
<1>1. c \in Batches
  BY SaleConstants
<1>2. c \notin Short(m)
  <2>1. CASE Short(m) = {}
    BY <2>1
  <2>2. CASE (\A d \in Short(m) : Order[b] <= Order[d]) /\ c \in Before(m, b)
    <3>1. Order[c] \in Nat /\ Order[b] \in Nat /\ Order[c] < Order[b]
      BY <1>1, <2>2, SaleConstants DEF Before
    <3>2. QED
      BY <2>2, <3>1
  <2>3. QED
    BY <2>1, <2>2
<1>3. QED
  BY <1>1, <1>2 DEF TypeOK, Short

\* Drawing on batches that hold a unit leaves stock and allocations well typed.
LEMMA TakeType ==
    ASSUME TypeOK, NEW m \in Moves, NEW from \in SUBSET Batches,
           \A b \in from : stock[b] \in Nat \ {0},
           Take(m, from)
    PROVE  /\ stock' \in [Batches -> Nat]
           /\ taken' \in [Moves -> [Batches -> Nat]]
<1>1. stock' \in [Batches -> Nat]
  <2>1. \A b \in Batches : (IF b \in from THEN stock[b] - 1 ELSE stock[b]) \in Nat
    BY DEF TypeOK
  <2>2. QED
    BY <2>1 DEF Take
<1>2. [b \in Batches |-> IF b \in from THEN taken[m][b] + 1 ELSE taken[m][b]] \in [Batches -> Nat]
  BY DEF TypeOK
<1>3. taken' \in [Moves -> [Batches -> Nat]]
  BY <1>2 DEF TypeOK, Take
<1>4. QED
  BY <1>1, <1>3

\* What a draw does to the allocations of every movement.
LEMMA TakeEffect ==
    ASSUME TypeOK, NEW m \in Moves, NEW from \in SUBSET Batches, Take(m, from)
    PROVE  \A n \in Moves : \A b \in Batches :
             taken'[n][b] = IF n = m /\ b \in from THEN taken[n][b] + 1 ELSE taken[n][b]
  BY DEF TypeOK, Take

-----------------------------------------------------------------------------
(* Type correctness                                                        *)

\* No step of a projector, of finance or of HQ's users leaves the types.
LEMMA NextType == TypeOK /\ [Next]_vars => TypeOK'
<1> SUFFICES ASSUME TypeOK, [Next]_vars PROVE TypeOK'
  OBVIOUS
<1>1. CASE UNCHANGED vars
  BY <1>1 DEF vars, saleVars, bookVars, stockVars, TypeOK
<1>2. ASSUME NEW s \in Sales, SaleStep(s) PROVE TypeOK'
  <2>1. CASE SaleKnown(s)
    BY <2>1 DEF SaleKnown, saleVars, bookVars, stockVars, TypeOK
  <2>2. CASE SaleRefused(s) \/ SaleLacksVariant(s)
    BY <2>2 DEF SaleRefused, SaleLacksVariant, saleVars, bookVars, stockVars, TypeOK
  <2>3. CASE ProjectSale(s)
    <3>1. /\ journal' \in [Sales -> Nat] /\ cashbook' \in [Sales -> Nat]
          /\ cogs' \in [Moves -> Nat]
      BY <2>3, BookType DEF ProjectSale, bookVars, TypeOK
    <3>2. variants' \in [Sales -> Nat] /\ customer' \in [Sales -> Nat]
      BY <2>3 DEF ProjectSale, TypeOK
    <3>3. /\ sale' \in [Sales -> {"ABSENT", "PARKED", "COMPLETED"}]
          /\ saleIn' \in [Sales -> EventStatus]
      BY <2>3 DEF ProjectSale, TypeOK
    <3>4. QED
      BY <2>3, <3>1, <3>2, <3>3 DEF ProjectSale, stockVars, TypeOK
  <2>4. CASE MaterializeSale(s)
    BY <2>4, BookType DEF MaterializeSale, saleVars, stockVars, TypeOK
  <2>5. QED
    BY <1>2, <2>1, <2>2, <2>3, <2>4 DEF SaleStep, DeliverSale
<1>3. ASSUME NEW m \in Moves, MoveStep(m) PROVE TypeOK'
  <2>0. Takes[m] \in SUBSET Batches /\ SaleOf[m] \in Sales
    BY SaleConstants
  <2>1. CASE MoveKnown(m)
    BY <2>1 DEF MoveKnown, saleVars, bookVars, stockVars, TypeOK
  <2>2. CASE MoveLacksProduct(m)
    BY <2>2 DEF MoveLacksProduct, saleVars, bookVars, stockVars, TypeOK
  <2>3. CASE MoveFallsShort(m)
    <3>1. PICK b \in Short(m) :
            /\ \A c \in Short(m) : Order[b] <= Order[c]
            /\ Take(m, Before(m, b))
            /\ moveIn' = [moveIn EXCEPT ![m] = IF receipts[b] = 0 THEN "FAILED" ELSE "DEAD_LETTER"]
      BY <2>3 DEF MoveFallsShort
    <3>2. b \in Batches /\ Before(m, b) \in SUBSET Batches /\ Before(m, b) \subseteq Takes[m]
      BY <2>0 DEF Short, Before
    <3>3. \A c \in Before(m, b) : stock[c] \in Nat \ {0}
      BY <3>1, <3>2, TakenIsThere
    <3>4. stock' \in [Batches -> Nat] /\ taken' \in [Moves -> [Batches -> Nat]]
      BY <3>1, <3>2, <3>3, TakeType
    <3>5. QED
      BY <2>3, <3>1, <3>4 DEF MoveFallsShort, saleVars, bookVars, TypeOK
  <2>4. CASE ProjectMove(m)
    <3>1. \A c \in Takes[m] : stock[c] \in Nat \ {0}
      BY <2>0, <2>4, TakenIsThere DEF ProjectMove
    <3>2. stock' \in [Batches -> Nat] /\ taken' \in [Moves -> [Batches -> Nat]]
      BY <2>0, <2>4, <3>1, TakeType DEF ProjectMove
    <3>3. /\ journal' \in [Sales -> Nat] /\ cashbook' \in [Sales -> Nat]
          /\ cogs' \in [Moves -> Nat]
      BY <2>0, <2>4, BookType DEF ProjectMove
    <3>4. ledger' \in [Moves -> Nat] /\ moveIn' \in [Moves -> EventStatus]
      BY <2>4 DEF ProjectMove, TypeOK
    <3>5. QED
      BY <2>4, <3>2, <3>3, <3>4 DEF ProjectMove, saleVars, TypeOK
  <2>5. CASE MaterializeCost(m)
    BY <2>5 DEF MaterializeCost, saleVars, stockVars, TypeOK
  <2>6. QED
    BY <1>3, <2>1, <2>2, <2>3, <2>4, <2>5 DEF MoveStep
<1>4. ASSUME NEW b \in Batches, BatchArrives(b) PROVE TypeOK'
  <2>1. Shelf[b] \in Nat /\ MaxReceipts \in Nat
    BY SaleConstants
  <2>2. receipts' \in [Batches -> 0 .. MaxReceipts]
    BY <1>4, <2>1 DEF BatchArrives, TypeOK
  <2>3. stock' \in [Batches -> Nat]
    BY <1>4, <2>1 DEF BatchArrives, TypeOK
  <2>4. QED
    BY <1>4, <2>2, <2>3 DEF BatchArrives, saleVars, bookVars, TypeOK
<1>5. ASSUME NEW h \in Hurdles, PutRight(h) PROVE TypeOK'
  BY <1>5 DEF PutRight, saleVars, bookVars, stockVars, TypeOK
<1>6. QED
  BY <1>1, <1>2, <1>3, <1>4, <1>5 DEF Next

\* Every counter, status and stock level keeps its type: no batch goes below zero,
\* whatever is delivered, retried and put right in whatever order.
THEOREM TypeCorrect == Spec => []TypeOK
<1>1. Init => TypeOK
  BY SaleConstants DEF Init, TypeOK
<1>2. QED
  BY <1>1, NextType, PTL DEF Spec

-----------------------------------------------------------------------------
(* Effects                                                                 *)

\* A sale HQ has not completed has no effects yet.  This is what makes EffectsOnce and
\* PostedHasSource inductive: completing a sale starts its effects from nothing.
OpenHasNoEffects ==
    \A s \in Sales : sale[s] # "COMPLETED" =>
        variants[s] = 0 /\ customer[s] = 0 /\ journal[s] = 0 /\ cashbook[s] = 0

IInv == TypeOK /\ OpenHasNoEffects /\ EffectsOnce /\ PostedHasSource

\* What accounting leaves true of the counters of a sale that is completed afterwards.
LEMMA BookKeepsCounters ==
    ASSUME IInv, NEW s \in Sales, Book(s),
           NEW t \in Sales, t = s => sale'[s] = "COMPLETED"
    PROVE  /\ journal'[t] <= 1 /\ cashbook'[t] <= 1
           /\ cashbook'[t] > 0 => journal'[t] > 0
           /\ t # s => journal'[t] = journal[t] /\ cashbook'[t] = cashbook[t]
<1>1. journal[t] \in Nat /\ cashbook[t] \in Nat /\ cashbook'[t] \in Nat
  BY BookType DEF IInv, TypeOK
<1>2. /\ journal[t] <= 1 /\ cashbook[t] <= 1
      /\ cashbook[t] > 0 => journal[t] > 0
  BY DEF IInv, EffectsOnce, PostedHasSource
<1>3. /\ journal'[t] = journal[t] \/ (journal[t] = 0 /\ journal'[t] = 1)
      /\ \/ cashbook'[t] = cashbook[t]
         \/ journal[t] = 0 /\ journal'[t] = 1 /\ cashbook'[t] = cashbook[t] + 1
      /\ t # s => journal'[t] = journal[t]
  BY BookEffect DEF IInv
<1>4. QED
  BY <1>1, <1>2, <1>3

\* Every step keeps the counters of sales and movements.
LEMMA NextIInv == IInv /\ [Next]_vars => IInv'
<1> SUFFICES ASSUME IInv, [Next]_vars PROVE IInv'
  OBVIOUS
<1> USE DEF IInv
<1>0. TypeOK'
  BY NextType
<1>1. CASE UNCHANGED vars
  BY <1>0, <1>1 DEF vars, saleVars, bookVars, stockVars, OpenHasNoEffects, EffectsOnce,
                    PostedHasSource
<1>2. ASSUME NEW s \in Sales, SaleStep(s) PROVE IInv'
  <2>1. CASE SaleKnown(s)
    BY <1>0, <2>1 DEF SaleKnown, saleVars, bookVars, TypeOK, OpenHasNoEffects, EffectsOnce,
                      PostedHasSource
  <2>2. CASE SaleRefused(s) \/ SaleLacksVariant(s)
    BY <1>0, <2>2 DEF SaleRefused, SaleLacksVariant, Replaceable, saleVars, bookVars, TypeOK,
                      OpenHasNoEffects, EffectsOnce, PostedHasSource
  <2>3. CASE ProjectSale(s)
    <3>1. variants[s] = 0 /\ customer[s] = 0 /\ journal[s] = 0 /\ cashbook[s] = 0
      BY <2>3 DEF ProjectSale, Replaceable, OpenHasNoEffects
    <3>2. sale'[s] = "COMPLETED" /\ \A t \in Sales : t # s => sale'[t] = sale[t]
      BY <2>3 DEF ProjectSale, TypeOK
    <3>3. \A t \in Sales : /\ variants'[t] <= 1 /\ customer'[t] <= 1
                           /\ t # s => variants'[t] = variants[t] /\ customer'[t] = customer[t]
      BY <2>3, <3>1 DEF ProjectSale, EffectsOnce, TypeOK
    <3>4. UNCHANGED bookVars \/ Book(s)
      BY <2>3 DEF ProjectSale
    <3>5. ASSUME NEW t \in Sales
          PROVE  /\ journal'[t] <= 1 /\ cashbook'[t] <= 1
                 /\ cashbook'[t] > 0 => journal'[t] > 0
                 /\ t # s => journal'[t] = journal[t] /\ cashbook'[t] = cashbook[t]
      <4>1. CASE UNCHANGED bookVars
        BY <4>1 DEF bookVars, EffectsOnce, PostedHasSource
      <4>2. CASE Book(s)
        BY <3>2, <4>2, BookKeepsCounters
      <4>3. QED
        BY <3>4, <4>1, <4>2
    <3>6. \A m \in Moves : ledger'[m] = ledger[m] /\ moveIn'[m] = moveIn[m]
      BY <2>3 DEF ProjectSale
    <3>7. \A m \in Moves : cogs'[m] <= 1 /\ (cogs'[m] > 0 => ledger'[m] > 0)
      <4>1. CASE UNCHANGED bookVars
        BY <3>6, <4>1 DEF bookVars, EffectsOnce, PostedHasSource
      <4>2. CASE Book(s)
        BY <3>6, <4>2, BookEffect DEF EffectsOnce, PostedHasSource
      <4>3. QED
        BY <3>4, <4>1, <4>2
    <3>8. \A t \in Sales : t # s => saleIn'[t] = saleIn[t]
      BY <2>3 DEF ProjectSale, TypeOK
    <3>9. OpenHasNoEffects'
      BY <3>2, <3>3, <3>5 DEF OpenHasNoEffects
    <3>10. EffectsOnce'
      BY <3>3, <3>5, <3>6, <3>7 DEF EffectsOnce
    <3>11. PostedHasSource'
      BY <3>2, <3>5, <3>6, <3>7, <3>8 DEF PostedHasSource
    <3>12. QED
      BY <1>0, <3>9, <3>10, <3>11
  <2>4. CASE MaterializeSale(s)
    <3>1. /\ sale[s] = "COMPLETED" /\ Book(s)
          /\ sale' = sale /\ variants' = variants /\ customer' = customer /\ ledger' = ledger
          /\ saleIn' = saleIn /\ moveIn' = moveIn
      BY <2>4 DEF MaterializeSale, saleVars
    <3>2. ASSUME NEW t \in Sales
          PROVE  /\ journal'[t] <= 1 /\ cashbook'[t] <= 1
                 /\ cashbook'[t] > 0 => journal'[t] > 0
                 /\ t # s => journal'[t] = journal[t] /\ cashbook'[t] = cashbook[t]
      BY <3>1, BookKeepsCounters
    <3>3. \A m \in Moves : cogs'[m] <= 1 /\ (cogs'[m] > 0 => ledger'[m] > 0)
      BY <3>1, BookEffect DEF EffectsOnce, PostedHasSource
    <3>4. OpenHasNoEffects' /\ EffectsOnce' /\ PostedHasSource'
      BY <3>1, <3>2, <3>3 DEF OpenHasNoEffects, EffectsOnce, PostedHasSource
    <3>5. QED
      BY <1>0, <3>4
  <2>5. QED
    BY <1>2, <2>1, <2>2, <2>3, <2>4 DEF SaleStep, DeliverSale
<1>3. ASSUME NEW m \in Moves, MoveStep(m) PROVE IInv'
  <2>1. CASE MoveKnown(m)
    BY <1>0, <2>1 DEF MoveKnown, saleVars, bookVars, TypeOK, OpenHasNoEffects, EffectsOnce,
                      PostedHasSource
  <2>2. CASE MoveLacksProduct(m)
    BY <1>0, <2>2 DEF MoveLacksProduct, saleVars, bookVars, TypeOK, OpenHasNoEffects,
                      EffectsOnce, PostedHasSource
  <2>3. CASE MoveFallsShort(m)
    <3>1. /\ UNCHANGED <<saleIn, sale, variants, customer, journal, cashbook, cogs, ledger>>
          /\ \A n \in Moves : moveIn'[n] = "ACKNOWLEDGED" => moveIn[n] = "ACKNOWLEDGED"
      BY <2>3 DEF MoveFallsShort, saleVars, bookVars, TypeOK
    <3>2. QED
      BY <1>0, <3>1 DEF OpenHasNoEffects, EffectsOnce, PostedHasSource
  <2>4. CASE ProjectMove(m)
    <3>1. SaleOf[m] \in Sales
      BY SaleConstants
    <3>2. /\ Book(SaleOf[m]) /\ sale' = sale /\ variants' = variants /\ customer' = customer
          /\ saleIn' = saleIn
      BY <2>4 DEF ProjectMove, saleVars
    <3>3. ASSUME NEW t \in Sales
          PROVE  /\ journal'[t] <= 1 /\ cashbook'[t] <= 1
                 /\ cashbook'[t] > 0 => journal'[t] > 0
                 /\ sale[t] # "COMPLETED" => journal'[t] = 0 /\ cashbook'[t] = 0
      <4>1. /\ journal[t] <= 1 /\ cashbook[t] <= 1 /\ journal[t] \in Nat /\ cashbook[t] \in Nat
            /\ cashbook[t] > 0 => journal[t] > 0
            /\ sale[t] # "COMPLETED" => journal[t] = 0 /\ cashbook[t] = 0
        BY DEF TypeOK, EffectsOnce, PostedHasSource, OpenHasNoEffects
      <4>2. /\ journal'[t] = journal[t] \/ (journal[t] = 0 /\ journal'[t] = 1)
            /\ \/ cashbook'[t] = cashbook[t]
               \/ journal[t] = 0 /\ journal'[t] = 1 /\ cashbook'[t] = cashbook[t] + 1
            /\ journal'[t] # journal[t] => t = SaleOf[m] /\ sale'[SaleOf[m]] = "COMPLETED"
        BY <3>1, <3>2, BookEffect
      <4>3. QED
        BY <3>2, <4>1, <4>2
    <3>4. \A n \in Moves : /\ ledger'[n] <= 1
                           /\ ledger[n] > 0 => ledger'[n] > 0
                           /\ n = m => ledger'[n] = 1
                           /\ n # m => moveIn'[n] = moveIn[n]
      BY <2>4 DEF ProjectMove, EffectsOnce, TypeOK
    <3>5. \A n \in Moves : cogs'[n] <= 1 /\ (cogs'[n] > 0 => ledger'[n] > 0)
      BY <3>1, <3>2, <3>4, BookEffect DEF EffectsOnce, PostedHasSource
    <3>6. OpenHasNoEffects'
      BY <3>2, <3>3 DEF OpenHasNoEffects
    <3>7. EffectsOnce'
      BY <3>2, <3>3, <3>4, <3>5 DEF EffectsOnce
    <3>8. PostedHasSource'
      BY <3>2, <3>3, <3>4, <3>5 DEF PostedHasSource, TypeOK
    <3>9. QED
      BY <1>0, <3>6, <3>7, <3>8
  <2>5. CASE MaterializeCost(m)
    BY <1>0, <2>5 DEF MaterializeCost, saleVars, TypeOK, OpenHasNoEffects, EffectsOnce,
                      PostedHasSource
  <2>6. QED
    BY <1>3, <2>1, <2>2, <2>3, <2>4, <2>5 DEF MoveStep
<1>4. ASSUME NEW b \in Batches, BatchArrives(b) PROVE IInv'
  BY <1>0, <1>4 DEF BatchArrives, saleVars, bookVars, OpenHasNoEffects, EffectsOnce,
                    PostedHasSource
<1>5. ASSUME NEW h \in Hurdles, PutRight(h) PROVE IInv'
  BY <1>0, <1>5 DEF PutRight, saleVars, bookVars, OpenHasNoEffects, EffectsOnce, PostedHasSource
<1>6. QED
  BY <1>1, <1>2, <1>3, <1>4, <1>5 DEF Next

\* In every reachable state the counters are typed and bounded, open sales have no effects
\* and postings have their source.
LEMMA InductiveInvariant == Spec => []IInv
<1>1. Init => IInv
  BY SaleConstants DEF Init, IInv, TypeOK, OpenHasNoEffects, EffectsOnce, PostedHasSource
<1>2. QED
  BY <1>1, NextIInv, PTL DEF Spec

\* Variants, customer account, journals, cashbook and ledger are written at most once per
\* sale or movement, whatever fails in between and is delivered again.
THEOREM EffectsAreWrittenOnce == Spec => []EffectsOnce
<1>1. IInv => EffectsOnce
  BY DEF IInv
<1>2. QED
  BY <1>1, InductiveInvariant, PTL

\* What is acknowledged or posted rests on a transaction or ledger entry that is there.
THEOREM PostingsHaveSource == Spec => []PostedHasSource
<1>1. IInv => PostedHasSource
  BY DEF IInv
<1>2. QED
  BY <1>1, InductiveInvariant, PTL

-----------------------------------------------------------------------------
(* Stock and ledger                                                        *)

\* A step that touches neither the ledger nor the allocations keeps them in agreement.
LEMMA StockUntouched ==
    ASSUME LedgerMatchesStock, taken' = taken, ledger' = ledger
    PROVE  LedgerMatchesStock'
  BY DEF LedgerMatchesStock

\* Every step keeps ledger entries and allocations in agreement: a movement stops before
\* its last allocation or takes all of them and writes the entry.
LEMMA NextStock == TypeOK /\ LedgerMatchesStock /\ [Next]_vars => LedgerMatchesStock'
<1> SUFFICES ASSUME TypeOK, LedgerMatchesStock, [Next]_vars PROVE LedgerMatchesStock'
  OBVIOUS
<1>1. CASE UNCHANGED vars
  BY <1>1, StockUntouched DEF vars, stockVars
<1>2. ASSUME NEW s \in Sales, SaleStep(s) PROVE LedgerMatchesStock'
  BY <1>2, StockUntouched DEF SaleStep, DeliverSale, SaleKnown, SaleRefused,
                              SaleLacksVariant, ProjectSale, MaterializeSale, stockVars
<1>3. ASSUME NEW m \in Moves, MoveStep(m) PROVE LedgerMatchesStock'
  <2>0. Takes[m] \in SUBSET Batches
    BY SaleConstants
  <2>1. CASE MoveKnown(m) \/ MoveLacksProduct(m) \/ MaterializeCost(m)
    BY <2>1, StockUntouched DEF MoveKnown, MoveLacksProduct, MaterializeCost, stockVars
  <2>2. CASE MoveFallsShort(m)
    <3>1. PICK b \in Short(m) : Take(m, Before(m, b))
      BY <2>2 DEF MoveFallsShort
    <3>2. b \in Takes[m] /\ Before(m, b) \in SUBSET Batches
      BY <2>0 DEF Short, Before
    <3>3. ledger' = ledger /\ ledger[m] = 0
      BY <2>2 DEF MoveFallsShort
    <3>4. ASSUME NEW n \in Moves, NEW c \in Takes[n]
          PROVE  /\ ledger'[n] > 0 => taken'[n][c] > 0
                 /\ (\A d \in Takes[n] : Order[d] <= Order[c]) => taken'[n][c] = ledger'[n]
      <4>1. c \in Batches /\ taken[n][c] \in Nat /\ Order[c] \in Nat /\ Order[b] \in Nat
        BY <2>0, <3>2, SaleConstants DEF TypeOK
      <4>2. taken'[n][c] = IF n = m /\ c \in Before(m, b) THEN taken[n][c] + 1 ELSE taken[n][c]
        BY <3>1, <3>2, <4>1, TakeEffect
      <4>3. CASE n # m
        BY <3>3, <4>2, <4>3 DEF LedgerMatchesStock
      <4>4. CASE n = m
        <5>1. (\A d \in Takes[n] : Order[d] <= Order[c]) => c \notin Before(m, b)
          BY <3>2, <4>1, <4>4 DEF Before
        <5>2. QED
          BY <3>3, <4>2, <4>4, <5>1 DEF LedgerMatchesStock
      <4>5. QED
        BY <4>3, <4>4
    <3>5. QED
      BY <3>4 DEF LedgerMatchesStock
  <2>3. CASE ProjectMove(m)
    <3>1. /\ Take(m, Takes[m]) /\ ledger[m] = 0
          /\ \A n \in Moves : ledger'[n] = IF n = m THEN 1 ELSE ledger[n]
      BY <2>3 DEF ProjectMove, TypeOK
    <3>2. ASSUME NEW n \in Moves, NEW c \in Takes[n]
          PROVE  /\ ledger'[n] > 0 => taken'[n][c] > 0
                 /\ (\A d \in Takes[n] : Order[d] <= Order[c]) => taken'[n][c] = ledger'[n]
      <4>1. c \in Batches /\ taken[n][c] \in Nat
        BY SaleConstants DEF TypeOK
      <4>2. taken'[n][c] = IF n = m /\ c \in Takes[m] THEN taken[n][c] + 1 ELSE taken[n][c]
        BY <2>0, <3>1, <4>1, TakeEffect
      <4>3. QED
        BY <3>1, <4>1, <4>2 DEF LedgerMatchesStock
    <3>3. QED
      BY <3>2 DEF LedgerMatchesStock
  <2>4. QED
    BY <1>3, <2>1, <2>2, <2>3 DEF MoveStep
<1>4. ASSUME NEW b \in Batches, BatchArrives(b) PROVE LedgerMatchesStock'
  BY <1>4, StockUntouched DEF BatchArrives
<1>5. ASSUME NEW h \in Hurdles, PutRight(h) PROVE LedgerMatchesStock'
  BY <1>5, StockUntouched DEF PutRight, stockVars
<1>6. QED
  BY <1>1, <1>2, <1>3, <1>4, <1>5 DEF Next

\* A ledger entry at HQ stands for stock that was taken, and a movement without one has not
\* taken its last allocation.
THEOREM LedgerStandsForStock == Spec => []LedgerMatchesStock
<1>1. Init => LedgerMatchesStock
  BY SaleConstants DEF Init, LedgerMatchesStock
<1>2. Spec => []TypeOK
  BY TypeCorrect
<1>3. QED
  BY <1>1, <1>2, NextStock, PTL DEF Spec

-----------------------------------------------------------------------------
(* Completed sales                                                         *)

\* A completed sale keeps its row, its variant movements and its customer posting.
THEOREM CompletedSalesAreFinal == Spec => CompletedIsFinal
<1>1. TypeOK /\ [Next]_vars =>
        [\A s \in Sales : sale[s] = "COMPLETED" =>
           sale'[s] = "COMPLETED" /\ variants'[s] = variants[s] /\ customer'[s] = customer[s]]_vars
  <2> SUFFICES ASSUME TypeOK, Next, NEW s \in Sales, sale[s] = "COMPLETED"
               PROVE  /\ sale'[s] = "COMPLETED"
                      /\ variants'[s] = variants[s] /\ customer'[s] = customer[s]
    OBVIOUS
  <2>1. ASSUME NEW t \in Sales, SaleStep(t)
        PROVE  sale'[s] = sale[s] /\ variants'[s] = variants[s] /\ customer'[s] = customer[s]
    <3>1. CASE SaleKnown(t) \/ MaterializeSale(t)
      BY <3>1 DEF SaleKnown, MaterializeSale, saleVars
    <3>2. CASE SaleRefused(t) \/ SaleLacksVariant(t)
      BY <3>2 DEF SaleRefused, SaleLacksVariant, Replaceable, saleVars, TypeOK
    <3>3. CASE ProjectSale(t)
      BY <3>3 DEF ProjectSale, Replaceable, TypeOK
    <3>4. QED
      BY <2>1, <3>1, <3>2, <3>3 DEF SaleStep, DeliverSale
  <2>2. ASSUME NEW m \in Moves, MoveStep(m) PROVE UNCHANGED saleVars
    BY <2>2 DEF MoveStep, MoveKnown, MoveLacksProduct, MoveFallsShort, ProjectMove,
                MaterializeCost
  <2>3. ASSUME NEW b \in Batches, BatchArrives(b) PROVE UNCHANGED saleVars
    BY <2>3 DEF BatchArrives
  <2>4. ASSUME NEW h \in Hurdles, PutRight(h) PROVE UNCHANGED saleVars
    BY <2>4 DEF PutRight
  <2>5. QED
    BY <2>1, <2>2, <2>3, <2>4 DEF Next, saleVars
<1>2. Spec => []TypeOK
  BY TypeCorrect
<1>3. QED
  BY <1>1, <1>2, PTL DEF Spec, CompletedIsFinal

-----------------------------------------------------------------------------
(* The books                                                               *)

\* Accounting for a completed sale is a step of the abstract books or leaves them alone.
LEMMA BookRefines ==
    ASSUME TypeOK, NEW s \in Sales, Book(s)
    PROVE  Books!Account(s) \/ UNCHANGED <<Revenue, Cash, Costed>>
<1> DEFINE posts == Bookable(s) /\ PostsJournal(s)
           writes == posts /\ Clear(s, "numbering")
           costs == IF Bookable(s) /\ Journalled(s) /\ Clear(s, "cost") THEN Uncosted(s) ELSE {}
<1>1. Revenue' = IF posts THEN Revenue \cup {s} ELSE Revenue
  BY DEF TypeOK, Book, Revenue
<1>2. Cash' = IF writes THEN Cash \cup {s} ELSE Cash
  BY DEF TypeOK, Book, Cash
<1>3. Costed' = Costed \cup costs
  BY DEF TypeOK, Book, Costed, Uncosted
<1>4. CASE ~Bookable(s)
  BY <1>1, <1>2, <1>3, <1>4
<1>5. CASE Bookable(s)
  <2>1. s \in Completed'
    BY <1>5 DEF Bookable, Completed
  <2>2. posts => s \notin Revenue
    BY DEF PostsJournal, Revenue
  <2>3. Cash' \in {Cash, Cash \cup (Revenue' \ Revenue)}
    BY <1>1, <1>2, <2>2
  <2>4. CASE costs = {}
    BY <1>1, <1>3, <2>1, <2>3, <2>4 DEF Books!Account
  <2>5. CASE Journalled(s) /\ costs = Uncosted(s)
    <3>1. s \in Revenue'
      BY <1>1, <1>5, <2>5 DEF Journalled, Revenue
    <3>2. Costed' = Costed \cup {m \in Entered' : SaleOf[m] = s}
      BY <1>3, <2>5 DEF TypeOK, Uncosted, Costed, Entered
    <3>3. QED
      BY <1>1, <2>1, <2>3, <3>1, <3>2 DEF Books!Account
  <2>6. QED
    BY <2>4, <2>5
<1>6. QED
  BY <1>4, <1>5

\* Every step of a projector, of finance or of HQ's users is one of the books or a stutter.
LEMMA StepRefines == IInv /\ [Next]_vars => [Books!Next]_(Books!vars)
<1> SUFFICES ASSUME TypeOK, OpenHasNoEffects, [Next]_vars
             PROVE  Books!Next \/ UNCHANGED Books!vars
  BY DEF IInv
<1> USE DEF Books!vars, Books!books
<1>1. CASE UNCHANGED <<saleVars, bookVars, ledger>>
  BY <1>1 DEF saleVars, bookVars, Completed, Moved, Charged, Revenue, Cash, Entered, Costed
<1>2. ASSUME NEW s \in Sales, SaleStep(s) PROVE Books!Next \/ UNCHANGED Books!vars
  <2>1. CASE SaleKnown(s) \/ SaleRefused(s)
    BY <1>1, <2>1 DEF SaleKnown, SaleRefused
  <2>2. CASE SaleLacksVariant(s)
    <3>1. Completed' = Completed
      BY <2>2 DEF SaleLacksVariant, Replaceable, TypeOK, Completed
    <3>2. QED
      BY <2>2, <3>1 DEF SaleLacksVariant, bookVars, Moved, Charged, Revenue, Cash, Entered,
                        Costed
  <2>3. CASE ProjectSale(s)
    <3>1. s \notin Completed /\ Completed' = Completed \cup {s}
      BY <2>3 DEF ProjectSale, Replaceable, TypeOK, Completed
    <3>2. s \notin Moved /\ s \notin Charged
      BY <2>3 DEF ProjectSale, Replaceable, OpenHasNoEffects, Moved, Charged
    <3>3. Moved' = IF Clear(s, "serials") THEN Moved \cup {s} ELSE Moved
      BY <2>3 DEF ProjectSale, TypeOK, Moved
    <3>4. Charged' = IF Clear(s, "serials") /\ Clear(s, "credit") THEN Charged \cup {s}
                     ELSE Charged
      BY <2>3 DEF ProjectSale, TypeOK, Charged
    <3>5. Charged' \in {Charged, Charged \cup (Moved' \ Moved)}
      BY <3>2, <3>3, <3>4
    <3>6. (s \in Charged' /\ Book(s)) \/ UNCHANGED <<Revenue, Cash, Costed>>
      BY <2>3, <3>4 DEF ProjectSale, bookVars, Revenue, Cash, Costed
    <3>7. Books!Complete(s)
      BY <2>3, <3>1, <3>3, <3>5, <3>6, BookRefines DEF ProjectSale, Books!Complete, Entered
    <3>8. QED
      BY <3>7 DEF Books!Next
  <2>4. CASE MaterializeSale(s)
    <3>1. /\ UNCHANGED <<Completed, Moved, Charged, Entered>>
          /\ Books!Account(s) \/ UNCHANGED <<Revenue, Cash, Costed>>
      BY <2>4, BookRefines DEF MaterializeSale, saleVars, Completed, Moved, Charged, Entered
    <3>2. QED
      BY <3>1 DEF Books!Next, Books!CatchUp
  <2>5. QED
    BY <1>2, <2>1, <2>2, <2>3, <2>4 DEF SaleStep, DeliverSale
<1>3. ASSUME NEW m \in Moves, MoveStep(m) PROVE Books!Next \/ UNCHANGED Books!vars
  <2>1. CASE MoveKnown(m) \/ MoveLacksProduct(m) \/ MoveFallsShort(m)
    BY <1>1, <2>1 DEF MoveKnown, MoveLacksProduct, MoveFallsShort
  <2>2. CASE ProjectMove(m)
    <3>1. m \notin Entered /\ Entered' = Entered \cup {m}
      BY <2>2 DEF ProjectMove, TypeOK, Entered
    <3>2. UNCHANGED <<Completed, Moved, Charged>>
      BY <2>2 DEF ProjectMove, saleVars, Completed, Moved, Charged
    <3>3. Books!Account(SaleOf[m]) \/ UNCHANGED <<Revenue, Cash, Costed>>
      BY <2>2, BookRefines, SaleConstants DEF ProjectMove
    <3>4. QED
      BY <3>1, <3>2, <3>3 DEF Books!Next, Books!Enter
  <2>3. CASE MaterializeCost(m)
    <3>1. m \in Entered /\ Costed' = Costed \cup {m}
      BY <2>3 DEF MaterializeCost, TypeOK, Entered, Costed
    <3>2. UNCHANGED <<Completed, Moved, Charged, Entered, Revenue, Cash>>
      BY <2>3 DEF MaterializeCost, saleVars, Completed, Moved, Charged, Entered, Revenue, Cash
    <3>3. QED
      BY <3>1, <3>2 DEF Books!Next, Books!CostOf
  <2>4. QED
    BY <1>3, <2>1, <2>2, <2>3 DEF MoveStep
<1>4. ASSUME NEW b \in Batches, BatchArrives(b) PROVE Books!Next \/ UNCHANGED Books!vars
  BY <1>1, <1>4 DEF BatchArrives
<1>5. ASSUME NEW h \in Hurdles, PutRight(h) PROVE Books!Next \/ UNCHANGED Books!vars
  BY <1>1, <1>5 DEF PutRight
<1>6. CASE UNCHANGED vars
  BY <1>1, <1>6 DEF vars
<1>7. QED
  BY <1>2, <1>3, <1>4, <1>5, <1>6 DEF Next

\* However deliveries fail and resume, the projectors keep the promise of the books: one
\* sale per transaction, cash with the revenue or never, costs of what is entered, nothing
\* taken back.
THEOREM ProjectorsKeepBooks == Spec => ImplementsBooks
<1>1. Init => Books!Init
  BY DEF Init, Books!Init, Completed, Moved, Charged, Revenue, Cash, Entered, Costed
<1>2. QED
  BY <1>1, StepRefines, InductiveInvariant, PTL DEF Spec, ImplementsBooks, Books!Spec

-----------------------------------------------------------------------------
(* Where the claims of the repository do hold                              *)

\* Only a serial number or a store-credit rule makes a projection stop between the
\* transaction and its effects.
Accepted == \A s \in Sales : \A h \in {"serials", "credit"} : <<s, h>> \notin Hurdles

\* A completed sale has moved its variants and charged its customer.
CompletedIsWhole ==
    \A s \in Sales : sale[s] = "COMPLETED" => variants[s] = 1 /\ customer[s] = 1

LEMMA NextWhole ==
    ASSUME Accepted, IInv, CompletedIsWhole, [Next]_vars
    PROVE  CompletedIsWhole'
<1>1. CASE UNCHANGED saleVars
  BY <1>1 DEF saleVars, CompletedIsWhole
<1>2. ASSUME NEW s \in Sales, SaleStep(s) PROVE CompletedIsWhole'
  <2>1. CASE SaleKnown(s) \/ SaleRefused(s) \/ MaterializeSale(s)
    BY <1>1, <2>1 DEF SaleKnown, SaleRefused, MaterializeSale
  <2>2. CASE SaleLacksVariant(s)
    BY <2>2 DEF SaleLacksVariant, IInv, TypeOK, CompletedIsWhole
  <2>3. CASE ProjectSale(s)
    <3>1. Clear(s, "serials") /\ Clear(s, "credit")
      BY DEF Accepted, Clear, IInv, TypeOK
    <3>2. variants[s] = 0 /\ customer[s] = 0
      BY <2>3 DEF ProjectSale, Replaceable, IInv, OpenHasNoEffects
    <3>3. QED
      BY <2>3, <3>1, <3>2 DEF ProjectSale, IInv, TypeOK, CompletedIsWhole
  <2>4. QED
    BY <1>2, <2>1, <2>2, <2>3 DEF SaleStep, DeliverSale
<1>3. ASSUME NEW m \in Moves, MoveStep(m) PROVE CompletedIsWhole'
  BY <1>1, <1>3 DEF MoveStep, MoveKnown, MoveLacksProduct, MoveFallsShort, ProjectMove,
                    MaterializeCost
<1>4. CASE \/ \E b \in Batches : BatchArrives(b)
           \/ \E h \in Hurdles : PutRight(h)
  BY <1>1, <1>4 DEF BatchArrives, PutRight
<1>5. CASE UNCHANGED vars
  BY <1>1, <1>5 DEF vars
<1>6. QED
  BY <1>2, <1>3, <1>4, <1>5 DEF Next

\* docs/03 is kept by every sale that no serial number and no store-credit rule holds up:
\* once acknowledged it has all its effects, whatever else failed on the way.
THEOREM AcceptedSalesAreResumed == ASSUME Accepted PROVE Spec => []SaleIsResumed
<1>1. Init => CompletedIsWhole
  BY DEF Init, CompletedIsWhole
<1>2. IInv /\ CompletedIsWhole => SaleIsResumed
  BY DEF IInv, PostedHasSource, CompletedIsWhole, SaleIsResumed
<1>3. IInv /\ CompletedIsWhole /\ [Next]_vars => CompletedIsWhole'
  BY NextWhole
<1>4. QED
  BY <1>1, <1>2, <1>3, InductiveInvariant, PTL DEF Spec

\* docs/03 is kept by movements that draw on one batch: however often they are delivered
\* the batch is charged once, and then the entry is written with it.
THEOREM SingleBatchTakenOnce ==
    ASSUME \A m \in Moves : \A b, c \in Takes[m] : b = c
    PROVE  Spec => []StockTakenOnce
<1>1. LedgerMatchesStock /\ EffectsOnce => StockTakenOnce
  <2> SUFFICES ASSUME LedgerMatchesStock, EffectsOnce, NEW m \in Moves, NEW b \in Takes[m]
               PROVE  taken[m][b] <= 1
    BY DEF StockTakenOnce
  <2>1. \A c \in Takes[m] : Order[c] <= Order[b]
    BY SaleConstants
  <2>2. QED
    BY <2>1 DEF LedgerMatchesStock, EffectsOnce
<1>2. QED
  BY <1>1, LedgerStandsForStock, EffectsAreWrittenOnce, PTL

=============================================================================
