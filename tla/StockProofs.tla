---------------------------- MODULE StockProofs ----------------------------
(***************************************************************************)
(* What holds of Stock for every choice of products, warehouses, lots,     *)
(* expiry dates and quantities.  The bound MaxQuantity plays no part.      *)
(***************************************************************************)
EXTENDS Stock, Sums, TLAPS

-----------------------------------------------------------------------------
(* The lots of a key stay well typed whatever the loop takes from them.    *)

\* What the loop over the lots takes is never more than a lot has.
LEMMA PicksAreTyped ==
  ASSUME TypeOK, NEW k \in Keys, NEW q \in Nat, NEW pick \in FefoPicks(k, q)
  PROVE  /\ pick \in [LotNumbers -> Nat]
         /\ TakenFrom(lots[k], pick) \in [LotNumbers -> LotRow]
  <1>1. pick \in [LotNumbers -> 0 .. q]
    BY DEF FefoPicks
  <1>2. lots[k] \in [LotNumbers -> LotRow]
    BY DEF TypeOK
  <1>3. ASSUME NEW l \in LotNumbers
        PROVE  [lots[k][l] EXCEPT !.quantity = @ - pick[l]] \in LotRow
    <2> DEFINE rest == AtLeastZero(q - HeldBefore(k, l))
    <2>1. lots[k][l] \in LotRow /\ lots[k][l].quantity \in Nat /\ pick[l] \in Nat
      BY <1>1, <1>2 DEF LotRow
    <2>2. pick[l] = Smaller(lots[k][l].quantity, rest)
      BY DEF FefoPicks
    <2> HIDE DEF rest
    <2>3. pick[l] <= lots[k][l].quantity
      BY <2>1, <2>2 DEF Smaller
    <2>4. QED  BY <2>1, <2>3 DEF LotRow
  <1>4. pick \in [LotNumbers -> Nat]
    BY <1>1
  <1>5. QED  BY <1>3, <1>4 DEF TakenFrom

\* The lots of the destination of a transfer stay well typed.
LEMMA ArrivalsAreTyped ==
  ASSUME NEW destination \in [LotNumbers -> LotRow], NEW origin \in [LotNumbers -> LotRow],
         NEW pick \in [LotNumbers -> Nat]
  PROVE  ArrivedLots(destination, origin, pick) \in [LotNumbers -> LotRow]
  <1>1. ASSUME NEW l \in LotNumbers
        PROVE  ArrivedLots(destination, origin, pick)[l] \in LotRow
    <2>1. destination[l] \in LotRow /\ origin[l] \in LotRow /\ pick[l] \in Nat
      OBVIOUS
    <2>2. QED  BY <2>1 DEF ArrivedLots, LotRow
  <1>2. QED  BY <1>1 DEF ArrivedLots

-----------------------------------------------------------------------------
(* The inductive invariant: types, sound rows and the ledger together.     *)

IInv ==
  /\ TypeOK
  /\ \A k \in Keys : SoundRow(stock[k])
  /\ LedgerMatchesQuantity

\* There is no stock at the start.
LEMMA InitIInv == Init => IInv
  BY StockAssumption
  DEF Init, IInv, TypeOK, SoundRow, LedgerMatchesQuantity, Row, EmptyRow, LotRow, NoLot

\* A step that changes one row as a sound move of delta, and the ledger by as
\* much, keeps the part of the invariant that is not about lots.
LEMMA OneRowStep ==
  ASSUME IInv, NEW k \in Keys, NEW row, NEW delta \in Int,
         SoundRow(row), row.quantity = stock[k].quantity + delta,
         stock' = [stock EXCEPT ![k] = row],
         ledger' = [ledger EXCEPT ![k] = ledger[k] + delta],
         lots' \in [Keys -> [LotNumbers -> LotRow]]
  PROVE  IInv'
  <1> USE DEF IInv
  <1>1. stock' \in [Keys -> Row] /\ ledger' \in [Keys -> Int]
    BY DEF TypeOK, SoundRow
  <1>2. \A j \in Keys : SoundRow(stock'[j])
    BY DEF TypeOK
  <1>3. LedgerMatchesQuantity'
    BY DEF TypeOK, LedgerMatchesQuantity
  <1>4. QED  BY <1>1, <1>2, <1>3 DEF TypeOK, SoundRow

\* A receipt changes one row by what it records, whatever it does to the lots.
LEMMA ReceiveStep ==
  ASSUME IInv, NEW k \in Keys, NEW q \in Nat \ {0}, MoveRow(k, q),
         ledger' = [ledger EXCEPT ![k] = @ + q],
         lots' \in [Keys -> [LotNumbers -> LotRow]]
  PROVE  IInv'
  <1>1. SoundRow(stock[k])
    BY DEF IInv
  <1>2. SoundRow(Moved(stock[k], q)) /\ Moved(stock[k], q).quantity = stock[k].quantity + q
    BY <1>1 DEF SoundRow, Row, Moved, AtLeastZero, AtMostZero
  <1>3. q \in Int /\ stock' = [stock EXCEPT ![k] = Moved(stock[k], q)]
    BY DEF MoveRow
  <1>4. QED  BY <1>2, <1>3, OneRowStep

\* An issue changes one row by what it records, whatever it does to the lots.
LEMMA IssueStep ==
  ASSUME IInv, NEW k \in Keys, NEW q \in Nat \ {0}, MoveRow(k, -q),
         ledger' = [ledger EXCEPT ![k] = @ - q],
         lots' \in [Keys -> [LotNumbers -> LotRow]]
  PROVE  IInv'
  <1>1. SoundRow(stock[k]) /\ stock[k].quantity \in Nat /\ ledger[k] \in Int
    BY DEF IInv, SoundRow, TypeOK, Row
  <1>2. SoundRow(Moved(stock[k], -q)) /\ Moved(stock[k], -q).quantity = stock[k].quantity + (-q)
    BY <1>1 DEF SoundRow, Row, Moved, CanMove, Available, AtLeastZero, AtMostZero, MoveRow
  <1>3. ledger' = [ledger EXCEPT ![k] = ledger[k] + (-q)]
    BY <1>1
  <1>4. -q \in Int /\ stock' = [stock EXCEPT ![k] = Moved(stock[k], -q)]
    BY DEF MoveRow
  <1>5. QED  BY <1>2, <1>3, <1>4, OneRowStep

-----------------------------------------------------------------------------

\* Every operation keeps the invariant, one case each.
LEMMA NextIInv == IInv /\ [Next]_vars => IInv'
  <1> SUFFICES ASSUME IInv, [Next]_vars PROVE IInv'
    OBVIOUS
  <1>lots. lots \in [Keys -> [LotNumbers -> LotRow]] /\ ledger \in [Keys -> Int]
    BY DEF IInv, TypeOK
  <1>q. Quantities \subseteq Nat \ {0}
    BY StockAssumption
  <1>1. ASSUME NEW q \in Quantities, NEW k \in Keys, Receive(k, q)
        PROVE  IInv'
    <2>1. lots' \in [Keys -> [LotNumbers -> LotRow]]
      BY <1>1, <1>lots DEF Receive
    <2>2. QED  BY <1>1, <1>q, <2>1, ReceiveStep DEF Receive
  <1>2. ASSUME NEW q \in Quantities, NEW k \in Keys, NEW l \in LotNumbers,
               NEW e \in ExpiryDates, ReceiveLot(k, l, e, q)
        PROVE  IInv'
    <2>1. lots[k][l] \in LotRow
      BY <1>lots
    <2>2. [quantity |-> lots[k][l].quantity + q, expiry |-> e] \in LotRow
      BY <1>q, <2>1 DEF LotRow
    <2>3. lots' \in [Keys -> [LotNumbers -> LotRow]]
      BY <1>2, <1>lots, <2>2 DEF ReceiveLot
    <2>4. QED  BY <1>2, <1>q, <2>3, ReceiveStep DEF ReceiveLot
  <1>3. ASSUME NEW q \in Quantities, NEW k \in Keys, NEW l \in LotNumbers,
               ReceiveIntoLot(k, l, q)
        PROVE  IInv'
    <2>1. lots[k][l] \in LotRow
      BY <1>lots
    <2>2. [lots[k][l] EXCEPT !.quantity = @ + q] \in LotRow
      BY <1>q, <2>1 DEF LotRow
    <2>3. lots' \in [Keys -> [LotNumbers -> LotRow]]
      BY <1>3, <1>lots, <2>2 DEF ReceiveIntoLot
    <2>4. QED  BY <1>3, <1>q, <2>3, ReceiveStep DEF ReceiveIntoLot
  <1>4. ASSUME NEW q \in Quantities, NEW k \in Keys, Issue(k, q)
        PROVE  IInv'
    <2>1. PICK pick \in FefoPicks(k, q), lotted \in 0 .. q :
            /\ lots' = [lots EXCEPT ![k] = TakenFrom(@, pick)]
            /\ ledger' = [ledger EXCEPT ![k] = @ - lotted - (q - lotted)]
      BY <1>4 DEF Issue
    <2>2. TakenFrom(lots[k], pick) \in [LotNumbers -> LotRow]
      BY <1>q, PicksAreTyped DEF IInv
    <2>3. lots' \in [Keys -> [LotNumbers -> LotRow]]
      BY <1>lots, <2>1, <2>2
    <2>4. ledger[k] - lotted - (q - lotted) = ledger[k] - q
      BY <1>lots, <1>q
    <2>5. ledger' = [ledger EXCEPT ![k] = @ - q]
      BY <2>1, <2>4
    <2>6. QED  BY <1>4, <1>q, <2>3, <2>5, IssueStep DEF Issue
  <1>5. ASSUME NEW q \in Quantities, NEW k \in Keys, NEW l \in LotNumbers, IssueLot(k, l, q)
        PROVE  IInv'
    <2>1. lots[k][l] \in LotRow /\ lots[k][l].quantity >= q
      BY <1>5, <1>lots DEF IssueLot
    <2>2. [lots[k][l] EXCEPT !.quantity = @ - q] \in LotRow
      BY <1>q, <2>1 DEF LotRow
    <2>3. lots' \in [Keys -> [LotNumbers -> LotRow]]
      BY <1>5, <1>lots, <2>2 DEF IssueLot
    <2>4. QED  BY <1>5, <1>q, <2>3, IssueStep DEF IssueLot
  <1>6. ASSUME NEW q \in Quantities, NEW p \in Products, NEW from \in Warehouses,
               NEW to \in Warehouses, Transfer(p, from, to, q)
        PROVE  IInv'
    <2> DEFINE o == <<p, from>>
               d == <<p, to>>
    <2>1. o \in Keys /\ d \in Keys /\ o # d
      BY <1>6 DEF Transfer, Keys
    <2>2. PICK pick \in FefoPicks(o, q) :
            lots' = [lots EXCEPT ![o] = TakenFrom(@, pick),
                                 ![d] = ArrivedLots(@, lots[o], pick)]
      BY <1>6 DEF Transfer
    <2>3. pick \in [LotNumbers -> Nat] /\ TakenFrom(lots[o], pick) \in [LotNumbers -> LotRow]
      BY <1>q, <2>1, PicksAreTyped DEF IInv
    <2>4. ArrivedLots(lots[d], lots[o], pick) \in [LotNumbers -> LotRow]
      BY <1>lots, <2>1, <2>3, ArrivalsAreTyped
    <2>5. lots' \in [Keys -> [LotNumbers -> LotRow]]
      BY <1>lots, <2>1, <2>2, <2>3, <2>4
    <2>6. /\ SoundRow(TransferredOut(stock[o], q))
          /\ TransferredOut(stock[o], q).quantity = stock[o].quantity - q
      BY <1>6, <1>q, <2>1 DEF SoundRow, Row, TransferredIn, TransferredOut, Available, IInv, Transfer
    <2>7. /\ SoundRow(TransferredIn(stock[d], q))
          /\ TransferredIn(stock[d], q).quantity = stock[d].quantity + q
      BY <1>q, <2>1 DEF SoundRow, Row, TransferredIn, TransferredOut, Available, IInv
    <2>8. stock \in [Keys -> Row]
      BY DEF IInv, TypeOK
    <2>9. \A k \in Keys : stock'[k] = IF k = o THEN TransferredOut(stock[o], q)
                                      ELSE IF k = d THEN TransferredIn(stock[d], q)
                                      ELSE stock[k]
      BY <1>6, <2>1, <2>8 DEF Transfer
    <2>10. \A k \in Keys : ledger'[k] = IF k = o THEN ledger[o] - q
                                        ELSE IF k = d THEN ledger[d] + q
                                        ELSE ledger[k]
      BY <1>6, <1>lots, <2>1 DEF Transfer
    <2>11. \A k \in Keys : SoundRow(stock'[k])
      BY <2>6, <2>7, <2>9 DEF IInv
    <2>12. stock' \in [Keys -> Row]
      <3>1. DOMAIN stock' = Keys /\ stock' = [k \in Keys |-> stock'[k]]
        BY <1>6, <2>8 DEF Transfer
      <3>2. QED  BY <2>11, <3>1 DEF SoundRow
    <2>13. ledger' \in [Keys -> Int]
      <3>1. ledger[o] - q \in Int /\ ledger[d] + q \in Int
        BY <1>lots, <1>q, <2>1
      <3>2. ledger' = [ledger EXCEPT ![o] = ledger[o] - q, ![d] = ledger[d] + q]
        BY <1>6 DEF Transfer
      <3>3. QED  BY <1>lots, <3>1, <3>2
    <2>14. LedgerMatchesQuantity'
      BY <2>6, <2>7, <2>9, <2>10 DEF IInv, LedgerMatchesQuantity
    <2>15. QED  BY <2>5, <2>11, <2>12, <2>13, <2>14 DEF IInv, TypeOK
  <1>7. ASSUME NEW q \in Quantities, NEW k \in Keys, Reserve(k, q)
        PROVE  IInv'
    <2>1. /\ SoundRow(Reserved(stock[k], q))
          /\ Reserved(stock[k], q).quantity = stock[k].quantity
      BY <1>7, <1>q DEF SoundRow, Row, Reserved, CanReserve, Available, IInv, Reserve
    <2>2. stock[k].quantity \in Nat
      BY DEF IInv, SoundRow, Row
    <2>3. ledger' = [ledger EXCEPT ![k] = ledger[k] + 0]
      BY <1>7, <1>lots DEF Reserve
    <2>4. /\ Reserved(stock[k], q).quantity = stock[k].quantity + 0
          /\ 0 \in Int
          /\ stock' = [stock EXCEPT ![k] = Reserved(stock[k], q)]
          /\ lots' \in [Keys -> [LotNumbers -> LotRow]]
      BY <1>7, <1>lots, <2>1, <2>2 DEF Reserve
    <2>5. QED  BY <2>1, <2>3, <2>4, OneRowStep
  <1>8. ASSUME NEW q \in Quantities, NEW k \in Keys, Release(k, q)
        PROVE  IInv'
    <2>1. /\ SoundRow(Released(stock[k], q))
          /\ Released(stock[k], q).quantity = stock[k].quantity
      BY <1>q DEF SoundRow, Row, Released, AtLeastZero, IInv
    <2>2. stock[k].quantity \in Nat
      BY DEF IInv, SoundRow, Row
    <2>3. ledger' = [ledger EXCEPT ![k] = ledger[k] + 0]
      BY <1>8, <1>lots DEF Release
    <2>4. /\ Released(stock[k], q).quantity = stock[k].quantity + 0
          /\ 0 \in Int
          /\ stock' = [stock EXCEPT ![k] = Released(stock[k], q)]
          /\ lots' \in [Keys -> [LotNumbers -> LotRow]]
      BY <1>8, <1>lots, <2>1, <2>2 DEF Release
    <2>5. QED  BY <2>1, <2>3, <2>4, OneRowStep
  <1>9. CASE UNCHANGED vars
    BY <1>9 DEF vars, IInv, TypeOK, LedgerMatchesQuantity
  <1>10. QED
    BY <1>1, <1>2, <1>3, <1>4, <1>5, <1>6, <1>7, <1>8, <1>9 DEF Next

\* The invariant holds in every state.
LEMMA SpecIInv == Spec => []IInv
  BY InitIInv, NextIInv, PTL DEF Spec

\* Rows, lots and the ledger keep their types: quantities never go negative.
THEOREM StockTypeOK == Spec => []TypeOK
  <1>1. IInv => TypeOK
    BY DEF IInv
  <1>2. QED  BY <1>1, SpecIInv, PTL

\* Whatever sequence of receipts, issues, transfers, reservations and
\* releases is applied, no row reserves more than it has: stock is never
\* oversold, for any number of products, warehouses and lots.
THEOREM StockNeverOversold == Spec => []ReservedWithinQuantity
  <1>1. IInv => ReservedWithinQuantity
    BY DEF IInv, SoundRow, Row, ReservedWithinQuantity
  <1>2. QED  BY <1>1, SpecIInv, PTL

\* The quantity of a row is always the sum of its movements, for any way an
\* issue is split over lots and for both sides of a transfer.
THEOREM LedgerExplainsStock == Spec => []LedgerMatchesQuantity
  <1>1. IInv => LedgerMatchesQuantity
    BY DEF IInv
  <1>2. QED  BY <1>1, SpecIInv, PTL

-----------------------------------------------------------------------------
(* What the loop over the ordered lots takes.                              *)

Held(k, l) == LotQuantities(k)[l]

\* The lots before l in the order of the locked query.
Before(k, l) == {m \in LotNumbers : ExpiresBefore(k, m, l)}

\* The totals of the model are sums over the domains of their functions.
LEMMA TotalIsSum ==
  ASSUME NEW f
  PROVE  Total(f) = SumOn(f, DOMAIN f)
  BY SumOfFunction DEF Total

\* The quantities and dates of the lots are naturals, and so are their totals.
LEMMA LotsAreTyped ==
  ASSUME TypeOK, NEW k \in Keys
  PROVE  /\ IsFiniteSet(LotNumbers)
         /\ \A l \in LotNumbers : /\ Held(k, l) \in Nat
                                  /\ Held(k, l) = lots[k][l].quantity
                                  /\ lots[k][l].expiry \in Nat
         /\ \A l \in LotNumbers : HeldBefore(k, l) = SumOn(LotQuantities(k), Before(k, l))
         /\ Total(LotQuantities(k)) = SumOn(LotQuantities(k), LotNumbers)
         /\ Total(LotQuantities(k)) \in Nat
  <1>1. IsFiniteSet(LotNumbers)
    BY StockAssumption
  <1>2. ASSUME NEW l \in LotNumbers
        PROVE  Held(k, l) \in Nat /\ Held(k, l) = lots[k][l].quantity /\ lots[k][l].expiry \in Nat
    <2>1. lots[k][l] \in LotRow
      BY DEF TypeOK
    <2>2. lots[k][l].quantity \in Nat
      BY <2>1 DEF LotRow
    <2>3. lots[k][l].expiry \in ExpiryDates \/ lots[k][l].expiry = 0
      BY <2>1 DEF LotRow, NoLot
    <2>4. Held(k, l) = lots[k][l].quantity
      BY DEF Held, LotQuantities
    <2>5. ExpiryDates \subseteq Nat
      BY StockAssumption
    <2>6. lots[k][l].expiry \in Nat
      <3>1. CASE lots[k][l].expiry \in ExpiryDates
        BY <2>5, <3>1, Zenon
      <3>2. CASE lots[k][l].expiry = 0
        BY <3>2
      <3>3. QED  BY <2>3, <3>1, <3>2
    <2>7. Held(k, l) \in Nat
      BY <2>2, <2>4
    <2>8. QED  BY <2>4, <2>6, <2>7
  <1>3. ASSUME NEW l \in LotNumbers
        PROVE  HeldBefore(k, l) = SumOn(LotQuantities(k), Before(k, l))
    <2> DEFINE held == [m \in Before(k, l) |-> lots[k][m].quantity]
    <2>1. HeldBefore(k, l) = SumOn(held, Before(k, l))
      BY TotalIsSum DEF HeldBefore, Before
    <2>2. IsFiniteSet(Before(k, l)) /\ \A m \in Before(k, l) : held[m] = LotQuantities(k)[m]
      BY <1>1, FS_Subset DEF Before, LotQuantities
    <2> HIDE DEF held
    <2>3. QED  BY <2>1, <2>2, SumAgree
  <1>4. Total(LotQuantities(k)) = SumOn(LotQuantities(k), LotNumbers)
    BY TotalIsSum DEF LotQuantities
  <1>5. Total(LotQuantities(k)) \in Nat
    BY <1>1, <1>2, <1>4, SumNat DEF Held
  <1>6. QED  BY <1>1, <1>2, <1>3, <1>4, <1>5

\* The query orders the lots: of two lots one is before the other.
LEMMA LotsAreOrdered ==
  ASSUME TypeOK, NEW k \in Keys
  PROVE  /\ \A l \in LotNumbers : ~ExpiresBefore(k, l, l)
         /\ \A l, m \in LotNumbers : l # m => ExpiresBefore(k, l, m) \/ ExpiresBefore(k, m, l)
         /\ \A l, m, n \in LotNumbers :
              ExpiresBefore(k, l, m) /\ ExpiresBefore(k, m, n) => ExpiresBefore(k, l, n)
  BY LotsAreTyped, StockAssumption DEF ExpiresBefore

\* Some lots, if not none, have a last one in this order.
LEMMA LastLot ==
  ASSUME TypeOK, NEW k \in Keys, NEW S \in SUBSET LotNumbers, S # {}
  PROVE  \E l \in S : \A m \in S \ {l} : ExpiresBefore(k, m, l)
  <1> DEFINE family == {T \in SUBSET LotNumbers :
                          T # {} /\ ~ \E l \in T : \A m \in T \ {l} : ExpiresBefore(k, m, l)}
  <1> SUFFICES ASSUME family # {} PROVE FALSE
    OBVIOUS
  <1>1. PICK T \in family : \A x \in T : T \ {x} \notin family
    <2>1. family \in SUBSET (SUBSET LotNumbers) /\ IsFiniteSet(LotNumbers)
      BY StockAssumption
    <2> HIDE DEF family
    <2>2. QED  BY <2>1, SmallestSubset
  <1>2. T \in SUBSET LotNumbers /\ T # {}
    OBVIOUS
  <1>3. \A l \in T : \E m \in T \ {l} : ~ExpiresBefore(k, m, l)
    OBVIOUS
  <1>4. PICK x \in T : TRUE
    BY <1>2
  <1>5. PICK z \in T : z # x
    BY <1>3, <1>4
  <1>6. PICK y \in T \ {x} : \A m \in (T \ {x}) \ {y} : ExpiresBefore(k, m, y)
    <2>1. T \ {x} \notin family /\ T \ {x} \in SUBSET LotNumbers /\ T \ {x} # {}
      BY <1>1, <1>2, <1>4, <1>5
    <2>2. QED  BY <2>1
  <1> HIDE DEF family
  <1>7. CASE ExpiresBefore(k, x, y)
    BY <1>3, <1>6, <1>7
  <1>8. CASE ExpiresBefore(k, y, x)
    BY <1>2, <1>3, <1>4, <1>6, <1>8, LotsAreOrdered
  <1>9. QED  BY <1>2, <1>4, <1>6, <1>7, <1>8, LotsAreOrdered

\* From lots with which all lots before them come, the loop takes q, or all
\* that they hold.
LEMMA PicksOfFirstLots ==
  ASSUME TypeOK, NEW k \in Keys, NEW q \in Nat, NEW pick \in FefoPicks(k, q),
         NEW S \in SUBSET LotNumbers, \A l \in S : Before(k, l) \subseteq S
  PROVE  SumOn(pick, S) = Smaller(SumOn(LotQuantities(k), S), q)
  <1> DEFINE family == {T \in SUBSET LotNumbers :
                          /\ \A l \in T : Before(k, l) \subseteq T
                          /\ SumOn(pick, T) # Smaller(SumOn(LotQuantities(k), T), q)}
  <1> SUFFICES ASSUME family # {} PROVE FALSE
    OBVIOUS
  <1>1. PICK T \in family : \A x \in T : T \ {x} \notin family
    <2>1. family \in SUBSET (SUBSET LotNumbers) /\ IsFiniteSet(LotNumbers)
      BY StockAssumption
    <2> HIDE DEF family
    <2>2. QED  BY <2>1, SmallestSubset
  <1>2. /\ T \in SUBSET LotNumbers /\ IsFiniteSet(T)
        /\ \A l \in T : Before(k, l) \subseteq T
    BY StockAssumption, FS_Subset
  <1>3. SumOn(pick, T) # Smaller(SumOn(LotQuantities(k), T), q)
    OBVIOUS
  <1>4. T # {}
    BY <1>3, SumEmpty DEF Smaller
  <1>5. PICK l \in T : \A m \in T \ {l} : ExpiresBefore(k, m, l)
    BY <1>2, <1>4, LastLot
  <1> DEFINE R == T \ {l}
  <1>6. R = Before(k, l)
    <2>1. ~ExpiresBefore(k, l, l)
      BY <1>2, LotsAreOrdered
    <2>2. QED  BY <1>2, <1>5, <2>1 DEF Before
  <1>7. SumOn(pick, R) = Smaller(SumOn(LotQuantities(k), R), q)
    <2>1. \A m \in R : Before(k, m) \subseteq R
      BY <1>2, <1>5, LotsAreOrdered DEF Before
    <2>2. R \notin family /\ R \in SUBSET LotNumbers
      BY <1>1, <1>2
    <2> HIDE DEF R
    <2>3. QED  BY <2>1, <2>2
  <1> HIDE DEF family
  <1>8. /\ \A m \in LotNumbers : pick[m] \in Int /\ LotQuantities(k)[m] \in Nat
        /\ IsFiniteSet(R)
    BY <1>2, LotsAreTyped, PicksAreTyped, FS_Subset DEF Held
  <1>9. SumOn(pick, T) = pick[l] + SumOn(pick, R)
    BY <1>2, <1>8, SumRemove
  <1>10. SumOn(LotQuantities(k), T) = Held(k, l) + SumOn(LotQuantities(k), R)
    BY <1>2, <1>8, SumRemove DEF Held
  <1>11. pick[l] = Smaller(Held(k, l), AtLeastZero(q - SumOn(LotQuantities(k), R)))
    <2>1. l \in LotNumbers /\ HeldBefore(k, l) = SumOn(LotQuantities(k), R)
      BY <1>2, <1>6, LotsAreTyped
    <2>2. QED  BY <2>1, LotsAreTyped DEF FefoPicks
  <1>12. SumOn(LotQuantities(k), R) \in Nat /\ Held(k, l) \in Nat
    <2>1. SumOn(LotQuantities(k), R) \in Nat
      BY <1>2, <1>8, SumNat
    <2>2. QED  BY <1>2, <2>1, LotsAreTyped
  <1> HIDE DEF R
  <1>13. QED  BY <1>3, <1>7, <1>9, <1>10, <1>11, <1>12 DEF Smaller, AtLeastZero

\* The loop takes q, or all that the lots hold, whatever their dates.
LEMMA PicksTakeEnough ==
  ASSUME TypeOK, NEW k \in Keys, NEW q \in Nat, NEW pick \in FefoPicks(k, q)
  PROVE  SumOn(pick, LotNumbers) = Smaller(Total(LotQuantities(k)), q)
  <1>1. \A l \in LotNumbers : Before(k, l) \subseteq LotNumbers
    BY DEF Before
  <1>2. QED  BY <1>1, PicksOfFirstLots, LotsAreTyped

-----------------------------------------------------------------------------
(* The lots of a row hold no more than the row.                            *)

LotQuantitiesOf(lotRows) == [l \in LotNumbers |-> lotRows[l].quantity]

LotSum(lotRows) == SumOn(LotQuantitiesOf(lotRows), LotNumbers)

\* Each lot, and the lots together, hold a natural number.
LEMMA LotSumTyped ==
  ASSUME NEW lotRows \in [LotNumbers -> LotRow]
  PROVE  /\ IsFiniteSet(LotNumbers)
         /\ \A l \in LotNumbers : /\ lotRows[l].quantity \in Nat
                                  /\ LotQuantitiesOf(lotRows)[l] = lotRows[l].quantity
         /\ LotSum(lotRows) \in Nat
  <1>1. IsFiniteSet(LotNumbers)
    BY StockAssumption
  <1>2. \A l \in LotNumbers : lotRows[l].quantity \in Nat
    BY DEF LotRow
  <1>3. \A l \in LotNumbers : LotQuantitiesOf(lotRows)[l] = lotRows[l].quantity
    BY DEF LotQuantitiesOf
  <1>4. LotSum(lotRows) \in Nat
    BY <1>1, <1>2, <1>3, SumNat DEF LotSum
  <1>5. QED  BY <1>1, <1>2, <1>3, <1>4

\* A receipt into one lot, or an issue from it, changes what the lots hold by
\* as much.
LEMMA OneLotChange ==
  ASSUME NEW lotRows \in [LotNumbers -> LotRow], NEW l \in LotNumbers, NEW row \in LotRow
  PROVE  LotSum([lotRows EXCEPT ![l] = row]) = LotSum(lotRows) - lotRows[l].quantity + row.quantity
  <1> DEFINE after == [lotRows EXCEPT ![l] = row]
  <1>1. after \in [LotNumbers -> LotRow] /\ after[l] = row
        /\ \A m \in LotNumbers \ {l} : after[m] = lotRows[m]
    OBVIOUS
  <1> HIDE DEF after
  <1>2. /\ \A m \in LotNumbers : LotQuantitiesOf(lotRows)[m] \in Int
        /\ LotQuantitiesOf(after)[l] \in Int
        /\ \A m \in LotNumbers \ {l} : LotQuantitiesOf(after)[m] = LotQuantitiesOf(lotRows)[m]
        /\ LotQuantitiesOf(lotRows)[l] = lotRows[l].quantity
        /\ LotQuantitiesOf(after)[l] = row.quantity
    BY <1>1, LotSumTyped
  <1>3. LotSum(after) = LotSum(lotRows) - LotQuantitiesOf(lotRows)[l] + LotQuantitiesOf(after)[l]
    <2>1. IsFiniteSet(LotNumbers)
      BY StockAssumption
    <2>2. QED  BY <1>2, <2>1, SumChange DEF LotSum
  <1>4. QED  BY <1>2, <1>3 DEF after

\* What a pick takes from the lots of the origin.
LEMMA TakenLotSum ==
  ASSUME NEW lotRows \in [LotNumbers -> LotRow], NEW pick \in [LotNumbers -> Nat],
         TakenFrom(lotRows, pick) \in [LotNumbers -> LotRow]
  PROVE  LotSum(lotRows) = LotSum(TakenFrom(lotRows, pick)) + SumOn(pick, LotNumbers)
  <1> DEFINE after == TakenFrom(lotRows, pick)
  <1>1. ASSUME NEW l \in LotNumbers
        PROVE  after[l].quantity = lotRows[l].quantity - pick[l]
    <2>1. lotRows[l] \in LotRow
      OBVIOUS
    <2>2. QED  BY <2>1 DEF TakenFrom, LotRow
  <1> HIDE DEF after
  <1>2. after \in [LotNumbers -> LotRow]
    BY DEF after
  <1>3. IsFiniteSet(LotNumbers)
    BY StockAssumption
  <1>4. \A l \in LotNumbers :
          /\ LotQuantitiesOf(after)[l] \in Int
          /\ pick[l] \in Int
          /\ LotQuantitiesOf(lotRows)[l] = LotQuantitiesOf(after)[l] + pick[l]
    BY <1>1, <1>2, LotSumTyped
  <1>5. \A l \in LotNumbers : LotQuantitiesOf(lotRows)[l] \in Int
    BY <1>4
  <1>6. LotSum(lotRows) = LotSum(after) + SumOn(pick, LotNumbers)
    BY <1>3, <1>4, <1>5, SumPlus DEF LotSum
  <1>7. QED  BY <1>6 DEF after

\* What a transfer brings to the lots of the destination.
LEMMA ArrivedLotSum ==
  ASSUME NEW lotRows \in [LotNumbers -> LotRow], NEW origin \in [LotNumbers -> LotRow],
         NEW pick \in [LotNumbers -> Nat]
  PROVE  LotSum(ArrivedLots(lotRows, origin, pick)) = LotSum(lotRows) + SumOn(pick, LotNumbers)
  <1> DEFINE after == ArrivedLots(lotRows, origin, pick)
  <1>1. ASSUME NEW l \in LotNumbers
        PROVE  after[l].quantity = lotRows[l].quantity + pick[l]
    <2>1. lotRows[l].quantity \in Nat /\ pick[l] \in Nat
      BY LotSumTyped
    <2>2. QED  BY <2>1 DEF ArrivedLots
  <1>2. after \in [LotNumbers -> LotRow]
    BY ArrivalsAreTyped
  <1> HIDE DEF after
  <1>3. IsFiniteSet(LotNumbers)
    BY StockAssumption
  <1>4. \A l \in LotNumbers :
          /\ LotQuantitiesOf(lotRows)[l] \in Int
          /\ pick[l] \in Int
          /\ LotQuantitiesOf(after)[l] = LotQuantitiesOf(lotRows)[l] + pick[l]
    BY <1>1, <1>2, LotSumTyped
  <1>5. \A l \in LotNumbers : LotQuantitiesOf(after)[l] \in Int
    BY <1>4
  <1>6. LotSum(after) = LotSum(lotRows) + SumOn(pick, LotNumbers)
    BY <1>3, <1>4, <1>5, SumPlus DEF LotSum
  <1>7. QED  BY <1>6 DEF after

\* LotsWithinQuantity, with the sum as the lemmas have it.
LotsFit == \A k \in Keys : LotSum(lots[k]) <= stock[k].quantity

\* It is the same property.
LEMMA LotsFitMeans == (LotsFit => LotsWithinQuantity) /\ (LotsWithinQuantity => LotsFit)
  <1>1. \A k \in Keys : Total(LotQuantities(k)) = LotSum(lots[k])
    <2>1. TAKE k \in Keys
    <2>2. LotQuantities(k) = LotQuantitiesOf(lots[k])
      BY DEF LotQuantities, LotQuantitiesOf
    <2>3. DOMAIN LotQuantitiesOf(lots[k]) = LotNumbers
      BY DEF LotQuantitiesOf
    <2>4. QED  BY <2>2, <2>3, TotalIsSum, Zenon DEF LotSum
  <1>2. QED  BY <1>1 DEF LotsFit, LotsWithinQuantity

\* A step that changes the row and the lots of one key, and raises what the
\* lots hold by no more than what the row holds.
LEMMA OneKeyFits ==
  ASSUME IInv, LotsFit, NEW k \in Keys, NEW row, NEW lotRows, NEW gain \in Int,
         row.quantity = stock[k].quantity + gain,
         LotSum(lotRows) \in Nat, LotSum(lotRows) <= LotSum(lots[k]) + gain,
         stock' = [stock EXCEPT ![k] = row],
         lots' = [lots EXCEPT ![k] = lotRows]
  PROVE  LotsFit'
  <1>1. stock \in [Keys -> Row] /\ lots \in [Keys -> [LotNumbers -> LotRow]]
    BY DEF IInv, TypeOK
  <1>2. stock[k].quantity \in Int /\ LotSum(lots[k]) \in Nat
    BY <1>1, LotSumTyped DEF Row
  <1>3. LotSum(lotRows) <= row.quantity
    BY <1>2 DEF LotsFit
  <1>4. \A j \in Keys : LotSum(lots'[j]) <= stock'[j].quantity
    BY <1>1, <1>3 DEF LotsFit
  <1>5. QED  BY <1>4 DEF LotsFit

\* The lots taken from hold less by min of what they hold and q.
LEMMA TakenFits ==
  ASSUME IInv, LotsFit, NEW k \in Keys, NEW q \in Nat \ {0}, NEW pick \in FefoPicks(k, q)
  PROVE  /\ TakenFrom(lots[k], pick) \in [LotNumbers -> LotRow]
         /\ LotSum(TakenFrom(lots[k], pick)) \in Nat
         /\ SumOn(pick, LotNumbers) \in Nat
         /\ SumOn(pick, LotNumbers) <= q
         /\ q <= stock[k].quantity => LotSum(TakenFrom(lots[k], pick)) <= stock[k].quantity - q
  <1> USE DEF IInv
  <1>1. /\ lots[k] \in [LotNumbers -> LotRow]
        /\ pick \in [LotNumbers -> Nat]
        /\ TakenFrom(lots[k], pick) \in [LotNumbers -> LotRow]
    BY PicksAreTyped DEF TypeOK
  <1>2. /\ LotSum(lots[k]) \in Nat /\ LotSum(TakenFrom(lots[k], pick)) \in Nat
        /\ LotSum(lots[k]) = LotSum(TakenFrom(lots[k], pick)) + SumOn(pick, LotNumbers)
    BY <1>1, LotSumTyped, TakenLotSum
  <1>3. Total(LotQuantities(k)) = LotSum(lots[k])
    <2>1. LotQuantities(k) = LotQuantitiesOf(lots[k])
      BY DEF LotQuantities, LotQuantitiesOf
    <2>2. DOMAIN LotQuantitiesOf(lots[k]) = LotNumbers
      BY DEF LotQuantitiesOf
    <2>3. QED  BY <2>1, <2>2, TotalIsSum, Zenon DEF LotSum
  <1>4. SumOn(pick, LotNumbers) = Smaller(LotSum(lots[k]), q)
    BY <1>3, PicksTakeEnough
  <1>5. LotSum(lots[k]) <= stock[k].quantity /\ stock[k].quantity \in Nat
    BY DEF LotsFit, TypeOK, Row
  <1>6. SumOn(pick, LotNumbers) \in Nat /\ SumOn(pick, LotNumbers) <= q
    BY <1>2, <1>4 DEF Smaller
  <1>7. q <= stock[k].quantity => LotSum(TakenFrom(lots[k], pick)) <= stock[k].quantity - q
    BY <1>2, <1>4, <1>5 DEF Smaller
  <1>8. QED  BY <1>1, <1>2, <1>6, <1>7

\* No operation makes the lots hold more than the row.
LEMMA NextLotsFit == IInv /\ LotsFit /\ [Next]_vars => LotsFit'
  <1> SUFFICES ASSUME IInv, LotsFit, [Next]_vars PROVE LotsFit'
    OBVIOUS
  <1>lots. /\ lots \in [Keys -> [LotNumbers -> LotRow]] /\ stock \in [Keys -> Row]
           /\ \A k \in Keys : /\ LotSum(lots[k]) \in Nat
                              /\ SoundRow(stock[k])
                              /\ stock[k].quantity \in Nat
    BY LotSumTyped DEF IInv, TypeOK, Row
  <1>q. Quantities \subseteq Nat \ {0}
    BY StockAssumption
  <1>moved. ASSUME NEW k \in Keys, NEW delta \in Int, CanMove(stock[k], delta)
            PROVE  /\ Moved(stock[k], delta).quantity = stock[k].quantity + delta
                   /\ 0 <= stock[k].quantity + delta
    BY <1>moved, <1>lots DEF SoundRow, Row, Moved, CanMove, Available, AtLeastZero, AtMostZero
  <1>1. ASSUME NEW q \in Quantities, NEW k \in Keys, Receive(k, q)
        PROVE  LotsFit'
    <2>1. Moved(stock[k], q).quantity = stock[k].quantity + q
      BY <1>1, <1>moved, <1>q DEF Receive, MoveRow
    <2>2. stock' = [stock EXCEPT ![k] = Moved(stock[k], q)] /\ lots' = [lots EXCEPT ![k] = lots[k]]
      BY <1>1, <1>lots DEF Receive, MoveRow
    <2>3. q \in Int /\ LotSum(lots[k]) <= LotSum(lots[k]) + q
      BY <1>lots, <1>q
    <2>4. QED  BY <1>lots, <2>1, <2>2, <2>3, OneKeyFits
  <1>2. ASSUME NEW q \in Quantities, NEW k \in Keys, NEW l \in LotNumbers, NEW row \in LotRow,
               NEW delta \in Int, MoveRow(k, delta), row.quantity = lots[k][l].quantity + delta,
               lots' = [lots EXCEPT ![k][l] = row]
        PROVE  LotsFit'
    <2> DEFINE after == [lots[k] EXCEPT ![l] = row]
    <2>1. Moved(stock[k], delta).quantity = stock[k].quantity + delta
      BY <1>2, <1>moved DEF MoveRow
    <2>2. stock' = [stock EXCEPT ![k] = Moved(stock[k], delta)] /\ lots' = [lots EXCEPT ![k] = after]
      BY <1>2, <1>lots DEF MoveRow
    <2>3. lots[k] \in [LotNumbers -> LotRow] /\ after \in [LotNumbers -> LotRow]
      BY <1>lots
    <2>4. LotSum(after) = LotSum(lots[k]) - lots[k][l].quantity + row.quantity
      BY <2>3, OneLotChange
    <2>5. lots[k][l].quantity \in Nat
      BY <2>3, LotSumTyped
    <2>6. LotSum(after) \in Nat
      BY <2>3, LotSumTyped
    <2> HIDE DEF after
    <2>7. LotSum(after) <= LotSum(lots[k]) + delta
      BY <1>2, <1>lots, <2>4, <2>5
    <2>8. QED  BY <1>2, <2>1, <2>2, <2>6, <2>7, OneKeyFits
  <1>3. ASSUME NEW q \in Quantities, NEW k \in Keys, NEW l \in LotNumbers,
               NEW e \in ExpiryDates, ReceiveLot(k, l, e, q)
        PROVE  LotsFit'
    <2> DEFINE row == [quantity |-> lots[k][l].quantity + q, expiry |-> e]
    <2>1. lots[k][l].quantity \in Nat
      BY <1>lots, LotSumTyped
    <2>2. row \in LotRow /\ row.quantity = lots[k][l].quantity + q
      BY <1>q, <2>1 DEF LotRow
    <2>3. MoveRow(k, q) /\ lots' = [lots EXCEPT ![k][l] = row] /\ q \in Int
      BY <1>3, <1>q DEF ReceiveLot
    <2> HIDE DEF row
    <2>4. QED  BY <1>2, <2>2, <2>3
  <1>4. ASSUME NEW q \in Quantities, NEW k \in Keys, NEW l \in LotNumbers,
               ReceiveIntoLot(k, l, q)
        PROVE  LotsFit'
    <2> DEFINE row == [lots[k][l] EXCEPT !.quantity = lots[k][l].quantity + q]
    <2>1. lots[k][l] \in LotRow
      BY <1>lots
    <2>2. row \in LotRow /\ row.quantity = lots[k][l].quantity + q
      BY <1>q, <2>1 DEF LotRow
    <2>3. MoveRow(k, q) /\ lots' = [lots EXCEPT ![k][l] = row] /\ q \in Int
      BY <1>4, <1>lots, <1>q DEF ReceiveIntoLot
    <2> HIDE DEF row
    <2>4. QED  BY <1>2, <2>2, <2>3
  <1>5. ASSUME NEW q \in Quantities, NEW k \in Keys, Issue(k, q)
        PROVE  LotsFit'
    <2>1. PICK pick \in FefoPicks(k, q) : lots' = [lots EXCEPT ![k] = TakenFrom(@, pick)]
      BY <1>5 DEF Issue
    <2>2. /\ Moved(stock[k], -q).quantity = stock[k].quantity + (-q)
          /\ 0 <= stock[k].quantity + (-q) /\ -q \in Int
          /\ stock' = [stock EXCEPT ![k] = Moved(stock[k], -q)]
      BY <1>5, <1>moved, <1>q DEF Issue, MoveRow
    <2>3. /\ LotSum(TakenFrom(lots[k], pick)) \in Nat
          /\ q <= stock[k].quantity => LotSum(TakenFrom(lots[k], pick)) <= stock[k].quantity - q
      BY <1>q, TakenFits
    <2>4. LotSum(TakenFrom(lots[k], pick)) <= stock[k].quantity + (-q)
      BY <1>lots, <1>q, <2>2, <2>3
    <2> DEFINE row == Moved(stock[k], -q)
               after == TakenFrom(lots[k], pick)
    <2>5. /\ LotSum(after) \in Nat /\ LotSum(after) <= row.quantity
          /\ stock' = [stock EXCEPT ![k] = row] /\ lots' = [lots EXCEPT ![k] = after]
      BY <2>1, <2>2, <2>3, <2>4
    <2> HIDE DEF row, after
    <2>6. \A j \in Keys : LotSum(lots'[j]) <= stock'[j].quantity
      BY <1>lots, <2>5 DEF LotsFit
    <2>7. QED  BY <2>6 DEF LotsFit
  <1>6. ASSUME NEW q \in Quantities, NEW k \in Keys, NEW l \in LotNumbers, IssueLot(k, l, q)
        PROVE  LotsFit'
    <2> DEFINE row == [lots[k][l] EXCEPT !.quantity = lots[k][l].quantity - q]
    <2>1. lots[k][l] \in LotRow /\ lots[k][l].quantity >= q
      BY <1>6, <1>lots DEF IssueLot
    <2>2. row \in LotRow /\ row.quantity = lots[k][l].quantity + (-q)
      BY <1>q, <2>1 DEF LotRow
    <2>3. MoveRow(k, -q) /\ lots' = [lots EXCEPT ![k][l] = row] /\ -q \in Int
      BY <1>6, <1>lots, <1>q DEF IssueLot
    <2> HIDE DEF row
    <2>4. QED  BY <1>2, <2>2, <2>3
  <1>7. ASSUME NEW q \in Quantities, NEW p \in Products, NEW from \in Warehouses,
               NEW to \in Warehouses, Transfer(p, from, to, q)
        PROVE  LotsFit'
    <2> DEFINE o == <<p, from>>
               d == <<p, to>>
    <2>1. o \in Keys /\ d \in Keys /\ o # d
      BY <1>7 DEF Transfer, Keys
    <2>2. PICK pick \in FefoPicks(o, q) :
            lots' = [lots EXCEPT ![o] = TakenFrom(@, pick),
                                 ![d] = ArrivedLots(@, lots[o], pick)]
      BY <1>7 DEF Transfer
    <2> DEFINE left == TakenFrom(lots[o], pick)
               came == ArrivedLots(lots[d], lots[o], pick)
    <2>3. /\ TransferredOut(stock[o], q).quantity = stock[o].quantity - q
          /\ TransferredIn(stock[d], q).quantity = stock[d].quantity + q
          /\ q <= stock[o].quantity
      BY <1>7, <1>q, <1>lots, <2>1
      DEF SoundRow, Row, TransferredIn, TransferredOut, Available, Transfer
    <2>4. /\ LotSum(left) <= stock[o].quantity - q
          /\ SumOn(pick, LotNumbers) \in Nat /\ SumOn(pick, LotNumbers) <= q
      BY <1>q, <2>1, <2>3, TakenFits
    <2>5. pick \in [LotNumbers -> Nat]
      BY <1>q, <2>1, PicksAreTyped DEF IInv
    <2>6. LotSum(came) = LotSum(lots[d]) + SumOn(pick, LotNumbers)
      BY <1>lots, <2>1, <2>5, ArrivedLotSum
    <2>7. LotSum(came) <= stock[d].quantity + q
      BY <1>lots, <1>q, <2>1, <2>4, <2>6 DEF LotsFit
    <2>8. \A k \in Keys : lots'[k] = IF k = o THEN left ELSE IF k = d THEN came ELSE lots[k]
      BY <1>lots, <2>1, <2>2
    <2>9. \A k \in Keys : stock'[k] = IF k = o THEN TransferredOut(stock[o], q)
                                      ELSE IF k = d THEN TransferredIn(stock[d], q)
                                      ELSE stock[k]
      BY <1>7, <1>lots, <2>1 DEF Transfer
    <2> HIDE DEF left, came, o, d
    <2>10. \A k \in Keys : LotSum(lots'[k]) <= stock'[k].quantity
      BY <2>3, <2>4, <2>7, <2>8, <2>9 DEF LotsFit
    <2>11. QED  BY <2>10 DEF LotsFit
  <1>8. ASSUME NEW q \in Quantities, NEW k \in Keys, Reserve(k, q)
        PROVE  LotsFit'
    <2>1. Reserved(stock[k], q).quantity = stock[k].quantity
      BY <1>lots DEF Row, Reserved
    <2>2. \A j \in Keys : stock'[j].quantity = stock[j].quantity
      BY <1>8, <1>lots, <2>1 DEF Reserve
    <2>3. QED  BY <1>8, <2>2 DEF Reserve, LotsFit
  <1>9. ASSUME NEW q \in Quantities, NEW k \in Keys, Release(k, q)
        PROVE  LotsFit'
    <2>1. Released(stock[k], q).quantity = stock[k].quantity
      BY <1>lots DEF Row, Released
    <2>2. \A j \in Keys : stock'[j].quantity = stock[j].quantity
      BY <1>9, <1>lots, <2>1 DEF Release
    <2>3. QED  BY <1>9, <2>2 DEF Release, LotsFit
  <1>10. CASE UNCHANGED vars
    BY <1>10 DEF vars, LotsFit
  <1>11. QED
    BY <1>1, <1>3, <1>4, <1>5, <1>6, <1>7, <1>8, <1>9, <1>10 DEF Next

\* Lots never claim more than their row has, for any number of lots and
\* whatever mix of operations with and without a named lot was applied: an
\* issue that names no lot takes from the lots first.
THEOREM LotsStayWithinRows == Spec => []LotsWithinQuantity
  <1>1. Init => LotsFit
    <2> SUFFICES ASSUME Init, NEW k \in Keys PROVE LotSum(lots[k]) <= stock[k].quantity
      BY DEF LotsFit
    <2> DEFINE none == LotQuantitiesOf(lots[k])
    <2>1. stock[k].quantity = 0 /\ \A l \in LotNumbers : none[l] = 0
      BY DEF Init, EmptyRow, LotQuantitiesOf
    <2> HIDE DEF none
    <2>a. \A l \in LotNumbers : none[l] \in Int
      BY <2>1
    <2>2. IsFiniteSet(LotNumbers) /\ \A l \in LotNumbers : none[l] \in Int
      BY <2>a, StockAssumption
    <2>3. \A l \in LotNumbers : none[l] = none[l] + none[l]
      BY <2>1
    <2>4. SumOn(none, LotNumbers) = SumOn(none, LotNumbers) + SumOn(none, LotNumbers)
      BY <2>2, <2>3, SumPlus
    <2>5. SumOn(none, LotNumbers) \in Int
      BY <2>2, SumInt
    <2>6. QED  BY <2>1, <2>4, <2>5 DEF LotSum, none
  <1>2. Spec => []LotsFit
    <2>1. Init => LotsFit
      BY <1>1
    <2>2. IInv /\ LotsFit /\ [Next]_vars => LotsFit'
      BY NextLotsFit
    <2>3. QED  BY <2>1, <2>2, SpecIInv, PTL DEF Spec
  <1>3. LotsFit => LotsWithinQuantity
    BY LotsFitMeans
  <1>4. QED  BY <1>2, <1>3, PTL

-----------------------------------------------------------------------------
(* Two properties of steps.                                                *)

\* The loop takes all of a lot before it takes any of a later one.
LEMMA PicksInOrder ==
  ASSUME TypeOK, NEW k \in Keys, NEW q \in Nat, NEW pick \in FefoPicks(k, q),
         NEW l \in LotNumbers, NEW m \in LotNumbers, ExpiresBefore(k, m, l), pick[l] # 0
  PROVE  pick[m] = Held(k, m)
  <1>1. /\ pick[l] = Smaller(Held(k, l), AtLeastZero(q - HeldBefore(k, l)))
        /\ pick[m] = Smaller(Held(k, m), AtLeastZero(q - HeldBefore(k, m)))
    BY LotsAreTyped DEF FefoPicks
  <1> DEFINE S == Before(k, m) \cup {m}
  <1>2. S \in SUBSET Before(k, l) /\ m \notin Before(k, m)
    BY LotsAreOrdered DEF Before
  <1>3. /\ IsFiniteSet(Before(k, l)) /\ IsFiniteSet(Before(k, m))
        /\ \A n \in Before(k, l) : LotQuantities(k)[n] \in Nat
        /\ \A n \in Before(k, m) : LotQuantities(k)[n] \in Nat
    BY LotsAreTyped, FS_Subset DEF Before, Held
  <1>4. Held(k, m) \in Nat /\ Held(k, l) \in Nat /\ LotQuantities(k)[m] = Held(k, m)
    BY LotsAreTyped DEF Held
  <1>5. SumOn(LotQuantities(k), S) = Held(k, m) + SumOn(LotQuantities(k), Before(k, m))
    <2>1. LotQuantities(k)[m] \in Int /\ \A n \in Before(k, m) : LotQuantities(k)[n] \in Int
      BY <1>3, <1>4
    <2>2. QED  BY <1>2, <1>3, <1>4, <2>1, SumAdd
  <1> HIDE DEF S
  <1>6. SumOn(LotQuantities(k), S) <= SumOn(LotQuantities(k), Before(k, l))
    BY <1>2, <1>3, SumOfPart
  <1>7. SumOn(LotQuantities(k), Before(k, m)) \in Nat /\ SumOn(LotQuantities(k), Before(k, l)) \in Nat
    BY <1>3, SumNat
  <1>8. /\ HeldBefore(k, m) = SumOn(LotQuantities(k), Before(k, m))
        /\ HeldBefore(k, l) = SumOn(LotQuantities(k), Before(k, l))
    BY LotsAreTyped
  <1>9. /\ HeldBefore(k, m) \in Nat /\ HeldBefore(k, l) \in Nat
        /\ HeldBefore(k, m) + Held(k, m) <= HeldBefore(k, l)
    BY <1>4, <1>5, <1>6, <1>7, <1>8
  <1>10. HeldBefore(k, l) < q
    BY <1>1, <1>4, <1>9 DEF Smaller, AtLeastZero
  <1>11. QED  BY <1>1, <1>4, <1>9, <1>10 DEF Smaller, AtLeastZero

\* What the property says of one issue or transfer from k.
LEMMA TakenInOrder ==
  ASSUME TypeOK, NEW k \in Keys, NEW q \in Nat, NEW pick \in FefoPicks(k, q),
         lots'[k] = TakenFrom(lots[k], pick), NEW l \in LotNumbers, NEW m \in LotNumbers,
         lots'[k][l].quantity < lots[k][l].quantity, ExpiresBefore(k, m, l)
  PROVE  lots'[k][m].quantity = 0
  <1>1. ASSUME NEW n \in LotNumbers
        PROVE  /\ lots'[k][n].quantity = lots[k][n].quantity - pick[n]
               /\ pick[n] \in Nat /\ lots[k][n].quantity \in Nat
               /\ Held(k, n) = lots[k][n].quantity
    <2>1. lots[k][n] \in LotRow /\ pick[n] \in Nat
      BY PicksAreTyped DEF TypeOK
    <2>2. lots'[k][n].quantity = lots[k][n].quantity - pick[n]
      BY <2>1 DEF TakenFrom, LotRow
    <2>3. lots[k][n].quantity \in Nat /\ Held(k, n) = lots[k][n].quantity
      BY LotsAreTyped
    <2>4. QED  BY <2>1, <2>2, <2>3
  <1>2. pick[l] # 0
    BY <1>1
  <1>3. pick[m] = Held(k, m)
    BY <1>2, PicksInOrder
  <1>4. QED  BY <1>1, <1>3

\* Of any number of lots the one that expires first is emptied first, and of
\* those that expire together the one with the lowest number, in an issue and
\* in a transfer.
THEOREM LotsLeaveInOrder == Spec => FirstExpiredFirstOut
  <1> DEFINE Ordered ==
        \A k \in Keys :
          (\/ \E q \in Quantities : Issue(k, q)
           \/ \E to \in Warehouses, q \in Quantities : Transfer(k[1], k[2], to, q))
          => \A l, m \in LotNumbers :
               /\ lots'[k][l].quantity < lots[k][l].quantity
               /\ ExpiresBefore(k, m, l)
               => lots'[k][m].quantity = 0
  <1>1. TypeOK => Ordered
    <2> SUFFICES ASSUME TypeOK, NEW k \in Keys,
                        \/ \E q \in Quantities : Issue(k, q)
                        \/ \E to \in Warehouses, q \in Quantities : Transfer(k[1], k[2], to, q),
                        NEW l \in LotNumbers, NEW m \in LotNumbers,
                        lots'[k][l].quantity < lots[k][l].quantity, ExpiresBefore(k, m, l)
                 PROVE  lots'[k][m].quantity = 0
      OBVIOUS
    <2>q. Quantities \subseteq Nat /\ lots \in [Keys -> [LotNumbers -> LotRow]]
      BY StockAssumption DEF TypeOK
    <2>1. ASSUME NEW q \in Quantities, Issue(k, q)
          PROVE  \E pick \in FefoPicks(k, q) : lots'[k] = TakenFrom(lots[k], pick)
      BY <2>1, <2>q DEF Issue
    <2>2. ASSUME NEW to \in Warehouses, NEW q \in Quantities, Transfer(k[1], k[2], to, q)
          PROVE  \E pick \in FefoPicks(k, q) : lots'[k] = TakenFrom(lots[k], pick)
      <3> DEFINE d == <<k[1], to>>
      <3>1. k = <<k[1], k[2]>> /\ d \in Keys /\ k # d
        BY <2>2 DEF Keys, Transfer
      <3>2. PICK pick \in FefoPicks(<<k[1], k[2]>>, q) :
              lots' = [lots EXCEPT ![<<k[1], k[2]>>] = TakenFrom(@, pick),
                                   ![d] = ArrivedLots(@, lots[<<k[1], k[2]>>], pick)]
        BY <2>2 DEF Transfer
      <3> HIDE DEF d
      <3>3. pick \in FefoPicks(k, q)
        BY <3>1, <3>2, Zenon
      <3>4. lots' = [lots EXCEPT ![k] = TakenFrom(@, pick), ![d] = ArrivedLots(@, lots[k], pick)]
        BY <3>1, <3>2, Zenon
      <3>5. lots'[k] = TakenFrom(lots[k], pick)
        BY <2>q, <3>1, <3>4
      <3>6. QED  BY <3>3, <3>5
    <2>3. PICK q \in Quantities : \E pick \in FefoPicks(k, q) : lots'[k] = TakenFrom(lots[k], pick)
      BY <2>1, <2>2
    <2>4. QED  BY <2>q, <2>3, TakenInOrder
  <1>2. Ordered => [Ordered]_vars
    OBVIOUS
  <1>3. Spec => [][Ordered]_vars
    BY <1>1, <1>2, StockTypeOK, PTL
  <1>4. QED  BY <1>3, Zenon DEF FirstExpiredFirstOut

\* A transfer conserves every quantity that it takes from one key and adds to
\* the other.
LEMMA TransferLeavesSums ==
  ASSUME NEW from \in Warehouses, NEW to \in Warehouses, from # to,
         NEW f, NEW g, NEW amount \in Int,
         \A w \in Warehouses : f[w] \in Int,
         g[from] = f[from] - amount, g[to] = f[to] + amount,
         \A w \in Warehouses \ {from, to} : g[w] = f[w],
         DOMAIN f = Warehouses, DOMAIN g = Warehouses
  PROVE  Total(g) = Total(f)
  <1>1. IsFiniteSet(Warehouses)
    BY StockAssumption
  <1>2. SumOn(g, Warehouses) = SumOn(f, Warehouses)
    BY <1>1, SumMove
  <1>3. Total(f) = SumOn(f, Warehouses) /\ Total(g) = SumOn(g, Warehouses)
    BY TotalIsSum
  <1>4. QED  BY <1>2, <1>3

\* A transfer loses nothing, over any number of warehouses: neither of the
\* product nor of any of its lots, whatever lots it takes from.
THEOREM TransfersLoseNothing == Spec => TransferConserves
  <1> DEFINE Conserved ==
        \A p \in Products, from, to \in Warehouses, q \in Quantities :
          Transfer(p, from, to, q) =>
            /\ QuantityOf(p)' = QuantityOf(p)
            /\ \A l \in LotNumbers : LotQuantityOf(p, l)' = LotQuantityOf(p, l)
  <1>1. TypeOK => Conserved
    <2> SUFFICES ASSUME TypeOK, NEW p \in Products, NEW from \in Warehouses,
                        NEW to \in Warehouses, NEW q \in Quantities, Transfer(p, from, to, q)
                 PROVE  /\ QuantityOf(p)' = QuantityOf(p)
                        /\ \A l \in LotNumbers : LotQuantityOf(p, l)' = LotQuantityOf(p, l)
      OBVIOUS
    <2> DEFINE o == <<p, from>>
               d == <<p, to>>
    <2>1. o \in Keys /\ d \in Keys /\ o # d /\ from # to
      BY DEF Transfer, Keys
    <2>2. q \in Nat /\ stock \in [Keys -> Row] /\ lots \in [Keys -> [LotNumbers -> LotRow]]
      BY StockAssumption DEF TypeOK
    <2>3. PICK pick \in FefoPicks(o, q) :
            lots' = [lots EXCEPT ![o] = TakenFrom(@, pick),
                                 ![d] = ArrivedLots(@, lots[o], pick)]
      BY DEF Transfer
    <2>4. pick \in [LotNumbers -> Nat]
      BY <2>1, <2>2, PicksAreTyped
    <2>5. \A w \in Warehouses : <<p, w>> \in Keys /\ (<<p, w>> = o <=> w = from) /\ (<<p, w>> = d <=> w = to)
      BY DEF Keys
    <2>6. QuantityOf(p)' = QuantityOf(p)
      <3> DEFINE f == [w \in Warehouses |-> stock[<<p, w>>].quantity]
                 g == [w \in Warehouses |-> stock'[<<p, w>>].quantity]
      <3>1. \A k \in Keys : stock'[k] = IF k = o THEN TransferredOut(stock[o], q)
                                        ELSE IF k = d THEN TransferredIn(stock[d], q)
                                        ELSE stock[k]
        BY <2>1, <2>2 DEF Transfer
      <3>2. \A k \in Keys : /\ stock[k].quantity \in Int
                            /\ TransferredOut(stock[k], q).quantity = stock[k].quantity - q
                            /\ TransferredIn(stock[k], q).quantity = stock[k].quantity + q
        BY <2>2 DEF Row, TransferredOut, TransferredIn
      <3> HIDE DEF o, d
      <3>3. \A w \in Warehouses : f[w] \in Int
        BY <2>5, <3>2
      <3>4. \A w \in Warehouses : g[w] = IF w = from THEN f[w] - q
                                         ELSE IF w = to THEN f[w] + q ELSE f[w]
        BY <2>1, <2>5, <3>1, <3>2
      <3>5. DOMAIN f = Warehouses /\ DOMAIN g = Warehouses
        OBVIOUS
      <3>6. QuantityOf(p) = Total(f) /\ QuantityOf(p)' = Total(g)
        BY DEF QuantityOf
      <3> HIDE DEF f, g
      <3>7. q \in Int
        BY <2>2
      <3>m. /\ g[from] = f[from] - q /\ g[to] = f[to] + q
            /\ \A w \in Warehouses \ {from, to} : g[w] = f[w]
        BY <2>1, <3>4
      <3>8. Total(g) = Total(f)
        BY <2>1, <3>3, <3>m, <3>5, <3>7, TransferLeavesSums
      <3>9. QED  BY <3>6, <3>8, Zenon
    <2>7. ASSUME NEW l \in LotNumbers
          PROVE  LotQuantityOf(p, l)' = LotQuantityOf(p, l)
      <3> DEFINE f == [w \in Warehouses |-> lots[<<p, w>>][l].quantity]
                 g == [w \in Warehouses |-> lots'[<<p, w>>][l].quantity]
      <3>1. \A k \in Keys : lots'[k] = IF k = o THEN TakenFrom(lots[o], pick)
                                       ELSE IF k = d THEN ArrivedLots(lots[d], lots[o], pick)
                                       ELSE lots[k]
        BY <2>1, <2>2, <2>3
      <3>2. pick[l] \in Nat /\ lots[o][l] \in LotRow /\ lots[d][l] \in LotRow
        BY <2>1, <2>2, <2>4
      <3>3. \A k \in Keys : lots[k][l].quantity \in Int
        BY <2>2 DEF LotRow
      <3>4. TakenFrom(lots[o], pick)[l].quantity = lots[o][l].quantity - pick[l]
        BY <3>2 DEF TakenFrom, LotRow
      <3>5. ArrivedLots(lots[d], lots[o], pick)[l].quantity = lots[d][l].quantity + pick[l]
        <4>1. lots[d][l].quantity \in Nat
          BY <3>2 DEF LotRow
        <4>2. QED  BY <3>2, <4>1 DEF ArrivedLots
      <3> HIDE DEF o, d
      <3>6. \A w \in Warehouses : f[w] \in Int
        BY <2>5, <3>3
      <3>7. \A w \in Warehouses : g[w] = IF w = from THEN f[w] - pick[l]
                                         ELSE IF w = to THEN f[w] + pick[l] ELSE f[w]
        BY <2>1, <2>5, <3>1, <3>4, <3>5
      <3>8. DOMAIN f = Warehouses /\ DOMAIN g = Warehouses
        OBVIOUS
      <3>9. LotQuantityOf(p, l) = Total(f) /\ LotQuantityOf(p, l)' = Total(g)
        BY DEF LotQuantityOf
      <3> HIDE DEF f, g
      <3>10. pick[l] \in Int
        BY <3>2
      <3>m. /\ g[from] = f[from] - pick[l] /\ g[to] = f[to] + pick[l]
            /\ \A w \in Warehouses \ {from, to} : g[w] = f[w]
        BY <2>1, <3>7
      <3>11. Total(g) = Total(f)
        BY <2>1, <3>6, <3>m, <3>8, <3>10, TransferLeavesSums
      <3>12. QED  BY <3>9, <3>11, Zenon
    <2>8. QED  BY <2>6, <2>7
  <1>2. Conserved => [Conserved]_vars
    OBVIOUS
  <1>3. Spec => [][Conserved]_vars
    BY <1>1, <1>2, StockTypeOK, PTL
  <1>4. QED  BY <1>3, Zenon DEF TransferConserves
=============================================================================
