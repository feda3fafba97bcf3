---------------------------- MODULE PositionKernel ----------------------------
(***************************************************************************)
(* fincept_core.portfolio: how a fill changes a position, the arithmetic   *)
(* the portfolio service and the backtester share.  Quantities are signed, *)
(* a fill that sells has a negative one.  Amounts are integers: Decimal    *)
(* keeps 28 digits, and the fills checked make every division exact.       *)
(* Left out: unrealized PnL, which this code leaves alone, and times.      *)
(***************************************************************************)
EXTENDS Integers, Sequences

NoPosition == [qty |-> 0, cost |-> 0, pnl |-> 0]

Size(x) == IF x < 0 THEN -x ELSE x

\* Weighted average cost after more of the same direction.
Blended(pos, fill) ==
    (pos.cost * Size(pos.qty) + fill.price * Size(fill.qty)) \div Size(pos.qty + fill.qty)

SameDirection(pos, fill) == (pos.qty > 0) = (fill.qty > 0)

Closed(pos, fill) == IF Size(pos.qty) < Size(fill.qty) THEN Size(pos.qty) ELSE Size(fill.qty)

\* What the closed part of the position earned.
Realized(pos, fill) ==
    (fill.price - pos.cost) * Closed(pos, fill) * (IF pos.qty > 0 THEN 1 ELSE -1)

\* apply_fill_to_position: open, open more, or close.  A close that leaves anything
\* is taken for a flip: the rest is at the price of the fill.
ApplyFillToPosition(pos, fill) ==
    LET qty == pos.qty + fill.qty
    IN  IF pos.qty = 0
        THEN [qty |-> fill.qty, cost |-> fill.price, pnl |-> pos.pnl]
        ELSE IF SameDirection(pos, fill)
        THEN [qty |-> qty, cost |-> Blended(pos, fill), pnl |-> pos.pnl]
        ELSE [qty |-> qty, cost |-> IF qty = 0 THEN pos.cost ELSE fill.price,
              pnl |-> pos.pnl + Realized(pos, fill)]

\* The position after each fill of a sequence.
Booked(fills) ==
    LET after[n \in 0 .. Len(fills)] ==
            IF n = 0 THEN NoPosition ELSE ApplyFillToPosition(after[n - 1], fills[n])
    IN  after

-----------------------------------------------------------------------------
(* Reference: the cash of the fills *)

\* The fill closes part of the position and leaves the rest open.
Reduces(pos, fill) ==
    ~SameDirection(pos, fill) /\ pos.qty # 0 /\ Size(fill.qty) < Size(pos.qty)

\* What a reduction forgets: the gain so far of the rest.
Forgotten(pos, fill) ==
    IF Reduces(pos, fill) THEN (fill.price - pos.cost) * (pos.qty + fill.qty) ELSE 0

\* Cost of what is held less what was earned.
Invested(pos) == pos.cost * pos.qty - pos.pnl

Spent(fills) ==
    LET upTo[n \in 0 .. Len(fills)] ==
            IF n = 0 THEN 0 ELSE upTo[n - 1] + fills[n].price * fills[n].qty
    IN  upTo[Len(fills)]

Lost(fills) ==
    LET upTo[n \in 0 .. Len(fills)] ==
            IF n = 0 THEN 0 ELSE upTo[n - 1] + Forgotten(Booked(fills)[n - 1], fills[n])
    IN  upTo[Len(fills)]

\* Fills of up to three lots at two prices, three of them: every order of opening,
\* adding, reducing, closing and flipping.  The unit makes every average exact.
Unit == 2520
SomeFills ==
    [1 .. 3 -> [qty : {-3, -2, -1, 1, 2, 3}, price : {Unit, 2 * Unit}]]

\* The fills whose position does not account for their cash.
Unbalanced ==
    {fills \in SomeFills : Invested(Booked(fills)[3]) # Spent(fills) + Lost(fills)}

\* portfolio.py: realized PnL and cost across zero.  A position accounts for the
\* cash of its fills through any order of opening, adding, closing and flipping,
\* except for exactly what each reduction forgets.
BooksBalance == Unbalanced = {}
=============================================================================
