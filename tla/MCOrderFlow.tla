----------------------------- MODULE MCOrderFlow -----------------------------
(* Instances of OrderFlow for TLC.                                          *)
EXTENDS OrderFlow, PositionKernel

\* The position kernel against its reference, on SomeFills.
ASSUME KernelKeepsBooks == BooksBalance

MarketOrder(s, y, side, qty) ==
    [strategy |-> s, symbol |-> y, side |-> side, qty |-> qty, limit |-> NoPrice]
LimitOrder(s, y, side, qty, limit) ==
    [strategy |-> s, symbol |-> y, side |-> side, qty |-> qty, limit |-> limit]

\* Two strategies, two symbols, both sides, both order types.
MixedIntents == {MarketOrder(1, "x", "BUY", 2), LimitOrder(2, "y", "SELL", 1, 1)}

\* Two strategies buy the same symbol.
BuyIntents == {MarketOrder(s, "x", "BUY", 2) : s \in {1, 2}}
=============================================================================
