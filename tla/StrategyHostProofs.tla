------------------------- MODULE StrategyHostProofs -------------------------
(***************************************************************************)
(* Proofs about StrategyHost for every lot, every batch size and all       *)
(* bounds: the type invariant, that the fills of a strategy reach it, that *)
(* it never pyramids, and what holds of one configured under another id.   *)
(* For the third, what the strategy counts covers what is left of its      *)
(* newest order and the fills of it still to reach it; lemmas about        *)
(* orders, fills and counts as constants (Sound) carry the arithmetic, and *)
(* each step of the system is one of them.                                 *)
(***************************************************************************)
EXTENDS StrategyHost, ConsumerGroupProofs, SequenceTheorems, FiniteSetTheorems, TLAPS

\* The runner has a consumer group on each stream.
Groups ==
    /\ DOMAIN group = Streams
    /\ \A s \in Streams : WellFormed(group[s], Length(s))

\* An order that was sent is in the ledger in Redis, unless Redis failed, and so is
\* one that is about to be sent.
Recorded ==
    /\ \A o \in DOMAIN orders : orders[o].state # "new" => o \in stored \cup forgotten
    /\ runner.at = "publish" => runner.order \in stored \cup forgotten

\* What fills was sent.
FillsOfSent == \A i \in DOMAIN fills : orders[fills[i].order].state # "new"

\* A runner knows what the ledger in Redis holds, unless Redis failed, and what it is
\* about to write there.
Ledger ==
    /\ Running => stored \subseteq outstanding \cup forgotten
    /\ runner.at = "put" => runner.order \in outstanding

IInv ==
    /\ TypeOK /\ Groups
    /\ Recorded /\ FillsOfSent /\ Ledger
    /\ FillsReachTheirStrategy

-----------------------------------------------------------------------------
(* The consumer groups *)

\* What a step does to one group, on a stream that grows from n to m; the batch in hand
\* is abandoned only when the consumer is gone.
GroupMove(g, h, n, m, gone) ==
    \/ h = g /\ m \in {n, n + 1}
    \/ m = n /\ \/ AtRest(g) /\ h = Delivered(g, n, Batch)
                \/ AtRest(g) /\ \E S \in SUBSET g.pel : h = Claims(g, S)
                \/ AtRest(g) /\ \E i \in g.pel : h = Current(GivenUp(g, i))
                \/ g.todo = {} /\ h = Current(Acknowledged(g))
                \/ \E i \in g.todo : h = Handled(g, i)
                \/ gone /\ h = Abandoned(g)

\* A read that finds nothing on this stream, or something.
LEMMA ReadFacts ==
    ASSUME NEW n \in Nat, NEW g, WellFormed(g, n), AtRest(g)
    PROVE  WellFormed(Delivered(g, n, Batch), n)
<1>1. Batch \in Nat \ {0} /\ g.cursor \in 0 .. n
  BY StrategyHostAssumption DEF WellFormed, GroupType
<1>2. CASE g.cursor < n
  BY <1>1, <1>2, DeliveredFacts
<1>3. CASE g.cursor = n
  <2>1. Delivered(g, n, Batch) =
          [cursor |-> n, pel |-> g.pel, claimed |-> g.claimed, todo |-> {}, done |-> g.done,
           dead |-> g.dead]
    <3>1. ~(g.cursor + Batch <= n) /\ g.cursor + 1 .. n = {}
      BY <1>1, <1>3
    <3>2. Delivered(g, n, Batch) =
            [g EXCEPT !.cursor = n, !.pel = @ \cup {}, !.todo = {}]
      BY <3>1 DEF Delivered
    <3> QED BY <3>2 DEF WellFormed, GroupType
  <2> QED BY <1>3, <2>1 DEF WellFormed, GroupType
<1> QED BY <1>1, <1>2, <1>3

LEMMA GroupMoveFacts ==
    ASSUME NEW n \in Nat, NEW m, NEW g, NEW h, NEW gone,
           WellFormed(g, n), GroupMove(g, h, n, m, gone)
    PROVE  WellFormed(h, m)
<1>1. CASE h = g /\ m \in {n, n + 1}
  BY <1>1, GroupGrows
<1>2. CASE m = n /\ AtRest(g) /\ h = Delivered(g, n, Batch)
  BY <1>2, ReadFacts
<1>3. CASE m = n /\ AtRest(g) /\ \E S \in SUBSET g.pel : h = Claims(g, S)
  <2> PICK S \in SUBSET g.pel : h = Claims(g, S)
    BY <1>3
  <2> QED BY <1>3, ClaimsFacts
<1>4. CASE m = n /\ g.todo = {} /\ h = Current(Acknowledged(g))
  <2>1. WellFormed(Acknowledged(g), n)
    BY <1>4, AcknowledgedFacts
  <2> QED BY <1>4, <2>1, CurrentFacts
<1>7. CASE m = n /\ AtRest(g) /\ \E i \in g.pel : h = Current(GivenUp(g, i))
  <2> PICK i \in g.pel : h = Current(GivenUp(g, i))
    BY <1>7
  <2>1. i \in g.pel \ g.done
    BY <1>7 DEF AtRest
  <2>2. WellFormed(GivenUp(g, i), n)
    BY <2>1, GivenUpFacts
  <2> QED BY <1>7, <2>2, CurrentFacts
<1>5. CASE m = n /\ \E i \in g.todo : h = Handled(g, i)
  <2> PICK i \in g.todo : h = Handled(g, i)
    BY <1>5
  <2> QED BY <1>5, HandlerEndFacts
<1>6. CASE m = n /\ h = Abandoned(g)
  BY <1>6, AbandonedFacts
<1> QED BY <1>1, <1>2, <1>3, <1>4, <1>5, <1>6, <1>7 DEF GroupMove

LEMMA Lengths ==
    ASSUME TypeOK
    PROVE  /\ \A s \in Streams : Length(s) \in Nat
           /\ Length("fills") = Len(fills) /\ Length("positions") = reported
           /\ Len(fills) \in Nat /\ DOMAIN fills = 1 .. Len(fills)
           /\ bars \in Nat /\ reported \in Nat /\ reported <= Len(fills)
           /\ "bars" \in Streams /\ "fills" \in Streams /\ "positions" \in Streams
<1>1. Len(fills) \in Nat /\ DOMAIN fills = 1 .. Len(fills)
  BY DEF TypeOK, StreamTypes
<1>2. bars \in Nat /\ reported \in Nat /\ reported <= Len(fills)
  BY <1>1 DEF TypeOK, StreamTypes
<1> QED BY <1>1, <1>2 DEF Length, Streams

\* The runner's consumer ended or the runner was stopped.
ConsumerGone == mine = {} \/ runner.at = "deaf"

Moved(s) == GroupMove(group[s], group'[s], Length(s), Length(s)', ConsumerGone')

\* Every step does one of these things to every group.
LEMMA GroupsMove ==
    ASSUME IInv, [Next]_vars
    PROVE  /\ DOMAIN group' = Streams
           /\ \A s \in Streams : Moved(s)
<1>1. TypeOK /\ DOMAIN group = Streams
  BY DEF IInv, Groups
<1> DEFINE Moves1 == /\ DOMAIN group' = Streams
                     /\ \A s \in Streams : Moved(s)
<1> SUFFICES Moves1
  OBVIOUS
<1>2. CASE group' = group /\ UNCHANGED <<bars, fills, reported>>
  BY <1>1, <1>2 DEF Moved, GroupMove, Length
<1>3. ASSUME UNCHANGED <<bars, fills, reported>>,
             group' = [s \in Streams |-> Abandoned(group[s])], ConsumerGone'
      PROVE  Moves1
  BY <1>3 DEF Moved, GroupMove, Length
<1>4. ASSUME NEW t \in Streams, NEW i \in group[t].todo, UNCHANGED <<bars, fills, reported>>,
             HandledOne(t, i)
      PROVE  Moves1
  BY <1>1, <1>4 DEF Moved, GroupMove, Length, HandledOne
<1>5. CASE Bar
  <2>1. group' = group /\ bars' = bars + 1 /\ UNCHANGED <<fills, reported>>
    BY <1>5 DEF Bar
  <2>2. \A s \in Streams : Length(s)' \in {Length(s), Length(s) + 1}
    BY <2>1 DEF Length, Streams
  <2> QED BY <1>1, <2>1, <2>2 DEF Moved, GroupMove
<1>6. CASE Report
  <2>1. group' = group /\ reported' = reported + 1 /\ UNCHANGED <<fills, bars>>
    BY <1>6 DEF Report
  <2>2. \A s \in Streams : Length(s)' \in {Length(s), Length(s) + 1}
    BY <2>1 DEF Length, Streams
  <2> QED BY <1>1, <2>1, <2>2 DEF Moved, GroupMove
<1>7. ASSUME NEW o \in DOMAIN orders, NEW q \in 1 .. Lot, Execute(o, q)
      PROVE  Moves1
  <2>1. group' = group /\ UNCHANGED <<bars, reported>> /\ Len(fills') = Len(fills) + 1
    BY <1>1, <1>7 DEF Execute, TypeOK, StreamTypes
  <2>2. \A s \in Streams : Length(s)' \in {Length(s), Length(s) + 1}
    BY <2>1 DEF Length, Streams
  <2> QED BY <1>1, <2>1, <2>2 DEF Moved, GroupMove
<1>8. CASE Read
  <2>1. /\ UNCHANGED <<bars, fills, reported>> /\ AllAtRest
        /\ group' = [s \in Streams |-> Delivered(group[s], Length(s), Batch)]
    BY <1>8 DEF Read, streams
  <2>2. \A s \in Streams : Length(s)' = Length(s)
    BY <2>1 DEF Length
  <2> QED BY <2>1, <2>2 DEF Moved, GroupMove, AllAtRest
<1>9. ASSUME NEW t \in Streams, Claim(t)
      PROVE  Moves1
  <2>1. /\ UNCHANGED <<bars, fills, reported>> /\ AllAtRest
        /\ \E S \in SUBSET group[t].pel : group' = [group EXCEPT ![t] = Claims(@, S)]
    BY <1>9 DEF Claim, streams
  <2>2. PICK S \in SUBSET group[t].pel : group' = [group EXCEPT ![t] = Claims(@, S)]
    BY <2>1
  <2>3. group'[t] = Claims(group[t], S) /\ \A s \in Streams \ {t} : group'[s] = group[s]
    BY <1>1, <2>2
  <2>4. \A s \in Streams : Length(s)' = Length(s)
    BY <2>1 DEF Length
  <2> QED BY <1>1, <2>1, <2>2, <2>3, <2>4 DEF Moved, GroupMove, AllAtRest
<1>18. ASSUME NEW t \in Streams, GiveUp(t)
       PROVE  Moves1
  <2>1. UNCHANGED <<bars, fills, reported>> /\ AllAtRest
    BY <1>18 DEF GiveUp, streams
  <2>2. PICK i \in group[t].pel : group' = [group EXCEPT ![t] = Current(GivenUp(@, i))]
    BY <1>18 DEF GiveUp
  <2>3. group'[t] = Current(GivenUp(group[t], i)) /\ \A s \in Streams \ {t} : group'[s] = group[s]
    BY <1>1, <2>2
  <2>4. \A s \in Streams : Length(s)' = Length(s)
    BY <2>1 DEF Length
  <2> QED BY <1>1, <2>1, <2>2, <2>3, <2>4 DEF Moved, GroupMove, AllAtRest
<1>10. ASSUME NEW t \in Streams, Acknowledge(t)
       PROVE  Moves1
  <2>1. /\ UNCHANGED <<bars, fills, reported>> /\ group[t].todo = {}
        /\ group' = [group EXCEPT ![t] = Current(Acknowledged(@))]
    BY <1>10 DEF Acknowledge, streams
  <2>2. \A s \in Streams : Length(s)' = Length(s)
    BY <2>1 DEF Length
  <2> QED BY <1>1, <2>1, <2>2 DEF Moved, GroupMove
<1>11. ASSUME NEW i \in group["bars"].todo, HoldBar(i)
       PROVE  Moves1
  <2>1. UNCHANGED <<bars, fills, reported>> /\ HandledOne("bars", i) /\ "bars" \in Streams
    BY <1>11 DEF HoldBar, streams, Streams
  <2> QED BY <1>4, <2>1
<1>12. CASE Return
  <2>1. /\ UNCHANGED <<bars, fills, reported>> /\ "bars" \in Streams
        /\ \E i \in group["bars"].todo : HandledOne("bars", i)
    BY <1>12 DEF Return, streams, Streams
  <2> QED BY <1>4, <2>1
<1>13. ASSUME NEW i \in group["fills"].todo, HandleFill(i)
       PROVE  Moves1
  <2>1. UNCHANGED <<bars, fills, reported>> /\ HandledOne("fills", i) /\ "fills" \in Streams
    BY <1>13 DEF HandleFill, streams, Streams
  <2> QED BY <1>4, <2>1
<1>14. ASSUME NEW i \in group["positions"].todo, HandlePosition(i)
       PROVE  Moves1
  <2>1. /\ UNCHANGED <<bars, fills, reported>> /\ HandledOne("positions", i)
        /\ "positions" \in Streams
    BY <1>14 DEF HandlePosition, streams, Streams
  <2> QED BY <1>4, <2>1
<1>15. CASE GoDeaf \/ Crash
  <2>1. ConsumerGone'
    BY <1>1, <1>15 DEF GoDeaf, Crash, Gone, ConsumerGone, TypeOK, HostTypes
  <2> QED BY <1>3, <1>15, <2>1 DEF GoDeaf, Crash, Gone, streams
<1>16. CASE Tick
  BY <1>2, <1>3, <1>16 DEF Tick, Gone, streams, ConsumerGone
<1>17. ASSUME \/ \E o \in DOMAIN orders : Reject(o)
              \/ \E i \in group["bars"].todo : Trade(i)
              \/ Put \/ Publish \/ Configure \/ StartRunner \/ UNCHANGED vars
       PROVE  group' = group /\ UNCHANGED <<bars, fills, reported>>
  BY <1>17 DEF Reject, Trade, Put, Publish, Configure, StartRunner, vars, streams
<1> HIDE DEF Moves1
<1> QED
  BY <1>2, <1>5, <1>6, <1>7, <1>8, <1>9, <1>10, <1>11, <1>12, <1>13, <1>14, <1>15, <1>16, <1>17,
     <1>18 DEF Next, World, Consumer, Hooks, Supervise

LEMMA GroupsStep ==
    ASSUME IInv, [Next]_vars
    PROVE  Groups'
<1>1. \A s \in Streams : WellFormed(group[s], Length(s)) /\ Length(s) \in Nat
  BY Lengths DEF IInv, Groups
<1>2. /\ DOMAIN group' = Streams
      /\ \A s \in Streams : Moved(s)
  BY GroupsMove
<1>3. ASSUME NEW s \in Streams PROVE WellFormed(group'[s], Length(s)')
  BY <1>1, <1>2, GroupMoveFacts DEF Moved
<1> QED BY <1>2, <1>3 DEF Groups

-----------------------------------------------------------------------------
(* Orders and fills *)

OrderRecords == [side : {"buy", "sell"}, left : Int, state : {"new", "sent", "done"}]
FillRecords == [order : OrderIds, qty : Nat \ {0}, net : Int]

LEMMA TwoFields ==
    ASSUME NEW r \in OrderRecords, NEW x, NEW y
    PROVE  [[r EXCEPT !.left = x] EXCEPT !.state = y] =
               [side |-> r.side, left |-> x, state |-> y]
<1>1. [r EXCEPT !.left = x] = [side |-> r.side, left |-> x, state |-> r.state]
  BY DEF OrderRecords
<1> DEFINE t == [side |-> r.side, left |-> x, state |-> r.state]
<1>2. [t EXCEPT !.state = y] = [side |-> r.side, left |-> x, state |-> y]
  OBVIOUS
<1> QED BY <1>1, <1>2

\* One order changes.
LEMMA OrderChanges ==
    ASSUME TypeOK, NEW o \in DOMAIN orders, NEW r \in OrderRecords,
           orders[o].state # "new" => r.state # "new",
           orders' = [orders EXCEPT ![o] = r]
    PROVE  /\ orders' \in Seq(OrderRecords)
           /\ Len(orders') = Len(orders) /\ DOMAIN orders' = DOMAIN orders
           /\ \A p \in DOMAIN orders : p # o => orders'[p] = orders[p]
           /\ orders'[o] = r
  BY DEF TypeOK, StreamTypes, OrderRecords

\* Orders are only added, and none is taken back once sent; only Publish sends one.
OrdersGrow ==
    /\ orders' \in Seq(OrderRecords) /\ Len(orders') <= MaxOrders
    /\ DOMAIN orders \subseteq DOMAIN orders'
    /\ \A o \in DOMAIN orders : orders[o].state # "new" => orders'[o].state # "new"
    /\ \A o \in DOMAIN orders' : orders'[o].state # "new" =>
           o \in DOMAIN orders /\ (orders[o].state # "new" \/ o = runner.order)
    /\ \A o \in DOMAIN orders' : orders'[o].state # "new" =>
           o \in DOMAIN orders /\ (orders[o].state # "new" \/ Publish)

LEMMA OrdersStep ==
    ASSUME IInv, [Next]_vars
    PROVE  OrdersGrow
<1>1. /\ TypeOK /\ orders \in Seq(OrderRecords) /\ Len(orders) <= MaxOrders
      /\ DOMAIN orders = 1 .. Len(orders) /\ Len(orders) \in Nat
  BY DEF IInv, TypeOK, StreamTypes, OrderRecords
<1>2. CASE orders' = orders
  BY <1>1, <1>2 DEF OrdersGrow
<1>3. ASSUME NEW o \in DOMAIN orders, Reject(o)
      PROVE  OrdersGrow
  <2> DEFINE r == [orders[o] EXCEPT !.state = "done"]
  <2>1. orders[o] \in OrderRecords /\ orders[o].state = "sent"
    BY <1>1, <1>3 DEF Reject, Working
  <2>2. r \in OrderRecords /\ r.state = "done"
    BY <2>1 DEF OrderRecords
  <2>3. orders' = [orders EXCEPT ![o] = r]
    BY <1>3 DEF Reject
  <2> HIDE DEF r
  <2> QED BY <1>1, <2>1, <2>2, <2>3, OrderChanges DEF OrdersGrow
<1>4. ASSUME NEW o \in DOMAIN orders, NEW q \in 1 .. Lot, Execute(o, q)
      PROVE  OrdersGrow
  <2>1. orders[o] \in OrderRecords /\ orders[o].state = "sent" /\ Lot \in Nat
    BY <1>1, <1>4, StrategyHostAssumption DEF Execute, Working
  <2> DEFINE s == IF q = orders[o].left THEN "done" ELSE orders[o].state
             r == [side |-> orders[o].side, left |-> orders[o].left - q, state |-> s]
  <2>2. r \in OrderRecords /\ r.state # "new"
    BY <2>1 DEF OrderRecords
  <2>3. orders' = [orders EXCEPT ![o] = r]
    <3>1. orders' = [orders EXCEPT ![o] = [[orders[o] EXCEPT !.left = @ - q] EXCEPT !.state = s]]
      BY <1>1, <1>4 DEF Execute
    <3>2. [[orders[o] EXCEPT !.left = @ - q] EXCEPT !.state = s] = r
      BY <2>1, TwoFields
    <3> QED BY <3>1, <3>2
  <2> HIDE DEF r
  <2> QED BY <1>1, <2>1, <2>2, <2>3, OrderChanges DEF OrdersGrow
<1>5. CASE Publish /\ orders' # orders
  <2>1. runner.order \in DOMAIN orders
    BY <1>1, <1>5 DEF Publish, TypeOK, HostTypes
  <2>2. PICK o \in DOMAIN orders : o = runner.order
    BY <2>1
  <2> DEFINE r == [orders[o] EXCEPT !.state = "sent"]
  <2>3. orders[o] \in OrderRecords
    BY <1>1
  <2>4. r \in OrderRecords /\ r.state = "sent"
    BY <2>3 DEF OrderRecords
  <2>5. orders' = [orders EXCEPT ![o] = r]
    BY <1>5, <2>2 DEF Publish
  <2> HIDE DEF r
  <2> QED BY <1>1, <1>5, <2>2, <2>3, <2>4, <2>5, OrderChanges DEF OrdersGrow
<1>6. ASSUME NEW i \in group["bars"].todo, Trade(i)
      PROVE  OrdersGrow
  <2> DEFINE side == IF strategy.seen = 0 THEN "buy" ELSE "sell"
             qty == IF strategy.seen = 0 THEN Lot ELSE strategy.seen
             r == [side |-> side, left |-> qty, state |-> "new"]
  <2>1. orders' = Append(orders, r) /\ Len(orders) < MaxOrders
    BY <1>6 DEF Trade
  <2>2. r \in OrderRecords /\ r.state = "new"
    BY <1>1, StrategyHostAssumption DEF OrderRecords, TypeOK, HostTypes
  <2> HIDE DEF r
  <2>3. /\ orders' \in Seq(OrderRecords) /\ Len(orders') = Len(orders) + 1
        /\ \A p \in DOMAIN orders : orders'[p] = orders[p]
        /\ orders'[Len(orders) + 1] = r
        /\ DOMAIN orders' = 1 .. Len(orders) + 1
    BY <1>1, <2>1, <2>2
  <2>4. Len(orders') <= MaxOrders
    BY <1>1, <2>1, <2>3, StrategyHostAssumption
  <2> QED BY <1>1, <2>2, <2>3, <2>4 DEF OrdersGrow
<1>7. ASSUME \/ Bar \/ Report \/ Consumer \/ GoDeaf \/ Configure \/ Supervise \/ Crash
             \/ (\E i \in group["bars"].todo : HoldBar(i)) \/ Put \/ Return
             \/ (\E i \in group["fills"].todo : HandleFill(i))
             \/ (\E i \in group["positions"].todo : HandlePosition(i))
             \/ UNCHANGED vars
      PROVE  orders' = orders
  BY <1>7 DEF Bar, Report, Consumer, Read, Claim, GiveUp, Acknowledge, GoDeaf, Configure, Supervise,
     Tick, StartRunner, Crash, HoldBar, Put, Return, HandleFill, HandlePosition, vars, streams
<1> QED BY <1>2, <1>3, <1>4, <1>5, <1>6, <1>7 DEF Next, World, Hooks

\* Fills are only added, of orders that were sent.
FillsGrow ==
    /\ fills' \in Seq(FillRecords)
    /\ DOMAIN fills \subseteq DOMAIN fills' /\ Len(fills) <= Len(fills')
    /\ \A i \in DOMAIN fills : fills'[i] = fills[i]
    /\ \A i \in DOMAIN fills' \ DOMAIN fills :
           /\ fills'[i].order \in DOMAIN orders
           /\ orders[fills'[i].order].state # "new"

LEMMA FillsStep ==
    ASSUME IInv, [Next]_vars
    PROVE  FillsGrow
<1>1. /\ TypeOK /\ fills \in Seq(FillRecords) /\ orders \in Seq(OrderRecords)
      /\ DOMAIN fills = 1 .. Len(fills) /\ Len(fills) \in Nat
      /\ Len(orders) <= MaxOrders
  BY DEF IInv, TypeOK, StreamTypes, FillRecords, OrderRecords
<1>2. CASE fills' = fills
  BY <1>1, <1>2 DEF FillsGrow
<1>3. ASSUME NEW o \in DOMAIN orders, NEW q \in 1 .. Lot, Execute(o, q)
      PROVE  FillsGrow
  <2> DEFINE net == IF orders[o].side = "buy" THEN Held + q ELSE Held - q
             f == [order |-> o, qty |-> q, net |-> net]
  <2>1. fills' = Append(fills, f) /\ orders[o].state = "sent"
    BY <1>3 DEF Execute, Working
  <2>2. o \in OrderIds /\ q \in Nat \ {0}
    BY <1>1, StrategyHostAssumption DEF OrderIds
  <2>3. Held \in Int
    <3>1. CASE fills = <<>>
      BY <3>1 DEF Held
    <3>2. CASE fills # <<>>
      <4>1. fills[Len(fills)] \in FillRecords
        BY <1>1, <3>2
      <4> QED BY <3>2, <4>1 DEF Held, FillRecords
    <3> QED BY <3>1, <3>2
  <2>4. net \in Int
    BY <2>2, <2>3
  <2>5. f \in FillRecords /\ f.order = o
    BY <2>2, <2>4 DEF FillRecords
  <2> HIDE DEF f
  <2> QED BY <1>1, <2>1, <2>5 DEF FillsGrow
<1>4. ASSUME \/ Bar \/ Report \/ (\E o \in DOMAIN orders : Reject(o)) \/ Consumer \/ Hooks
             \/ GoDeaf \/ Configure \/ Supervise \/ Crash \/ UNCHANGED vars
      PROVE  fills' = fills
  BY <1>4 DEF Bar, Report, Reject, Consumer, Read, Claim, GiveUp, Acknowledge, GoDeaf, Configure,
     Supervise, Tick, StartRunner, Crash, Hooks, HoldBar, Trade, Put, Publish, Return,
     HandleFill, HandlePosition, vars, streams
<1> QED BY <1>2, <1>3, <1>4 DEF Next, World

-----------------------------------------------------------------------------
(* Types *)

LEMMA StreamTypesStep ==
    ASSUME IInv, [Next]_vars
    PROVE  StreamTypes'
<1>1. TypeOK /\ StreamTypes /\ OrdersGrow /\ FillsGrow /\ Groups'
  BY OrdersStep, FillsStep, GroupsStep DEF IInv, TypeOK
<1>2. Len(fills) \in Nat /\ Len(fills') \in Nat /\ Len(fills) <= Len(fills')
  BY <1>1 DEF StreamTypes, FillsGrow
<1>3. bars' \in 0 .. MaxBars
  <2>1. bars' = bars \/ Bar
    BY DEF Next, World, Report, Reject, Execute, Consumer, Read, Claim, GiveUp, Acknowledge, Hooks,
       HoldBar, Trade, Put, Publish, Return, HandleFill, HandlePosition, GoDeaf, Configure,
       Supervise, Tick, StartRunner, Crash, vars, streams
  <2>2. Bar => bars' \in 0 .. MaxBars
    BY <1>1, StrategyHostAssumption DEF Bar, StreamTypes
  <2> QED BY <1>1, <2>1, <2>2 DEF StreamTypes
<1>4. reported' \in 0 .. Len(fills')
  <2>1. reported' = reported \/ (Report /\ fills' = fills)
    BY DEF Next, World, Bar, Report, Reject, Execute, Consumer, Read, Claim, GiveUp, Acknowledge, Hooks,
       HoldBar, Trade, Put, Publish, Return, HandleFill, HandlePosition, GoDeaf, Configure,
       Supervise, Tick, StartRunner, Crash, vars, streams
  <2>2. reported \in 0 .. Len(fills)
    BY <1>1 DEF StreamTypes
  <2>3. Report => reported' = reported + 1 /\ reported < Len(fills)
    BY DEF Report
  <2> QED BY <1>2, <2>1, <2>2, <2>3
<1>5. \A i \in DOMAIN fills' : fills'[i].order \in DOMAIN orders'
  BY <1>1 DEF StreamTypes, OrdersGrow, FillsGrow
<1>6. \A s \in Streams : group'[s] \in GroupType(Length(s)')
  BY <1>1 DEF Groups, WellFormed
<1> QED BY <1>1, <1>3, <1>4, <1>5, <1>6
        DEF StreamTypes, OrdersGrow, FillsGrow, OrderRecords, FillRecords

\* The hooks keep the counters of the strategy natural numbers.
StrategyRecords == [buying : Nat, selling : Nat, seen : Int]

LEMMA OnFillFacts ==
    ASSUME strategy \in StrategyRecords, NEW f \in FillRecords
    PROVE  OnFill(f) \in StrategyRecords
<1>1. \A n, k \in Nat : Less(n, k) \in Nat
  BY DEF Less
<1>2. Less(strategy.buying, f.qty) \in Nat /\ Less(strategy.selling, f.qty) \in Nat
  BY <1>1 DEF StrategyRecords, FillRecords
<1> QED BY <1>2 DEF OnFill, StrategyRecords

LEMMA StrategyTypesStep ==
    ASSUME IInv, [Next]_vars
    PROVE  strategy' \in StrategyRecords
<1>1. /\ TypeOK /\ StreamTypes /\ HostTypes /\ strategy \in StrategyRecords
      /\ fills \in Seq(FillRecords)
  BY DEF IInv, TypeOK, HostTypes, StreamTypes, StrategyRecords, FillRecords
<1>2. DOMAIN fills = 1 .. Len(fills) /\ Len(fills) \in Nat
  BY <1>1
<1>3. group["fills"].todo \subseteq DOMAIN fills /\ group["positions"].todo \subseteq DOMAIN fills
  <2>1. /\ group["fills"] \in GroupType(Len(fills))
        /\ group["positions"] \in GroupType(reported)
    BY <1>1, Lengths DEF StreamTypes
  <2>2. 1 .. reported \subseteq 1 .. Len(fills)
    BY <1>1, <1>2 DEF StreamTypes
  <2> QED BY <1>2, <2>1, <2>2 DEF GroupType
<1>4. ASSUME NEW i \in group["bars"].todo, Trade(i) PROVE strategy' \in StrategyRecords
  <2> DEFINE qty == IF strategy.seen = 0 THEN Lot ELSE strategy.seen
  <2>1. qty \in Nat
    BY <1>1, <1>4, StrategyHostAssumption DEF Trade, StrategyRecords
  <2>2. \/ strategy' = [strategy EXCEPT !.buying = @ + qty]
        \/ strategy' = [strategy EXCEPT !.selling = @ + qty]
    BY <1>4 DEF Trade
  <2> HIDE DEF qty
  <2>3. strategy.buying + qty \in Nat /\ strategy.selling + qty \in Nat
    BY <1>1, <2>1 DEF StrategyRecords
  <2> QED BY <1>1, <2>2, <2>3 DEF StrategyRecords
<1>5. ASSUME NEW i \in group["fills"].todo, HandleFill(i) PROVE strategy' \in StrategyRecords
  <2>1. fills[i] \in FillRecords
    BY <1>1, <1>3
  <2> QED BY <1>1, <1>5, <2>1, OnFillFacts DEF HandleFill
<1>6. ASSUME NEW i \in group["positions"].todo, HandlePosition(i)
      PROVE  strategy' \in StrategyRecords
  <2>1. fills[i] \in FillRecords
    BY <1>1, <1>3
  <2>2. fills[i].net \in Int
    BY <2>1 DEF FillRecords
  <2> QED BY <1>1, <1>6, <2>2 DEF HandlePosition, StrategyRecords
<1>7. CASE Tick \/ Crash
  BY <1>1, <1>7 DEF Tick, Crash, Gone, Fresh, StrategyRecords, memory
<1>8. ASSUME \/ World \/ Consumer \/ (\E i \in group["bars"].todo : HoldBar(i))
             \/ Put \/ Publish \/ Return \/ GoDeaf \/ Configure \/ StartRunner \/ UNCHANGED vars
      PROVE  strategy' = strategy
  BY <1>8 DEF World, Bar, Report, Reject, Execute, Consumer, Read, Claim, GiveUp, Acknowledge, HoldBar,
     Put, Publish, Return, GoDeaf, Configure, StartRunner, vars, memory
<1> QED BY <1>1, <1>4, <1>5, <1>6, <1>7, <1>8 DEF Next, Hooks, Supervise

\* The ledgers and the histories hold orders and fills there are.
LEMMA LedgerTypesStep ==
    ASSUME IInv, [Next]_vars
    PROVE  /\ outstanding' \subseteq DOMAIN orders' /\ stored' \subseteq DOMAIN orders'
           /\ mine' \subseteq DOMAIN orders' /\ forgotten' \subseteq DOMAIN orders'
           /\ ignored' \subseteq DOMAIN fills' /\ blind' \in BOOLEAN
<1>1. TypeOK /\ StreamTypes /\ HostTypes /\ OrdersGrow /\ FillsGrow
  BY OrdersStep, FillsStep DEF IInv, TypeOK
<1>2. DOMAIN orders \subseteq DOMAIN orders' /\ DOMAIN fills \subseteq DOMAIN fills'
  BY <1>1 DEF OrdersGrow, FillsGrow
<1> USE <1>2 DEF HostTypes
<1>3. ASSUME NEW i \in group["bars"].todo, Trade(i)
      PROVE  /\ outstanding' \subseteq DOMAIN orders' /\ stored' \subseteq DOMAIN orders'
             /\ mine' \subseteq DOMAIN orders' /\ forgotten' \subseteq DOMAIN orders'
             /\ ignored' \subseteq DOMAIN fills' /\ blind' \in BOOLEAN
  <2>1. Len(orders) + 1 \in DOMAIN orders'
    <3>1. Len(orders') = Len(orders) + 1 /\ DOMAIN orders' = 1 .. Len(orders') /\ Len(orders) \in Nat
      BY <1>1, <1>3 DEF Trade, OrdersGrow, StreamTypes
    <3> QED BY <3>1
  <2>2. /\ outstanding' = outstanding \cup {Len(orders) + 1}
        /\ mine' = mine \cup {Len(orders) + 1}
        /\ UNCHANGED <<stored, forgotten, ignored>> /\ blind' \in BOOLEAN
    BY <1>3 DEF Trade
  <2> QED BY <1>1, <2>1, <2>2
<1>4. CASE Put
  BY <1>1, <1>4 DEF Put, memory
<1>5. ASSUME NEW i \in group["fills"].todo, HandleFill(i)
      PROVE  ignored' \subseteq DOMAIN fills'
  <2>1. i \in DOMAIN fills
    <3>1. group["fills"] \in GroupType(Len(fills)) /\ DOMAIN fills = 1 .. Len(fills)
      BY <1>1, Lengths DEF StreamTypes
    <3> QED BY <3>1 DEF GroupType
  <2> QED BY <1>1, <1>5, <2>1 DEF HandleFill
<1>6. (\E i \in group["fills"].todo : HandleFill(i)) =>
          UNCHANGED <<outstanding, stored, mine, forgotten>> /\ blind' \in BOOLEAN
  BY DEF HandleFill
<1>7. CASE Tick \/ Crash
  BY <1>1, <1>7 DEF Tick, Crash, Gone, memory, history
<1>8. CASE StartRunner
  BY <1>1, <1>8 DEF StartRunner
<1>9. ASSUME \/ World \/ Consumer \/ (\E i \in group["bars"].todo : HoldBar(i)) \/ Publish
             \/ Return \/ (\E i \in group["positions"].todo : HandlePosition(i))
             \/ GoDeaf \/ Configure \/ UNCHANGED vars
      PROVE  UNCHANGED <<outstanding, stored, mine, forgotten, ignored, blind>>
  BY <1>9 DEF World, Bar, Report, Reject, Execute, Consumer, Read, Claim, GiveUp, Acknowledge, HoldBar,
     Publish, Return, HandlePosition, GoDeaf, Configure, vars, memory, history
<1> QED BY <1>1, <1>3, <1>4, <1>5, <1>6, <1>7, <1>8, <1>9 DEF Next, Hooks, Supervise

RunnerRecords == [at : Up \cup {"down", "ended"}, order : OrderIds \cup {NoOrder}, sig : Sigs]
ConfigRecords == [on : BOOLEAN, sig : Sigs]

Places == Up \cup {"down", "ended"}

\* The runner stands somewhere else, with its order, with another or with none.
LEMMA RunnerStands ==
    ASSUME NEW r \in RunnerRecords, NEW place \in Places, NEW q, q = [r EXCEPT !.at = place]
    PROVE  q \in RunnerRecords /\ q.at = place /\ q.order = r.order
<1>1. q = [at |-> place, order |-> r.order, sig |-> r.sig]
  BY DEF RunnerRecords
<1> QED BY <1>1 DEF RunnerRecords, Places

LEMMA RunnerTakes ==
    ASSUME runner \in RunnerRecords, NEW place \in Places, NEW o \in OrderIds \cup {NoOrder},
           runner' = [runner EXCEPT !.at = place, !.order = o]
    PROVE  runner' \in RunnerRecords /\ runner'.at = place /\ runner'.order = o
<1> DEFINE t == [runner EXCEPT !.at = place]
<1>1. t = [at |-> place, order |-> runner.order, sig |-> runner.sig]
  BY DEF RunnerRecords
<1>2. runner' = [t EXCEPT !.order = o]
  OBVIOUS
<1> HIDE DEF t
<1>3. runner' = [at |-> place, order |-> o, sig |-> runner.sig]
  BY <1>1, <1>2
<1> QED BY <1>3 DEF RunnerRecords, Places

LEMMA SigsFacts == 0 \in Sigs /\ NoOrder \notin OrderIds
  BY StrategyHostAssumption DEF Sigs, OrderIds, NoOrder

\* A started runner.
LEMMA StartedRunner ==
    ASSUME NEW place \in Places, NEW g \in Sigs,
           \/ runner' = [Down EXCEPT !.at = place, !.sig = g]
           \/ runner' = [Down EXCEPT !.at = place]
    PROVE  runner' \in RunnerRecords /\ runner'.at = place
<1>1. \E h \in Sigs : runner' = [at |-> place, order |-> NoOrder, sig |-> h]
  BY SigsFacts DEF Down
<1> QED BY <1>1 DEF RunnerRecords, Places

LEMMA DownRunner == Down \in RunnerRecords /\ Down.at = "down"
  BY SigsFacts DEF Down, RunnerRecords

LEMMA RunnerTypesStep ==
    ASSUME IInv, [Next]_vars
    PROVE  /\ runner' \in RunnerRecords
           /\ runner'.at \in {"put", "publish"} => runner'.order \in DOMAIN orders'
<1>1. /\ TypeOK /\ HostTypes /\ runner \in RunnerRecords /\ OrdersGrow /\ StreamTypes
      /\ DOMAIN orders \subseteq DOMAIN orders'
      /\ runner.at \in {"put", "publish"} => runner.order \in DOMAIN orders
  BY OrdersStep DEF IInv, TypeOK, HostTypes, RunnerRecords, OrdersGrow
<1>2. CASE runner' = runner
  BY <1>1, <1>2
<1>3. ASSUME NEW i \in group["bars"].todo, Trade(i)
      PROVE  /\ runner' \in RunnerRecords
             /\ runner'.at \in {"put", "publish"} => runner'.order \in DOMAIN orders'
  <2>1. runner' = [runner EXCEPT !.at = "put", !.order = Len(orders) + 1]
    BY <1>3 DEF Trade
  <2>2. Len(orders) + 1 \in DOMAIN orders' /\ Len(orders) + 1 \in OrderIds
    <3>1. /\ Len(orders') = Len(orders) + 1 /\ DOMAIN orders' = 1 .. Len(orders')
          /\ Len(orders) \in Nat /\ Len(orders) < MaxOrders
      BY <1>1, <1>3 DEF Trade, OrdersGrow, StreamTypes
    <3> QED BY <3>1, StrategyHostAssumption DEF OrderIds
  <2>3. "put" \in Places
    BY DEF Up, Places
  <2>4. PICK o \in OrderIds \cup {NoOrder} : o = Len(orders) + 1
    BY <2>2
  <2>5. runner' = [runner EXCEPT !.at = "put", !.order = o]
    BY <2>1, <2>4
  <2>6. runner' \in RunnerRecords /\ runner'.order = o
    BY <1>1, <2>3, <2>5, RunnerTakes
  <2> QED BY <2>2, <2>4, <2>6
<1>4. CASE Put \/ Publish
  <2>1. \E place \in {"publish", "return"} : runner' = [runner EXCEPT !.at = place]
    BY <1>4 DEF Put, Publish
  <2>2. PICK place \in {"publish", "return"} : runner' = [runner EXCEPT !.at = place]
    BY <2>1
  <2>3. place \in Places
    BY DEF Up, Places
  <2>4. runner.order \in DOMAIN orders
    BY <1>1, <1>4 DEF Put, Publish
  <2>5. runner' \in RunnerRecords /\ runner'.order = runner.order
    BY <1>1, <2>2, <2>3, RunnerStands
  <2> QED BY <1>1, <2>4, <2>5
<1>5. CASE Return \/ GoDeaf
  <2>1. \E place \in {"listen", "deaf"} : runner' = [runner EXCEPT !.at = place, !.order = NoOrder]
    BY <1>5 DEF Return, GoDeaf
  <2>2. PICK place \in {"listen", "deaf"} :
            runner' = [runner EXCEPT !.at = place, !.order = NoOrder]
    BY <2>1
  <2>3. place \in Places /\ NoOrder \in OrderIds \cup {NoOrder}
    BY DEF Up, Places
  <2>4. runner' \in RunnerRecords /\ runner'.at = place
    BY <1>1, <2>2, <2>3, RunnerTakes
  <2> QED BY <2>4
<1>6. CASE Tick \/ Crash
  <2>1. runner' = runner \/ runner' = Down
    BY <1>6 DEF Tick, Crash, Gone
  <2>2. Down \in RunnerRecords /\ Down.at = "down"
    BY DownRunner
  <2> QED BY <1>2, <2>1, <2>2
<1>7. CASE StartRunner
  <2>1. supervisor.read.sig \in Sigs
    BY <1>1 DEF HostTypes
  <2>2. \/ runner' = runner
        \/ runner' = [Down EXCEPT !.at = "listen", !.sig = supervisor.read.sig]
        \/ runner' = [Down EXCEPT !.at = "ended"]
    BY <1>7 DEF StartRunner
  <2>3. "listen" \in Places /\ "ended" \in Places
    BY DEF Up, Places
  <2>4. CASE runner' = [Down EXCEPT !.at = "listen", !.sig = supervisor.read.sig]
    <3> PICK g \in Sigs : g = supervisor.read.sig
      BY <2>1
    <3>1. runner' \in RunnerRecords /\ runner'.at = "listen"
      BY <2>3, <2>4, StartedRunner
    <3> QED BY <3>1
  <2>5. CASE runner' = [Down EXCEPT !.at = "ended"]
    <3>1. runner' \in RunnerRecords /\ runner'.at = "ended"
      BY <2>1, <2>3, <2>5, StartedRunner
    <3> QED BY <3>1
  <2> QED BY <1>2, <2>2, <2>4, <2>5
<1>8. ASSUME \/ World \/ Consumer \/ (\E i \in group["bars"].todo : HoldBar(i)) \/ Configure
             \/ (\E i \in group["fills"].todo : HandleFill(i))
             \/ (\E i \in group["positions"].todo : HandlePosition(i)) \/ UNCHANGED vars
      PROVE  runner' = runner
  BY <1>8 DEF World, Bar, Report, Reject, Execute, Consumer, Read, Claim, GiveUp, Acknowledge, HoldBar,
     HandleFill, HandlePosition, Configure, vars
<1> QED BY <1>2, <1>3, <1>4, <1>5, <1>6, <1>7, <1>8 DEF Next, Hooks, Supervise

\* The id a strategy is configured under is its name: no edit changes it.
LEMMA OwnIdStands ==
    ASSUME [Next]_vars
    PROVE  ownId' = ownId
<1>1. Tick \/ StartRunner \/ Configure \/ Crash => ownId' = ownId
  BY DEF Tick, StartRunner, Configure, Crash
<1>2. ASSUME World \/ Consumer \/ Hooks \/ GoDeaf \/ UNCHANGED vars
      PROVE  ownId' = ownId
  BY <1>2 DEF World, Bar, Report, Reject, Execute, Consumer, Read, Claim, GiveUp, Acknowledge,
     Hooks, HoldBar, Trade, Put, Publish, Return, HandleFill, HandlePosition, GoDeaf, vars,
     control
<1> QED BY <1>1, <1>2 DEF Next, Supervise

LEMMA ControlTypesStep ==
    ASSUME IInv, [Next]_vars
    PROVE  /\ config' \in ConfigRecords /\ ownId' \in BOOLEAN
           /\ supervisor' \in [starts : BOOLEAN, read : ConfigRecords]
           /\ upsets' \in 0 .. MaxUpsets /\ failures' \in 0 .. MaxFailures
<1>1. /\ config \in ConfigRecords /\ supervisor \in [starts : BOOLEAN, read : ConfigRecords]
      /\ upsets \in 0 .. MaxUpsets /\ failures \in 0 .. MaxFailures
      /\ MaxUpsets \in Nat /\ MaxFailures \in Nat
  BY StrategyHostAssumption DEF IInv, TypeOK, HostTypes, ConfigRecords
<1>2. upsets' \in 0 .. MaxUpsets
  <2>1. upsets' = upsets \/ (upsets < MaxUpsets /\ upsets' = upsets + 1)
    BY DEF Next, World, Bar, Report, Reject, Execute, Consumer, Read, Claim, GiveUp, Acknowledge, Hooks,
       HoldBar, Trade, Put, Publish, Return, HandleFill, HandlePosition, GoDeaf, Configure,
       Supervise, Tick, StartRunner, Crash, Upset, vars, bounds
  <2> QED BY <1>1, <2>1
<1>3. failures' \in 0 .. MaxFailures
  <2>1. failures' = failures \/ (failures < MaxFailures /\ failures' = failures + 1)
    BY DEF Next, World, Bar, Report, Reject, Execute, Consumer, Read, Claim, GiveUp, Acknowledge, Hooks,
       HoldBar, Trade, Put, Publish, Return, HandleFill, HandlePosition, GoDeaf, Configure,
       Supervise, Tick, StartRunner, Crash, Upset, Failure, vars, bounds
  <2> QED BY <1>1, <2>1
<1>4. config' \in ConfigRecords
  <2>1. config' = config \/ Configure
    BY DEF Next, World, Bar, Report, Reject, Execute, Consumer, Read, Claim, GiveUp, Acknowledge, Hooks,
       HoldBar, Trade, Put, Publish, Return, HandleFill, HandlePosition, GoDeaf,
       Supervise, Tick, StartRunner, Crash, vars, control
  <2>2. CASE Configure
    <3>1. \/ config' = [config EXCEPT !.on = ~@]
          \/ config' = [config EXCEPT !.sig = upsets']
      BY <2>2 DEF Configure
    <3>2. upsets' \in Sigs
      BY <1>2 DEF Sigs
    <3>3. [config EXCEPT !.on = ~@] \in ConfigRecords
      BY <1>1 DEF ConfigRecords
    <3>4. [config EXCEPT !.sig = upsets'] \in ConfigRecords
      BY <1>1, <3>2 DEF ConfigRecords
    <3> QED BY <3>1, <3>3, <3>4
  <2> QED BY <1>1, <2>1, <2>2
<1>5. supervisor' \in [starts : BOOLEAN, read : ConfigRecords]
  <2>1. supervisor' = supervisor \/ Tick \/ StartRunner \/ Crash
    BY DEF Next, World, Bar, Report, Reject, Execute, Consumer, Read, Claim, GiveUp, Acknowledge, Hooks,
       HoldBar, Trade, Put, Publish, Return, HandleFill, HandlePosition, GoDeaf, Configure,
       Supervise, vars, control
  <2>2. Tick => supervisor' \in [starts : BOOLEAN, read : ConfigRecords]
    BY <1>1 DEF Tick
  <2>3. StartRunner \/ Crash => supervisor' = [supervisor EXCEPT !.starts = FALSE]
    BY DEF StartRunner, Crash
  <2>4. [supervisor EXCEPT !.starts = FALSE] \in [starts : BOOLEAN, read : ConfigRecords]
    BY <1>1
  <2> QED BY <1>1, <2>1, <2>2, <2>3, <2>4
<1>6. ownId' \in BOOLEAN
  BY OwnIdStands DEF IInv, TypeOK, HostTypes
<1> QED BY <1>2, <1>3, <1>4, <1>5, <1>6

LEMMA HostTypesStep ==
    ASSUME IInv, [Next]_vars
    PROVE  HostTypes'
  BY StrategyTypesStep, LedgerTypesStep, RunnerTypesStep, ControlTypesStep
     DEF HostTypes, StrategyRecords, RunnerRecords, ConfigRecords

-----------------------------------------------------------------------------
(* The ledgers *)

\* Redis forgets nothing, and what it failed to write or to read stays known.
LEMMA LedgersGrow ==
    ASSUME [Next]_vars
    PROVE  stored \subseteq stored' /\ forgotten \subseteq forgotten'
<1>1. CASE Put
  BY <1>1 DEF Put
<1>2. CASE StartRunner
  BY <1>2 DEF StartRunner
<1>3. ASSUME \/ World \/ Consumer \/ (\E i \in group["bars"].todo : HoldBar(i) \/ Trade(i))
             \/ Publish \/ Return \/ (\E i \in group["fills"].todo : HandleFill(i))
             \/ (\E i \in group["positions"].todo : HandlePosition(i))
             \/ GoDeaf \/ Configure \/ Tick \/ Crash \/ UNCHANGED vars
      PROVE  stored' = stored /\ forgotten' = forgotten
  BY <1>3 DEF World, Bar, Report, Reject, Execute, Consumer, Read, Claim, GiveUp, Acknowledge, HoldBar,
     Trade, Publish, Return, HandleFill, HandlePosition, GoDeaf, Configure, Tick, Crash, vars,
     history
<1> QED BY <1>1, <1>2, <1>3 DEF Next, Hooks, Supervise

\* The order in the runner's hands when it starts to publish is in the ledger.
LEMMA RecordedStep ==
    ASSUME IInv, [Next]_vars
    PROVE  Recorded'
<1>1. /\ runner \in RunnerRecords /\ OrdersGrow /\ Recorded
      /\ stored \subseteq stored' /\ forgotten \subseteq forgotten'
  BY OrdersStep, LedgersGrow DEF IInv, TypeOK, HostTypes, RunnerRecords
<1>2. \A o \in DOMAIN orders' : orders'[o].state # "new" => o \in stored' \cup forgotten'
  <2>1. Publish => runner.order \in stored \cup forgotten
    BY <1>1 DEF Publish, Recorded
  <2> QED BY <1>1, <2>1 DEF OrdersGrow, Recorded
<1>3. runner'.at = "publish" => runner'.order \in stored' \cup forgotten'
  <2>1. CASE runner' = runner
    BY <1>1, <2>1 DEF Recorded
  <2>2. CASE Put
    <3>1. runner' = [runner EXCEPT !.at = "publish"] /\ runner.order \in stored' \cup forgotten'
      BY <2>2 DEF Put
    <3>2. runner'.order = runner.order
      BY <1>1, <3>1 DEF RunnerRecords
    <3> QED BY <3>1, <3>2
  <2>3. ASSUME \/ (\E i \in group["bars"].todo : Trade(i)) \/ Publish \/ Return \/ GoDeaf
        PROVE  runner'.at # "publish"
    BY <1>1, <2>3 DEF Trade, Publish, Return, GoDeaf, RunnerRecords
  <2>4. ASSUME Tick \/ Crash \/ StartRunner
        PROVE  runner' = runner \/ runner'.at # "publish"
    <3>1. \/ runner' = runner \/ runner' = Down
          \/ runner' = [Down EXCEPT !.at = "listen", !.sig = supervisor.read.sig]
          \/ runner' = [Down EXCEPT !.at = "ended"]
      BY <2>4 DEF Tick, Crash, StartRunner, Gone
    <3>2. CASE runner' = Down
      BY <3>2 DEF Down
    <3>3. CASE runner' = [Down EXCEPT !.at = "listen", !.sig = supervisor.read.sig]
      BY <3>3 DEF Down
    <3>4. CASE runner' = [Down EXCEPT !.at = "ended"]
      BY <3>4 DEF Down
    <3> QED BY <3>1, <3>2, <3>3, <3>4
  <2>5. ASSUME \/ World \/ Consumer \/ (\E i \in group["bars"].todo : HoldBar(i))
               \/ (\E i \in group["fills"].todo : HandleFill(i))
               \/ (\E i \in group["positions"].todo : HandlePosition(i))
               \/ Configure \/ UNCHANGED vars
        PROVE  runner' = runner
    BY <2>5 DEF World, Bar, Report, Reject, Execute, Consumer, Read, Claim, GiveUp, Acknowledge,
       HoldBar, HandleFill, HandlePosition, Configure, vars
  <2> QED BY <2>1, <2>2, <2>3, <2>4, <2>5 DEF Next, Hooks, Supervise
<1> QED BY <1>2, <1>3 DEF Recorded

\* A runner that starts reads the ledger in Redis; one that trades writes to both.
LEMMA LedgerStep ==
    ASSUME IInv, [Next]_vars
    PROVE  Ledger'
<1>1. /\ runner \in RunnerRecords /\ Ledger
      /\ stored \subseteq stored' /\ forgotten \subseteq forgotten'
  BY LedgersGrow DEF IInv, TypeOK, HostTypes, RunnerRecords
<1>2. CASE UNCHANGED <<runner, outstanding, stored>>
  BY <1>1, <1>2 DEF Ledger, Running
<1>3. ASSUME NEW i \in group["bars"].todo, Trade(i) PROVE Ledger'
  <2>1. /\ runner.at = "listen" /\ stored' = stored
        /\ outstanding' = outstanding \cup {Len(orders) + 1}
        /\ runner' = [runner EXCEPT !.at = "put", !.order = Len(orders) + 1]
    BY <1>3 DEF Trade, Handling
  <2>2. runner'.order = Len(orders) + 1 /\ Running
    BY <1>1, <2>1 DEF RunnerRecords, Running, Up
  <2> QED BY <1>1, <2>1, <2>2 DEF Ledger
<1>4. CASE Put
  <2>1. /\ runner.at = "put" /\ outstanding' = outstanding
        /\ stored' \subseteq stored \cup {runner.order}
        /\ runner' = [runner EXCEPT !.at = "publish"]
    BY <1>4 DEF Put, memory
  <2>2. Running /\ runner'.at = "publish"
    BY <1>1, <2>1 DEF RunnerRecords, Running, Up
  <2> QED BY <1>1, <2>1, <2>2 DEF Ledger
<1>5. CASE Publish \/ Return \/ GoDeaf
  <2>1. UNCHANGED <<outstanding, stored>>
    BY <1>5 DEF Publish, Return, GoDeaf, memory
  <2>2. Running /\ runner'.at # "put"
    BY <1>1, <1>5 DEF Publish, Return, GoDeaf, RunnerRecords, Running, Up
  <2> QED BY <1>1, <2>1, <2>2 DEF Ledger
<1>6. CASE Tick \/ Crash
  <2>1. CASE runner' = Down
    BY <2>1 DEF Ledger, Running, Down, Up
  <2>2. CASE runner' # Down
    BY <1>2, <1>6, <2>2 DEF Tick, Crash, Gone, memory
  <2> QED BY <2>1, <2>2
<1>7. CASE StartRunner
  <2>1. CASE UNCHANGED <<runner, outstanding>>
    BY <1>2, <1>7, <2>1 DEF StartRunner
  <2>2. CASE /\ outstanding' = stored \/ forgotten' = forgotten \cup stored
             /\ runner' = [Down EXCEPT !.at = "listen", !.sig = supervisor.read.sig]
    BY <1>7, <2>2 DEF StartRunner, Ledger, Down
  <2>3. CASE runner' = [Down EXCEPT !.at = "ended"]
    BY <2>3 DEF Ledger, Running, Down, Up
  <2> QED BY <1>7, <2>1, <2>2, <2>3 DEF StartRunner
<1>8. ASSUME \/ World \/ Consumer \/ (\E i \in group["bars"].todo : HoldBar(i))
             \/ (\E i \in group["fills"].todo : HandleFill(i))
             \/ (\E i \in group["positions"].todo : HandlePosition(i))
             \/ Configure \/ UNCHANGED vars
      PROVE  UNCHANGED <<runner, outstanding, stored>>
  BY <1>8 DEF World, Bar, Report, Reject, Execute, Consumer, Read, Claim, GiveUp, Acknowledge,
     HoldBar, HandleFill, HandlePosition, Configure, vars, memory
<1> QED BY <1>2, <1>3, <1>4, <1>5, <1>6, <1>7, <1>8 DEF Next, Hooks, Supervise

-----------------------------------------------------------------------------
(* The fills *)

LEMMA FillsOfSentStep ==
    ASSUME IInv, [Next]_vars
    PROVE  FillsOfSent'
<1>1. StreamTypes /\ FillsOfSent /\ OrdersGrow /\ FillsGrow
  BY OrdersStep, FillsStep DEF IInv, TypeOK
<1>2. ASSUME NEW i \in DOMAIN fills' PROVE orders'[fills'[i].order].state # "new"
  <2>1. fills'[i].order \in DOMAIN orders /\ orders[fills'[i].order].state # "new"
    BY <1>1 DEF StreamTypes, FillsGrow, FillsOfSent
  <2> QED BY <1>1, <2>1 DEF OrdersGrow
<1> QED BY <1>2 DEF FillsOfSent

\* A fill its runner does not know is one of an order Redis failed to write or to read.
LEMMA FillsReachStep ==
    ASSUME IInv, [Next]_vars
    PROVE  FillsReachTheirStrategy'
<1>0. CASE ~ownId
  <2>1. ~ownId'
    BY <1>0, OwnIdStands
  <2> QED BY <2>1 DEF FillsReachTheirStrategy
<1> SUFFICES ASSUME ownId PROVE FillsReachTheirStrategy'
  BY <1>0
<1>1. /\ TypeOK /\ HostTypes /\ StreamTypes /\ Recorded /\ FillsOfSent /\ Ledger /\ FillsGrow
      /\ FillsReachTheirStrategy /\ forgotten \subseteq forgotten'
  BY FillsStep, LedgersGrow DEF IInv, TypeOK
<1>2. ignored \subseteq DOMAIN fills /\ \A i \in DOMAIN fills : fills'[i] = fills[i]
  BY <1>1 DEF HostTypes, FillsGrow
<1>3. CASE ignored' = ignored
  BY <1>1, <1>2, <1>3 DEF FillsReachTheirStrategy
<1>4. ASSUME NEW i \in group["fills"].todo, HandleFill(i), ignored' # ignored
      PROVE  FillsReachTheirStrategy'
  <2>1. ignored' = ignored \cup {i} /\ fills[i].order \notin outstanding /\ runner.at = "listen"
    BY <1>4 DEF HandleFill, Handling
  <2>2. i \in DOMAIN fills
    <3>1. group["fills"] \in GroupType(Len(fills)) /\ DOMAIN fills = 1 .. Len(fills)
      BY <1>1, Lengths DEF StreamTypes
    <3> QED BY <3>1 DEF GroupType
  <2>3. fills[i].order \in stored \cup forgotten
    BY <1>1, <2>2 DEF StreamTypes, FillsOfSent, Recorded
  <2>4. fills[i].order \in forgotten
    BY <1>1, <2>1, <2>3 DEF Ledger, Running, Up
  <2> QED BY <1>1, <1>2, <2>1, <2>2, <2>4 DEF FillsReachTheirStrategy
<1>5. ASSUME \/ World \/ Consumer \/ (\E i \in group["bars"].todo : HoldBar(i) \/ Trade(i))
             \/ Put \/ Publish \/ Return \/ (\E i \in group["positions"].todo : HandlePosition(i))
             \/ GoDeaf \/ Configure \/ Supervise \/ Crash \/ UNCHANGED vars
      PROVE  ignored' = ignored
  BY <1>5 DEF World, Bar, Report, Reject, Execute, Consumer, Read, Claim, GiveUp, Acknowledge, HoldBar,
     Trade, Put, Publish, Return, HandlePosition, GoDeaf, Configure, Supervise, Tick,
     StartRunner, Crash, vars, history
<1> QED BY <1>3, <1>4, <1>5 DEF Next, Hooks

-----------------------------------------------------------------------------

LEMMA InitIInv == Init => IInv
<1> SUFFICES ASSUME Init PROVE IInv
  OBVIOUS
<1>1. /\ group = [s \in Streams |-> EmptyGroup] /\ bars = 0 /\ reported = 0 /\ Len(fills) = 0
      /\ orders = <<>> /\ fills = <<>> /\ Len(orders) = 0
      /\ DOMAIN orders = {} /\ DOMAIN fills = {}
  BY DEF Init
<1>2. \A s \in Streams : Length(s) = 0
  BY <1>1 DEF Length, Streams
<1>3. Groups
  BY <1>1, <1>2, EmptyWellFormed DEF Groups
<1>4. StreamTypes
  BY <1>1, <1>3, StrategyHostAssumption DEF StreamTypes, Groups, WellFormed
<1>5. HostTypes
  <2>1. strategy \in StrategyRecords /\ config \in ConfigRecords
    BY SigsFacts DEF Init, Fresh, StrategyRecords, ConfigRecords
  <2>2. runner \in RunnerRecords /\ runner.at = "down"
    BY DownRunner DEF Init
  <2>3. supervisor \in [starts : BOOLEAN, read : ConfigRecords]
    BY <2>1 DEF Init
  <2>4. upsets \in 0 .. MaxUpsets /\ failures \in 0 .. MaxFailures
    BY StrategyHostAssumption DEF Init
  <2>5. /\ outstanding = {} /\ stored = {} /\ mine = {} /\ forgotten = {} /\ ignored = {}
        /\ blind \in BOOLEAN /\ ownId \in BOOLEAN
    BY DEF Init
  <2> QED BY <2>1, <2>2, <2>3, <2>4, <2>5
          DEF HostTypes, StrategyRecords, RunnerRecords, ConfigRecords
<1>6. Recorded /\ FillsOfSent /\ Ledger /\ FillsReachTheirStrategy
  BY <1>1 DEF Init, Recorded, FillsOfSent, Ledger, FillsReachTheirStrategy, Down, Running, Up
<1> QED BY <1>3, <1>4, <1>5, <1>6 DEF IInv, TypeOK

LEMMA StepIInv == IInv /\ [Next]_vars => IInv'
<1> SUFFICES ASSUME IInv, [Next]_vars PROVE IInv'
  OBVIOUS
<1>1. TypeOK' /\ Groups'
  BY GroupsStep, StreamTypesStep, HostTypesStep DEF TypeOK
<1>2. Recorded' /\ FillsOfSent' /\ Ledger' /\ FillsReachTheirStrategy'
  BY RecordedStep, FillsOfSentStep, LedgerStep, FillsReachStep
<1> QED BY <1>1, <1>2 DEF IInv

LEMMA Invariance == Spec => []IInv
  BY InitIInv, StepIInv, PTL DEF Spec

\* Every variable keeps its type: the ledgers hold orders there are, the counters of
\* the strategy are natural numbers, the runner has an order when it publishes one.
THEOREM TypeCorrect == Spec => []TypeOK
<1>1. IInv => TypeOK
  BY DEF IInv
<1>2. QED
  BY <1>1, Invariance, PTL

\* Under the id of its class, a strategy is told every fill its runner is delivered,
\* through stops of the runner and of the host at any step, unless Redis failed to write
\* or to read the ledger.  A fill given up on is never delivered.
THEOREM FillsReach == Spec => []FillsReachTheirStrategy
<1>1. IInv => FillsReachTheirStrategy
  BY DEF IInv
<1>2. QED
  BY <1>1, Invariance, PTL

-----------------------------------------------------------------------------
(* No pyramiding.  What the strategy counts covers what is left of its newest      *)
(* order and the fills of it that have not reached the strategy yet.  Fills of one *)
(* order follow each other, so what the ones from i on add up to is the way of the *)
(* position from before i to now.                                                  *)

\* How far an order r took the position from n to h.
Gap(r, h, n) == IF r.side = "buy" THEN h - n ELSE n - h

\* The position before the fill f of the order r.
NetBefore(r, f) == IF r.side = "buy" THEN f.net - f.qty ELSE f.net + f.qty

Count(r, b, s) == IF r.side = "buy" THEN b ELSE s

\* The live orders V are the newest one or none, and it keeps to the lot.
OneLive(O, h, V) ==
    \A o \in V :
        /\ o = Len(O) /\ O[o].left > 0
        /\ O[o].side = "buy" => h + O[o].left <= Lot
        /\ O[o].side = "sell" => O[o].left <= h

\* The fills of an order follow each other, up to the position h of a live one.
Chained(O, F, h, V) ==
    /\ \A i \in DOMAIN F : F[i].order \in V => Gap(O[F[i].order], h, F[i].net) >= 0
    /\ \A i, j \in DOMAIN F : i < j /\ F[i].order = F[j].order =>
           Gap(O[F[i].order], NetBefore(O[F[i].order], F[j]), F[i].net) >= 0

\* The counts b and s cover what is left of the orders M of this runner ...
OrdersCounted(O, M, b, s, V) ==
    /\ M # {} => V \subseteq M
    /\ \A o \in M : /\ O[o].left >= 0 /\ (o = Len(O) \/ O[o].left = 0)
                    /\ Count(O[o], b, s) >= O[o].left

\* ... and with it the fills W that are still to reach it, all of the newest order.
FillsCounted(O, F, h, M, b, s, W) ==
    \A i \in W : LET r == O[F[i].order]
                 IN  /\ F[i].order = Len(O) /\ F[i].order \in M
                     /\ Gap(r, h, F[i].net) >= 0
                     /\ Count(r, b, s) >= r.left + Gap(r, h, NetBefore(r, F[i]))

Sound(O, F, h, M, b, s, V, W) ==
    /\ OneLive(O, h, V) /\ Chained(O, F, h, V)
    /\ OrdersCounted(O, M, b, s, V) /\ FillsCounted(O, F, h, M, b, s, W)

Typed(O, F, h, M, b, s, V, W) ==
    /\ O \in Seq(OrderRecords) /\ F \in Seq(FillRecords)
    /\ \A i \in DOMAIN F : F[i].order \in DOMAIN O
    /\ h \in Int /\ b \in Nat /\ s \in Nat
    /\ M \subseteq DOMAIN O /\ V \subseteq DOMAIN O /\ W \subseteq DOMAIN F

\* The same orders P in other states, and of this runner all (N = M) or none.
SameOrders(O, P) ==
    /\ P \in Seq(OrderRecords) /\ Len(P) = Len(O)
    /\ \A o \in DOMAIN O : P[o].side = O[o].side /\ P[o].left = O[o].left

AllOrNone(M, b, s, W, N, c, d, X) ==
    /\ N = {} \/ (N = M /\ c = b /\ d = s)
    /\ X \subseteq W /\ (N = {} => X = {})

\* Nothing is ordered, filled or counted: orders go, fills go, the runner may go.
LEMMA SoundQuiet ==
    ASSUME NEW O, NEW F, NEW h, NEW M, NEW b, NEW s, NEW V, NEW W,
           Typed(O, F, h, M, b, s, V, W), Sound(O, F, h, M, b, s, V, W),
           NEW P, SameOrders(O, P), NEW U \in SUBSET V,
           NEW N, NEW c, NEW d, NEW X, AllOrNone(M, b, s, W, N, c, d, X)
    PROVE  Sound(P, F, h, N, c, d, U, X)
<1> USE DEF SameOrders, AllOrNone
<1>1. OneLive(P, h, U)
  BY DEF OneLive, Sound, Typed
<1>2. Chained(P, F, h, U)
  <2>1. \A i \in DOMAIN F : P[F[i].order].side = O[F[i].order].side
    BY DEF Typed
  <2> QED BY <2>1 DEF Chained, Sound, Gap, NetBefore
<1>3. OrdersCounted(P, N, c, d, U)
  BY DEF OrdersCounted, Sound, Typed, Count
<1>4. FillsCounted(P, F, h, N, c, d, X)
  <2>1. \A i \in X : i \in W /\ P[F[i].order].side = O[F[i].order].side
                     /\ P[F[i].order].left = O[F[i].order].left
    BY DEF Typed
  <2> QED BY <2>1 DEF FillsCounted, Sound, Gap, NetBefore, Count
<1> QED BY <1>1, <1>2, <1>3, <1>4 DEF Sound

\* What an idle strategy counts is nothing: no fill is to reach it, none of its orders
\* has anything left, and no order it does not see as another runner's is live.
LEMMA IdleMeansNothingOwed ==
    ASSUME NEW O, NEW F, NEW h, NEW M, NEW V, NEW W,
           Typed(O, F, h, M, 0, 0, V, W), Sound(O, F, h, M, 0, 0, V, W)
    PROVE  /\ \A o \in M : O[o].left = 0 /\ o \notin V
           /\ W = {}
<1>1. ASSUME NEW o \in M PROVE O[o].left = 0 /\ o \notin V
  <2>1. O[o] \in OrderRecords
    BY DEF Typed
  <2>2. O[o].left >= 0 /\ 0 >= O[o].left /\ O[o].left \in Int
    BY <2>1 DEF Sound, OrdersCounted, Count, OrderRecords
  <2>3. o \in V => O[o].left > 0
    BY DEF Sound, OneLive
  <2> QED BY <2>2, <2>3
<1>2. ASSUME NEW i \in W PROVE FALSE
  <2> DEFINE r == O[F[i].order]
             f == F[i]
  <2>1. r \in OrderRecords /\ f \in FillRecords /\ h \in Int
    BY DEF Typed
  <2>2. r.left = 0 /\ Gap(r, h, f.net) >= 0 /\ 0 >= r.left + Gap(r, h, NetBefore(r, f))
    BY <1>1 DEF Sound, FillsCounted, Count
  <2>3. f.qty \in Nat \ {0} /\ f.net \in Int
    BY <2>1 DEF FillRecords
  <2> HIDE DEF r, f
  <2> QED BY <2>1, <2>2, <2>3 DEF Gap, NetBefore
<1> QED BY <1>1, <1>2

\* An order of qty that keeps to the lot is added to the orders O, and counted.
Added(O, h, side, qty, P, c, d) ==
    /\ side \in {"buy", "sell"} /\ qty \in Nat \ {0}
    /\ side = "buy" => h + qty <= Lot
    /\ side = "sell" => qty <= h
    /\ P \in Seq(OrderRecords) /\ Len(P) = Len(O) + 1
    /\ \A o \in DOMAIN O : P[o] = O[o]
    /\ P[Len(P)].side = side /\ P[Len(P)].left = qty
    /\ c \in Nat /\ d \in Nat
    /\ IF side = "buy" THEN c = qty ELSE d = qty

\* An idle strategy orders a lot when it has nothing, or sells what it has.
LEMMA SoundTrade ==
    ASSUME NEW O, NEW F, NEW h, NEW M, NEW V, NEW W,
           Typed(O, F, h, M, 0, 0, V, W), Sound(O, F, h, M, 0, 0, V, W), V \subseteq M,
           NEW side, NEW qty, NEW P, NEW c, NEW d, Added(O, h, side, qty, P, c, d)
    PROVE  Sound(P, F, h, M \cup {Len(O) + 1}, c, d, {Len(O) + 1}, {}) /\ W = {}
<1> USE DEF Added
<1>1. /\ \A o \in M : O[o].left = 0
      /\ V = {} /\ W = {}
  BY IdleMeansNothingOwed
<1> DEFINE n == Len(O) + 1
<1>2. /\ O \in Seq(OrderRecords) /\ Len(O) \in Nat /\ DOMAIN O = 1 .. Len(O)
      /\ M \subseteq DOMAIN O /\ h \in Int /\ Lot \in Nat
      /\ F \in Seq(FillRecords) /\ \A i \in DOMAIN F : F[i].order \in DOMAIN O
  BY StrategyHostAssumption DEF Typed
<1>3. /\ Len(P) = n /\ P[n].side = side /\ P[n].left = qty
      /\ \A o \in DOMAIN O : P[o] = O[o] /\ o # n
  BY <1>2
<1> HIDE DEF n
<1>4. OneLive(P, h, {n})
  BY <1>2, <1>3 DEF OneLive
<1>5. Chained(P, F, h, {n})
  BY <1>2, <1>3 DEF Chained, Sound
<1>6. OrdersCounted(P, M \cup {n}, c, d, {n})
  <2>1. P[n].left = qty /\ P[n].side = side
    BY <1>3
  <2>2. Count(P[n], c, d) = qty
    BY <2>1 DEF Count
  <2>3. \A o \in M : P[o].left = 0 /\ Count(P[o], c, d) \in Nat
    BY <1>1, <1>2, <1>3 DEF Count
  <2>4. ASSUME NEW o \in M \cup {n}
        PROVE  /\ P[o].left >= 0 /\ (o = Len(P) \/ P[o].left = 0)
               /\ Count(P[o], c, d) >= P[o].left
    <3>1. CASE o \in M
      <4>1. P[o].left = 0
        BY <2>3, <3>1
      <4>2. Count(P[o], c, d) \in Nat
        BY <2>3, <3>1
      <4> HIDE DEF Count
      <4>3. Count(P[o], c, d) >= 0
        BY <4>2
      <4> QED BY <4>1, <4>3
    <3>2. CASE o = n
      BY <1>3, <2>1, <2>2, <3>2
    <3> QED BY <3>1, <3>2
  <2> QED BY <2>4 DEF OrdersCounted
<1>7. FillsCounted(P, F, h, M \cup {n}, c, d, {})
  BY DEF FillsCounted
<1> QED BY <1>1, <1>4, <1>5, <1>6, <1>7 DEF Sound, n

\* A live order fills.
Filled(O, F, h, M, V, W, o, q, P, G, k, U, X) ==
    /\ o \in V /\ q \in Nat \ {0} /\ q <= O[o].left
    /\ P \in Seq(OrderRecords) /\ Len(P) = Len(O)
    /\ \A p \in DOMAIN O : p # o => P[p] = O[p]
    /\ P[o].side = O[o].side /\ P[o].left = O[o].left - q
    /\ k \in Int
    /\ O[o].side = "buy" => k = h + q
    /\ O[o].side = "sell" => k = h - q
    /\ DOMAIN G = DOMAIN F \cup {Len(F) + 1} /\ \A i \in DOMAIN F : G[i] = F[i]
    /\ G[Len(F) + 1].order = o /\ G[Len(F) + 1].qty = q /\ G[Len(F) + 1].net = k
    /\ U \subseteq V /\ (q = O[o].left => o \notin U)
    /\ X \subseteq W \cup {Len(F) + 1} /\ (Len(F) + 1 \in X => o \in M)

LEMMA SoundFill ==
    ASSUME NEW O, NEW F, NEW h, NEW M, NEW b, NEW s, NEW V, NEW W,
           Typed(O, F, h, M, b, s, V, W), Sound(O, F, h, M, b, s, V, W),
           NEW o, NEW q, NEW P, NEW G, NEW k, NEW U, NEW X,
           Filled(O, F, h, M, V, W, o, q, P, G, k, U, X)
    PROVE  Sound(P, G, k, M, b, s, U, X)
<1> DEFINE f == G[Len(F) + 1]
<1>0. /\ o \in V /\ q \in Nat \ {0} /\ q <= O[o].left
      /\ P \in Seq(OrderRecords) /\ Len(P) = Len(O)
      /\ \A p \in DOMAIN O : p # o => P[p] = O[p]
      /\ P[o].side = O[o].side /\ P[o].left = O[o].left - q
      /\ k \in Int
      /\ O[o].side = "buy" => k = h + q
      /\ O[o].side = "sell" => k = h - q
      /\ DOMAIN G = DOMAIN F \cup {Len(F) + 1} /\ \A i \in DOMAIN F : G[i] = F[i]
      /\ G[Len(F) + 1] = f /\ f.order = o /\ f.qty = q /\ f.net = k
      /\ U \subseteq V /\ (q = O[o].left => o \notin U)
      /\ X \subseteq W \cup {Len(F) + 1} /\ (Len(F) + 1 \in X => o \in M)
  BY DEF Filled
<1> HIDE DEF f
<1> USE <1>0
<1> DEFINE n == Len(F) + 1
           r == O[o]
<1>1. /\ O \in Seq(OrderRecords) /\ F \in Seq(FillRecords)
      /\ \A i \in DOMAIN F : F[i].order \in DOMAIN O
      /\ h \in Int /\ b \in Nat /\ s \in Nat /\ Len(F) \in Nat /\ Len(O) \in Nat
      /\ M \subseteq DOMAIN O /\ V \subseteq DOMAIN O /\ W \subseteq DOMAIN F
      /\ DOMAIN F = 1 .. Len(F) /\ DOMAIN O = 1 .. Len(O) /\ Lot \in Nat
  BY StrategyHostAssumption DEF Typed
<1>2. /\ r \in OrderRecords /\ r.left \in Int /\ o = Len(O) /\ V \subseteq {o} /\ o \in DOMAIN O
      /\ r.side = "buy" => h + r.left <= Lot
      /\ r.side = "sell" => r.left <= h
  <2>1. o \in DOMAIN O /\ r \in OrderRecords
    BY <1>1
  <2>2. r.left \in Int
    BY <2>1 DEF OrderRecords
  <2>3. OneLive(O, h, V)
    BY DEF Sound
  <2>4. o = Len(O) /\ \A p \in V : p = Len(O)
    BY <2>3 DEF OneLive
  <2>5. /\ r.side = "buy" => h + r.left <= Lot
        /\ r.side = "sell" => r.left <= h
    BY <2>3 DEF OneLive
  <2> QED BY <2>1, <2>2, <2>4, <2>5
<1>3. /\ \A m \in Int : Gap(r, k, m) = Gap(r, h, m) + q
      /\ Gap(r, k, k) = 0 /\ k \in Int
      /\ NetBefore(r, f) = h
  <2>1. \/ r.side = "buy" /\ k = h + q
        \/ r.side = "sell" /\ k = h - q
    BY <1>2 DEF OrderRecords
  <2> HIDE DEF r
  <2>2. \A m \in Int : Gap(r, k, m) = Gap(r, h, m) + q
    BY <1>1, <2>1 DEF Gap
  <2>3. Gap(r, k, k) = 0
    BY DEF Gap
  <2>4. NetBefore(r, f) = h
    <3>1. NetBefore(r, f) = (IF r.side = "buy" THEN k - q ELSE k + q)
      BY DEF NetBefore
    <3> QED BY <1>1, <2>1, <3>1
  <2> QED BY <2>2, <2>3, <2>4
<1>4. /\ P[o].side = r.side /\ P[o].left = r.left - q
      /\ \A p \in DOMAIN O : P[p].side = O[p].side
  OBVIOUS
<1>5. /\ DOMAIN G = DOMAIN F \cup {n} /\ n \notin DOMAIN F /\ G[n] = f
      /\ \A i \in DOMAIN F : G[i] = F[i] /\ i < n
  BY <1>1
<1>6. \/ r.side = "buy" /\ k = h + q
      \/ r.side = "sell" /\ k = h - q
  BY <1>2 DEF OrderRecords
<1>7. ASSUME NEW i \in DOMAIN F PROVE F[i].net \in Int /\ F[i].qty \in Nat
  <2>1. F[i] \in FillRecords
    BY <1>1
  <2> QED BY <2>1 DEF FillRecords
<1> HIDE DEF n, r
<1>8. OneLive(P, k, U)
  <2>1. ASSUME o \in U
        PROVE  /\ P[o].left > 0
               /\ P[o].side = "buy" => k + P[o].left <= Lot
               /\ P[o].side = "sell" => P[o].left <= k
    <3>1. q # r.left
      BY <2>1 DEF r
    <3>2. r.side \in {"buy", "sell"} /\ q < r.left
      BY <1>2, <3>1 DEF OrderRecords, r
    <3> QED BY <1>1, <1>2, <1>4, <3>2 DEF r
  <2>2. \A p \in U : p = o
    BY <1>2
  <2> QED BY <1>2, <2>1, <2>2 DEF OneLive
<1>9. Chained(P, G, k, U)
  <2>1. \A i \in DOMAIN F : F[i].order = o => Gap(r, h, F[i].net) >= 0 /\ Gap(r, h, F[i].net) \in Int
    BY <1>1, <1>7 DEF Sound, Chained, r, Gap
  <2>2. ASSUME NEW i \in DOMAIN G, G[i].order \in U
        PROVE  Gap(P[G[i].order], k, G[i].net) >= 0
    <3>1. G[i].order = o /\ Gap(P[o], k, G[i].net) = Gap(r, k, G[i].net)
      BY <1>2, <1>4, <2>2 DEF Gap
    <3>2. CASE i = n
      BY <1>3, <1>5, <3>1, <3>2
    <3>3. CASE i \in DOMAIN F
      <4>1. Gap(r, k, F[i].net) = Gap(r, h, F[i].net) + q
        BY <1>3, <1>7, <3>3
      <4>2. Gap(r, h, F[i].net) >= 0 /\ Gap(r, h, F[i].net) \in Int
        BY <1>5, <2>1, <3>1, <3>3
      <4> QED BY <1>5, <3>1, <3>3, <4>1, <4>2
    <3> QED BY <1>5, <3>2, <3>3
  <2>3. ASSUME NEW i \in DOMAIN G, NEW j \in DOMAIN G, i < j, G[i].order = G[j].order
        PROVE  Gap(P[G[i].order], NetBefore(P[G[i].order], G[j]), G[i].net) >= 0
    <3>1. i \in DOMAIN F /\ G[i] = F[i] /\ F[i].order \in DOMAIN O
      BY <1>1, <1>5, <2>3 DEF n
    <3>2. Gap(P[G[i].order], NetBefore(P[G[i].order], G[j]), G[i].net) =
              Gap(O[F[i].order], NetBefore(O[F[i].order], G[j]), F[i].net)
      BY <1>4, <3>1 DEF Gap, NetBefore
    <3>3. CASE j \in DOMAIN F
      BY <1>5, <2>3, <3>1, <3>2, <3>3 DEF Sound, Chained
    <3>4. CASE j = n
      <4>1. F[i].order = o
        BY <1>5, <2>3, <3>1, <3>4
      <4>2. NetBefore(r, G[j]) = h
        BY <1>3, <1>5, <3>4
      <4> QED BY <2>1, <3>1, <3>2, <4>1, <4>2 DEF r
    <3> QED BY <1>5, <3>3, <3>4
  <2>4. \A i \in DOMAIN G : G[i].order \in U => Gap(P[G[i].order], k, G[i].net) >= 0
    BY <2>2
  <2>5. \A i, j \in DOMAIN G : i < j /\ G[i].order = G[j].order =>
            Gap(P[G[i].order], NetBefore(P[G[i].order], G[j]), G[i].net) >= 0
    BY <2>3
  <2> QED BY <2>4, <2>5 DEF Chained
<1>10. OrdersCounted(P, M, b, s, U)
  <2>1. ASSUME NEW p \in M
        PROVE  /\ P[p].left >= 0 /\ (p = Len(P) \/ P[p].left = 0)
               /\ Count(P[p], b, s) >= P[p].left
    <3>1. /\ O[p].left >= 0 /\ (p = Len(O) \/ O[p].left = 0)
          /\ Count(O[p], b, s) >= O[p].left
      BY DEF Sound, OrdersCounted
    <3>2. CASE p # o
      BY <1>1, <3>1, <3>2
    <3>3. CASE p = o
      <4>1. Count(P[p], b, s) = Count(r, b, s) /\ Count(r, b, s) \in Nat
        BY <1>1, <1>4, <3>3 DEF Count
      <4> QED BY <1>2, <1>4, <3>1, <3>3, <4>1 DEF r
    <3> QED BY <3>2, <3>3
  <2> QED BY <2>1 DEF OrdersCounted, Sound
<1>11. FillsCounted(P, G, k, M, b, s, X)
  <2>1. ASSUME NEW i \in X
        PROVE  /\ G[i].order = o /\ o \in M /\ Gap(r, k, G[i].net) >= 0
               /\ Count(r, b, s) >= r.left - q + Gap(r, k, NetBefore(r, G[i]))
    <3>0. Count(r, b, s) \in Nat
      BY <1>1 DEF Count
    <3>1. CASE i \in DOMAIN F
      <4>1. i \in W /\ G[i] = F[i]
        BY <1>1, <1>5, <3>1 DEF n
      <4>2. F[i].order = o /\ o \in M
        BY <1>2, <4>1 DEF Sound, FillsCounted
      <4>3. /\ Gap(r, h, F[i].net) >= 0
            /\ Count(r, b, s) >= r.left + Gap(r, h, NetBefore(r, F[i]))
        BY <4>1, <4>2 DEF Sound, FillsCounted, r
      <4>4. F[i].net \in Int /\ NetBefore(r, F[i]) \in Int
        BY <1>7, <3>1 DEF NetBefore
      <4>5. /\ Gap(r, k, F[i].net) = Gap(r, h, F[i].net) + q
            /\ Gap(r, k, NetBefore(r, F[i])) = Gap(r, h, NetBefore(r, F[i])) + q
        BY <1>3, <4>4
      <4>6. Gap(r, h, F[i].net) \in Int /\ Gap(r, h, NetBefore(r, F[i])) \in Int
        <5>1. \A m \in Int : Gap(r, h, m) \in Int
          BY <1>1 DEF Gap
        <5> QED BY <4>4, <5>1
      <4>7. Gap(r, k, F[i].net) >= 0
        BY <4>3, <4>5, <4>6
      <4>8. Count(r, b, s) >= r.left - q + Gap(r, k, NetBefore(r, F[i]))
        BY <1>2, <3>0, <4>3, <4>5, <4>6
      <4> QED BY <4>1, <4>2, <4>7, <4>8
    <3>2. CASE i = n
      <4>1. G[i] = f /\ o \in M
        BY <1>5, <3>2 DEF n
      <4>2. Count(r, b, s) >= r.left
        BY <4>1 DEF Sound, OrdersCounted, r
      <4>3. Gap(r, k, h) = q
        BY <1>1, <1>3 DEF Gap
      <4>4. Count(r, b, s) >= r.left - q + q
        BY <1>2, <3>0, <4>2
      <4> QED BY <1>3, <4>1, <4>3, <4>4
    <3> QED BY <1>1, <1>5, <3>1, <3>2 DEF n
  <2>2. \A i \in X : /\ Gap(P[o], k, G[i].net) = Gap(r, k, G[i].net)
                     /\ NetBefore(P[o], G[i]) = NetBefore(r, G[i])
                     /\ Gap(P[o], k, NetBefore(r, G[i])) = Gap(r, k, NetBefore(r, G[i]))
                     /\ Count(P[o], b, s) = Count(r, b, s)
    BY <1>4 DEF Gap, NetBefore, Count
  <2>3. P[o].left = r.left - q /\ o = Len(P)
    BY <1>2, <1>4
  <2> QED BY <2>1, <2>2, <2>3 DEF FillsCounted
<1> QED BY <1>8, <1>9, <1>10, <1>11 DEF Sound

LEMMA GapFacts ==
    ASSUME NEW r, NEW h \in Int, NEW n \in Int
    PROVE  Gap(r, h, n) \in Int
  BY DEF Gap

LEMMA NetBeforeFacts ==
    ASSUME NEW r, NEW f \in FillRecords, NEW h \in Int
    PROVE  /\ NetBefore(r, f) \in Int
           /\ Gap(r, h, NetBefore(r, f)) = Gap(r, h, f.net) + f.qty
<1>1. PICK n \in Int : n = f.net
  BY DEF FillRecords
<1>2. PICK q \in Nat : q = f.qty
  BY DEF FillRecords
<1>3. NetBefore(r, f) = (IF r.side = "buy" THEN n - q ELSE n + q)
  BY <1>1, <1>2 DEF NetBefore
<1>4. Gap(r, h, NetBefore(r, f)) = Gap(r, h, n) + q
  <2>1. CASE r.side = "buy"
    BY <1>3, <2>1 DEF Gap
  <2>2. CASE r.side # "buy"
    BY <1>3, <2>2 DEF Gap
  <2> QED BY <2>1, <2>2
<1> QED BY <1>1, <1>2, <1>3, <1>4

\* The oldest fill that is to reach the strategy reaches it.
Reached(O, F, b, s, W, i, X, c, d) ==
    /\ i \in W /\ X \subseteq W /\ \A j \in X : i < j
    /\ c \in Nat /\ d \in Nat
    /\ O[F[i].order].side = "buy" => c = Less(b, F[i].qty) /\ d = s
    /\ O[F[i].order].side = "sell" => d = Less(s, F[i].qty) /\ c = b

LEMMA SoundHandled ==
    ASSUME NEW O, NEW F, NEW h, NEW M, NEW b, NEW s, NEW V, NEW W,
           Typed(O, F, h, M, b, s, V, W), Sound(O, F, h, M, b, s, V, W),
           NEW i, NEW X, NEW c, NEW d, Reached(O, F, b, s, W, i, X, c, d)
    PROVE  Sound(O, F, h, M, c, d, V, X)
<1>0. /\ i \in W /\ X \subseteq W /\ \A j \in X : i < j
      /\ c \in Nat /\ d \in Nat
      /\ O[F[i].order].side = "buy" => c = Less(b, F[i].qty) /\ d = s
      /\ O[F[i].order].side = "sell" => d = Less(s, F[i].qty) /\ c = b
  BY DEF Reached
<1> USE <1>0
<1> DEFINE o == F[i].order
           r == O[o]
           q == F[i].qty
<1>1. /\ O \in Seq(OrderRecords) /\ F \in Seq(FillRecords)
      /\ \A j \in DOMAIN F : F[j].order \in DOMAIN O
      /\ h \in Int /\ b \in Nat /\ s \in Nat
      /\ M \subseteq DOMAIN O /\ W \subseteq DOMAIN F
  BY DEF Typed
<1>2. F[i] \in FillRecords /\ o \in DOMAIN O /\ r \in OrderRecords
  BY <1>1
<1>3. /\ q \in Nat \ {0} /\ F[i].net \in Int /\ r.left \in Int /\ r.side \in {"buy", "sell"}
      /\ Count(r, b, s) \in Nat
  BY <1>1, <1>2 DEF FillRecords, OrderRecords, Count
<1>4. /\ o = Len(O) /\ o \in M /\ Gap(r, h, F[i].net) >= 0
      /\ Count(r, b, s) >= r.left + Gap(r, h, NetBefore(r, F[i]))
  BY DEF Sound, FillsCounted
<1>5. Gap(r, h, NetBefore(r, F[i])) = Gap(r, h, F[i].net) + q /\ Gap(r, h, F[i].net) \in Int
  BY <1>1, <1>2, <1>3, GapFacts, NetBeforeFacts
<1>6. o \in M /\ r.left >= 0
  BY <1>4 DEF Sound, OrdersCounted
<1>7. Count(r, c, d) = Count(r, b, s) - q
  <2>1. Count(r, b, s) >= q
    BY <1>3, <1>4, <1>5, <1>6
  <2>2. \A n \in Nat : n >= q => Less(n, q) = n - q
    BY <1>3 DEF Less
  <2>3. CASE r.side = "buy"
    <3>1. Count(r, b, s) = b /\ Count(r, c, d) = Less(b, q)
      BY <2>3 DEF Count
    <3> QED BY <1>1, <2>1, <2>2, <3>1
  <2>4. CASE r.side = "sell"
    <3>1. Count(r, b, s) = s /\ Count(r, c, d) = Less(s, q)
      BY <2>4 DEF Count
    <3> QED BY <1>1, <2>1, <2>2, <3>1
  <2> QED BY <1>3, <2>3, <2>4
<1>8. Count(r, c, d) >= r.left + Gap(r, h, F[i].net)
  BY <1>3, <1>4, <1>5, <1>7
<1>9. OrdersCounted(O, M, c, d, V)
  <2>1. ASSUME NEW p \in M
        PROVE  /\ O[p].left >= 0 /\ (p = Len(O) \/ O[p].left = 0)
               /\ Count(O[p], c, d) >= O[p].left
    <3>1. O[p].left >= 0 /\ (p = Len(O) \/ O[p].left = 0)
      BY DEF Sound, OrdersCounted
    <3>2. CASE p = o
      <4>1. Count(r, c, d) >= r.left
        <5>1. Count(r, c, d) \in Int
          BY <1>3, <1>7
        <5> QED BY <1>3, <1>4, <1>5, <1>8, <5>1
      <4> QED BY <3>1, <3>2, <4>1
    <3>3. CASE p # o
      <4>1. O[p].left = 0
        BY <1>4, <3>1, <3>3
      <4>2. Count(O[p], c, d) \in Nat
        BY DEF Count
      <4>3. Count(O[p], c, d) >= 0
        BY <4>2
      <4> QED BY <4>1, <4>3
    <3> QED BY <3>2, <3>3
  <2> QED BY <2>1 DEF OrdersCounted, Sound
<1>10. FillsCounted(O, F, h, M, c, d, X)
  <2>1. ASSUME NEW j \in X
        PROVE  /\ F[j].order = o /\ Gap(r, h, F[j].net) >= 0
               /\ Count(r, c, d) >= r.left + Gap(r, h, NetBefore(r, F[j]))
    <3>1. j \in W /\ i < j /\ j \in DOMAIN F /\ i \in DOMAIN F
      BY <1>1
    <3>2. F[j].order = o /\ Gap(r, h, F[j].net) >= 0
      BY <1>4, <3>1 DEF Sound, FillsCounted
    <3>3. Gap(r, NetBefore(r, F[j]), F[i].net) >= 0
      BY <3>1, <3>2 DEF Sound, Chained
    <3>4. F[j].net \in Int /\ F[j].qty \in Nat
      <4>1. F[j] \in FillRecords
        BY <1>1, <3>1
      <4> QED BY <4>1 DEF FillRecords
    <3>5. NetBefore(r, F[j]) \in Int
      BY <3>4 DEF NetBefore
    <3> DEFINE m == NetBefore(r, F[j])
    <3> HIDE DEF m, o, r
    <3>6. Gap(r, h, F[i].net) >= Gap(r, h, m) /\ Gap(r, h, m) \in Int
      <4>1. m \in Int /\ Gap(r, m, F[i].net) >= 0
        BY <3>3, <3>5 DEF m
      <4>2. h \in Int /\ F[i].net \in Int
        BY <1>1, <1>3
      <4>3. \A n \in Int : Gap(r, m, n) >= 0 =>
                Gap(r, h, n) >= Gap(r, h, m) /\ Gap(r, h, m) \in Int
        BY <4>1, <4>2 DEF Gap
      <4> QED BY <4>1, <4>2, <4>3
    <3>7. Count(r, c, d) \in Int
      BY <1>3, <1>7
    <3>8. Count(r, c, d) >= r.left + Gap(r, h, m)
      BY <1>3, <1>5, <1>8, <3>6, <3>7
    <3> QED BY <3>2, <3>8 DEF m
  <2> QED BY <1>4, <2>1 DEF FillsCounted
<1> QED BY <1>9, <1>10 DEF Sound

-----------------------------------------------------------------------------
(* A fill of this runner's orders reaches the strategy once. *)

Owes(g, i) == i > g.cursor \/ i \in g.todo

\* What is pending of the fills S is in hand: none of them is claimed.
InHandOnly(g, S) == g.pel \cap S \subseteq g.todo \cup g.done

LEMMA MoveOnce ==
    ASSUME NEW n \in Nat, NEW g, NEW h, NEW S, NEW gone, WellFormed(g, n),
           GroupMove(g, h, n, n, gone), InHandOnly(g, S)
    PROVE  /\ gone \/ InHandOnly(h, S)
           /\ \A i \in S \cap (1 .. n) : Owes(h, i) => Owes(g, i)
<1>1. g \in GroupType(n) /\ g.cursor \in 0 .. n
  BY DEF WellFormed, GroupType
<1>2. CASE h = g
  BY <1>2
<1>3. CASE AtRest(g) /\ h = Delivered(g, n, Batch)
  <2> DEFINE last == IF g.cursor + Batch <= n THEN g.cursor + Batch ELSE n
             new == g.cursor + 1 .. last
  <2>1. last \in Int /\ g.cursor <= last
    BY <1>1, StrategyHostAssumption
  <2>2. h = [cursor |-> last, pel |-> g.pel \cup new, claimed |-> g.claimed,
             todo |-> new, done |-> g.done, dead |-> g.dead]
    BY <1>1, <1>3 DEF Delivered, GroupType
  <2> HIDE DEF last
  <2>3. /\ h.cursor = last /\ h.pel = g.pel \cup (g.cursor + 1 .. last)
        /\ h.todo = g.cursor + 1 .. last /\ h.done = g.done
    BY <2>2
  <2>4. InHandOnly(h, S)
    BY <1>3, <2>3 DEF InHandOnly, AtRest
  <2>5. \A i \in 1 .. n : Owes(h, i) => Owes(g, i)
    BY <1>1, <2>1, <2>3 DEF Owes
  <2> QED BY <2>4, <2>5
<1>4. CASE AtRest(g) /\ \E C \in SUBSET g.pel : h = Claims(g, C)
  <2> PICK C \in SUBSET g.pel : h = Claims(g, C)
    BY <1>4
  <2>1. h.cursor = g.cursor /\ h.pel = g.pel /\ h.todo = C
    BY <1>1 DEF Claims, GroupType
  <2>2. g.pel \cap S = {}
    BY <1>4 DEF InHandOnly, AtRest
  <2> QED BY <2>1, <2>2 DEF InHandOnly, Owes
<1>8. CASE AtRest(g) /\ \E i \in g.pel : h = Current(GivenUp(g, i))
  <2> PICK i \in g.pel : h = Current(GivenUp(g, i))
    BY <1>8
  <2>1. i \in g.pel \ g.done
    BY <1>8 DEF AtRest
  <2> DEFINE k == GivenUp(g, i)
  <2>3. /\ WellFormed(k, n)
        /\ k.cursor = g.cursor /\ k.pel = g.pel \ {i} /\ k.todo = g.todo \ {i} /\ k.done = g.done
    BY <2>1, GivenUpFacts
  <2> HIDE DEF k
  <2>2. h.cursor = g.cursor /\ h.pel = g.pel \ {i} /\ h.todo = g.todo \ {i} /\ h.done = g.done
    BY <2>3, CurrentFacts DEF k
  <2> QED BY <1>8, <2>2 DEF InHandOnly, Owes, AtRest
<1>5. CASE g.todo = {} /\ h = Current(Acknowledged(g))
  <2> DEFINE k == Acknowledged(g)
  <2>2. /\ WellFormed(k, n)
        /\ k.cursor = g.cursor /\ k.pel = g.pel \ g.done /\ k.todo = g.todo /\ k.done = {}
    BY <1>5, AcknowledgedFacts
  <2> HIDE DEF k
  <2>1. h.cursor = g.cursor /\ h.pel = g.pel \ g.done /\ h.todo = g.todo /\ h.done = {}
    BY <1>5, <2>2, CurrentFacts DEF k
  <2> QED BY <1>5, <2>1 DEF InHandOnly, Owes
<1>6. CASE \E i \in g.todo : h = Handled(g, i)
  <2> PICK i \in g.todo : h = Handled(g, i)
    BY <1>6
  <2>1. h.cursor = g.cursor /\ h.pel = g.pel /\ h.todo = g.todo \ {i} /\ h.done = g.done \cup {i}
    BY <1>1 DEF Handled, GroupType
  <2> QED BY <2>1 DEF InHandOnly, Owes
<1>7. CASE gone /\ h = Abandoned(g)
  <2>1. h.cursor = g.cursor /\ h.todo = {}
    BY <1>1, <1>7 DEF Abandoned, GroupType
  <2> QED BY <1>7, <2>1 DEF Owes
<1> QED BY <1>2, <1>3, <1>4, <1>5, <1>6, <1>7, <1>8 DEF GroupMove

\* The fills of the orders submitted since the runner was started, and the ones of
\* them that are still to reach the strategy.
MineFills == {i \in DOMAIN fills : fills[i].order \in mine}
OwedFills == {i \in MineFills : Owes(group["fills"], i)}

\* A runner that is not there has no orders, a start finds no runner, an order in its
\* hands has not been sent, and the fills it may claim are of earlier runners.
Runs ==
    /\ runner.at \in {"down", "ended"} => mine = {}
    /\ supervisor.starts => runner = Down
    /\ runner.at \in {"put", "publish"} => orders[runner.order].state = "new"
    /\ runner.at = "deaf" \/ InHandOnly(group["fills"], MineFills)

\* A deaf runner stays as it is until it is stopped.
LEMMA DeafStep ==
    ASSUME Runs, [Next]_vars, runner.at = "deaf"
    PROVE  (runner' = runner /\ group' = group) \/ mine' = {}
<1>1. ~supervisor.starts
  BY DEF Runs, Down
<1>2. CASE Tick \/ Crash
  BY <1>2 DEF Tick, Crash, Gone
<1>3. CASE Configure \/ World \/ UNCHANGED vars
  BY <1>3 DEF Configure, World, Bar, Report, Reject, Execute, vars
<1>4. ~(Consumer \/ Hooks \/ GoDeaf \/ StartRunner)
  BY <1>1 DEF Consumer, Read, Claim, GiveUp, Acknowledge, Hooks, HoldBar, Trade, Put, Publish, Return,
     HandleFill, HandlePosition, Handling, GoDeaf, StartRunner
<1> QED BY <1>2, <1>3, <1>4 DEF Next, Supervise

\* No fill of the runner's orders is to reach the strategy again.
LEMMA FillsGroupStep ==
    ASSUME IInv, Runs, [Next]_vars, fills' = fills, mine' = mine
    PROVE  /\ OwedFills' \subseteq OwedFills
           /\ runner'.at = "deaf" \/ InHandOnly(group'["fills"], MineFills)
<1>1. /\ WellFormed(group["fills"], Len(fills))
      /\ GroupMove(group["fills"], group'["fills"], Len(fills), Len(fills), ConsumerGone')
      /\ Len(fills) \in Nat /\ DOMAIN fills = 1 .. Len(fills)
  <2>1. "fills" \in Streams /\ Length("fills") = Len(fills) /\ Length("fills")' = Len(fills)
    BY DEF Streams, Length
  <2>2. TypeOK /\ Groups
    BY DEF IInv
  <2> QED BY <2>1, <2>2, GroupsMove, Lengths DEF Groups, Moved
<1>2. MineFills' = MineFills /\ MineFills \subseteq 1 .. Len(fills)
  BY <1>1 DEF MineFills
<1>3. CASE mine = {}
  BY <1>2, <1>3 DEF OwedFills, InHandOnly, MineFills
<1>4. CASE runner.at = "deaf" /\ mine # {}
  <2>1. runner' = runner /\ group' = group
    BY <1>4, DeafStep
  <2> QED BY <1>2, <1>4, <2>1 DEF OwedFills
<1>5. CASE runner.at # "deaf" /\ mine # {}
  <2>1. InHandOnly(group["fills"], MineFills)
    BY <1>5 DEF Runs
  <2>2. /\ ConsumerGone' \/ InHandOnly(group'["fills"], MineFills)
        /\ \A i \in MineFills \cap (1 .. Len(fills)) :
               Owes(group'["fills"], i) => Owes(group["fills"], i)
    BY <1>1, <2>1, MoveOnce
  <2>3. \A i \in MineFills : Owes(group'["fills"], i) => Owes(group["fills"], i)
    BY <1>2, <2>2
  <2>4. OwedFills' = {i \in MineFills : Owes(group'["fills"], i)}
    BY <1>2 DEF OwedFills, Owes
  <2> QED BY <1>5, <2>2, <2>3, <2>4 DEF OwedFills, ConsumerGone
<1> QED BY <1>3, <1>4, <1>5

\* Orders and fills that are there stay the same fills of the same orders.
LEMMA TradeStep ==
    ASSUME IInv, NEW i \in group["bars"].todo, Trade(i)
    PROVE  /\ fills' = fills /\ group' = group /\ mine' = mine \cup {Len(orders) + 1}
           /\ Len(orders) + 1 \notin DOMAIN orders
           /\ MineFills' = MineFills /\ OwedFills' = OwedFills
<1>1. fills' = fills /\ group' = group /\ mine' = mine \cup {Len(orders) + 1}
  BY DEF Trade
<1>2. /\ Len(orders) + 1 \notin DOMAIN orders
      /\ \A j \in DOMAIN fills : fills[j].order \in DOMAIN orders
  <2>1. orders \in Seq(OrderRecords)
    BY DEF IInv, TypeOK, StreamTypes, OrderRecords
  <2>2. DOMAIN orders = 1 .. Len(orders) /\ Len(orders) \in Nat
    BY <2>1
  <2> QED BY <2>2 DEF IInv, TypeOK, StreamTypes
<1>3. MineFills' = MineFills
  BY <1>1, <1>2 DEF MineFills
<1>4. OwedFills' = OwedFills
  BY <1>1, <1>3 DEF OwedFills, Owes
<1> QED BY <1>1, <1>2, <1>3, <1>4

LEMMA ExecuteStep ==
    ASSUME IInv, NEW o \in DOMAIN orders, NEW q \in 1 .. Lot, Execute(o, q)
    PROVE  /\ group' = group /\ mine' = mine /\ runner' = runner
           /\ DOMAIN fills' = DOMAIN fills \cup {Len(fills) + 1}
           /\ Len(fills') = Len(fills) + 1
           /\ \A i \in DOMAIN fills : fills'[i] = fills[i]
           /\ fills'[Len(fills) + 1].order = o
           /\ fills'[Len(fills) + 1].qty = q
           /\ fills'[Len(fills) + 1].net = IF orders[o].side = "buy" THEN Held + q ELSE Held - q
           /\ MineFills' \subseteq MineFills \cup {Len(fills) + 1}
           /\ Len(fills) + 1 \in MineFills' => o \in mine
           /\ Len(fills) + 1 \notin group["fills"].pel
<1>1. /\ fills \in Seq(FillRecords) /\ DOMAIN fills = 1 .. Len(fills) /\ Len(fills) \in Nat
      /\ WellFormed(group["fills"], Len(fills))
  <2>1. fills \in Seq(FillRecords) /\ TypeOK
    BY DEF IInv, TypeOK, StreamTypes, FillRecords
  <2> QED BY <2>1, Lengths DEF IInv, Groups
<1> DEFINE f == [order |-> o, qty |-> q,
                 net |-> IF orders[o].side = "buy" THEN Held + q ELSE Held - q]
<1>2. fills' = Append(fills, f) /\ group' = group /\ mine' = mine /\ runner' = runner
  BY DEF Execute, memory
<1>3. /\ f.order = o /\ f.qty = q
      /\ f.net = IF orders[o].side = "buy" THEN Held + q ELSE Held - q
  OBVIOUS
<1> HIDE DEF f
<1>4. /\ DOMAIN fills' = DOMAIN fills \cup {Len(fills) + 1} /\ Len(fills') = Len(fills) + 1
      /\ \A i \in DOMAIN fills : fills'[i] = fills[i]
      /\ fills'[Len(fills) + 1] = f
  BY <1>1, <1>2
<1>5. Len(fills) + 1 \notin group["fills"].pel
  BY <1>1 DEF WellFormed, GroupType
<1>6. /\ MineFills' \subseteq MineFills \cup {Len(fills) + 1}
      /\ Len(fills) + 1 \in MineFills' => o \in mine
  BY <1>2, <1>3, <1>4 DEF MineFills
<1> QED BY <1>2, <1>3, <1>4, <1>5, <1>6

\* Of an order in its hands the runner has the only copy.
LEMMA InHandsStep ==
    ASSUME IInv, Runs, [Next]_vars, runner'.at \in {"put", "publish"}
    PROVE  orders'[runner'.order].state = "new"
<1>1. /\ runner \in RunnerRecords /\ orders \in Seq(OrderRecords)
      /\ runner.at \in {"put", "publish"} => runner.order \in DOMAIN orders
  BY DEF IInv, TypeOK, HostTypes, StreamTypes, RunnerRecords, OrderRecords
<1>2. OrdersGrow /\ runner'.order \in DOMAIN orders'
  BY OrdersStep, RunnerTypesStep DEF OrdersGrow
<1>3. CASE Publish \/ Return \/ GoDeaf
  <2>1. runner'.at \in {"return", "listen", "deaf"}
    BY <1>1, <1>3 DEF Publish, Return, GoDeaf, RunnerRecords
  <2> QED BY <2>1
<1>4. ASSUME NEW i \in group["bars"].todo, Trade(i) PROVE orders'[runner'.order].state = "new"
  <2>1. runner' = [runner EXCEPT !.at = "put", !.order = Len(orders) + 1]
    BY <1>4 DEF Trade
  <2>2. runner'.order = Len(orders) + 1
    BY <1>1, <2>1 DEF RunnerRecords
  <2>3. Len(orders) + 1 \notin DOMAIN orders
    BY <1>4, TradeStep
  <2>4. orders'[runner'.order].state # "new" => runner'.order \in DOMAIN orders
    BY <1>2 DEF OrdersGrow
  <2> QED BY <2>2, <2>3, <2>4
<1>5. ASSUME runner' = runner \/ Put, ~Publish PROVE orders'[runner'.order].state = "new"
  <2>1. runner'.order = runner.order /\ runner.at \in {"put", "publish"}
    BY <1>1, <1>5 DEF Put, RunnerRecords
  <2>2. orders[runner.order].state = "new" /\ runner.order \in DOMAIN orders
    BY <1>1, <2>1 DEF Runs
  <2>3. \A o \in DOMAIN orders' : orders'[o].state # "new" => orders[o].state # "new"
    BY <1>2, <1>5 DEF OrdersGrow
  <2> QED BY <1>2, <2>1, <2>2, <2>3
<1>6. CASE Tick \/ Crash \/ StartRunner
  <2>1. \/ runner' = runner \/ runner' = Down
        \/ runner' = [Down EXCEPT !.at = "listen", !.sig = supervisor.read.sig]
        \/ runner' = [Down EXCEPT !.at = "ended"]
    BY <1>6 DEF Tick, Crash, StartRunner, Gone
  <2>2. CASE runner' = Down
    BY <2>2 DEF Down
  <2>3. CASE runner' = [Down EXCEPT !.at = "listen", !.sig = supervisor.read.sig]
    BY <2>3 DEF Down
  <2>4. CASE runner' = [Down EXCEPT !.at = "ended"]
    BY <2>4 DEF Down
  <2> QED BY <1>3, <1>5, <2>1, <2>2, <2>3, <2>4
<1>7. ASSUME \/ World \/ Consumer \/ (\E i \in group["bars"].todo : HoldBar(i))
             \/ (\E i \in group["fills"].todo : HandleFill(i))
             \/ (\E i \in group["positions"].todo : HandlePosition(i))
             \/ Configure \/ UNCHANGED vars
      PROVE  runner' = runner
  BY <1>7 DEF World, Bar, Report, Reject, Execute, Consumer, Read, Claim, GiveUp, Acknowledge,
     HoldBar, HandleFill, HandlePosition, Configure, vars
<1> QED BY <1>3, <1>4, <1>5, <1>6, <1>7 DEF Next, Hooks, Supervise

LEMMA RunsStep ==
    ASSUME IInv, Runs, [Next]_vars
    PROVE  Runs'
<1>1. /\ runner \in RunnerRecords /\ supervisor \in [starts : BOOLEAN, read : ConfigRecords]
  BY DEF IInv, TypeOK, HostTypes, RunnerRecords, ConfigRecords
<1>2. runner'.at \in {"put", "publish"} => orders'[runner'.order].state = "new"
  BY InHandsStep
<1> DEFINE Rest == /\ runner'.at \in {"down", "ended"} => mine' = {}
                   /\ supervisor'.starts => runner' = Down
                   /\ runner'.at = "deaf" \/ InHandOnly(group'["fills"], MineFills')
<1>3. ASSUME fills' = fills, mine' = mine
      PROVE  runner'.at = "deaf" \/ InHandOnly(group'["fills"], MineFills')
  <2>1. MineFills' = MineFills
    BY <1>3 DEF MineFills
  <2> QED BY <1>3, <2>1, FillsGroupStep
<1>4. ASSUME mine' = {} PROVE InHandOnly(group'["fills"], MineFills')
  BY <1>4 DEF MineFills, InHandOnly
<1> SUFFICES Rest
  BY <1>2 DEF Runs
<1>5. ASSUME NEW i \in group["bars"].todo, Trade(i) PROVE Rest
  <2>1. /\ runner.at = "listen" /\ supervisor' = supervisor
        /\ runner' = [runner EXCEPT !.at = "put", !.order = Len(orders) + 1]
    BY <1>5 DEF Trade, Handling, control
  <2>2. runner'.at = "put" /\ ~supervisor.starts
    BY <1>1, <2>1 DEF RunnerRecords, Runs, Down
  <2>3. InHandOnly(group'["fills"], MineFills')
    BY <1>5, <2>1, TradeStep DEF Runs, InHandOnly
  <2> QED BY <2>1, <2>2, <2>3
<1>6. ASSUME NEW o \in DOMAIN orders, NEW q \in 1 .. Lot, Execute(o, q) PROVE Rest
  <2>1. supervisor' = supervisor
    BY <1>6 DEF Execute, control
  <2> QED BY <1>6, <2>1, ExecuteStep DEF Runs, InHandOnly
<1>7. CASE Put \/ Publish \/ Return \/ GoDeaf
  <2>1. fills' = fills /\ mine' = mine /\ supervisor' = supervisor
    BY <1>7 DEF Put, Publish, Return, GoDeaf, streams, memory, control
  <2>2. runner.at # "down" /\ runner'.at \in {"publish", "return", "listen", "deaf"}
    BY <1>1, <1>7 DEF Put, Publish, Return, GoDeaf, RunnerRecords
  <2>3. ~supervisor.starts
    BY <2>2 DEF Runs, Down
  <2> QED BY <1>3, <2>1, <2>2, <2>3
<1>8. CASE Tick
  <2>1. CASE Gone
    BY <1>4, <2>1 DEF Gone
  <2>2. CASE UNCHANGED <<runner, mine>> /\ runner = Down
    <3>1. fills' = fills
      BY <1>8 DEF Tick, streams
    <3> QED BY <1>3, <2>2, <3>1 DEF Runs
  <2> QED BY <1>8, <2>1, <2>2 DEF Tick, memory
<1>9. CASE Crash
  <2>1. mine' = {} /\ runner' = Down
    BY <1>9 DEF Crash, Gone
  <2> QED BY <1>4, <2>1
<1>10. CASE StartRunner
  <2>1. supervisor.starts /\ mine' = mine /\ supervisor' = [supervisor EXCEPT !.starts = FALSE]
    BY <1>10 DEF StartRunner
  <2>2. mine = {} /\ ~supervisor'.starts
    BY <1>1, <2>1 DEF Runs, Down
  <2> QED BY <1>4, <2>1, <2>2
<1>11. ASSUME \/ Bar \/ Report \/ (\E o \in DOMAIN orders : Reject(o)) \/ Consumer
              \/ (\E i \in group["bars"].todo : HoldBar(i))
              \/ (\E i \in group["fills"].todo : HandleFill(i))
              \/ (\E i \in group["positions"].todo : HandlePosition(i))
              \/ Configure \/ UNCHANGED vars
       PROVE  UNCHANGED <<runner, mine, fills>> /\ supervisor' = supervisor
  BY <1>11 DEF World, Bar, Report, Reject, Consumer, Read, Claim, GiveUp, Acknowledge,
     HoldBar, HandleFill, HandlePosition, Configure, vars, streams, memory, control
<1>12. UNCHANGED <<runner, mine, fills>> /\ supervisor' = supervisor => Rest
  BY <1>3 DEF Runs
<1> HIDE DEF Rest
<1> QED BY <1>5, <1>6, <1>7, <1>8, <1>9, <1>10, <1>11, <1>12 DEF Next, World, Hooks, Supervise

-----------------------------------------------------------------------------
(* The strategy counts what works for it, as long as it is not blind. *)

\* Orders that work or are about to be sent.
LiveOrders ==
    {o \in DOMAIN orders : Working(o) \/ (runner.at \in {"put", "publish"} /\ runner.order = o)}

Counted ==
    Sound(orders, fills, Held, mine, strategy.buying, strategy.selling, LiveOrders, OwedFills)

LEMMA StateTyped ==
    ASSUME IInv
    PROVE  Typed(orders, fills, Held, mine, strategy.buying, strategy.selling,
                 LiveOrders, OwedFills)
<1>1. /\ orders \in Seq(OrderRecords) /\ fills \in Seq(FillRecords)
      /\ \A i \in DOMAIN fills : fills[i].order \in DOMAIN orders
      /\ strategy \in StrategyRecords /\ mine \subseteq DOMAIN orders
  BY DEF IInv, TypeOK, StreamTypes, HostTypes, OrderRecords, FillRecords, StrategyRecords
<1>2. Held \in Int
  <2>1. CASE fills = <<>>
    BY <2>1 DEF Held
  <2>2. CASE fills # <<>>
    <3>1. fills[Len(fills)] \in FillRecords
      BY <1>1, <2>2
    <3> QED BY <2>2, <3>1 DEF Held, FillRecords
  <2> QED BY <2>1, <2>2
<1>3. strategy.buying \in Nat /\ strategy.selling \in Nat
  BY <1>1 DEF StrategyRecords
<1>4. LiveOrders \subseteq DOMAIN orders /\ OwedFills \subseteq DOMAIN fills
  BY DEF LiveOrders, OwedFills, MineFills
<1> QED BY <1>1, <1>2, <1>3, <1>4 DEF Typed

\* The counters of the strategy change with the orders and the fills only.
SameCounts ==
    mine' = {} \/ (/\ mine' = mine
                   /\ strategy'.buying = strategy.buying
                   /\ strategy'.selling = strategy.selling)

SameBook ==
    /\ fills' = fills
    /\ SameOrders(orders, orders')
    /\ LiveOrders' \subseteq LiveOrders

LEMMA QuietStep ==
    ASSUME IInv, Counted, SameBook, SameCounts, OwedFills' \subseteq OwedFills
    PROVE  Counted'
<1>1. Held' = Held
  BY DEF SameBook, Held
<1>2. mine' = {} => OwedFills' = {}
  BY DEF OwedFills, MineFills
<1>3. Sound(orders', fills, Held, mine', strategy'.buying, strategy'.selling,
            LiveOrders', OwedFills')
  <2>1. /\ Typed(orders, fills, Held, mine, strategy.buying, strategy.selling,
                 LiveOrders, OwedFills)
        /\ Sound(orders, fills, Held, mine, strategy.buying, strategy.selling,
                 LiveOrders, OwedFills)
    BY StateTyped DEF Counted
  <2>2. SameOrders(orders, orders') /\ LiveOrders' \in SUBSET LiveOrders
    BY DEF SameBook
  <2>3. AllOrNone(mine, strategy.buying, strategy.selling, OwedFills,
                  mine', strategy'.buying, strategy'.selling, OwedFills')
    BY <1>2 DEF SameCounts, AllOrNone
  <2> QED BY <2>1, <2>2, <2>3, SoundQuiet
<1> QED BY <1>1, <1>3 DEF Counted, SameBook

Trading == \E i \in group["bars"].todo : Trade(i)
Executing == \E o \in DOMAIN orders : \E q \in 1 .. Lot : Execute(o, q)

\* What an order buys or sells changes only when it fills.
LEMMA SameBookStep ==
    ASSUME IInv, Runs, [Next]_vars, ~Trading, ~Executing
    PROVE  SameBook
<1>1. /\ TypeOK /\ orders \in Seq(OrderRecords) /\ DOMAIN orders = 1 .. Len(orders)
      /\ runner \in RunnerRecords
  BY DEF IInv, TypeOK, StreamTypes, HostTypes, OrderRecords, RunnerRecords
<1>2. ASSUME NEW o \in DOMAIN orders, Reject(o) PROVE SameBook
  <2> DEFINE r == [orders[o] EXCEPT !.state = "done"]
  <2>1. orders[o] \in OrderRecords /\ orders[o].state = "sent"
    BY <1>1, <1>2 DEF Reject, Working
  <2>2. /\ r \in OrderRecords /\ r.state = "done"
        /\ r.side = orders[o].side /\ r.left = orders[o].left
    BY <2>1 DEF OrderRecords
  <2>3. orders' = [orders EXCEPT ![o] = r] /\ runner' = runner /\ fills' = fills
    BY <1>2 DEF Reject
  <2> HIDE DEF r
  <2>4. /\ orders' \in Seq(OrderRecords)
        /\ Len(orders') = Len(orders) /\ DOMAIN orders' = DOMAIN orders
        /\ \A p \in DOMAIN orders : p # o => orders'[p] = orders[p]
        /\ orders'[o] = r
    BY <1>1, <2>1, <2>2, <2>3, OrderChanges
  <2>5. LiveOrders' \subseteq LiveOrders
    BY <2>2, <2>3, <2>4 DEF LiveOrders, Working
  <2> QED BY <2>2, <2>3, <2>4, <2>5 DEF SameBook, SameOrders
<1>3. CASE Publish /\ orders' # orders
  <2>1. runner.order \in DOMAIN orders /\ runner.at = "publish"
    BY <1>1, <1>3 DEF Publish, TypeOK, HostTypes
  <2>2. PICK o \in DOMAIN orders : o = runner.order
    BY <2>1
  <2> DEFINE r == [orders[o] EXCEPT !.state = "sent"]
  <2>3. orders[o] \in OrderRecords
    BY <1>1
  <2>4. /\ r \in OrderRecords /\ r.state = "sent"
        /\ r.side = orders[o].side /\ r.left = orders[o].left
    BY <2>3 DEF OrderRecords
  <2>5. orders' = [orders EXCEPT ![o] = r] /\ fills' = fills
    BY <1>3, <2>2 DEF Publish
  <2>6. runner'.at = "return"
    BY <1>1, <1>3 DEF Publish, RunnerRecords
  <2> HIDE DEF r
  <2>7. /\ orders' \in Seq(OrderRecords)
        /\ Len(orders') = Len(orders) /\ DOMAIN orders' = DOMAIN orders
        /\ \A p \in DOMAIN orders : p # o => orders'[p] = orders[p]
        /\ orders'[o] = r
    BY <1>1, <2>3, <2>4, <2>5, OrderChanges
  <2>8. LiveOrders' \subseteq LiveOrders
    BY <2>1, <2>2, <2>6, <2>7 DEF LiveOrders, Working
  <2> QED BY <2>4, <2>5, <2>7, <2>8 DEF SameBook, SameOrders
<1>4. ASSUME fills' = fills, orders' = orders,
             \/ runner' = runner \/ Put \/ runner'.at \notin {"put", "publish"}
      PROVE  SameBook
  <2>1. LiveOrders' \subseteq LiveOrders
    <3>1. Put => runner.at = "put" /\ runner'.order = runner.order
      BY <1>1 DEF Put, RunnerRecords
    <3> QED BY <1>4, <3>1 DEF LiveOrders, Working
  <2> QED BY <1>1, <1>4, <2>1 DEF SameBook, SameOrders
<1>5. CASE Publish \/ Return \/ GoDeaf
  <2>1. runner'.at \notin {"put", "publish"}
    BY <1>1, <1>5 DEF Publish, Return, GoDeaf, RunnerRecords
  <2> QED BY <1>3, <1>4, <1>5, <2>1 DEF Publish, Return, GoDeaf, streams
<1>6. CASE Tick \/ Crash \/ StartRunner
  <2>1. \/ runner' = runner \/ runner' = Down
        \/ runner' = [Down EXCEPT !.at = "listen", !.sig = supervisor.read.sig]
        \/ runner' = [Down EXCEPT !.at = "ended"]
    BY <1>6 DEF Tick, Crash, StartRunner, Gone
  <2>2. runner' = Down => runner'.at \notin {"put", "publish"}
    BY DEF Down
  <2>3. runner' = [Down EXCEPT !.at = "listen", !.sig = supervisor.read.sig] =>
            runner'.at \notin {"put", "publish"}
    BY DEF Down
  <2>4. runner' = [Down EXCEPT !.at = "ended"] => runner'.at \notin {"put", "publish"}
    BY DEF Down
  <2>5. fills' = fills /\ orders' = orders
    BY <1>6 DEF Tick, Crash, StartRunner, streams
  <2> QED BY <1>4, <2>1, <2>2, <2>3, <2>4, <2>5
<1>7. CASE Put
  BY <1>4, <1>7 DEF Put, streams
<1>8. ASSUME \/ Bar \/ Report \/ Consumer
             \/ (\E i \in group["bars"].todo : HoldBar(i))
             \/ (\E i \in group["fills"].todo : HandleFill(i))
             \/ (\E i \in group["positions"].todo : HandlePosition(i))
             \/ Configure \/ UNCHANGED vars
      PROVE  UNCHANGED <<runner, fills, orders>>
  BY <1>8 DEF Bar, Report, Consumer, Read, Claim, GiveUp, Acknowledge,
     HoldBar, HandleFill, HandlePosition, Configure, vars, streams
<1> QED BY <1>2, <1>4, <1>5, <1>6, <1>7, <1>8
        DEF Next, World, Hooks, Supervise, Trading, Executing

\* A blind strategy stays blind, and an order on an outdated position, or with an order
\* of an earlier runner live, blinds it.
LEMMA BlindStep ==
    ASSUME [Next]_vars, ~blind', blind \in BOOLEAN
    PROVE  ~blind
<1>1. ASSUME NEW i \in group["bars"].todo, Trade(i) PROVE ~blind
  BY <1>1 DEF Trade
<1>2. ASSUME NEW i \in group["fills"].todo, HandleFill(i) PROVE ~blind
  BY <1>2 DEF HandleFill
<1>3. ASSUME \/ World \/ Consumer \/ (\E i \in group["bars"].todo : HoldBar(i))
             \/ Put \/ Publish \/ Return \/ (\E i \in group["positions"].todo : HandlePosition(i))
             \/ GoDeaf \/ Configure \/ Supervise \/ Crash \/ UNCHANGED vars
      PROVE  blind' = blind
  BY <1>3 DEF World, Bar, Report, Reject, Execute, Consumer, Read, Claim, GiveUp, Acknowledge, HoldBar,
     Put, Publish, Return, HandlePosition, GoDeaf, Configure, Supervise, Tick,
     StartRunner, Crash, vars, history
<1> QED BY <1>1, <1>2, <1>3 DEF Next, Hooks

LEMMA CountedTrade ==
    ASSUME IInv, Runs, Counted, NEW i \in group["bars"].todo, Trade(i), ~blind'
    PROVE  Counted'
<1> DEFINE n == Len(orders) + 1
           side == IF strategy.seen = 0 THEN "buy" ELSE "sell"
           qty == IF strategy.seen = 0 THEN Lot ELSE strategy.seen
           r == [side |-> side, left |-> qty, state |-> "new"]
<1>1. /\ orders \in Seq(OrderRecords) /\ runner \in RunnerRecords
      /\ strategy \in StrategyRecords
  BY DEF IInv, TypeOK, StreamTypes, HostTypes, OrderRecords, RunnerRecords, StrategyRecords
<1>2. /\ runner.at = "listen" /\ strategy.buying = 0 /\ strategy.selling = 0
      /\ strategy.seen >= 0 /\ strategy.seen = Held
      /\ \A p \in DOMAIN orders \ mine : ~Working(p)
  BY DEF Trade, Handling, Idle
<1>3. LiveOrders \subseteq mine
  BY <1>2 DEF LiveOrders
<1>4. qty \in Nat \ {0} /\ side \in {"buy", "sell"} /\ Held \in Int
      /\ (side = "buy" => qty = Lot /\ Held = 0) /\ (side = "sell" => qty = Held)
  BY <1>1, <1>2, StrategyHostAssumption DEF StrategyRecords
<1>5. orders' = Append(orders, r) /\ r \in OrderRecords /\ r.side = side /\ r.left = qty
      /\ r.state = "new"
  BY <1>4 DEF Trade, OrderRecords
<1>6. strategy' = IF side = "buy" THEN [strategy EXCEPT !.buying = @ + qty]
                                  ELSE [strategy EXCEPT !.selling = @ + qty]
  BY DEF Trade
<1>7. /\ runner' = [runner EXCEPT !.at = "put", !.order = n]
      /\ fills' = fills /\ mine' = mine \cup {n} /\ n \notin DOMAIN orders
      /\ OwedFills' = OwedFills
  BY TradeStep DEF Trade
<1> HIDE DEF r, qty, side
<1>8. /\ orders' \in Seq(OrderRecords) /\ Len(orders') = n /\ orders'[n] = r
      /\ \A o \in DOMAIN orders : orders'[o] = orders[o]
      /\ DOMAIN orders' = DOMAIN orders \cup {n}
  <2>1. DOMAIN orders = 1 .. Len(orders) /\ Len(orders) \in Nat
    BY <1>1
  <2> QED BY <1>1, <1>5, <2>1
<1>9. Added(orders, Held, side, qty, orders', strategy'.buying, strategy'.selling)
  <2>1. CASE side = "buy"
    <3>1. strategy' = [buying |-> qty, selling |-> 0, seen |-> strategy.seen]
      BY <1>1, <1>2, <1>4, <1>6, <2>1 DEF StrategyRecords
    <3>2. strategy'.buying = qty /\ strategy'.selling = 0
      BY <3>1
    <3>3. Held + qty <= Lot
      BY <1>4, <2>1, StrategyHostAssumption
    <3> QED BY <1>4, <1>5, <1>8, <2>1, <3>2, <3>3 DEF Added
  <2>2. CASE side = "sell"
    <3>1. strategy' = [buying |-> 0, selling |-> qty, seen |-> strategy.seen]
      BY <1>1, <1>2, <1>4, <1>6, <2>2 DEF StrategyRecords
    <3>2. strategy'.selling = qty /\ strategy'.buying = 0
      BY <3>1
    <3>3. qty <= Held
      BY <1>4, <2>2
    <3> QED BY <1>4, <1>5, <1>8, <2>2, <3>2, <3>3 DEF Added
  <2> QED BY <1>4, <2>1, <2>2
<1>10. /\ Typed(orders, fills, Held, mine, 0, 0, LiveOrders, OwedFills)
       /\ Sound(orders, fills, Held, mine, 0, 0, LiveOrders, OwedFills)
  BY <1>2, StateTyped DEF Counted
<1>11. Sound(orders', fills, Held, mine \cup {n}, strategy'.buying, strategy'.selling, {n}, {})
       /\ OwedFills = {}
  BY <1>3, <1>9, <1>10, SoundTrade
<1>12. LiveOrders' = {n}
  <2>1. \A o \in mine : o \notin LiveOrders
    BY <1>10, IdleMeansNothingOwed
  <2>2. LiveOrders = {}
    BY <1>3, <2>1
  <2>3. \A o \in DOMAIN orders : ~Working(o)
    BY <2>2 DEF LiveOrders
  <2>4. \A o \in DOMAIN orders : orders'[o].state # "sent"
    BY <1>8, <2>3 DEF Working
  <2>5. runner'.at = "put" /\ runner'.order = n
    BY <1>1, <1>7 DEF RunnerRecords
  <2>6. orders'[n].state = "new"
    BY <1>5, <1>8
  <2> QED BY <1>7, <1>8, <2>4, <2>5, <2>6 DEF LiveOrders, Working
<1>13. Held' = Held
  BY <1>7 DEF Held
<1> QED BY <1>7, <1>11, <1>12, <1>13 DEF Counted

LEMMA CountedExecute ==
    ASSUME IInv, Runs, Counted, NEW o \in DOMAIN orders, NEW q \in 1 .. Lot, Execute(o, q)
    PROVE  Counted'
<1> DEFINE n == Len(fills) + 1
           r == [side |-> orders[o].side, left |-> orders[o].left - q,
                 state |-> IF q = orders[o].left THEN "done" ELSE orders[o].state]
<1>1. /\ orders \in Seq(OrderRecords) /\ runner \in RunnerRecords /\ TypeOK
      /\ fills \in Seq(FillRecords) /\ DOMAIN fills = 1 .. Len(fills) /\ Len(fills) \in Nat
  <2>1. TypeOK
    BY DEF IInv
  <2> QED BY <2>1, Lengths
          DEF TypeOK, StreamTypes, HostTypes, OrderRecords, RunnerRecords, FillRecords
<1>2. /\ Typed(orders, fills, Held, mine, strategy.buying, strategy.selling,
               LiveOrders, OwedFills)
      /\ Sound(orders, fills, Held, mine, strategy.buying, strategy.selling,
               LiveOrders, OwedFills)
      /\ Held \in Int
  BY StateTyped DEF Counted, Typed
<1>3. /\ orders[o] \in OrderRecords /\ orders[o].state = "sent" /\ q <= orders[o].left
      /\ q \in Nat \ {0} /\ o \in LiveOrders
  BY <1>1, StrategyHostAssumption DEF Execute, Working, LiveOrders
<1>4. /\ r \in OrderRecords /\ r.side = orders[o].side /\ r.left = orders[o].left - q
      /\ r.state = (IF q = orders[o].left THEN "done" ELSE "sent")
  BY <1>3 DEF OrderRecords
<1>5. orders' = [orders EXCEPT ![o] = r]
  <2>1. orders' = [orders EXCEPT ![o] =
            [[orders[o] EXCEPT !.left = @ - q]
                EXCEPT !.state = IF q = orders[o].left THEN "done" ELSE orders[o].state]]
    BY <1>1 DEF Execute
  <2>2. [[orders[o] EXCEPT !.left = @ - q]
            EXCEPT !.state = IF q = orders[o].left THEN "done" ELSE orders[o].state] = r
    BY <1>3, TwoFields
  <2> QED BY <2>1, <2>2
<1>6. strategy' = strategy
  BY DEF Execute, memory
<1> HIDE DEF r
<1>7. /\ orders' \in Seq(OrderRecords) /\ Len(orders') = Len(orders)
      /\ DOMAIN orders' = DOMAIN orders
      /\ \A p \in DOMAIN orders : p # o => orders'[p] = orders[p]
      /\ orders'[o] = r
  <2>1. orders[o].state # "new" => r.state # "new"
    BY <1>4
  <2> QED BY <1>1, <1>4, <1>5, <2>1, OrderChanges
<1>8. /\ group' = group /\ mine' = mine /\ runner' = runner
      /\ DOMAIN fills' = DOMAIN fills \cup {n} /\ Len(fills') = n
      /\ \A i \in DOMAIN fills : fills'[i] = fills[i]
      /\ fills'[n].order = o /\ fills'[n].qty = q
      /\ fills'[n].net = IF orders[o].side = "buy" THEN Held + q ELSE Held - q
      /\ MineFills' \subseteq MineFills \cup {n} /\ (n \in MineFills' => o \in mine)
  BY ExecuteStep
<1>9. Held' = fills'[n].net
  <2>1. fills' # <<>>
    BY <1>1, <1>8
  <2> QED BY <1>8, <2>1 DEF Held
<1>10. Held' \in Int /\ (orders[o].side = "buy" => Held' = Held + q)
       /\ (orders[o].side = "sell" => Held' = Held - q)
  BY <1>2, <1>3, <1>8, <1>9 DEF OrderRecords
<1>11. LiveOrders' \subseteq LiveOrders /\ (q = orders[o].left => o \notin LiveOrders')
  <2>1. \A p \in DOMAIN orders : Working(p)' => Working(p)
    BY <1>3, <1>7 DEF Working
  <2>2. LiveOrders' \subseteq LiveOrders
    BY <1>7, <1>8, <2>1 DEF LiveOrders
  <2>3. runner.at \in {"put", "publish"} => runner.order # o
    BY <1>3 DEF Runs
  <2>4. q = orders[o].left => ~Working(o)'
    BY <1>4, <1>7 DEF Working
  <2>5. q = orders[o].left => o \notin LiveOrders'
    BY <1>8, <2>3, <2>4 DEF LiveOrders
  <2> QED BY <2>2, <2>5
<1>12. OwedFills' \subseteq OwedFills \cup {n} /\ (n \in OwedFills' => o \in mine)
  BY <1>8 DEF OwedFills, Owes
<1>13. Filled(orders, fills, Held, mine, LiveOrders, OwedFills, o, q, orders', fills', Held',
              LiveOrders', OwedFills')
  BY <1>3, <1>4, <1>7, <1>8, <1>9, <1>10, <1>11, <1>12 DEF Filled
<1>14. Sound(orders', fills', Held', mine, strategy.buying, strategy.selling, LiveOrders',
             OwedFills')
  BY <1>2, <1>13, SoundFill
<1> QED BY <1>6, <1>8, <1>14 DEF Counted

\* A fill reaches the strategy: it is one of an order it counted, or it changes nothing.
LEMMA CountedHandle ==
    ASSUME IInv, Runs, Counted, NEW i \in group["fills"].todo, HandleFill(i), ~blind'
    PROVE  Counted'
<1>1. /\ fills \in Seq(FillRecords) /\ strategy \in StrategyRecords
      /\ WellFormed(group["fills"], Len(fills)) /\ Len(fills) \in Nat
      /\ DOMAIN fills = 1 .. Len(fills) /\ DOMAIN group = Streams /\ "fills" \in Streams
  <2>1. TypeOK /\ fills \in Seq(FillRecords) /\ strategy \in StrategyRecords
    BY DEF IInv, TypeOK, StreamTypes, HostTypes, FillRecords, StrategyRecords
  <2> QED BY <2>1, Lengths DEF IInv, Groups
<1>2. [Next]_vars
  BY DEF Next, Hooks
<1>3. /\ UNCHANGED <<fills, mine, orders, runner>>
      /\ HandledOne("fills", i) /\ InHand(group["fills"], i)
  BY DEF HandleFill, streams, Handling
<1>4. OwedFills' \subseteq OwedFills
  BY <1>2, <1>3, FillsGroupStep
<1>5. CASE strategy' = strategy
  <2>1. SameBook /\ SameCounts
    <3>1. LiveOrders' = LiveOrders
      BY <1>3 DEF LiveOrders, Working
    <3>2. orders \in Seq(OrderRecords)
      BY DEF IInv, TypeOK, StreamTypes, OrderRecords
    <3> QED BY <1>3, <1>5, <3>1, <3>2 DEF SameBook, SameCounts, SameOrders
  <2> QED BY <1>4, <2>1, QuietStep
<1>6. CASE strategy' # strategy
  <2>1. strategy' = OnFill(fills[i]) /\ fills[i].order \in mine
    BY <1>6 DEF HandleFill
  <2>2. i \in DOMAIN fills /\ fills[i] \in FillRecords /\ i \in Nat /\ i <= group["fills"].cursor
        /\ group["fills"].cursor \in Nat
    BY <1>1 DEF WellFormed, GroupType
  <2>3. i \in OwedFills
    BY <2>1, <2>2 DEF OwedFills, MineFills, Owes
  <2>4. ASSUME NEW j \in OwedFills' PROVE i < j
    <3>1. group'["fills"] = Handled(group["fills"], i)
      BY <1>1, <1>3 DEF HandledOne
    <3>2. /\ group'["fills"].todo = group["fills"].todo \ {i}
          /\ group'["fills"].cursor = group["fills"].cursor
      BY <1>1, <3>1 DEF Handled, WellFormed, GroupType
    <3>3. j > group["fills"].cursor \/ j \in group["fills"].todo \ {i}
      BY <3>2 DEF OwedFills, Owes
    <3>4. j \in Nat
      BY <1>1, <1>4 DEF OwedFills, MineFills
    <3> QED BY <1>3, <2>2, <3>3, <3>4 DEF InHand
  <2> DEFINE b == strategy.buying
             s == strategy.selling
             r == orders[fills[i].order]
             q == fills[i].qty
  <2>5. strategy' \in StrategyRecords
    BY <1>1, <2>1, <2>2, OnFillFacts
  <2>6. Reached(orders, fills, b, s, OwedFills, i, OwedFills',
                strategy'.buying, strategy'.selling)
    <3>1. strategy' = IF r.side = "buy" THEN [strategy EXCEPT !.buying = Less(@, q)]
                                        ELSE [strategy EXCEPT !.selling = Less(@, q)]
      BY <1>1, <2>1 DEF OnFill, StrategyRecords
    <3>2. r.side = "buy" => strategy'.buying = Less(b, q) /\ strategy'.selling = s
      BY <1>1, <3>1 DEF StrategyRecords
    <3>3. r.side = "sell" => strategy'.selling = Less(s, q) /\ strategy'.buying = b
      BY <1>1, <3>1 DEF StrategyRecords
    <3>4. strategy'.buying \in Nat /\ strategy'.selling \in Nat
      BY <2>5 DEF StrategyRecords
    <3> QED BY <1>4, <2>3, <2>4, <3>2, <3>3, <3>4 DEF Reached
  <2>7. Sound(orders, fills, Held, mine, strategy'.buying, strategy'.selling, LiveOrders,
              OwedFills')
    BY <2>6, StateTyped, SoundHandled DEF Counted
  <2>8. Held' = Held /\ LiveOrders' = LiveOrders
    BY <1>3 DEF Held, LiveOrders, Working
  <2> QED BY <1>3, <2>7, <2>8 DEF Counted
<1> QED BY <1>5, <1>6

\* While the strategy is not blind, what it counts covers what works for it.
CountInv == IInv /\ Runs /\ (~blind => Counted)

LEMMA CountedStep ==
    ASSUME CountInv, [Next]_vars, ~blind'
    PROVE  Counted'
<1>1. IInv /\ Runs /\ Counted
  <2>1. blind \in BOOLEAN
    BY DEF CountInv, IInv, TypeOK, HostTypes
  <2> QED BY <2>1, BlindStep DEF CountInv
<1>2. CASE Trading
  BY <1>1, <1>2, CountedTrade DEF Trading
<1>3. CASE Executing
  BY <1>1, <1>3, CountedExecute DEF Executing
<1>4. CASE \E i \in group["fills"].todo : HandleFill(i)
  BY <1>1, <1>4, CountedHandle
<1>5. ASSUME ~Trading, ~Executing, ~(\E i \in group["fills"].todo : HandleFill(i))
      PROVE  Counted'
  <2>1. SameBook
    BY <1>1, <1>5, SameBookStep
  <2>2. strategy \in StrategyRecords
    BY <1>1 DEF IInv, TypeOK, HostTypes, StrategyRecords
  <2>3. SameCounts
    <3>1. ASSUME NEW i \in group["positions"].todo, HandlePosition(i) PROVE SameCounts
      <4>1. /\ strategy' = [strategy EXCEPT !.seen = fills[i].net] \/ strategy' = strategy
            /\ mine' = mine
        BY <3>1 DEF HandlePosition
      <4>2. strategy'.buying = strategy.buying /\ strategy'.selling = strategy.selling
        BY <2>2, <4>1 DEF StrategyRecords
      <4> QED BY <4>1, <4>2 DEF SameCounts
    <3>2. CASE Tick \/ Crash
      BY <3>2 DEF Tick, Crash, Gone, SameCounts, memory
    <3>3. ASSUME \/ World \/ Consumer \/ (\E i \in group["bars"].todo : HoldBar(i))
                 \/ Put \/ Publish \/ Return \/ GoDeaf \/ Configure \/ StartRunner
                 \/ UNCHANGED vars
          PROVE  strategy' = strategy /\ mine' = mine
      BY <3>3 DEF World, Bar, Report, Reject, Execute, Consumer, Read, Claim, GiveUp, Acknowledge,
         HoldBar, Put, Publish, Return, GoDeaf, Configure, StartRunner, vars, memory
    <3>4. strategy' = strategy /\ mine' = mine => SameCounts
      BY DEF SameCounts
    <3> QED BY <1>5, <3>1, <3>2, <3>3, <3>4 DEF Next, Hooks, Supervise, Trading
  <2>4. OwedFills' \subseteq OwedFills
    <3>1. CASE mine' = {}
      BY <3>1 DEF OwedFills, MineFills
    <3>2. CASE mine' = mine
      BY <1>1, <2>1, <3>2, FillsGroupStep DEF SameBook
    <3> QED BY <2>3, <3>1, <3>2 DEF SameCounts
  <2> QED BY <1>1, <2>1, <2>3, <2>4, QuietStep
<1> QED BY <1>2, <1>3, <1>4, <1>5

LEMMA InitCountInv == Init => CountInv
<1> SUFFICES ASSUME Init PROVE CountInv
  OBVIOUS
<1>1. /\ IInv /\ orders = <<>> /\ fills = <<>> /\ DOMAIN orders = {} /\ DOMAIN fills = {}
      /\ mine = {} /\ runner = Down /\ ~supervisor.starts
  BY InitIInv DEF Init
<1>2. Runs
  BY <1>1 DEF Runs, Down, InHandOnly, MineFills
<1>3. LiveOrders = {} /\ OwedFills = {}
  BY <1>1 DEF LiveOrders, OwedFills, MineFills
<1>4. Counted
  BY <1>1, <1>3 DEF Counted, Sound, OneLive, Chained, OrdersCounted, FillsCounted
<1> QED BY <1>1, <1>2, <1>4 DEF CountInv

LEMMA StepCountInv == CountInv /\ [Next]_vars => CountInv'
  BY StepIInv, RunsStep, CountedStep DEF CountInv

\* No pyramiding: while the strategy orders on the position as it is, whatever fills in
\* whatever parts, at most one order works, it never takes the position over a lot, and
\* never below nothing.
THEOREM NeverPyramids == Spec => []NoPyramiding
<1>1. CountInv => NoPyramiding
  <2> SUFFICES ASSUME CountInv, ~blind, NEW o \in DOMAIN orders, Working(o)
               PROVE  /\ \A p \in DOMAIN orders : Working(p) => p = o
                      /\ orders[o].side = "buy" => Held + orders[o].left <= Lot
                      /\ orders[o].side = "sell" => orders[o].left <= Held
    BY DEF NoPyramiding
  <2>1. OneLive(orders, Held, LiveOrders)
    BY DEF CountInv, Counted, Sound
  <2> QED BY <2>1 DEF OneLive, LiveOrders
<1>2. QED
  BY <1>1, InitCountInv, StepCountInv, PTL DEF Spec

-----------------------------------------------------------------------------
(* Under another id.  A runner that bought counts the lot as working for as long *)
(* as it is there.                                                               *)

OnlyBuys == \A o \in DOMAIN orders : orders[o].side = "buy"

BoughtOnce ==
    /\ strategy.seen = 0 /\ strategy.selling = 0
    /\ mine = {} \/ (strategy.buying = Lot /\ \E o \in DOMAIN orders : mine = {o})

OtherInv == IInv /\ Runs /\ (~ownId => OnlyBuys /\ BoughtOnce)

\* Only an order of the strategy adds to the orders, and nothing changes sides.
LEMMA SidesStep ==
    ASSUME IInv, Runs, [Next]_vars, ~Trading
    PROVE  DOMAIN orders' = DOMAIN orders /\ \A o \in DOMAIN orders : orders'[o].side = orders[o].side
<1>1. TypeOK /\ orders \in Seq(OrderRecords) /\ DOMAIN orders = 1 .. Len(orders)
  BY DEF IInv, TypeOK, StreamTypes, OrderRecords
<1>2. CASE ~Executing
  <2>1. SameOrders(orders, orders')
    BY <1>2, SameBookStep DEF SameBook
  <2>2. DOMAIN orders' = DOMAIN orders
    BY <1>1, <2>1 DEF SameOrders
  <2> QED BY <2>1, <2>2 DEF SameOrders
<1>3. ASSUME NEW o \in DOMAIN orders, NEW q \in 1 .. Lot, Execute(o, q)
      PROVE  /\ DOMAIN orders' = DOMAIN orders
             /\ \A p \in DOMAIN orders : orders'[p].side = orders[p].side
  <2> DEFINE new == IF q = orders[o].left THEN "done" ELSE orders[o].state
             r == [side |-> orders[o].side, left |-> orders[o].left - q, state |-> new]
  <2>1. orders[o] \in OrderRecords /\ q \in Nat
    BY <1>1, StrategyHostAssumption
  <2>2. orders' = [orders EXCEPT ![o] = r]
    <3>1. orders' = [orders EXCEPT ![o] = [[orders[o] EXCEPT !.left = @ - q] EXCEPT !.state = new]]
      BY <1>1, <1>3 DEF Execute
    <3>2. [[orders[o] EXCEPT !.left = @ - q] EXCEPT !.state = new] = r
      BY <2>1, TwoFields
    <3> QED BY <3>1, <3>2
  <2>3. r.side = orders[o].side
    OBVIOUS
  <2> HIDE DEF r
  <2> QED BY <2>2, <2>3
<1> QED BY <1>2, <1>3 DEF Executing

\* The strategy sees nothing and its count never drains, so it orders when it has none.
LEMMA BoughtOnceStep ==
    ASSUME IInv, Runs, [Next]_vars, ~ownId, OnlyBuys, BoughtOnce
    PROVE  OnlyBuys' /\ BoughtOnce'
<1>1. /\ strategy \in StrategyRecords /\ orders \in Seq(OrderRecords) /\ Lot \in Nat \ {0}
      /\ DOMAIN orders = 1 .. Len(orders) /\ Len(orders) \in Nat
  <2>1. strategy \in StrategyRecords /\ orders \in Seq(OrderRecords)
    BY DEF IInv, TypeOK, HostTypes, StreamTypes, StrategyRecords, OrderRecords
  <2> QED BY <2>1, StrategyHostAssumption
<1>2. ASSUME NEW i \in group["bars"].todo, Trade(i) PROVE OnlyBuys' /\ BoughtOnce'
  <2> DEFINE r == [side |-> "buy", left |-> Lot, state |-> "new"]
             n == Len(orders) + 1
  <2>1. strategy.buying = 0 /\ mine = {}
    BY <1>1, <1>2 DEF Trade, Idle, BoughtOnce
  <2>2. /\ orders' = Append(orders, r) /\ mine' = {n}
        /\ strategy' = [strategy EXCEPT !.buying = 0 + Lot]
    BY <1>2, <2>1 DEF Trade, BoughtOnce
  <2>3. r \in OrderRecords /\ r.side = "buy"
    BY <1>1 DEF OrderRecords
  <2>4. strategy' = [buying |-> Lot, selling |-> 0, seen |-> 0]
    BY <1>1, <2>2 DEF StrategyRecords, BoughtOnce
  <2> HIDE DEF r
  <2>5. /\ DOMAIN orders' = DOMAIN orders \cup {n} /\ orders'[n] = r
        /\ \A o \in DOMAIN orders : orders'[o] = orders[o]
    BY <1>1, <2>2, <2>3
  <2> QED BY <2>2, <2>3, <2>4, <2>5 DEF OnlyBuys, BoughtOnce
<1>3. ASSUME ~Trading PROVE OnlyBuys' /\ BoughtOnce'
  <2>1. DOMAIN orders' = DOMAIN orders /\ OnlyBuys'
    BY <1>3, SidesStep DEF OnlyBuys
  <2>2. CASE UNCHANGED <<strategy, mine>>
    BY <2>1, <2>2 DEF BoughtOnce
  <2>3. CASE strategy' = Fresh /\ mine' = {}
    BY <2>3, <2>1 DEF BoughtOnce, Fresh
  <2>4. ASSUME \/ World \/ Consumer \/ (\E i \in group["bars"].todo : HoldBar(i))
               \/ Put \/ Publish \/ Return \/ GoDeaf \/ Configure \/ StartRunner
               \/ (\E i \in group["fills"].todo : HandleFill(i))
               \/ (\E i \in group["positions"].todo : HandlePosition(i)) \/ UNCHANGED vars
        PROVE  UNCHANGED <<strategy, mine>>
    BY <2>4 DEF World, Bar, Report, Reject, Execute, Consumer, Read, Claim, GiveUp, Acknowledge,
       HoldBar, Put, Publish, Return, HandleFill, HandlePosition, GoDeaf, Configure, StartRunner,
       vars, memory
  <2>5. Tick \/ Crash => UNCHANGED <<strategy, mine>> \/ (strategy' = Fresh /\ mine' = {})
    BY DEF Tick, Crash, Gone, memory
  <2> QED BY <1>3, <2>1, <2>2, <2>3, <2>4, <2>5 DEF Next, Hooks, Supervise, Trading
<1> QED BY <1>2, <1>3 DEF Trading

LEMMA InitOtherInv == Init => OtherInv
<1> SUFFICES ASSUME Init PROVE OtherInv
  OBVIOUS
<1>1. IInv /\ Runs
  BY InitCountInv DEF CountInv
<1>2. OnlyBuys /\ BoughtOnce
  BY DEF Init, OnlyBuys, BoughtOnce, Fresh
<1> QED BY <1>1, <1>2 DEF OtherInv

LEMMA StepOtherInv == OtherInv /\ [Next]_vars => OtherInv'
  BY StepIInv, RunsStep, BoughtOnceStep, OwnIdStands DEF OtherInv

\* Under another id than the one its class stamps, whatever fills and however often it
\* is delivered, each runner buys at most one lot, and nothing is ever sold.
THEOREM OthersBuyOnce == Spec => []OtherIdBuysOnce
<1>1. OtherInv => OtherIdBuysOnce
  <2> SUFFICES ASSUME OtherInv, ~ownId PROVE Cardinality(mine) <= 1 /\ OnlyBuys
    BY DEF OtherIdBuysOnce, OnlyBuys
  <2>1. CASE mine = {}
    BY <2>1, FS_EmptySet DEF OtherInv
  <2>2. CASE \E o \in DOMAIN orders : mine = {o}
    BY <2>2, FS_Singleton DEF OtherInv
  <2> QED BY <2>1, <2>2 DEF OtherInv, BoughtOnce
<1>2. QED
  BY <1>1, InitOtherInv, StepOtherInv, PTL DEF Spec

=============================================================================
