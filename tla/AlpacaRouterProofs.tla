------------------------- MODULE AlpacaRouterProofs -------------------------
(***************************************************************************)
(* Proofs about AlpacaRouter for every number of intents, restarts and     *)
(* failures and every batch size: the type invariant, and that no order is *)
(* unaccounted for and no fill published twice.                            *)
(***************************************************************************)
EXTENDS AlpacaRouter, ConsumerGroupProofs, SequenceTheorems, TLAPS

\* The handler's order is the message in hand; what it watches Alpaca has taken, and
\* a fill it publishes Alpaca has made.
HandlerFacts ==
    /\ handler.at \in {"post", "watch", "publish", "return"} => handler.order \in group.todo
    /\ handler.at = "watch" => AtVenue(handler.order)
    /\ handler.fill => venue[handler.order] = "filled"

\* What the poller tells has ended.
PollerFacts == poller.at = "tell" => ~Open(poller.order)

\* An order someone keeps or lost is at Alpaca; none is both kept and lost.
Known == \A o \in pending \cup Tracked \cup lost : AtVenue(o)
Apart == \A o \in pending \cup Tracked : o \notin lost

IInv ==
    /\ TypeOK
    /\ WellFormed(group, intents)
    /\ HandlerFacts /\ PollerFacts /\ Known /\ Apart
    /\ OrdersAccounted

-----------------------------------------------------------------------------
(* The consumer group *)

LEMMA Naturals ==
    ASSUME TypeOK
    PROVE  intents \in Nat /\ Batch \in Nat \ {0} /\ NoOrder \notin Orders
  BY AlpacaRouterAssumption DEF TypeOK, IntakeTypes, Orders, NoOrder

\* Messages are orders.
LEMMA MessagesAreOrders ==
    ASSUME TypeOK
    PROVE  group.todo \subseteq Orders
<1>1. group.todo \subseteq 1 .. intents /\ intents \in 0 .. MaxIntents
  BY DEF TypeOK, IntakeTypes, GroupType
<1> QED BY <1>1, AlpacaRouterAssumption DEF Orders

LEMMA GroupStep ==
    ASSUME IInv, [Next]_vars
    PROVE  WellFormed(group, intents)'
<1>1. /\ intents \in Nat /\ Batch \in Nat \ {0} /\ WellFormed(group, intents)
  BY Naturals DEF IInv
<1>2. CASE Submit
  <2>1. group' = group /\ intents' = intents + 1
    BY <1>2 DEF Submit, service
  <2> QED BY <1>1, <2>1, GroupGrows
<1>3. CASE Consume
  <2>1. group' \in Consumed(group, intents, Batch) /\ intents' = intents
    BY <1>3 DEF Consume
  <2> QED BY <1>1, <2>1, ConsumedFacts
<1>4. CASE Raise \/ Return \/ \E o \in group.todo : Refuse(o)
  <2>1. /\ intents' = intents
        /\ \E i \in group.todo : group' \in {Handled(group, i)} \cup Raised(group, i)
    BY <1>4 DEF Raise, Return, Refuse, IInv, HandlerFacts
  <2>2. PICK i \in group.todo : group' \in {Handled(group, i)} \cup Raised(group, i)
    BY <2>1
  <2>3. i \in group.pel \ group.done
    BY <1>1, <2>2 DEF WellFormed
  <2>4. CASE group' = Handled(group, i) \/ group' = Failed(group, i)
    BY <1>1, <2>1, <2>2, <2>4, HandlerEndFacts
  <2>5. CASE group' = GivenUp(group, i)
    BY <1>1, <2>1, <2>3, <2>5, GivenUpFacts
  <2> QED BY <2>2, <2>4, <2>5 DEF Raised
<1>5. CASE ReturnLate \/ LoopError \/ Restart
  <2>1. group' = Abandoned(group) /\ intents' = intents
    BY <1>5 DEF ReturnLate, LoopError, Restart
  <2> QED BY <1>1, <2>1, AbandonedFacts
<1>6. CASE \/ \E o \in group.todo : Accept(o)
           \/ Post \/ Watch \/ WatchOn \/ HandOver \/ PublishResult
  <2>1. UNCHANGED <<group, intents>>
    BY <1>6 DEF Accept, Post, Watch, WatchOn, HandOver, PublishResult
  <2> QED BY <1>1, <2>1
<1>7. CASE Polling \/ PollerEnds
           \/ (\E o \in Orders, status \in {"filled", "dead"} : Settle(o, status))
  <2>1. UNCHANGED <<group, intents>>
    BY <1>7 DEF Polling, Poll, Tell, Ask, PollerEnds, Settle, service
  <2> QED BY <1>1, <2>1
<1>8. CASE UNCHANGED vars
  <2>1. UNCHANGED <<group, intents>>
    BY <1>8 DEF vars, service
  <2> QED BY <1>1, <2>1
<1> QED BY <1>2, <1>3, <1>4, <1>5, <1>6, <1>7, <1>8 DEF Next, Intake

-----------------------------------------------------------------------------
(* Types *)

HandlerRecords ==
    [at : {"listen", "post", "watch", "publish", "return", "dead"},
     order : Orders \cup {NoOrder}, late : BOOLEAN, fill : BOOLEAN]

\* The handler goes on to publish, or to watch, as it was or late.
LEMMA HandlerMoves ==
    ASSUME handler \in HandlerRecords, handler.order \in Orders, ~handler.fill,
           NEW h,
           \/ \E f \in BOOLEAN : h = [handler EXCEPT !.at = "publish", !.fill = f]
           \/ h = [handler EXCEPT !.at = "watch"]
           \/ h = [handler EXCEPT !.late = TRUE]
    PROVE  /\ h \in HandlerRecords /\ h.order = handler.order
           /\ h.fill => h.at = "publish"
<1> USE DEF HandlerRecords
<1>1. CASE \E f \in BOOLEAN : h = [handler EXCEPT !.at = "publish", !.fill = f]
  <2>1. PICK f \in BOOLEAN : h = [handler EXCEPT !.at = "publish", !.fill = f]
    BY <1>1
  <2>2. h = [at |-> "publish", order |-> handler.order, late |-> handler.late, fill |-> f]
    BY <2>1
  <2>3. h \in HandlerRecords
    BY <2>2
  <2> QED BY <2>2, <2>3
<1>2. CASE h = [handler EXCEPT !.at = "watch"]
  <2>1. h = [at |-> "watch", order |-> handler.order, late |-> handler.late,
             fill |-> handler.fill]
    BY <1>2
  <2>2. h \in HandlerRecords /\ h.fill = handler.fill
    BY <2>1
  <2> QED BY <2>1, <2>2
<1>3. CASE h = [handler EXCEPT !.late = TRUE]
  <2>1. h = [at |-> handler.at, order |-> handler.order, late |-> TRUE,
             fill |-> handler.fill]
    BY <1>3
  <2>2. h \in HandlerRecords /\ h.fill = handler.fill
    BY <2>1
  <2> QED BY <2>1, <2>2
<1> QED BY <1>1, <1>2, <1>3

LEMMA IntakeTypesStep ==
    ASSUME IInv, [Next]_vars
    PROVE  IntakeTypes'
<1>1. TypeOK /\ IntakeTypes /\ HandlerFacts /\ group.todo \subseteq Orders
  BY MessagesAreOrders DEF IInv, TypeOK
<1>2. group' \in GroupType(intents')
  BY GroupStep DEF WellFormed
<1> USE <1>1, <1>2, Naturals DEF IntakeTypes
<1>3. CASE Submit
  BY <1>3, AlpacaRouterAssumption DEF Submit, service
<1>4. CASE \E o \in Orders, status \in {"filled", "dead"} : Settle(o, status)
  BY <1>4 DEF Settle, service
<1>5. CASE Consume \/ \E o \in group.todo : Refuse(o)
  BY <1>5 DEF Consume, Refuse
<1>6. CASE \E o \in group.todo : Accept(o)
  BY <1>6 DEF Accept
<1>7. CASE Post
  <2>1. handler.at = "post" /\ handler.order \in Orders /\ UNCHANGED <<intents, group>>
    BY <1>7 DEF Post
  <2>2. \/ handler' = [handler EXCEPT !.at = "watch"]
        \/ handler' = [handler EXCEPT !.at = "publish", !.fill = FALSE]
    BY <1>7 DEF Post, Publishes
  <2>3. venue' = venue \/ venue' = [venue EXCEPT ![handler.order] = "open"]
    BY <1>7 DEF Post
  <2>4. ~handler.fill /\ handler \in HandlerRecords
    BY <2>1 DEF HandlerRecords
  <2>5. /\ handler' \in HandlerRecords /\ handler'.order = handler.order
        /\ handler'.fill => handler'.at = "publish"
    BY <2>1, <2>2, <2>4, HandlerMoves
  <2>6. venue' \in [Orders -> {"none", "open", "filled", "dead"}]
    BY <2>1, <2>3
  <2> QED BY <2>1, <2>5, <2>6 DEF HandlerRecords
<1>8. CASE Watch \/ WatchOn \/ HandOver
  <2>1. handler.at = "watch" /\ handler.order \in Orders /\ UNCHANGED <<intents, group, venue>>
    BY <1>8 DEF Watch, WatchOn, HandOver
  <2>2. ~handler.fill /\ handler \in HandlerRecords
    BY <2>1 DEF HandlerRecords
  <2>3. \/ handler' = [handler EXCEPT !.late = TRUE]
        \/ \E f \in BOOLEAN : handler' = [handler EXCEPT !.at = "publish", !.fill = f]
    BY <1>8 DEF Watch, WatchOn, HandOver, Publishes
  <2>4. /\ handler' \in HandlerRecords /\ handler'.order = handler.order
        /\ handler'.fill => handler'.at = "publish"
    BY <2>1, <2>2, <2>3, HandlerMoves
  <2> QED BY <2>1, <2>4 DEF HandlerRecords
<1>9. CASE PublishResult
  BY <1>9 DEF PublishResult
<1>10. CASE Raise \/ Return \/ ReturnLate \/ LoopError \/ Restart
  <2>1. UNCHANGED <<intents, venue>>
    BY <1>10 DEF Raise, Return, ReturnLate, LoopError, Restart
  <2>2. \E place \in {"listen", "dead"} :
            handler' = [at |-> place, order |-> NoOrder, late |-> FALSE, fill |-> FALSE]
    BY <1>10 DEF Raise, Return, ReturnLate, LoopError, Restart, Listening
  <2> QED BY <2>1, <2>2
<1>11. CASE Polling \/ PollerEnds
  BY <1>11 DEF Polling, Poll, Tell, Ask, PollerEnds, service
<1>12. CASE UNCHANGED vars
  BY <1>12 DEF vars, service
<1> QED BY <1>3, <1>4, <1>5, <1>6, <1>7, <1>8, <1>9, <1>10, <1>11, <1>12 DEF Next, Intake

LEMMA PollerTypesStep ==
    ASSUME IInv, [Next]_vars
    PROVE  PollerTypes'
<1>1. TypeOK /\ IntakeTypes /\ PollerTypes /\ HandlerFacts /\ group.todo \subseteq Orders
  BY MessagesAreOrders DEF IInv, TypeOK
<1>2. restarts \in 0 .. MaxRestarts /\ failures \in 0 .. MaxFailures
  BY <1>1 DEF PollerTypes
<1>3. MaxRestarts \in Nat /\ MaxFailures \in Nat
  BY AlpacaRouterAssumption
<1>4. Failure => failures' \in 0 .. MaxFailures
  BY <1>2, <1>3 DEF Failure
<1>5. \A o \in Orders : Append(published, o) \in Seq(Orders)
  BY <1>1 DEF PollerTypes
<1> USE <1>1, <1>2, <1>4, <1>5 DEF PollerTypes
<1>6. CASE Submit \/ Consume \/ (\E o \in group.todo : Refuse(o) \/ Accept(o))
           \/ (\E o \in Orders, status \in {"filled", "dead"} : Settle(o, status))
  BY <1>6 DEF Submit, Consume, Refuse, Accept, Settle, polling, bounds
<1>7. CASE Post
  BY <1>7 DEF Post, polling, IntakeTypes
<1>8. CASE Watch \/ WatchOn \/ Return \/ ReturnLate
  BY <1>8 DEF Watch, WatchOn, Return, ReturnLate, polling, bounds
<1>9. CASE HandOver
  BY <1>9 DEF HandOver, polling, bounds, IntakeTypes
<1>10. CASE PublishResult
  BY <1>10 DEF PublishResult, polling, bounds, IntakeTypes
<1>11. CASE Raise
  <2>1. handler.order \in Orders /\ Tracked \subseteq Orders
    BY <1>11 DEF Raise, Tracked, IntakeTypes
  <2> QED BY <1>11, <2>1 DEF Raise, polling
<1>18. CASE LoopError
  BY <1>18 DEF LoopError, polling
<1>12. CASE Poll
  BY <1>12 DEF Poll, bounds
<1>13. CASE Tell
  BY <1>13 DEF Tell, Onward, Resting, bounds, NoOrder
<1>14. CASE \E o \in asked : Ask(o)
  BY <1>14 DEF Ask, Onward, Resting, NoOrder
<1>15. CASE PollerEnds
  <2>1. published' \in Seq(Orders)
    <3>1. CASE published' = published
      BY <3>1
    <3>2. CASE poller.at = "tell" /\ published' = Append(published, poller.order)
      BY <3>2
    <3> QED BY <1>15, <3>1, <3>2 DEF PollerEnds
  <2> QED BY <1>15, <2>1 DEF PollerEnds, Resting, NoOrder
<1>16. CASE Restart
  <2>1. restarts' \in 0 .. MaxRestarts
    BY <1>16, <1>3 DEF Restart
  <2>2. Tracked \subseteq Orders
    BY DEF Tracked, IntakeTypes
  <2> QED BY <1>16, <2>1, <2>2 DEF Restart, Resting, NoOrder
<1>17. CASE UNCHANGED vars
  BY <1>17 DEF vars, polling, bounds
<1> QED BY <1>6, <1>7, <1>8, <1>9, <1>10, <1>11, <1>12, <1>13, <1>14, <1>15, <1>16, <1>17, <1>18
        DEF Next, Intake, Polling

-----------------------------------------------------------------------------
(* The facts about the handler and the poller *)

LEMMA HandlerFactsStep ==
    ASSUME IInv, [Next]_vars
    PROVE  HandlerFacts'
<1>1. TypeOK /\ IntakeTypes /\ HandlerFacts /\ group.todo \subseteq Orders
  BY MessagesAreOrders DEF IInv, TypeOK
<1> USE <1>1 DEF HandlerFacts, IntakeTypes, AtVenue
<1>2. CASE Submit
  BY <1>2 DEF Submit, service
<1>3. CASE \E o \in Orders, status \in {"filled", "dead"} : Settle(o, status)
  BY <1>3 DEF Settle, service, Open
<1>4. CASE Consume \/ \E o \in group.todo : Refuse(o)
  BY <1>4 DEF Consume, Refuse
<1>5. CASE \E o \in group.todo : Accept(o)
  BY <1>5 DEF Accept, InHand
<1>6. CASE Post
  <2>1. handler.at = "post" /\ handler.order \in Orders /\ UNCHANGED <<intents, group>>
    BY <1>6 DEF Post
  <2>2. \/ /\ handler' = [handler EXCEPT !.at = "watch"]
           /\ venue' = [venue EXCEPT ![handler.order] = "open"]
        \/ handler' = [handler EXCEPT !.at = "publish", !.fill = FALSE]
    BY <1>6 DEF Post, Publishes
  <2> QED BY <2>1, <2>2
<1>7. CASE Watch \/ WatchOn \/ HandOver
  <2>1. handler.at = "watch" /\ handler.order \in Orders /\ UNCHANGED <<intents, group, venue>>
    BY <1>7 DEF Watch, WatchOn, HandOver
  <2>2. \/ handler' = [handler EXCEPT !.late = TRUE]
        \/ handler' = [handler EXCEPT !.at = "publish", !.fill = FALSE]
        \/ /\ handler' = [handler EXCEPT !.at = "publish", !.fill = TRUE]
           /\ venue[handler.order] = "filled"
    BY <1>7 DEF Watch, WatchOn, HandOver, Publishes
  <2>3. CASE handler' = [handler EXCEPT !.late = TRUE]
    <3>1. handler'.at = "watch" /\ handler'.order = handler.order /\ ~handler'.fill
      BY <2>1, <2>3
    <3> QED BY <2>1, <3>1
  <2>4. CASE handler' = [handler EXCEPT !.at = "publish", !.fill = FALSE]
    <3>1. handler'.at = "publish" /\ handler'.order = handler.order /\ handler'.fill = FALSE
      BY <2>4
    <3> QED BY <2>1, <3>1
  <2>5. CASE /\ handler' = [handler EXCEPT !.at = "publish", !.fill = TRUE]
             /\ venue[handler.order] = "filled"
    <3>1. handler'.at = "publish" /\ handler'.order = handler.order
      BY <2>5
    <3> QED BY <2>1, <2>5, <3>1
  <2> QED BY <2>2, <2>3, <2>4, <2>5
<1>8. CASE PublishResult
  BY <1>8 DEF PublishResult
<1>9. CASE Raise \/ Return \/ ReturnLate \/ LoopError \/ Restart
  BY <1>9 DEF Raise, Return, ReturnLate, LoopError, Restart, Listening
<1>10. CASE Polling \/ PollerEnds
  BY <1>10 DEF Polling, Poll, Tell, Ask, PollerEnds, service
<1>11. CASE UNCHANGED vars
  BY <1>11 DEF vars, service
<1> QED BY <1>2, <1>3, <1>4, <1>5, <1>6, <1>7, <1>8, <1>9, <1>10, <1>11 DEF Next, Intake

LEMMA PollerFactsStep ==
    ASSUME IInv, [Next]_vars
    PROVE  PollerFacts'
<1>1. TypeOK /\ IntakeTypes /\ PollerTypes /\ PollerFacts /\ Known
  BY DEF IInv, TypeOK
<1> USE <1>1 DEF PollerFacts, Open
<1>2. CASE poller' = poller /\ venue' = venue
  BY <1>2
<1>3. CASE \E o \in Orders, status \in {"filled", "dead"} : Settle(o, status)
  BY <1>3 DEF Settle, polling, IntakeTypes
<1>4. CASE Post
  <2>1. /\ poller' = poller
        /\ poller.at = "tell" => poller.order \in pending /\ poller.order \in Orders
    BY <1>4 DEF Post, polling, PollerTypes
  <2>2. handler.order \in Orders
    BY <1>4 DEF Post, IntakeTypes
  <2>3. CASE ~AtVenue(handler.order)
    <3>1. poller.at = "tell" => poller.order # handler.order
      BY <2>1, <2>3 DEF Known
    <3>2. venue' = venue \/ venue' = [venue EXCEPT ![handler.order] = "open"]
      BY <1>4 DEF Post
    <3>3. poller.at = "tell" => venue'[poller.order] = venue[poller.order]
      BY <2>1, <2>2, <3>1, <3>2 DEF IntakeTypes
    <3> QED BY <2>1, <3>3
  <2>4. CASE AtVenue(handler.order)
    <3>1. venue' = venue
      BY <1>4, <2>4 DEF Post
    <3> QED BY <2>1, <3>1
  <2> QED BY <2>3, <2>4
<1>5. CASE Poll \/ Tell \/ PollerEnds \/ Restart
  <2>1. Onward(asked') = Resting \/ Onward(asked') = [Resting EXCEPT !.at = "ask"]
    BY DEF Onward
  <2>2. Onward(asked').at # "tell"
    BY <2>1 DEF Resting
  <2>3. Poll \/ PollerEnds \/ Restart => poller'.at # "tell"
    BY DEF Poll, PollerEnds, Restart, Resting, PollerTypes
  <2>4. Tell => poller'.at # "tell"
    BY <2>2 DEF Tell
  <2> QED BY <1>5, <2>3, <2>4
<1>6. CASE \E o \in asked : Ask(o)
  BY <1>6 DEF Ask, Onward, Resting, Open
<1>7. ASSUME \/ Submit \/ Consume \/ (\E o \in group.todo : Accept(o) \/ Refuse(o))
             \/ Watch \/ WatchOn \/ HandOver \/ PublishResult \/ Raise
             \/ Return \/ ReturnLate \/ LoopError \/ UNCHANGED vars
      PROVE  poller' = poller /\ venue' = venue
  BY <1>7 DEF Submit, Consume, Accept, Refuse, Watch, WatchOn, HandOver, PublishResult, Raise,
         Return, ReturnLate, LoopError, vars, polling
<1> QED BY <1>2, <1>3, <1>4, <1>5, <1>6, <1>7 DEF Next, Intake, Polling

-----------------------------------------------------------------------------
(* The orders *)

\* What the proof needs of an order: at Alpaca if anyone knows it, kept by no one
\* who lost it, accounted for.
OrdersKept == Known /\ Apart /\ OrdersAccounted

\* Publishing the fill of o.
LEMMA PublishedFacts ==
    ASSUME PollerTypes, NEW o \in Orders, published' = Append(published, o),
           Fills(o) = {}
    PROVE  /\ \A p \in Orders : p # o => Fills(p)' = Fills(p)
           /\ \A m, n \in Fills(o)' : m = n
           /\ Fills(o)' # {}
<1>1. published \in Seq(Orders)
  BY DEF PollerTypes
<1>2. /\ DOMAIN published' = 1 .. Len(published) + 1
      /\ \A n \in 1 .. Len(published) : published'[n] = published[n]
      /\ published'[Len(published) + 1] = o
  BY <1>1
<1>3. \A n \in 1 .. Len(published) : published[n] # o
  BY <1>1 DEF Fills
<1>4. ASSUME NEW p \in Orders, p # o PROVE Fills(p)' = Fills(p)
  BY <1>1, <1>2, <1>4 DEF Fills
<1>5. Fills(o)' = {Len(published) + 1}
  BY <1>1, <1>2, <1>3 DEF Fills
<1> QED BY <1>4, <1>5

\* Nothing brings an ended poller back but a restart.
LEMMA PollerStays ==
    ASSUME [Next]_vars, poller.at = "dead"
    PROVE  poller'.at = "dead" \/ pending' = {}
<1>1. ASSUME Submit \/ (\E o \in Orders, status \in {"filled", "dead"} : Settle(o, status))
      PROVE  poller' = poller
  BY <1>1 DEF Submit, Settle, polling
<1>2. ASSUME Intake PROVE poller' = poller
  BY <1>2 DEF Intake, Consume, Accept, Refuse, Post, Watch, WatchOn, HandOver, PublishResult,
         Raise, Return, ReturnLate, LoopError, polling
<1>3. ~Polling
  BY DEF Polling, Poll, Tell, Ask
<1>4. ~PollerEnds
  BY DEF PollerEnds
<1>5. Restart => pending' = {}
  BY DEF Restart
<1>6. UNCHANGED vars => poller' = poller
  BY DEF vars, polling
<1> QED BY <1>1, <1>2, <1>3, <1>4, <1>5, <1>6 DEF Next

LEMMA OrdersKeptStep ==
    ASSUME IInv, [Next]_vars
    PROVE  OrdersKept'
<1>1. /\ IntakeTypes /\ PollerTypes /\ HandlerFacts /\ PollerFacts /\ Known /\ Apart
      /\ OrdersAccounted /\ group.todo \subseteq Orders
  BY MessagesAreOrders DEF IInv, TypeOK
<1>2. Tracked \subseteq Orders /\ pending \subseteq Orders /\ lost \subseteq Orders
  BY <1>1 DEF Tracked, IntakeTypes, PollerTypes
<1>3. published' = published => \A o \in Orders : Fills(o)' = Fills(o)
  BY DEF Fills
<1>20. poller.at = "dead" => poller'.at = "dead" \/ pending' = {}
  BY PollerStays
<1>4. CASE UNCHANGED <<venue, pending, Tracked, lost, published>>
  BY <1>1, <1>3, <1>20, <1>4 DEF OrdersKept, Known, Apart, OrdersAccounted, AtVenue
<1>5. ASSUME NEW o \in Orders, NEW status \in {"filled", "dead"}, Settle(o, status)
      PROVE  OrdersKept'
  <2>1. /\ UNCHANGED <<pending, lost, published>> /\ Tracked' = Tracked
        /\ venue[o] = "open" /\ venue' = [venue EXCEPT ![o] = status]
    BY <1>5 DEF Settle, Open, service, Tracked
  <2>2. \A p \in Orders : /\ venue[p] # "none" => venue'[p] # "none"
                          /\ venue[p] = "filled" => venue'[p] = "filled"
                          /\ venue'[p] \in {"open", "filled"} => venue[p] \in {"open", "filled"}
    BY <1>1, <2>1 DEF IntakeTypes
  <2> QED BY <1>1, <1>2, <1>3, <1>20, <2>1, <2>2 DEF OrdersKept, Known, Apart, OrdersAccounted, AtVenue
<1>6. CASE Post
  <2> DEFINE o == handler.order
  <2>1. handler.at = "post" /\ o \in Orders /\ ~handler.fill /\ Tracked = {}
    BY <1>1, <1>6 DEF Post, IntakeTypes, Tracked
  <2>2. UNCHANGED <<pending, published>>
    BY <1>6 DEF Post
  <2>3. CASE UNCHANGED <<venue, lost>> /\ Publishes(FALSE)
    <3>1. Tracked' = {}
      BY <1>1, <2>1, <2>3 DEF Publishes, Tracked, IntakeTypes
    <3> QED BY <1>4, <2>1, <2>2, <2>3, <3>1
  <2>4. CASE /\ ~AtVenue(o) /\ venue' = [venue EXCEPT ![o] = "open"]
             /\ \/ Tracked' = {o} /\ lost' = lost
                \/ Tracked' = {} /\ lost' = lost \cup {o}
    <3>1. o \notin pending /\ o \notin lost /\ Fills(o) = {}
      BY <1>1, <2>1, <2>4 DEF Known, OrdersAccounted, AtVenue
    <3>2. /\ venue'[o] = "open"
          /\ \A p \in Orders : p # o => venue'[p] = venue[p]
      BY <1>1, <2>1, <2>4 DEF IntakeTypes
    <3>3. Known' /\ Apart'
      BY <1>1, <1>2, <2>1, <2>2, <2>4, <3>1, <3>2 DEF Known, Apart, AtVenue
    <3>4. OrdersAccounted'
      BY <1>1, <1>3, <1>20, <2>1, <2>2, <2>4, <3>1, <3>2 DEF OrdersAccounted
    <3> QED BY <3>3, <3>4 DEF OrdersKept
  <2>5. \/ UNCHANGED <<venue, lost>> /\ Publishes(FALSE)
        \/ /\ ~AtVenue(o) /\ venue' = [venue EXCEPT ![o] = "open"]
           /\ \/ handler' = [handler EXCEPT !.at = "watch"] /\ lost' = lost
              \/ Publishes(FALSE) /\ lost' = lost \cup {o}
    BY <1>6 DEF Post
  <2>6. handler' = [handler EXCEPT !.at = "watch"] => Tracked' = {o}
    BY <1>1 DEF Tracked, IntakeTypes
  <2>7. Publishes(FALSE) => Tracked' = {}
    BY <1>1 DEF Tracked, IntakeTypes, Publishes
  <2> QED BY <2>3, <2>4, <2>5, <2>6, <2>7
<1>7. CASE Watch \/ HandOver
  <2> DEFINE o == handler.order
  <2>1. handler.at = "watch" /\ o \in Orders /\ Tracked = {o}
    BY <1>1, <1>7 DEF Watch, HandOver, IntakeTypes, Tracked
  <2>2. UNCHANGED <<venue, published, lost>>
    BY <1>7 DEF Watch, HandOver
  <2>3. \/ pending' = pending \cup {o} /\ Tracked' = {}
        \/ pending' = pending /\ Tracked' = {o}
        \/ pending' = pending /\ Tracked' = {} /\ venue[o] \notin {"open", "filled"}
    <3>1. CASE Watch
      <4>1. pending' = pending /\ venue[o] # "open"
        BY <3>1 DEF Watch, Open
      <4>2. handler' = [handler EXCEPT !.at = "publish", !.fill = (venue[o] = "filled")]
        BY <3>1 DEF Watch, Publishes
      <4>3. /\ handler'.at = "publish" /\ handler'.order = o
            /\ handler'.fill = (venue[o] = "filled")
        BY <1>1, <4>2 DEF IntakeTypes
      <4>4. Tracked' = IF venue[o] = "filled" THEN {o} ELSE {}
        BY <4>3 DEF Tracked
      <4> QED BY <4>1, <4>4
    <3>2. CASE HandOver
      <4>1. /\ pending' = pending \cup {o}
            /\ handler' = [handler EXCEPT !.at = "publish", !.fill = FALSE]
        BY <3>2 DEF HandOver, Publishes
      <4>2. handler'.at = "publish" /\ handler'.fill = FALSE
        BY <1>1, <4>1 DEF IntakeTypes
      <4> QED BY <4>1, <4>2 DEF Tracked
    <3> QED BY <1>7, <3>1, <3>2
  <2> QED BY <1>1, <1>3, <1>20, <2>1, <2>2, <2>3
          DEF OrdersKept, Known, Apart, OrdersAccounted, AtVenue
<1>8. CASE PublishResult /\ handler.fill
  <2>0. PICK o \in Orders : o = handler.order
    BY <1>1, <1>8 DEF PublishResult, IntakeTypes
  <2>1. Tracked = {o} /\ venue[o] = "filled"
    BY <1>1, <1>8, <2>0 DEF Tracked, HandlerFacts
  <2>2. published' = Append(published, o) /\ UNCHANGED <<venue, pending, lost>>
    BY <1>8, <2>0 DEF PublishResult
  <2>3. Tracked' = {}
    BY <1>1, <1>8 DEF PublishResult, Tracked, IntakeTypes
  <2>4. Fills(o) = {} /\ o \notin pending \cup lost
    BY <1>1, <2>1 DEF OrdersAccounted, Apart
  <2>5. /\ \A p \in Orders : p # o => Fills(p)' = Fills(p)
        /\ \A m, n \in Fills(o)' : m = n
        /\ Fills(o)' # {}
    BY <1>1, <2>1, <2>2, <2>4, PublishedFacts
  <2> QED BY <1>1, <1>20, <2>1, <2>2, <2>3, <2>4, <2>5
          DEF OrdersKept, Known, Apart, OrdersAccounted, AtVenue
<1>9. CASE PublishResult /\ ~handler.fill
  <2>1. Tracked' = Tracked
    BY <1>1, <1>9 DEF PublishResult, Tracked, IntakeTypes
  <2> QED BY <1>4, <1>9, <2>1 DEF PublishResult
<1>10. CASE Raise
  <2>1. Tracked' = {} /\ UNCHANGED <<venue, pending>>
    BY <1>10 DEF Raise, Tracked, Listening
  <2>2. CASE lost' = lost \cup Tracked /\ published' = published
    BY <1>1, <1>2, <1>3, <1>20, <2>1, <2>2
       DEF OrdersKept, Known, Apart, OrdersAccounted, AtVenue
  <2>3. CASE handler.fill /\ published' = Append(published, handler.order) /\ lost' = lost
    <3>1. PICK o \in Orders : o = handler.order
      BY <1>1, <1>10 DEF Raise, IntakeTypes
    <3>2. Tracked = {o} /\ venue[o] = "filled"
      BY <1>1, <2>3, <3>1 DEF Tracked, HandlerFacts
    <3>3. Fills(o) = {} /\ o \notin pending \cup lost
      BY <1>1, <3>2 DEF OrdersAccounted, Apart
    <3>4. /\ \A p \in Orders : p # o => Fills(p)' = Fills(p)
          /\ \A m, n \in Fills(o)' : m = n
          /\ Fills(o)' # {}
      BY <1>1, <2>3, <3>1, <3>3, PublishedFacts
    <3> QED BY <1>1, <1>20, <2>1, <2>3, <3>2, <3>3, <3>4
            DEF OrdersKept, Known, Apart, OrdersAccounted, AtVenue
  <2> QED BY <1>10, <2>2, <2>3 DEF Raise
<1>15. CASE PollerEnds
  <2>1. poller'.at = "dead" /\ UNCHANGED <<venue, pending, lost>> /\ Tracked' = Tracked
    BY <1>15 DEF PollerEnds, service, Tracked, Resting
  <2>2. CASE published' = published
    BY <1>4, <2>1, <2>2
  <2>3. CASE published' = Append(published, poller.order) /\ poller.at = "tell"
             /\ venue[poller.order] = "filled"
    <3>1. PICK o \in Orders : o = poller.order
      BY <1>1, <2>3 DEF PollerTypes
    <3>2. o \in pending /\ venue[o] = "filled"
      BY <1>1, <2>3, <3>1 DEF PollerTypes
    <3>3. Fills(o) = {} /\ o \notin Tracked \cup lost
      BY <1>1, <2>3, <3>2 DEF OrdersAccounted, Apart
    <3>4. /\ \A p \in Orders : p # o => Fills(p)' = Fills(p)
          /\ \A m, n \in Fills(o)' : m = n
          /\ Fills(o)' # {}
      BY <1>1, <2>3, <3>1, <3>3, PublishedFacts
    <3> QED BY <1>1, <2>1, <3>2, <3>3, <3>4
            DEF OrdersKept, Known, Apart, OrdersAccounted, AtVenue
  <2> QED BY <1>15, <2>2, <2>3 DEF PollerEnds
<1>11. CASE Tell
  <2>0. PICK o \in Orders : o = poller.order
    BY <1>1, <1>11 DEF Tell, PollerTypes
  <2>1. o \in pending /\ venue[o] \in {"filled", "dead"}
    BY <1>1, <1>11, <2>0 DEF Tell, PollerTypes, PollerFacts, Known, AtVenue, Open, IntakeTypes
  <2>2. /\ pending' = pending \ {o} /\ UNCHANGED <<venue, lost>> /\ Tracked' = Tracked
    BY <1>11, <2>0 DEF Tell, service, Tracked
  <2>3. Fills(o) = {} /\ o \notin Tracked \cup lost
    BY <1>1, <1>11, <2>1 DEF OrdersAccounted, Apart, Tell
  <2>4. CASE venue[o] = "filled"
    <3>1. published' = Append(published, o)
      BY <1>11, <2>0, <2>4 DEF Tell
    <3>2. /\ \A p \in Orders : p # o => Fills(p)' = Fills(p)
          /\ \A m, n \in Fills(o)' : m = n
          /\ Fills(o)' # {}
      BY <1>1, <2>1, <2>3, <3>1, PublishedFacts
    <3> QED BY <1>1, <1>2, <1>20, <2>1, <2>2, <2>3, <2>4, <3>2
            DEF OrdersKept, Known, Apart, OrdersAccounted, AtVenue
  <2>5. CASE venue[o] = "dead"
    <3>1. published' = published
      BY <1>11, <2>0, <2>5 DEF Tell
    <3> QED BY <1>1, <1>2, <1>3, <1>20, <2>1, <2>2, <2>3, <2>5, <3>1
            DEF OrdersKept, Known, Apart, OrdersAccounted, AtVenue
  <2> QED BY <2>1, <2>4, <2>5
<1>12. CASE Restart
  <2>1. /\ lost' = lost \cup Tracked \cup {o \in pending : Fills(o) = {}}
        /\ pending' = {} /\ Tracked' = {} /\ UNCHANGED <<venue, published>>
    BY <1>12 DEF Restart, Tracked, Listening
  <2> QED BY <1>1, <1>2, <1>3, <2>1
          DEF OrdersKept, Known, Apart, OrdersAccounted, AtVenue
<1>13. ASSUME \/ Submit \/ Consume \/ (\E o \in group.todo : Accept(o) \/ Refuse(o))
              \/ WatchOn \/ Return \/ ReturnLate \/ LoopError
       PROVE  UNCHANGED <<venue, pending, Tracked, lost, published>>
  <2>1. UNCHANGED <<venue, pending, lost, published>>
    BY <1>13 DEF Submit, Consume, Accept, Refuse, WatchOn, Return, ReturnLate, LoopError, service
  <2>2. (Submit \/ Consume \/ \E o \in group.todo : Refuse(o)) => handler' = handler
    BY DEF Submit, Consume, Refuse, service
  <2>3. (\E o \in group.todo : Accept(o)) \/ Return \/ ReturnLate \/ LoopError => Tracked = {} /\ Tracked' = {}
    <3>1. ASSUME NEW o \in group.todo, Accept(o) PROVE Tracked = {} /\ Tracked' = {}
      <4>1. ~handler.fill /\ handler.at = "listen"
        BY <1>1, <3>1 DEF Accept, IntakeTypes
      <4>2. handler'.at = "post" /\ handler'.fill = handler.fill
        BY <1>1, <3>1 DEF Accept, IntakeTypes
      <4> QED BY <4>1, <4>2 DEF Tracked
    <3>2. Return \/ ReturnLate \/ LoopError => Tracked = {} /\ Tracked' = {}
      BY <1>1 DEF Return, ReturnLate, LoopError, Tracked, Listening, IntakeTypes
    <3> QED BY <3>1, <3>2
  <2>4. WatchOn => Tracked' = Tracked
    BY <1>1 DEF WatchOn, Tracked, IntakeTypes
  <2>5. handler' = handler => Tracked' = Tracked
    BY DEF Tracked
  <2> QED BY <1>13, <2>1, <2>2, <2>3, <2>4, <2>5
<1>14. ASSUME Poll \/ (\E o \in asked : Ask(o)) \/ UNCHANGED vars
       PROVE  UNCHANGED <<venue, pending, Tracked, lost, published>>
  BY <1>14 DEF Poll, Ask, vars, service, Tracked
<1> QED BY <1>4, <1>5, <1>6, <1>7, <1>8, <1>9, <1>10, <1>11, <1>12, <1>13, <1>14, <1>15
        DEF Next, Intake, Polling

-----------------------------------------------------------------------------

LEMMA InitIInv == Init => IInv
<1> SUFFICES ASSUME Init PROVE IInv
  OBVIOUS
<1>1. WellFormed(group, intents) /\ group \in GroupType(0)
  BY EmptyWellFormed DEF Init, WellFormed
<1>2. TypeOK
  BY <1>1, AlpacaRouterAssumption
     DEF Init, TypeOK, IntakeTypes, PollerTypes, Listening, Resting, Orders, NoOrder
<1>3. HandlerFacts /\ PollerFacts /\ Known /\ Apart
  BY DEF Init, HandlerFacts, PollerFacts, Known, Apart, Tracked, Listening, Resting
<1>4. OrdersAccounted
  BY DEF Init, OrdersAccounted, Fills, Tracked, Listening, Orders
<1> QED BY <1>1, <1>2, <1>3, <1>4 DEF IInv

LEMMA StepIInv == IInv /\ [Next]_vars => IInv'
<1> SUFFICES ASSUME IInv, [Next]_vars PROVE IInv'
  OBVIOUS
<1>1. TypeOK' /\ WellFormed(group, intents)'
  BY GroupStep, IntakeTypesStep, PollerTypesStep DEF TypeOK
<1>2. HandlerFacts' /\ PollerFacts'
  BY HandlerFactsStep, PollerFactsStep
<1>3. Known' /\ Apart' /\ OrdersAccounted'
  BY OrdersKeptStep DEF OrdersKept
<1> QED BY <1>1, <1>2, <1>3 DEF IInv

LEMMA Invariance == Spec => []IInv
  BY InitIInv, StepIInv, PTL DEF Spec

\* Every variable keeps its type: the poller asks only about pending orders, the
\* handler publishes a fill only at the end of its work on an order.
THEOREM TypeCorrect == Spec => []TypeOK
<1>1. IInv => TypeOK
  BY DEF IInv
<1> QED BY <1>1, Invariance, PTL

\* No order is unaccounted for and no fill published twice: whatever is redelivered,
\* refused or late, an order at Alpaca is watched, pending, filled once, or lost by
\* one of the failures the model names.
THEOREM NoOrderUnaccounted == Spec => []OrdersAccounted
<1>1. IInv => OrdersAccounted
  BY DEF IInv
<1> QED BY <1>1, Invariance, PTL
=============================================================================
