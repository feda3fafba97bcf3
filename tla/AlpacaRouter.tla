---------------------------- MODULE AlpacaRouter ----------------------------
(***************************************************************************)
(* The OMS with the Alpaca router: the intent consumer, which submits an   *)
(* order, watches it for up to five seconds and hands it over if it is     *)
(* still open, and the background task that polls the orders handed over.  *)
(*                                                                         *)
(* An order is named by the position of its intent in ord.orders, as       *)
(* Alpaca knows it by the order_id of the intent (client_order_id, which   *)
(* Alpaca accepts once).  Abstracted: the risk gate (OrderFlow), the state *)
(* of an order in ord.orders, its side, quantity and price.                *)
(***************************************************************************)
EXTENDS Integers, Sequences, FiniteSets, ConsumerGroup

CONSTANTS
    Batch,
    MaxIntents,   \* bound: intents published
    MaxRestarts,  \* bound: restarts of the OMS
    MaxFailures   \* bound: calls to Alpaca or Redis that fail

ASSUME AlpacaRouterAssumption ==
    /\ Batch \in Nat \ {0}
    /\ MaxIntents \in Nat /\ MaxRestarts \in Nat /\ MaxFailures \in Nat

VARIABLES
    intents,    \* length of ord.orders
    venue,      \* how each order stands at Alpaca
    group,      \* the consumer group of the intent consumer
    handler,    \* where the handler is, whether it is late, and what it will publish
    pending,    \* orders handed over to the poller
    poller,     \* where the poller is, with which order
    asked,      \* the orders it still has to ask about this time round
    published,  \* ord.fills: the orders of the fills
    lost,       \* history: orders whose tracking was given up by a failure
    restarts, failures

service == <<group, handler>>
polling == <<poller, asked>>
bounds  == <<restarts, failures>>
vars == <<intents, venue, service, pending, polling, published, lost, bounds>>

Orders == 1 .. MaxIntents
NoOrder == 0
AtVenue(o) == venue[o] # "none"
Open(o) == venue[o] = "open"

Listening == [at |-> "listen", order |-> NoOrder, late |-> FALSE, fill |-> FALSE]
Resting   == [at |-> "rest", order |-> NoOrder]

Init ==
    /\ intents = 0
    /\ venue = [o \in Orders |-> "none"]
    /\ group = EmptyGroup
    /\ handler = Listening
    /\ pending = {} /\ poller = Resting /\ asked = {}
    /\ published = <<>> /\ lost = {}
    /\ restarts = 0 /\ failures = 0

Failure == failures < MaxFailures /\ failures' = failures + 1

Submit ==
    /\ intents < MaxIntents
    /\ intents' = intents + 1
    /\ UNCHANGED <<venue, service, pending, polling, published, lost, bounds>>

\* Alpaca fills an open order, or cancels, rejects or expires it.
Settle(o, status) ==
    /\ Open(o)
    /\ venue' = [venue EXCEPT ![o] = status]
    /\ UNCHANGED <<intents, service, pending, polling, published, lost, bounds>>

\* The fills of an order.
Fills(o) == {n \in DOMAIN published : published[n] = o}

\* The order the handler tracks: taken by Alpaca, its outcome not yet published.
Tracked == IF handler.at = "watch" \/ handler.fill THEN {handler.order} ELSE {}

-----------------------------------------------------------------------------
(* The intent consumer *)

Consume ==
    /\ handler.at = "listen"
    /\ group' \in Consumed(group, intents, Batch)
    /\ UNCHANGED <<intents, venue, handler, pending, polling, published, lost, bounds>>

\* The handler takes an intent to the risk gate, which lets it pass ...
Accept(o) ==
    /\ handler.at = "listen" /\ InHand(group, o)
    /\ handler' = [handler EXCEPT !.at = "post", !.order = o]
    /\ UNCHANGED <<intents, venue, group, pending, polling, published, lost, bounds>>

\* ... or not: the handler publishes a rejection.
Refuse(o) ==
    /\ handler.at = "listen" /\ InHand(group, o)
    /\ group' = Handled(group, o)
    /\ UNCHANGED <<intents, venue, handler, pending, polling, published, lost, bounds>>

Publishes(fill) == handler' = [handler EXCEPT !.at = "publish", !.fill = fill]

\* submit_order.  Alpaca takes an order it does not know, or refuses it; a call that
\* fails, with the order taken or not, counts as refused.
Post ==
    LET o == handler.order
    IN  /\ handler.at = "post"
        /\ \/ /\ ~AtVenue(o)
              /\ venue' = [venue EXCEPT ![o] = "open"]
              /\ \/ /\ handler' = [handler EXCEPT !.at = "watch"]
                    /\ UNCHANGED <<lost, failures>>
                 \/ Failure /\ lost' = lost \cup {o} /\ Publishes(FALSE)
           \/ Publishes(FALSE) /\ UNCHANGED <<venue, lost, failures>>
        /\ UNCHANGED <<intents, group, pending, polling, published, restarts>>

\* The response of the POST, or of a poll, shows the order filled or ended ...
Watch ==
    /\ handler.at = "watch" /\ ~Open(handler.order)
    /\ Publishes(venue[handler.order] = "filled")
    /\ UNCHANGED <<intents, venue, group, pending, polling, published, lost, bounds>>

\* ... or still open.  The second look comes a second after the POST: too late.
WatchOn ==
    /\ handler.at = "watch" /\ ~handler.late
    /\ handler' = [handler EXCEPT !.late = TRUE]
    /\ UNCHANGED <<intents, venue, group, pending, polling, published, lost, bounds>>

\* The time to watch is up: the order is the poller's.
HandOver ==
    /\ handler.at = "watch" /\ handler.late
    /\ pending' = pending \cup {handler.order}
    /\ Publishes(FALSE)
    /\ UNCHANGED <<intents, venue, group, polling, published, lost, bounds>>

\* The order states are published, and then the fill.
PublishResult ==
    /\ handler.at = "publish"
    /\ published' = IF handler.fill THEN Append(published, handler.order) ELSE published
    /\ handler' = [handler EXCEPT !.at = "return", !.fill = FALSE]
    /\ UNCHANGED <<intents, venue, group, pending, polling, lost, bounds>>

\* A network error while watching or a Redis error while publishing, before the fill
\* is out or after: the handler raises and the intent stays pending or is given up on.
Raise ==
    /\ handler.at \in {"watch", "publish"}
    /\ Failure
    /\ \/ /\ handler.fill
          /\ published' = Append(published, handler.order) /\ UNCHANGED lost
       \/ lost' = lost \cup Tracked /\ UNCHANGED published
    /\ group' \in Raised(group, handler.order)
    /\ handler' = Listening
    /\ UNCHANGED <<intents, venue, pending, polling, restarts>>

\* The handler returns in time, ...
Return ==
    /\ handler.at = "return" /\ ~handler.late
    /\ group' = Handled(group, handler.order)
    /\ handler' = Listening
    /\ UNCHANGED <<intents, venue, pending, polling, published, lost, bounds>>

\* ... or after more than a second, which ends the consumer.
ReturnLate ==
    /\ handler.at = "return"
    /\ group' = Abandoned(group)
    /\ handler' = [Listening EXCEPT !.at = "dead"]
    /\ UNCHANGED <<intents, venue, pending, polling, published, lost, bounds>>

\* A Redis call of the consume loop itself fails, which ends the consumer too.
LoopError ==
    /\ handler.at = "listen" /\ (group.todo = {} \/ group.done = {})
    /\ Failure
    /\ group' = Abandoned(group)
    /\ handler' = [Listening EXCEPT !.at = "dead"]
    /\ UNCHANGED <<intents, venue, pending, polling, published, lost, restarts>>

-----------------------------------------------------------------------------
(* poll_pending_orders *)

\* Every five seconds: the orders handed over so far.
Poll ==
    /\ poller.at = "rest" /\ pending # {}
    /\ asked' = pending
    /\ poller' = [poller EXCEPT !.at = "ask"]
    /\ UNCHANGED <<intents, venue, service, pending, published, lost, bounds>>

Onward(rest) == IF rest = {} THEN Resting ELSE [Resting EXCEPT !.at = "ask"]

\* Faulty variant for mutation runs: an ended order is taken for an open one.
AskAndPass(o) ==
    /\ poller.at = "ask" /\ o \in asked
    /\ asked' = asked \ {o}
    /\ poller' = Onward(asked')
    /\ UNCHANGED <<intents, venue, service, pending, published, lost, bounds>>

\* An open order, or a failed request, is passed over; an ended one is told.
Ask(o) ==
    /\ poller.at = "ask" /\ o \in asked
    /\ \/ /\ \/ Open(o) /\ UNCHANGED failures
             \/ Failure
          /\ asked' = asked \ {o}
          /\ poller' = Onward(asked')
       \/ /\ ~Open(o)
          /\ poller' = [at |-> "tell", order |-> o]
          /\ UNCHANGED <<asked, failures>>
    /\ UNCHANGED <<intents, venue, service, pending, published, lost, restarts>>

\* Faulty variant for mutation runs: an order told stays pending.
TellAndKeep ==
    LET o == poller.order
    IN  /\ poller.at = "tell"
        /\ published' = IF venue[o] = "filled" THEN Append(published, o) ELSE published
        /\ asked' = asked \ {o}
        /\ poller' = Onward(asked')
        /\ UNCHANGED <<intents, venue, service, pending, lost, bounds>>

\* on_filled or on_terminal, and the order is not pending any more.
Tell ==
    LET o == poller.order
    IN  /\ poller.at = "tell"
        /\ published' = IF venue[o] = "filled" THEN Append(published, o) ELSE published
        /\ pending' = pending \ {o}
        /\ asked' = asked \ {o}
        /\ poller' = Onward(asked')
        /\ UNCHANGED <<intents, venue, service, lost, bounds>>

\* A network error, or on_filled that raises, ends the poller.  The fill may be out by
\* then, with its order still pending.
PollerEnds ==
    /\ \/ poller.at = "ask" /\ UNCHANGED published
       \/ /\ poller.at = "tell" /\ venue[poller.order] = "filled"
          /\ published' \in {published, Append(published, poller.order)}
    /\ Failure
    /\ poller' = [Resting EXCEPT !.at = "dead"]
    /\ asked' = {}
    /\ UNCHANGED <<intents, venue, service, pending, lost, restarts>>

-----------------------------------------------------------------------------

\* The OMS stops and starts again: what it tracks it forgets.
Restart ==
    /\ restarts < MaxRestarts
    /\ restarts' = restarts + 1
    /\ lost' = lost \cup Tracked \cup {o \in pending : Fills(o) = {}}
    /\ group' = Abandoned(group)
    /\ handler' = Listening
    /\ pending' = {} /\ poller' = Resting /\ asked' = {}
    /\ UNCHANGED <<intents, venue, published, failures>>

Intake ==
    \/ Consume
    \/ \E o \in group.todo : Accept(o) \/ Refuse(o)
    \/ Post \/ Watch \/ WatchOn \/ HandOver \/ PublishResult \/ Raise
    \/ Return \/ ReturnLate \/ LoopError

Polling == Poll \/ Tell \/ \E o \in asked : Ask(o)

Next ==
    \/ Submit
    \/ \E o \in Orders, status \in {"filled", "dead"} : Settle(o, status)
    \/ Intake \/ Polling \/ PollerEnds
    \/ Restart

Spec == Init /\ [][Next]_vars

\* The poller comes round every five seconds while its task lives.
FairSpec == Spec /\ WF_vars(Polling)

-----------------------------------------------------------------------------
(* Properties *)

\* Type invariant.
IntakeTypes ==
    /\ intents \in 0 .. MaxIntents
    /\ venue \in [Orders -> {"none", "open", "filled", "dead"}]
    /\ group \in GroupType(intents)
    /\ handler \in [at : {"listen", "post", "watch", "publish", "return", "dead"},
                    order : Orders \cup {NoOrder}, late : BOOLEAN, fill : BOOLEAN]
    /\ handler.at \in {"post", "watch", "publish", "return"} => handler.order \in Orders
    /\ handler.fill => handler.at = "publish"

PollerTypes ==
    /\ pending \subseteq Orders /\ asked \subseteq pending
    /\ poller \in [at : {"rest", "ask", "tell", "dead"}, order : Orders \cup {NoOrder}]
    /\ poller.at = "tell" => poller.order \in asked
    /\ published \in Seq(Orders) /\ lost \subseteq Orders
    /\ restarts \in 0 .. MaxRestarts /\ failures \in 0 .. MaxFailures

TypeOK == IntakeTypes /\ PollerTypes

\* runtime.py: an order Alpaca has taken and not ended without a fill is watched,
\* pending or filled, never two of these and its fill never published twice, through
\* redelivered intents, late answers and restarts; or a failure or a restart lost it.
\* Only the order whose fill ended the poller is still pending with its fill out, and
\* nobody is left to tell it again.
OrdersAccounted ==
    \A o \in Orders :
        /\ \A m, n \in Fills(o) : m = n
        /\ ~(o \in Tracked /\ o \in pending)
        /\ Fills(o) # {} => /\ venue[o] = "filled" /\ o \notin Tracked \cup lost
                            /\ o \in pending => poller.at = "dead"
        /\ venue[o] \in {"open", "filled"} =>
               Fills(o) # {} \/ o \in pending \cup Tracked \cup lost

\* poll_pending_orders: the fill of an order handed over is published in the end,
\* unless the poller has ended or the OMS was restarted.
FillsArrive ==
    \A o \in Orders :
        (o \in pending /\ venue[o] = "filled") ~> (Fills(o) # {} \/ poller.at = "dead" \/ o \in lost)
=============================================================================
