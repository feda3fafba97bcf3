------------------------------ MODULE OrderFlow ------------------------------
(***************************************************************************)
(* From an order intent to a position, in paper trading: the OMS with its  *)
(* sim router takes intents off ord.orders, checks each against the risk   *)
(* limits on a snapshot of the position store, and publishes order states  *)
(* and a fill (oms/main.py, oms/processor.py, risk/); the portfolio        *)
(* service takes fills off ord.fills, finds out whose they are in the      *)
(* audit log, and writes the position store (portfolio/).                  *)
(*                                                                         *)
(* Every await of the two handlers is a step.  An intent is an index of    *)
(* orders, a fill an index of fills.  Left out: fees, spread, cost and     *)
(* PnL of a position, the order states the OMS finds on its own stream     *)
(* (its handler returns at once), their audit rows (nothing here reads     *)
(* them), and the way the kill switch reaches its flag (KillSwitch).       *)
(***************************************************************************)
EXTENDS Integers, Sequences, FiniteSets, FiniteSetsExt, ConsumerGroup

CONSTANTS
    Strategies,     \* 1 .. n: strategy ids in the order sorted() gives
    Symbols,
    Intents,        \* the order intents that may be submitted
    Prices,         \* trade prices, positive
    SymbolCap,      \* MAX_NOTIONAL_USD_PER_SYMBOL
    GrossCap,       \* MAX_GROSS_NOTIONAL_USD
    Batch,          \* messages one XREADGROUP returns at most
    MaxIntents,     \* bound: intents submitted
    MaxTicks,       \* bound: price changes
    MaxTrips,       \* bound: times the kill switch is engaged
    MaxFailures     \* bound: crashes of either service, handlers that outlast their
                    \* timeout, and Redis and audit calls that raise

\* No price seen yet, or no limit price.
NoPrice == 0

ASSUME OrderFlowAssumption ==
    /\ Strategies \subseteq Nat /\ IsFiniteSet(Strategies) /\ IsFiniteSet(Symbols)
    /\ Intents \subseteq [strategy : Strategies, symbol : Symbols,
                         side : {"BUY", "SELL"}, qty : Nat, limit : Nat]
    /\ Prices \subseteq Nat \ {NoPrice}
    /\ SymbolCap \in Nat /\ GrossCap \in Nat /\ Batch \in Nat \ {0}
    /\ MaxIntents \in Nat /\ MaxTicks \in Nat /\ MaxTrips \in Nat
    /\ MaxFailures \in Nat

VARIABLES
    orders,     \* the intents on ord.orders, oldest first
    status,     \* the last state of each intent on ord.orders
    fills,      \* ord.fills: the intent of each fill
    audited,    \* intents with an oms.intent row in the audit log
    oms,        \* the OMS process: "up", "down", or "deaf" (intent task ended)
    inbox,      \* its consumer group on ord.orders
    opc,        \* where its handler is
    toRead,     \* strategies the snapshot still has to read
    seen,       \* notional of each strategy and symbol in the snapshot
    verdict,    \* what process_intent returned
    sent,       \* messages of the verdict already published
    price,      \* LivePrices
    engaged,    \* the kill switch
    portfolio,  \* the portfolio process: "up", "down" or "deaf"
    fillbox,    \* its consumer group on ord.fills
    ppc,        \* where its handler is
    memory,     \* PortfolioState, quantities
    store,      \* PositionStore, quantities
    index,      \* portfolio:strategies
    orphans,    \* history: fills dropped because no strategy was found
    lateFills,  \* history: fills published since the switch was engaged
    settledRead,\* history: the snapshot in hand began with every fill booked
                \* once and no price has changed since
    ticks, trips, failures

book     == <<memory, store, index, orphans>>
gate     == <<toRead, seen, verdict, sent, settledRead>>
omsVars  == <<oms, inbox, opc>>
portVars == <<portfolio, fillbox, ppc>>
bounds   == <<ticks, trips, failures>>
vars == <<orders, status, fills, audited, omsVars, gate, price, engaged,
          portVars, book, lateFills, bounds>>

Ids == 1 .. MaxIntents
Statuses == {"none", "PENDING_NEW", "NEW", "FILLED", "REJECTED"}
Terminal == {"FILLED", "REJECTED"}
NoSnapshot == [s \in Strategies |-> [y \in Symbols |-> 0]]

\* What a handler publishes for each verdict, in order.
Plan == [none   |-> <<>>,
         reject |-> <<"REJECTED">>,
         nomid  |-> <<"PENDING_NEW", "NEW", "REJECTED">>,
         fill   |-> <<"PENDING_NEW", "NEW", "FILLED", "Fill">>]

Init ==
    /\ orders = <<>> /\ fills = <<>> /\ audited = {}
    /\ status = [i \in Ids |-> "none"]
    /\ oms = "down" /\ inbox = EmptyGroup /\ opc = "rest"
    /\ toRead = {} /\ seen = NoSnapshot /\ verdict = "none" /\ sent = 0
    /\ price = [y \in Symbols |-> NoPrice] /\ engaged = FALSE
    /\ portfolio = "down" /\ fillbox = EmptyGroup /\ ppc = "rest"
    /\ memory = NoSnapshot /\ store = NoSnapshot /\ index = {} /\ orphans = {}
    /\ lateFills = 0 /\ settledRead = FALSE
    /\ ticks = 0 /\ trips = 0 /\ failures = 0

Magnitude(x) == IF x < 0 THEN -x ELSE x

\* Something fails: a process, a deadline, a Redis or an audit call.
Failure   == failures < MaxFailures /\ failures' = failures + 1
NoFailure == failures' = failures

-----------------------------------------------------------------------------
(* The world around the two services *)

\* A strategy, the orchestrator or the API appends an intent.
Submit(intent) ==
    /\ Len(orders) < MaxIntents
    /\ orders' = Append(orders, intent)
    /\ UNCHANGED <<status, fills, audited, omsVars, gate, price, engaged, portVars,
                   book, lateFills, bounds>>

\* A trade reaches the price task of the OMS.
PriceTick(y, p) ==
    /\ oms # "down" /\ ticks < MaxTicks /\ price[y] # p
    /\ price' = [price EXCEPT ![y] = p]
    /\ settledRead' = FALSE
    /\ ticks' = ticks + 1
    /\ UNCHANGED <<orders, status, fills, audited, omsVars, toRead, seen, verdict,
                   sent, engaged, portVars, book, lateFills, trips, failures>>

\* The switch is engaged or cleared.
Switch ==
    /\ engaged \/ trips < MaxTrips
    /\ engaged' = ~engaged
    /\ trips' = IF engaged THEN trips ELSE trips + 1
    /\ lateFills' = 0
    /\ UNCHANGED <<orders, status, fills, audited, omsVars, gate, price, portVars,
                   book, ticks, failures>>

-----------------------------------------------------------------------------
(* The OMS *)

OmsStart ==
    /\ oms = "down"
    /\ oms' = "up"
    /\ UNCHANGED <<orders, status, fills, audited, inbox, opc, gate, price, engaged,
                   portVars, book, lateFills, bounds>>

\* The handler's local state is gone; so are the prices, when the process dies.
OmsLeaves(inbox1) ==
    /\ inbox' = inbox1
    /\ opc' = "rest"
    /\ toRead' = {} /\ seen' = NoSnapshot /\ verdict' = "none" /\ sent' = 0
    /\ settledRead' = FALSE

OmsCrash ==
    /\ oms # "down"
    /\ Failure
    /\ oms' = "down"
    /\ OmsLeaves(Abandoned(inbox))
    /\ price' = [y \in Symbols |-> NoPrice]
    /\ UNCHANGED <<orders, status, fills, audited, engaged, portVars, book,
                   lateFills, ticks, trips>>

\* The consume loop between two handler calls: read, claim, or acknowledge.
OmsConsume ==
    /\ oms = "up" /\ opc = "rest"
    /\ inbox' \in Consumed(inbox, Len(orders), Batch)
    /\ UNCHANGED <<orders, status, fills, audited, oms, opc, gate, price, engaged,
                   portVars, book, lateFills, bounds>>

\* The handler starts with the oms.intent row; a failed append is logged.
AuditIntent(i) ==
    /\ oms = "up" /\ opc = "rest" /\ InHand(inbox, i)
    /\ opc' = "index"
    /\ \/ audited' = audited \cup {i} /\ NoFailure
       \/ Failure /\ UNCHANGED audited
    /\ UNCHANGED <<orders, status, fills, oms, inbox, gate, price, engaged, portVars,
                   book, lateFills, ticks, trips>>

\* Every fill is in the position store, each exactly once.
AllBooked ==
    /\ Settled(fillbox, Len(fills)) /\ fillbox.claimed = {} /\ fillbox.dead = {}
    /\ orphans = {}

\* build_context: the strategies that ever had a position ...
ReadIndex ==
    /\ oms = "up" /\ opc = "index"
    /\ opc' = "read"
    /\ toRead' = index
    /\ settledRead' = AllBooked
    /\ UNCHANGED <<orders, status, fills, audited, oms, inbox, seen, verdict, sent,
                   price, engaged, portVars, book, lateFills, bounds>>

\* Faulty variant for mutation runs: the last strategy of the index is skipped.
ReadAllButLast(s) ==
    /\ oms = "up" /\ opc = "read" /\ s \in toRead /\ \A t \in toRead : s <= t
    /\ toRead' = toRead \ {s}
    /\ seen' = [seen EXCEPT ![s] = [y \in Symbols |->
                   IF toRead = {s} THEN 0 ELSE Magnitude(store[s][y] * price[y])]]
    /\ UNCHANGED <<orders, status, fills, audited, omsVars, verdict, sent, settledRead,
                   price, engaged, portVars, book, lateFills, bounds>>

\* ... and one HGETALL for each; a symbol without a price counts nothing.
ReadPositions(s) ==
    /\ oms = "up" /\ opc = "read" /\ s \in toRead /\ \A t \in toRead : s <= t
    /\ toRead' = toRead \ {s}
    /\ seen' = [seen EXCEPT ![s] =
                   [y \in Symbols |-> Magnitude(store[s][y] * price[y])]]
    /\ UNCHANGED <<orders, status, fills, audited, omsVars, verdict, sent, settledRead,
                   price, engaged, portVars, book, lateFills, bounds>>

SumOver(f(_), S) == MapThenSumSet(f, S)
SymbolNotional(y) == SumOver(LAMBDA s : seen[s][y], Strategies)
GrossNotional == SumOver(SymbolNotional, Symbols)

\* The reference price of an intent, and its notional.
Reference(i) == IF orders[i].limit # NoPrice THEN orders[i].limit
                                             ELSE price[orders[i].symbol]
Notional(i) == orders[i].qty * Reference(i)

\* Faulty variant for mutation runs: the kill switch is not consulted.
ApprovedEngaged(i) ==
    /\ Reference(i) # NoPrice
    /\ SymbolNotional(orders[i].symbol) + Notional(i) <= SymbolCap
    /\ GrossNotional + Notional(i) <= GrossCap

\* check_intent.
Approved(i) ==
    /\ ~engaged
    /\ Reference(i) # NoPrice
    /\ SymbolNotional(orders[i].symbol) + Notional(i) <= SymbolCap
    /\ GrossNotional + Notional(i) <= GrossCap

\* The switch is read, the intent checked and, if it passes, processed by
\* process_intent, all between two awaits.
Decide(i) ==
    /\ oms = "up" /\ opc = "read" /\ toRead = {} /\ InHand(inbox, i)
    /\ opc' = "publish"
    /\ verdict' = IF ~Approved(i) THEN "reject"
                  ELSE IF price[orders[i].symbol] = NoPrice THEN "nomid" ELSE "fill"
    /\ UNCHANGED <<orders, status, fills, audited, oms, inbox, toRead, seen, sent,
                   settledRead, price, engaged, portVars, book, lateFills, bounds>>

\* _publish_result: the order states one after the other, then the fill.
PublishNext(i) ==
    /\ oms = "up" /\ opc = "publish" /\ InHand(inbox, i) /\ sent < Len(Plan[verdict])
    /\ sent' = sent + 1
    /\ IF Plan[verdict][sent + 1] = "Fill"
       THEN /\ fills' = Append(fills, i)
            /\ lateFills' = IF engaged THEN lateFills + 1 ELSE 0
            /\ UNCHANGED status
       ELSE /\ status' = [status EXCEPT ![i] = Plan[verdict][sent + 1]]
            /\ UNCHANGED <<fills, lateFills>>
    /\ UNCHANGED <<orders, audited, omsVars, toRead, seen, verdict, settledRead,
                   price, engaged, portVars, book, bounds>>

\* An XADD or a read of the store raises, before or after it took effect: the
\* handler is left, and the message stays pending, to be handled again from the
\* start, or is given up on.
OmsHandlerFails(i) ==
    /\ oms = "up" /\ opc # "rest" /\ InHand(inbox, i)
    /\ Failure
    /\ \E g \in Raised(inbox, i) : OmsLeaves(g)
    /\ UNCHANGED <<orders, status, fills, audited, oms, price, engaged, portVars,
                   book, lateFills, ticks, trips>>

\* Faulty variant for mutation runs: the handler returns before the fill is out.
ReturnEarly(i) ==
    /\ oms = "up" /\ opc = "publish" /\ InHand(inbox, i)
    /\ sent >= Len(Plan[verdict]) - 1
    /\ OmsLeaves(Handled(inbox, i))
    /\ UNCHANGED <<orders, status, fills, audited, oms, price, engaged, portVars,
                   book, lateFills, bounds>>

\* The handler returns in time, ...
OmsHandled(i) ==
    /\ oms = "up" /\ opc = "publish" /\ InHand(inbox, i)
    /\ sent = Len(Plan[verdict])
    /\ OmsLeaves(Handled(inbox, i))
    /\ UNCHANGED <<orders, status, fills, audited, oms, price, engaged, portVars,
                   book, lateFills, bounds>>

\* ... or too late: the intent task ends, unnoticed by the process.
OmsLate(i) ==
    /\ oms = "up" /\ opc = "publish" /\ InHand(inbox, i)
    /\ sent = Len(Plan[verdict])
    /\ Failure
    /\ oms' = "deaf"
    /\ OmsLeaves(Abandoned(inbox))
    /\ UNCHANGED <<orders, status, fills, audited, price, engaged, portVars, book,
                   lateFills, ticks, trips>>

\* A Redis call of the consume loop itself fails, perhaps after it took effect: the
\* intent task ends as well.
OmsLoopError ==
    /\ oms = "up" /\ opc = "rest" /\ (inbox.todo = {} \/ inbox.done = {})
    /\ Failure
    /\ oms' = "deaf"
    /\ OmsLeaves(Abandoned(inbox))
    /\ UNCHANGED <<orders, status, fills, audited, price, engaged, portVars, book,
                   lateFills, ticks, trips>>

OmsStep ==
    \/ OmsConsume \/ ReadIndex
    \/ \E s \in Strategies : ReadPositions(s)
    \/ \E i \in inbox.todo : AuditIntent(i) \/ Decide(i) \/ PublishNext(i) \/ OmsHandled(i)

-----------------------------------------------------------------------------
(* The portfolio service *)

Strategy(k) == orders[fills[k]].strategy
Symbol(k)   == orders[fills[k]].symbol
Signed(k)   == IF orders[fills[k]].side = "BUY" THEN orders[fills[k]].qty
                                                ELSE -orders[fills[k]].qty

\* Faulty variant for mutation runs: memory starts empty.
PortfolioStartEmpty ==
    /\ portfolio = "down"
    /\ portfolio' = "up"
    /\ memory' = NoSnapshot
    /\ UNCHANGED <<orders, status, fills, audited, omsVars, gate, price, engaged,
                   fillbox, ppc, store, index, orphans, lateFills, bounds>>

\* hydrate: the positions of every strategy in the index.
PortfolioStart ==
    /\ portfolio = "down"
    /\ portfolio' = "up"
    /\ memory' = [s \in Strategies |-> IF s \in index THEN store[s] ELSE NoSnapshot[s]]
    /\ UNCHANGED <<orders, status, fills, audited, omsVars, gate, price, engaged,
                   fillbox, ppc, store, index, orphans, lateFills, bounds>>

PortfolioCrash ==
    /\ portfolio # "down"
    /\ Failure
    /\ portfolio' = "down" /\ ppc' = "rest"
    /\ fillbox' = Abandoned(fillbox)
    /\ memory' = NoSnapshot
    /\ UNCHANGED <<orders, status, fills, audited, omsVars, gate, price, engaged, store,
                   index, orphans, lateFills, ticks, trips>>

PortfolioConsume ==
    /\ portfolio = "up" /\ ppc = "rest"
    /\ fillbox' \in Consumed(fillbox, Len(fills), Batch)
    /\ UNCHANGED <<orders, status, fills, audited, omsVars, gate, price, engaged,
                   portfolio, ppc, book, lateFills, bounds>>

\* apply_fill: the owner comes from the audit row.  Without a row, or when the
\* audit log cannot be read, the handler returns and the fill is dropped;
\* otherwise the position in memory changes.
ApplyFill(k) ==
    /\ portfolio = "up" /\ ppc = "rest" /\ InHand(fillbox, k)
    /\ \/ /\ fills[k] \in audited
          /\ NoFailure
          /\ memory' = [memory EXCEPT ![Strategy(k)][Symbol(k)] = @ + Signed(k)]
          /\ ppc' = "put"
          /\ UNCHANGED <<fillbox, orphans>>
       \/ /\ \/ fills[k] \notin audited /\ NoFailure
             \/ Failure
          /\ orphans' = orphans \cup {k}
          /\ fillbox' = Handled(fillbox, k)
          /\ UNCHANGED <<memory, ppc>>
    /\ UNCHANGED <<orders, status, fills, audited, omsVars, gate, price, engaged,
                   portfolio, store, index, lateFills, ticks, trips>>

\* PositionStore.put: the hash ...
PutPosition(k) ==
    /\ portfolio = "up" /\ ppc = "put" /\ InHand(fillbox, k)
    /\ store' = [store EXCEPT ![Strategy(k)][Symbol(k)] = memory[Strategy(k)][Symbol(k)]]
    /\ ppc' = "index"
    /\ UNCHANGED <<orders, status, fills, audited, omsVars, gate, price, engaged,
                   portfolio, fillbox, memory, index, orphans, lateFills, bounds>>

\* ... then the index.
PutIndex(k) ==
    /\ portfolio = "up" /\ ppc = "index" /\ InHand(fillbox, k)
    /\ index' = index \cup {Strategy(k)}
    /\ ppc' = "publish"
    /\ UNCHANGED <<orders, status, fills, audited, omsVars, gate, price, engaged,
                   portfolio, fillbox, memory, store, orphans, lateFills, bounds>>

\* The position goes out on ord.positions and the handler returns, ...
PublishPosition(k) ==
    /\ portfolio = "up" /\ ppc = "publish" /\ InHand(fillbox, k)
    /\ ppc' = "rest"
    /\ fillbox' = Handled(fillbox, k)
    /\ UNCHANGED <<orders, status, fills, audited, omsVars, gate, price, engaged,
                   portfolio, book, lateFills, bounds>>

\* ... too late: the consumer task ends, unnoticed by the process.
PortfolioLate(k) ==
    /\ portfolio = "up" /\ ppc = "publish" /\ InHand(fillbox, k)
    /\ Failure
    /\ portfolio' = "deaf" /\ ppc' = "rest"
    /\ fillbox' = Abandoned(fillbox)
    /\ UNCHANGED <<orders, status, fills, audited, omsVars, gate, price, engaged, book,
                   lateFills, ticks, trips>>

\* The write, the index or the publication raises, before or after it took
\* effect: memory keeps the fill, the message stays pending or is given up on.
PortfolioHandlerFails(k) ==
    /\ portfolio = "up" /\ ppc # "rest" /\ InHand(fillbox, k)
    /\ Failure
    /\ ppc' = "rest"
    /\ fillbox' \in Raised(fillbox, k)
    /\ UNCHANGED <<orders, status, fills, audited, omsVars, gate, price, engaged,
                   portfolio, book, lateFills, ticks, trips>>

\* A Redis call of the consume loop itself fails: the task ends as well.
PortfolioLoopError ==
    /\ portfolio = "up" /\ ppc = "rest" /\ (fillbox.todo = {} \/ fillbox.done = {})
    /\ Failure
    /\ portfolio' = "deaf"
    /\ fillbox' = Abandoned(fillbox)
    /\ UNCHANGED <<orders, status, fills, audited, omsVars, gate, price, engaged, ppc,
                   book, lateFills, ticks, trips>>

PortfolioStep ==
    \/ PortfolioConsume
    \/ \E k \in fillbox.todo : ApplyFill(k) \/ PutPosition(k) \/ PutIndex(k)
                                 \/ PublishPosition(k)

Next ==
    \/ \E intent \in Intents : Submit(intent)
    \/ \E y \in Symbols, p \in Prices : PriceTick(y, p)
    \/ Switch
    \/ OmsStart \/ OmsCrash \/ OmsStep \/ OmsLoopError
    \/ \E i \in inbox.todo : OmsHandlerFails(i) \/ OmsLate(i)
    \/ PortfolioStart \/ PortfolioCrash \/ PortfolioStep \/ PortfolioLoopError
    \/ \E k \in fillbox.todo : PortfolioHandlerFails(k) \/ PortfolioLate(k)

Spec == Init /\ [][Next]_vars

\* A process that died is started again, a task that has not ended keeps running.
FairSpec ==
    /\ Spec
    /\ WF_vars(OmsStart) /\ WF_vars(OmsStep)
    /\ WF_vars(PortfolioStart) /\ WF_vars(PortfolioStep)

-----------------------------------------------------------------------------
(* Properties *)

StreamTypes ==
    /\ orders \in Seq(Intents) /\ Len(orders) <= MaxIntents
    /\ status \in [Ids -> Statuses]
    /\ fills \in Seq(Ids) /\ \A k \in DOMAIN fills : fills[k] <= Len(orders)
    /\ audited \subseteq 1 .. Len(orders)

OmsTypes ==
    /\ oms \in {"up", "down", "deaf"}
    /\ inbox \in GroupType(Len(orders))
    /\ opc \in {"rest", "index", "read", "publish"}
    /\ toRead \subseteq Strategies
    /\ seen \in [Strategies -> [Symbols -> Nat]]
    /\ verdict \in DOMAIN Plan /\ sent \in 0 .. Len(Plan[verdict])
    /\ settledRead \in BOOLEAN

PortfolioTypes ==
    /\ portfolio \in {"up", "down", "deaf"}
    /\ fillbox \in GroupType(Len(fills))
    /\ ppc \in {"rest", "put", "index", "publish"}
    /\ memory \in [Strategies -> [Symbols -> Int]]
    /\ store \in [Strategies -> [Symbols -> Int]]
    /\ index \subseteq Strategies
    /\ orphans \subseteq 1 .. Len(fills)

WorldTypes ==
    /\ price \in [Symbols -> Prices \cup {NoPrice}]
    /\ engaged \in BOOLEAN /\ lateFills \in Nat
    /\ ticks \in 0 .. MaxTicks /\ trips \in 0 .. MaxTrips
    /\ failures \in 0 .. MaxFailures

\* Type invariant.
TypeOK == StreamTypes /\ OmsTypes /\ PortfolioTypes /\ WorldTypes

\* What subscribers of ord.orders and ord.fills were told about an intent: its
\* last state is terminal, and the fill of a filled one is out.
Answered(i) ==
    /\ status[i] \in Terminal
    /\ status[i] = "FILLED" => \E k \in DOMAIN fills : fills[k] = i

\* No intent is lost: each one the OMS has taken is answered, will be handled
\* again or was given up on after its last attempt, whatever publication failed
\* and wherever the OMS was stopped.
NoIntentLost ==
    \A i \in 1 .. inbox.cursor :
        i \in inbox.pel \/ i \in inbox.dead \/ Answered(i)

\* risk/checks.py: an engaged switch rejects every intent.  It is read once per
\* intent, so at most the intent in hand still fills after the trip, however many
\* are queued, delivered again or retried.
TripStopsFills == engaged => lateFills <= 1

\* The position that fills of a set make up.
Net(s, y, K) ==
    MapThenSumSet(Signed, {k \in K : Strategy(k) = s /\ Symbol(k) = y})

Exposure(y) ==
    MapThenSumSet(LAMBDA s : Magnitude(Net(s, y, DOMAIN fills) * price[y]), Strategies)

\* A step that approves the intent in hand, and what its approval promises: with
\* it, the fills ever published are within both caps.
Approves(i) == opc = "read" /\ opc' = "publish" /\ verdict' = "fill" /\ InHand(inbox, i)
WithinCaps(i) ==
    /\ Exposure(orders[i].symbol) + Notional(i) <= SymbolCap
    /\ MapThenSumSet(Exposure, Symbols) + Notional(i) <= GrossCap

\* risk/checks.py: exposure and intent together must not exceed the caps.  It
\* holds when the snapshot was read with the portfolio service caught up, every
\* fill booked once, and no price changed since.
CapsHoldOnSettledSnapshot ==
    [][\A i \in inbox.todo : Approves(i) /\ settledRead => WithinCaps(i)]_vars

\* oms/main.py: decisions stay consistent even if multiple intents arrive in
\* quick succession; the same without the condition.
CapsAlwaysHold == [][\A i \in inbox.todo : Approves(i) => WithinCaps(i)]_vars

\* portfolio/state.py: a restarted portfolio service picks up where the previous
\* one left off.  As long as no fill is delivered twice or given up on, the
\* store is the sum of the fills that found an owner, whenever the service has
\* caught up.
PositionsExact ==
    Settled(fillbox, Len(fills)) /\ fillbox.claimed = {} /\ fillbox.dead = {} =>
        \A s \in Strategies, y \in Symbols :
            store[s][y] = Net(s, y, DOMAIN fills \ orphans)

\* portfolio/state.py: position values are the ones the kernel computes on the
\* same fill stream; the same, however often a fill is delivered.
PositionsMatchFills ==
    Settled(fillbox, Len(fills)) /\ fillbox.dead = {} =>
        \A s \in Strategies, y \in Symbols :
            store[s][y] = Net(s, y, DOMAIN fills \ orphans)

\* With no more intents coming, both services catch up for good: every intent and
\* every fill is acknowledged in the end, handled or given up on, whatever failed
\* on the way, unless a slow handler or a Redis error cost the service its consumer
\* task.
FlowSettles ==
    /\ <>[](oms = "deaf" \/ Settled(inbox, Len(orders)))
    /\ <>[](portfolio = "deaf" \/ Settled(fillbox, Len(fills)))
=============================================================================
