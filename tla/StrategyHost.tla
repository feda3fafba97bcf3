---------------------------- MODULE StrategyHost ----------------------------
(***************************************************************************)
(* The strategy host with one strategy: the supervisor that starts and     *)
(* stops its runner as the configuration says, the runner, and a           *)
(* GBMStrategy trading one symbol, which buys a lot when it is flat, sells *)
(* all it has when it is long, and counts what it has working so as not to *)
(* order twice.                                                            *)
(*                                                                         *)
(* The runner reads bars, fills and positions in one consumer group.  The  *)
(* intents of a hook go to the ledger of outstanding orders, in memory and *)
(* in Redis, and then to ord.orders.  Orders fill in parts, and portfolio  *)
(* reports the position after each fill.  The class stamps its own id on   *)
(* every intent, whatever id the strategy is configured under, and the     *)
(* runner passes by what does not carry the configured one.  Abstracted:   *)
(* prices, the model of the strategy (its lean is any), hot reload and the *)
(* other strategies of the host, which share nothing with this one but the *)
(* supervisor.                                                             *)
(***************************************************************************)
EXTENDS Integers, Sequences, FiniteSets, ConsumerGroup

CONSTANTS
    Lot,          \* what an opening order buys, in the least quantity that fills
    Batch,
    MaxBars,      \* bound: bars published
    MaxOrders,    \* bound: intents a strategy submits
    MaxUpsets,    \* bound: changes of the configuration, crashes, lost consumers
    MaxFailures   \* bound: failed writes, failed reads of the ledger, failed starts

ASSUME StrategyHostAssumption ==
    /\ Lot \in Nat \ {0} /\ Batch \in Nat \ {0}
    /\ MaxBars \in Nat /\ MaxOrders \in Nat /\ MaxUpsets \in Nat /\ MaxFailures \in Nat

VARIABLES
    bars,         \* length of md.bars.1m
    orders,       \* the intents submitted, and what the OMS has left to fill of each
    fills,        \* ord.fills: order, quantity and the position it leads to
    reported,     \* length of ord.positions: the fills portfolio has applied
    group,        \* the runner's consumer group on each of the three streams
    strategy,     \* quantities it has working, and the position it has seen
    outstanding,  \* ledger of submitted orders in memory
    stored,       \* the same ledger in Redis
    runner,       \* where the runner is, the intent it publishes, its configuration
    supervisor,   \* whether a tick is under way, and the configuration it read
    config,       \* the stored configuration: enabled, and the runtime signature
    ownId,        \* the strategy is configured under the id its class stamps
    mine,         \* history: orders submitted since the runner was started
    ignored,      \* history: fills no hook was called for
    forgotten,    \* history: orders a failed write or read of the ledger left out
    blind,        \* history: the strategy ordered on an outdated position, or a late
                  \* fill of an earlier runner's order lowered its count
    upsets, failures

streams == <<bars, orders, fills, reported>>
memory  == <<strategy, outstanding, mine>>
control == <<supervisor, config, ownId>>
history == <<ignored, forgotten, blind>>
bounds  == <<upsets, failures>>
vars == <<streams, group, memory, stored, runner, control, history, bounds>>

Streams == {"bars", "fills", "positions"}
\* The streams of one reply of XREADGROUP handled before s.
Before(s) == CASE s = "bars" -> {} [] s = "fills" -> {"bars"}
               [] s = "positions" -> {"bars", "fills"}
Length(s) == CASE s = "bars" -> bars [] s = "fills" -> Len(fills)
               [] s = "positions" -> reported

Fresh == [buying |-> 0, selling |-> 0, seen |-> 0]
NoOrder == 0
Down == [at |-> "down", order |-> NoOrder, sig |-> 0]
Up == {"listen", "put", "publish", "return", "deaf"}

\* The position its fills lead to.
Held == IF fills = <<>> THEN 0 ELSE fills[Len(fills)].net

Working(o) == orders[o].state = "sent"

Init ==
    /\ bars = 0 /\ orders = <<>> /\ fills = <<>> /\ reported = 0
    /\ group = [s \in Streams |-> EmptyGroup]
    /\ strategy = Fresh /\ outstanding = {} /\ mine = {}
    /\ stored = {}
    /\ runner = Down
    /\ config = [on |-> TRUE, sig |-> 0] /\ ownId \in BOOLEAN
    /\ supervisor = [starts |-> FALSE, read |-> config]
    /\ ignored = {} /\ forgotten = {} /\ blind = FALSE
    /\ upsets = 0 /\ failures = 0

Upset   == upsets < MaxUpsets /\ upsets' = upsets + 1 /\ UNCHANGED failures
Failure == failures < MaxFailures /\ failures' = failures + 1

-----------------------------------------------------------------------------
(* Market, OMS and portfolio *)

Bar ==
    /\ bars < MaxBars
    /\ bars' = bars + 1
    /\ UNCHANGED <<orders, fills, reported, group, memory, stored, runner, control, history,
                   bounds>>

\* The OMS fills part of an order or all of it ...
Execute(o, qty) ==
    /\ Working(o) /\ qty <= orders[o].left
    /\ orders' = [orders EXCEPT ![o].left = @ - qty,
                                ![o].state = IF qty = orders[o].left THEN "done" ELSE @]
    /\ fills' = Append(fills, [order |-> o, qty |-> qty,
                               net |-> IF orders[o].side = "buy" THEN Held + qty
                                                                  ELSE Held - qty])
    /\ UNCHANGED <<bars, reported, group, memory, stored, runner, control, history, bounds>>

\* ... or rejects it, which it tells nobody.
Reject(o) ==
    /\ Working(o)
    /\ orders' = [orders EXCEPT ![o].state = "done"]
    /\ UNCHANGED <<bars, fills, reported, group, memory, stored, runner, control, history,
                   bounds>>

Report ==
    /\ reported < Len(fills)
    /\ reported' = reported + 1
    /\ UNCHANGED <<bars, orders, fills, group, memory, stored, runner, control, history,
                   bounds>>

-----------------------------------------------------------------------------
(* The consume loop *)

AllAtRest == \A s \in Streams : AtRest(group[s])

Read ==
    /\ runner.at = "listen" /\ AllAtRest
    /\ \E s \in Streams : group[s].cursor < Length(s)
    /\ group' = [s \in Streams |-> Delivered(group[s], Length(s), Batch)]
    /\ UNCHANGED <<streams, memory, stored, runner, control, history, bounds>>

Claim(s) ==
    /\ runner.at = "listen" /\ AllAtRest
    /\ \E S \in SUBSET group[s].pel :
          Claimable(group[s], S) /\ group' = [group EXCEPT ![s] = Claims(@, S)]
    /\ UNCHANGED <<streams, memory, stored, runner, control, history, bounds>>

\* A pending message whose last attempt its runner did not survive goes to the dead-letter
\* stream and is acknowledged: no hook sees it again.
GiveUp(s) ==
    /\ runner.at = "listen" /\ AllAtRest
    /\ \E i \in group[s].pel : group' = [group EXCEPT ![s] = Current(GivenUp(@, i))]
    /\ UNCHANGED <<streams, memory, stored, runner, control, history, bounds>>

\* The batch of s is the one being handled.
Turn(s) == \A b \in Before(s) : AtRest(group[b])

Acknowledge(s) ==
    /\ runner.at = "listen" /\ Turn(s)
    /\ group[s].todo = {} /\ group[s].done # {}
    /\ group' = [group EXCEPT ![s] = Current(Acknowledged(@))]
    /\ UNCHANGED <<streams, memory, stored, runner, control, history, bounds>>

Handling(s, i) == runner.at = "listen" /\ Turn(s) /\ InHand(group[s], i)
HandledOne(s, i) == group' = [group EXCEPT ![s] = Handled(@, i)]

-----------------------------------------------------------------------------
(* The hooks *)

Idle == strategy.buying = 0 /\ strategy.selling = 0

\* on_bar has nothing to order: no clear lean, an order working, already there.
HoldBar(i) ==
    /\ Handling("bars", i)
    /\ HandledOne("bars", i)
    /\ UNCHANGED <<streams, memory, stored, runner, control, history, bounds>>

\* on_bar opens or closes; _publish_pending drains the intent.
Trade(i) ==
    LET side == IF strategy.seen = 0 THEN "buy" ELSE "sell"
        qty  == IF strategy.seen = 0 THEN Lot ELSE strategy.seen
        o    == Len(orders) + 1
    IN  /\ Handling("bars", i)
        /\ Idle /\ strategy.seen >= 0
        /\ Len(orders) < MaxOrders
        /\ orders' = Append(orders, [side |-> side, left |-> qty, state |-> "new"])
        /\ strategy' = IF side = "buy" THEN [strategy EXCEPT !.buying = @ + qty]
                                       ELSE [strategy EXCEPT !.selling = @ + qty]
        /\ outstanding' = outstanding \cup {o}
        /\ mine' = mine \cup {o}
        /\ blind' = (blind \/ strategy.seen # Held
                           \/ \E p \in DOMAIN orders \ mine : Working(p))
        /\ runner' = [runner EXCEPT !.at = "put", !.order = o]
        /\ UNCHANGED <<bars, fills, reported, group, stored, control, ignored, forgotten,
                       bounds>>

\* Faulty variant for mutation runs: the ledger in Redis is left out.
PutNothing ==
    /\ runner.at = "put"
    /\ runner' = [runner EXCEPT !.at = "publish"]
    /\ UNCHANGED <<streams, group, memory, stored, control, history, bounds>>

\* OutstandingOrderStore.put: an error is passed over.
Put ==
    /\ runner.at = "put"
    /\ \/ /\ stored' = stored \cup {runner.order}
          /\ UNCHANGED <<forgotten, failures>>
       \/ /\ Failure
          /\ forgotten' = forgotten \cup {runner.order}
          /\ UNCHANGED stored
    /\ runner' = [runner EXCEPT !.at = "publish"]
    /\ UNCHANGED <<streams, group, memory, control, upsets, ignored, blind>>

\* The intent goes to ord.orders; an error is passed over.
Publish ==
    /\ runner.at = "publish"
    /\ \/ orders' = [orders EXCEPT ![runner.order].state = "sent"] /\ UNCHANGED failures
       \/ Failure /\ UNCHANGED orders
    /\ runner' = [runner EXCEPT !.at = "return"]
    /\ UNCHANGED <<bars, fills, reported, group, memory, stored, control, upsets, history>>

Return ==
    /\ runner.at = "return"
    /\ \E i \in group["bars"].todo : InHand(group["bars"], i) /\ HandledOne("bars", i)
    /\ runner' = [runner EXCEPT !.at = "listen", !.order = NoOrder]
    /\ UNCHANGED <<streams, memory, stored, control, history, bounds>>

Less(quantity, by) == IF quantity > by THEN quantity - by ELSE 0

\* Faulty variant for mutation runs: the first fill of an order completes it.
OnFillClears(f) ==
    IF orders[f.order].side = "buy" THEN [strategy EXCEPT !.buying = 0]
                                    ELSE [strategy EXCEPT !.selling = 0]

\* GBMStrategy.on_fill.
OnFill(f) ==
    IF orders[f.order].side = "buy" THEN [strategy EXCEPT !.buying = Less(@, f.qty)]
                                    ELSE [strategy EXCEPT !.selling = Less(@, f.qty)]

\* Faulty variant for mutation runs: the id on the intent is not looked at.
HandleFillOfAnyId(i) ==
    /\ Handling("fills", i)
    /\ IF fills[i].order \in outstanding
       THEN strategy' = OnFill(fills[i]) /\ UNCHANGED ignored
       ELSE ignored' = ignored \cup {i} /\ UNCHANGED strategy
    /\ blind' = (blind \/ (fills[i].order \notin mine /\ strategy' # strategy))
    /\ HandledOne("fills", i)
    /\ UNCHANGED <<streams, outstanding, mine, stored, runner, control, forgotten, bounds>>

\* A fill of an order in the ledger reaches the strategy, if the intent there
\* carries the configured id.
HandleFill(i) ==
    /\ Handling("fills", i)
    /\ IF fills[i].order \in outstanding /\ ownId
       THEN strategy' = OnFill(fills[i]) /\ UNCHANGED ignored
       ELSE ignored' = ignored \cup {i} /\ UNCHANGED strategy
    /\ blind' = (blind \/ (fills[i].order \notin mine /\ strategy' # strategy))
    /\ HandledOne("fills", i)
    /\ UNCHANGED <<streams, outstanding, mine, stored, runner, control, forgotten, bounds>>

\* The position of another id, the one portfolio has from the intent, is passed by.
HandlePosition(i) ==
    /\ Handling("positions", i)
    /\ strategy' = IF ownId THEN [strategy EXCEPT !.seen = fills[i].net] ELSE strategy
    /\ HandledOne("positions", i)
    /\ UNCHANGED <<streams, outstanding, mine, stored, runner, control, history, bounds>>

\* A Redis error outside a hook, or a hook that took too long, ends the consumer
\* task; the runner does not notice and waits for its stop.
GoDeaf ==
    /\ runner.at \in {"listen", "return"}
    /\ Upset
    /\ runner' = [runner EXCEPT !.at = "deaf", !.order = NoOrder]
    /\ group' = [s \in Streams |-> Abandoned(group[s])]
    /\ UNCHANGED <<streams, memory, stored, control, history>>

-----------------------------------------------------------------------------
(* The supervisor *)

\* An operator enables, disables or edits the strategy.
Configure ==
    /\ Upset
    /\ \/ config' = [config EXCEPT !.on = ~@]
       \/ config' = [config EXCEPT !.sig = upsets']
    /\ UNCHANGED <<streams, group, memory, stored, runner, supervisor, ownId, history>>

\* The runner is gone, with all it had in memory and in hand.
Gone ==
    /\ runner' = Down
    /\ strategy' = Fresh /\ outstanding' = {} /\ mine' = {}
    /\ group' = [s \in Streams |-> Abandoned(group[s])]

Running == runner.at \in Up

\* Faulty variant for mutation runs: an edited strategy keeps its runner.
UnwantedWhenOff == Running /\ ~config.on

\* What _reconcile stops: a disabled or an edited strategy.
Unwanted == Running /\ (~config.on \/ runner.sig # config.sig)

\* A tick reaps a runner that ended, reads the configuration and stops an unwanted
\* runner, wherever that is waiting ...
Tick ==
    /\ ~supervisor.starts
    /\ Unwanted \/ runner.at = "ended" \/ (runner = Down /\ config.on)
    /\ supervisor' = [starts |-> TRUE, read |-> config]
    /\ IF Unwanted \/ runner.at = "ended"
       THEN Gone
       ELSE UNCHANGED <<runner, memory, group>>
    /\ UNCHANGED <<streams, stored, config, ownId, history, bounds>>

\* ... and then starts what the configuration it read wants.  The new runner reads
\* its ledger, nothing if that fails; it may end before it listens.
StartRunner ==
    /\ supervisor.starts
    /\ supervisor' = [supervisor EXCEPT !.starts = FALSE]
    /\ \/ /\ ~supervisor.read.on
          /\ UNCHANGED <<runner, outstanding, forgotten, failures>>
       \/ /\ supervisor.read.on
          /\ \/ /\ runner' = [Down EXCEPT !.at = "listen", !.sig = supervisor.read.sig]
                /\ outstanding' = stored
                /\ UNCHANGED <<forgotten, failures>>
             \/ /\ Failure
                /\ runner' = [Down EXCEPT !.at = "listen", !.sig = supervisor.read.sig]
                /\ outstanding' = {}
                /\ forgotten' = forgotten \cup stored
             \/ /\ Failure
                /\ runner' = [Down EXCEPT !.at = "ended"]
                /\ UNCHANGED <<outstanding, forgotten>>
    /\ UNCHANGED <<streams, group, strategy, mine, stored, config, ownId, upsets, ignored,
                   blind>>

\* The host stops, at once or in order, and is started again.
Crash ==
    /\ Upset
    /\ Gone
    /\ supervisor' = [supervisor EXCEPT !.starts = FALSE]
    /\ UNCHANGED <<streams, stored, config, ownId, history>>

-----------------------------------------------------------------------------

World == Bar \/ Report \/ \E o \in DOMAIN orders : Reject(o) \/ \E q \in 1 .. Lot : Execute(o, q)

Consumer == Read \/ \E s \in Streams : Claim(s) \/ GiveUp(s) \/ Acknowledge(s)

Hooks ==
    \/ \E i \in group["bars"].todo : HoldBar(i) \/ Trade(i)
    \/ Put \/ Publish \/ Return
    \/ \E i \in group["fills"].todo : HandleFill(i)
    \/ \E i \in group["positions"].todo : HandlePosition(i)

Supervise == Tick \/ StartRunner

Next == World \/ Consumer \/ Hooks \/ GoDeaf \/ Configure \/ Supervise \/ Crash

Spec == Init /\ [][Next]_vars

\* The supervisor ticks every two seconds.
FairSpec == Spec /\ WF_vars(Supervise)

-----------------------------------------------------------------------------
(* Properties *)

OrderIds == 1 .. MaxOrders
Sigs == 0 .. MaxUpsets

\* Type invariant.
StreamTypes ==
    /\ bars \in 0 .. MaxBars
    /\ orders \in Seq([side : {"buy", "sell"}, left : Int, state : {"new", "sent", "done"}])
    /\ Len(orders) <= MaxOrders
    /\ fills \in Seq([order : OrderIds, qty : Nat \ {0}, net : Int])
    /\ \A i \in DOMAIN fills : fills[i].order \in DOMAIN orders
    /\ reported \in 0 .. Len(fills)
    /\ \A s \in Streams : group[s] \in GroupType(Length(s))

HostTypes ==
    /\ strategy \in [buying : Nat, selling : Nat, seen : Int]
    /\ outstanding \subseteq DOMAIN orders /\ stored \subseteq DOMAIN orders
    /\ mine \subseteq DOMAIN orders /\ forgotten \subseteq DOMAIN orders
    /\ runner \in [at : Up \cup {"down", "ended"}, order : OrderIds \cup {NoOrder},
                   sig : Sigs]
    /\ runner.at \in {"put", "publish"} => runner.order \in DOMAIN orders
    /\ config \in [on : BOOLEAN, sig : Sigs] /\ ownId \in BOOLEAN
    /\ supervisor \in [starts : BOOLEAN, read : [on : BOOLEAN, sig : Sigs]]
    /\ ignored \subseteq DOMAIN fills /\ blind \in BOOLEAN
    /\ upsets \in 0 .. MaxUpsets /\ failures \in 0 .. MaxFailures

TypeOK == StreamTypes /\ HostTypes

\* outstanding_store.py: fills of orders submitted before a restart still reach
\* their strategy whenever a runner handles them, wherever the one before was stopped,
\* unless Redis failed to write or to read the ledger.  That is so under the id of the class only: under another one
\* every fill is passed by.
FillsReachTheirStrategy ==
    ownId => \A i \in ignored : fills[i].order \in forgotten

\* runner.py: what a strategy configured under another id than the one its class
\* stamps is left with.  It learns of no fill and no position, so however its order
\* fills, and however often it is delivered, each runner buys one lot and never
\* another, and nothing is ever sold.
OtherIdBuysOnce ==
    ~ownId => /\ Cardinality(mine) <= 1
              /\ \A o \in DOMAIN orders : orders[o].side = "buy"

\* strategies.py: no pyramiding, long only, correct under partial fills.  While
\* the strategy ordered on the position as it is, no order of an earlier runner was
\* working and none of its fills was counted against a later order, at most one
\* order works, it never takes the position over a lot, and never below nothing.
\* Under another id the position is never seen, and that excuses every order after
\* the first that filled; OtherIdBuysOnce says what holds there.
NoPyramiding ==
    ~blind => \A o \in DOMAIN orders : Working(o) =>
        /\ \A p \in DOMAIN orders : Working(p) => p = o
        /\ orders[o].side = "buy" => Held + orders[o].left <= Lot
        /\ orders[o].side = "sell" => orders[o].left <= Held

\* supervisor.py: the runner follows the configuration.  Through edits, crashes,
\* runners that end and edits in the middle of a tick, it always comes back to this:
\* a disabled strategy has no runner, an enabled one runs as it is configured.
Follows == Running = config.on /\ (Running => runner.sig = config.sig)
ConfigFollowed == []<>Follows
=============================================================================
