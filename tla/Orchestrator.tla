---------------------------- MODULE Orchestrator ----------------------------
(***************************************************************************)
(* The orchestrator: signals of the agents become target positions, and    *)
(* each change of a target becomes one decision and one order intent.      *)
(*                                                                         *)
(* Three tasks of one event loop share a router: one takes predictions,    *)
(* one sentiment, one market regimes (a regime is handled as one           *)
(* prediction for each symbol of the universe).  A task runs from one      *)
(* await to the next without interruption, and every await is a step here. *)
(* The targets are also written to Redis, in the background.               *)
(*                                                                         *)
(* Directions and confidences are tenths, money is in cents: a score is a  *)
(* direction times a confidence, in hundredths.  Prices are seen or not;   *)
(* the quantity of an intent (its notional over the price) is left out.    *)
(* Left out too: the audit row, and the text of a decision.                *)
(***************************************************************************)
EXTENDS Integers, Sequences, FiniteSets, FiniteSetsExt, ConsumerGroup

CONSTANTS
    Symbols,
    Traded,         \* the symbols that trade at all
    Agents,
    Signals,        \* for each stream, the signals that may be published
    Cap,            \* MAX_NOTIONAL_USD_PER_SYMBOL
    MinDelta,       \* min_delta_usd, the deadband
    Threshold,      \* confidence_threshold, in hundredths
    MaxAge,         \* max_age_ns, for signals without a horizon
    Batch,          \* messages one XREADGROUP returns at most
    MaxSignals,     \* bound: signals published
    MaxClock,       \* bound: time
    MaxFailures     \* bound: crashes, handlers that outlast their timeout, and
                    \* Redis calls that raise, in a handler or between two

Streams == {"predict", "sentiment", "regime"}

\* A signal names its symbols in the order they are handled: one, or for a regime
\* the universe.
Signal == [agent : Agents, symbols : Seq(Symbols), direction : -10 .. 10,
           confidence : 0 .. 10, horizon : Nat]

ASSUME OrchestratorAssumption ==
    /\ IsFiniteSet(Symbols) /\ Traded \subseteq Symbols /\ IsFiniteSet(Agents)
    /\ DOMAIN Signals = Streams
    /\ \A t \in Streams : \A sig \in Signals[t] : sig \in Signal /\ sig.symbols # <<>>
    /\ Cap \in Nat /\ MinDelta \in Nat /\ Threshold \in Nat /\ MaxAge \in Nat
    /\ Batch \in Nat \ {0} /\ MaxSignals \in Nat /\ MaxClock \in Nat
    /\ MaxFailures \in Nat

VARIABLES
    clock,
    sent,       \* the signals on each stream, oldest first, with their time
    group,      \* the orchestrator's consumer group on each stream
    up,         \* the process
    alive,      \* the tasks that have not ended
    at,         \* where each task's handler is
    left,       \* symbols its signal still has to be handled for
    job,        \* the decision it is carrying out
    cache,      \* ConsensusBuilder: the latest signal of each symbol and agent
    targets,    \* TargetState: the recorded target of each symbol
    priced,     \* symbols LivePrices has a price of
    stored,     \* the hash orchestrator:target_state
    saving,     \* decisions whose target is on its way to the hash
    made,       \* every decision built; its position is its id
    decided,    \* the ones on ord.decisions
    orders,     \* the ones whose intent is on ord.orders
    net,        \* history: what the intents of each symbol add up to
    slips,      \* history: times a target was recorded, or not recorded, amiss
    due,        \* history: the target computed when a symbol was last considered, if
                \* one was, it had a price and no decision on it was under way
    considered, \* history: signals handled, for each stream and symbol
    failures

signalVars == <<clock, sent>>
taskVars   == <<group, alive, at, left, job>>
history    == <<net, slips, due, considered>>
vars == <<signalVars, taskVars, up, cache, targets, priced, stored, saving, made,
          decided, orders, history, failures>>

Targets == -Cap .. Cap
NoTargets == [y \in Symbols |-> 0]

Init ==
    /\ clock = 0
    /\ sent = [t \in Streams |-> <<>>]
    /\ group = [t \in Streams |-> EmptyGroup]
    /\ up = FALSE /\ alive = {}
    /\ at = [t \in Streams |-> "rest"]
    /\ left = [t \in Streams |-> <<>>]
    /\ job = [t \in Streams |-> 0]
    /\ cache = {} /\ targets = NoTargets /\ priced = {}
    /\ stored = NoTargets /\ saving = {}
    /\ made = <<>> /\ decided = {} /\ orders = {}
    /\ net = NoTargets /\ slips = NoTargets
    /\ due = [y \in Symbols |-> {}]
    /\ considered = [t \in Streams |-> {}]
    /\ failures = 0

\* Something fails: the process, a deadline, a Redis call.
Failure == failures < MaxFailures /\ failures' = failures + 1

Magnitude(x) == IF x < 0 THEN -x ELSE x

-----------------------------------------------------------------------------
(* Consensus and allocation *)

Stale(e, now) == now - e.ts > (IF e.horizon > 0 THEN e.horizon ELSE MaxAge)

\* ConsensusBuilder.update: the latest signal replaces the agent's earlier one.
Updated(sig, y) ==
    {e \in cache : e.symbol # y \/ e.agent # sig.agent}
        \cup {[symbol |-> y, agent |-> sig.agent, direction |-> sig.direction,
               confidence |-> sig.confidence, horizon |-> sig.horizon, ts |-> sig.ts]}

Fresh(C, y) == {e \in C : e.symbol = y /\ ~Stale(e, clock)}

\* There is no consensus without a fresh signal of some confidence.
Consensus(F) == \E e \in F : e.confidence > 0

\* Decimal.quantize rounds half to even.
RoundHalfEven(n, d) ==
    LET q == n \div d
        r == 2 * (n % d)
    IN  IF r > d \/ (r = d /\ q % 2 = 1) THEN q + 1 ELSE q

\* Weighted direction times average confidence is the mean score.
TargetNotional(F) ==
    LET score == MapThenSumSet(LAMBDA e : e.direction * e.confidence, F)
        n     == Cardinality(F)
        size  == RoundHalfEven(Cap * Magnitude(score), 100 * n)
    IN  IF Magnitude(score) < Threshold * n THEN 0
        ELSE IF score > 0 THEN size ELSE -size

\* Faulty variant for mutation runs: a sale is never worth an order.
WorthABuy(delta) == delta > 0 /\ delta >= MinDelta

\* The deadband.
WorthATrade(delta) == delta # 0 /\ Magnitude(delta) >= MinDelta

-----------------------------------------------------------------------------
(* The world around the orchestrator *)

\* An agent publishes a signal.
Publish(t, sig) ==
    /\ Len(sent["predict"]) + Len(sent["sentiment"]) + Len(sent["regime"]) < MaxSignals
    /\ sent' = [sent EXCEPT ![t] = Append(@,
                  [agent |-> sig.agent, symbols |-> sig.symbols,
                   direction |-> sig.direction, confidence |-> sig.confidence,
                   horizon |-> sig.horizon, ts |-> clock])]
    /\ UNCHANGED <<clock, taskVars, up, cache, targets, priced, stored, saving, made,
                   decided, orders, history, failures>>

Tick ==
    /\ clock < MaxClock
    /\ clock' = clock + 1
    /\ UNCHANGED <<sent, taskVars, up, cache, targets, priced, stored, saving, made,
                   decided, orders, history, failures>>

\* A trade reaches the price task.
PriceSeen(y) ==
    /\ up /\ y \in Traded \ priced
    /\ priced' = priced \cup {y}
    /\ UNCHANGED <<signalVars, taskVars, up, cache, targets, stored, saving, made,
                   decided, orders, history, failures>>

-----------------------------------------------------------------------------
(* Start and crash *)

\* run: TargetState.hydrate, then the tasks.  A hydrate that fails leaves the
\* targets empty.
Start ==
    /\ ~up
    /\ up' = TRUE /\ alive' = Streams
    /\ \/ targets' = stored /\ UNCHANGED <<slips, failures>>
       \/ /\ Failure
          /\ targets' = NoTargets
          /\ slips' = [y \in Symbols |-> slips[y] + IF stored[y] = 0 THEN 0 ELSE 1]
    /\ UNCHANGED <<signalVars, group, at, left, job, cache, priced, stored, saving,
                   made, decided, orders, net, due, considered>>

\* The tasks whose intent for y is out while its target is not recorded.
Unrecorded(y) == {t \in Streams : at[t] = "record" /\ made[job[t]].symbol = y}

\* The process stops: every await is cut off, the writes in flight included.
Crash ==
    /\ up
    /\ Failure
    /\ up' = FALSE /\ alive' = {}
    /\ group' = [t \in Streams |-> Abandoned(group[t])]
    /\ at' = [t \in Streams |-> "rest"]
    /\ left' = [t \in Streams |-> <<>>]
    /\ job' = [t \in Streams |-> 0]
    /\ cache' = {} /\ targets' = NoTargets /\ priced' = {} /\ saving' = {}
    /\ slips' = [y \in Symbols |-> slips[y] + Cardinality(Unrecorded(y))
                                     + IF stored[y] = targets[y] THEN 0 ELSE 1]
    /\ due' = [y \in Symbols |-> {}]
    /\ UNCHANGED <<signalVars, stored, made, decided, orders, net, considered>>

-----------------------------------------------------------------------------
(* A task *)

\* The consume loop between two handler calls.
Consume(t) ==
    /\ t \in alive /\ at[t] = "rest"
    /\ \E g \in Consumed(group[t], Len(sent[t]), Batch) : group' = [group EXCEPT ![t] = g]
    /\ UNCHANGED <<signalVars, alive, at, left, job, up, cache, targets, priced, stored,
                   saving, made, decided, orders, history, failures>>

\* The symbols the handler of signal i of t has before it.
Todo(t, i) == IF at[t] = "rest" THEN sent[t][i].symbols ELSE left[t]

\* A decision on y is under way in some task.
Underway(y) == {t \in Streams : job[t] # 0 /\ made[job[t]].symbol = y}

Due(y, goal) == IF y \in priced /\ Underway(y) = {} THEN {goal} ELSE {}

\* on_prediction returns without an order: no consensus, the deadband, no price.
PassOver(t, i) ==
    /\ t \in alive /\ InHand(group[t], i) /\ at[t] \in {"rest", "next"}
    /\ Todo(t, i) # <<>>
    /\ LET sig   == sent[t][i]
           y     == Head(Todo(t, i))
           fresh == Fresh(Updated(sig, y), y)
       IN  /\ IF Consensus(fresh)
              THEN LET goal == TargetNotional(fresh)
                   IN /\ goal \in Targets
                      /\ ~WorthATrade(goal - targets[y]) \/ y \notin priced
                      /\ due' = [due EXCEPT ![y] = Due(y, goal)]
              ELSE due' = [due EXCEPT ![y] = {}]
           /\ cache' = Updated(sig, y)
           /\ considered' = [considered EXCEPT ![t] = @ \cup {<<i, y>>}]
    /\ at' = [at EXCEPT ![t] = "next"]
    /\ left' = [left EXCEPT ![t] = Tail(Todo(t, i))]
    /\ UNCHANGED <<signalVars, group, alive, job, up, targets, priced, stored, saving,
                   made, decided, orders, net, slips, failures>>

\* on_prediction up to its first await: the target has moved, a decision is built.
Decide(t, i) ==
    /\ t \in alive /\ InHand(group[t], i) /\ at[t] \in {"rest", "next"}
    /\ Todo(t, i) # <<>>
    /\ LET sig   == sent[t][i]
           y     == Head(Todo(t, i))
           fresh == Fresh(Updated(sig, y), y)
       IN  /\ Consensus(fresh) /\ y \in priced
           /\ LET goal == TargetNotional(fresh)
              IN /\ goal \in Targets
                 /\ WorthATrade(goal - targets[y])
                 /\ made' = Append(made, [symbol |-> y, target |-> goal,
                                          delta |-> goal - targets[y]])
                 /\ due' = [due EXCEPT ![y] = Due(y, goal)]
           /\ cache' = Updated(sig, y)
           /\ slips' = [slips EXCEPT ![y] = IF Underway(y) = {} THEN @ ELSE @ + 1]
    /\ job' = [job EXCEPT ![t] = Len(made) + 1]
    /\ at' = [at EXCEPT ![t] = "decision"]
    /\ left' = [left EXCEPT ![t] = Tail(Todo(t, i))]
    /\ UNCHANGED <<signalVars, group, alive, up, targets, priced, stored, saving,
                   decided, orders, net, considered, failures>>

PublishDecision(t) ==
    /\ t \in alive /\ at[t] = "decision"
    /\ decided' = decided \cup {job[t]}
    /\ at' = [at EXCEPT ![t] = "order"]
    /\ UNCHANGED <<signalVars, group, alive, left, job, up, cache, targets, priced,
                   stored, saving, made, orders, history, failures>>

\* Faulty variant for mutation runs: the delta is recorded in place of the target.
RecordedDelta(d) == [targets EXCEPT ![made[d].symbol] = made[d].delta]

\* TargetState.update.
RecordedTarget(d) == [targets EXCEPT ![made[d].symbol] = made[d].target]

\* Faulty variant for mutation runs: the target is recorded with the publication
\* still ahead.
PublishAfterRecord(t) ==
    /\ t \in alive /\ at[t] = "order"
    /\ targets' = RecordedTarget(job[t])
    /\ saving' = saving \cup {job[t]}
    /\ at' = [at EXCEPT ![t] = "record"]
    /\ UNCHANGED <<signalVars, group, alive, left, job, up, cache, priced, stored,
                   made, decided, orders, history, failures>>

PublishOrder(t) ==
    /\ t \in alive /\ at[t] = "order"
    /\ orders' = orders \cup {job[t]}
    /\ net' = [net EXCEPT ![made[job[t]].symbol] = @ + made[job[t]].delta]
    /\ at' = [at EXCEPT ![t] = "record"]
    /\ UNCHANGED <<signalVars, group, alive, left, job, up, cache, targets, priced,
                   stored, saving, made, decided, slips, due, considered, failures>>

\* After the audit row: TargetState.update, which also starts the write to Redis.
Record(t, i) ==
    /\ t \in alive /\ at[t] = "record" /\ InHand(group[t], i)
    /\ targets' = RecordedTarget(job[t])
    /\ saving' = saving \cup {job[t]}
    /\ considered' = [considered EXCEPT ![t] = @ \cup {<<i, made[job[t]].symbol>>}]
    /\ job' = [job EXCEPT ![t] = 0]
    /\ at' = [at EXCEPT ![t] = "next"]
    /\ UNCHANGED <<signalVars, group, alive, left, up, cache, priced, stored, made,
                   decided, orders, net, slips, due, failures>>

\* The prediction handler ends with evict_stale, at the time of its signal.
Evicted(t, i) ==
    IF t = "predict" THEN {e \in cache : ~Stale(e, sent[t][i].ts)} ELSE cache

\* The handler returns in time, ...
Return(t, i) ==
    /\ t \in alive /\ at[t] = "next" /\ left[t] = <<>> /\ InHand(group[t], i)
    /\ cache' = Evicted(t, i)
    /\ group' = [group EXCEPT ![t] = Handled(@, i)]
    /\ at' = [at EXCEPT ![t] = "rest"]
    /\ UNCHANGED <<signalVars, alive, left, job, up, targets, priced, stored, saving,
                   made, decided, orders, history, failures>>

\* ... or too late: the task ends, unnoticed by the process.
Late(t, i) ==
    /\ t \in alive /\ at[t] = "next" /\ left[t] = <<>> /\ InHand(group[t], i)
    /\ Failure
    /\ cache' = Evicted(t, i)
    /\ alive' = alive \ {t}
    /\ group' = [group EXCEPT ![t] = Abandoned(@)]
    /\ at' = [at EXCEPT ![t] = "rest"]
    /\ UNCHANGED <<signalVars, left, job, up, targets, priced, stored, saving, made,
                   decided, orders, history>>

\* A Redis call of the consume loop itself fails: the task ends as well.
LoopError(t) ==
    /\ t \in alive /\ at[t] = "rest"
    /\ group[t].todo = {} \/ group[t].done = {}
    /\ Failure
    /\ alive' = alive \ {t}
    /\ group' = [group EXCEPT ![t] = Abandoned(@)]
    /\ UNCHANGED <<signalVars, at, left, job, up, cache, targets, priced, stored, saving,
                   made, decided, orders, history>>

\* A publication raises, before or after it took effect: the handler is left, and
\* the signal stays pending or is given up on.
HandlerFails(t, i) ==
    /\ t \in alive /\ job[t] # 0 /\ InHand(group[t], i)
    /\ Failure
    /\ slips' = [slips EXCEPT ![made[job[t]].symbol] =
                    IF at[t] = "record" THEN @ + 1 ELSE @]
    /\ \E g \in Raised(group[t], i) : group' = [group EXCEPT ![t] = g]
    /\ at' = [at EXCEPT ![t] = "rest"]
    /\ left' = [left EXCEPT ![t] = <<>>]
    /\ job' = [job EXCEPT ![t] = 0]
    /\ UNCHANGED <<signalVars, alive, up, cache, targets, priced, stored, saving, made,
                   decided, orders, net, due, considered>>

\* TargetState._persist: the HSETs in flight end in any order; one that fails is
\* logged.
Persist(d) ==
    /\ d \in saving
    /\ saving' = saving \ {d}
    /\ \/ /\ stored' = [stored EXCEPT ![made[d].symbol] = made[d].target]
          /\ UNCHANGED failures
       \/ Failure /\ UNCHANGED stored
    /\ UNCHANGED <<signalVars, taskVars, up, cache, targets, priced, made, decided,
                   orders, history>>

TaskStep(t) ==
    \/ Consume(t) \/ PublishDecision(t) \/ PublishOrder(t)
    \/ \E i \in group[t].todo : PassOver(t, i) \/ Decide(t, i) \/ Record(t, i) \/ Return(t, i)

Next ==
    \/ \E t \in Streams : \E sig \in Signals[t] : Publish(t, sig)
    \/ Tick \/ Start \/ Crash
    \/ \E y \in Symbols : PriceSeen(y)
    \/ \E t \in Streams : TaskStep(t) \/ LoopError(t)
    \/ \E t \in Streams : \E i \in group[t].todo : Late(t, i) \/ HandlerFails(t, i)
    \/ \E d \in saving : Persist(d)

Spec == Init /\ [][Next]_vars

-----------------------------------------------------------------------------
(* Properties *)

SignalTypes ==
    /\ clock \in 0 .. MaxClock
    /\ \A t \in Streams : Len(sent[t]) <= MaxSignals

Stamped == [agent : Agents, symbols : Seq(Symbols), direction : -10 .. 10,
            confidence : 0 .. 10, horizon : Nat, ts : 0 .. MaxClock]
Entries == [symbol : Symbols, agent : Agents, direction : -10 .. 10,
            confidence : 0 .. 10, horizon : Nat, ts : 0 .. MaxClock]
Decisions == [symbol : Symbols, target : Targets, delta : Int]

TaskTypes ==
    /\ sent \in [Streams -> Seq(Stamped)]
    /\ \A t \in Streams : group[t] \in GroupType(Len(sent[t]))
    /\ DOMAIN group = Streams
    /\ up \in BOOLEAN /\ alive \subseteq Streams
    /\ at \in [Streams -> {"rest", "next", "decision", "order", "record"}]
    /\ left \in [Streams -> Seq(Symbols)]
    /\ job \in [Streams -> 0 .. Len(made)]
    /\ \A t \in Streams : job[t] = 0 <=> at[t] \in {"rest", "next"}

TargetTypes ==
    /\ cache \subseteq Entries
    /\ made \in Seq(Decisions)
    /\ targets \in [Symbols -> Targets] /\ stored \in [Symbols -> Targets]
    /\ priced \subseteq Symbols
    /\ saving \subseteq DOMAIN made
    /\ decided \subseteq DOMAIN made /\ orders \subseteq DOMAIN made

HistoryTypes ==
    /\ net \in [Symbols -> Int] /\ slips \in [Symbols -> Nat]
    /\ due \in [Symbols -> SUBSET Targets]
    /\ considered \in [Streams -> SUBSET (Nat \X Symbols)]
    /\ failures \in 0 .. MaxFailures

\* Type invariant.
TypeOK == SignalTypes /\ TaskTypes /\ TargetTypes /\ HistoryTypes

\* The target the next decision on y starts from.
Recorded(y) == IF up THEN targets[y] ELSE stored[y]

\* Deltas of y whose intent is out and whose target is still to be recorded.
Outstanding(y) ==
    LET owed == [t \in Streams |-> IF t \in Unrecorded(y) THEN made[job[t]].delta ELSE 0]
    IN  owed["predict"] + owed["sentiment"] + owed["regime"]

\* router.py: deltas are against the last emitted target.  The intents of a symbol
\* add up to its recorded target, except for twice the cap each time two tasks
\* decide on the symbol at once, an intent is out and its target lost, or a start
\* finds another target than the process had.
DriftBounded ==
    \A y \in Symbols :
        Magnitude(net[y] - Recorded(y) - Outstanding(y)) <= 2 * Cap * slips[y]

\* decisions.py: TargetState holds emitted targets.  A target in memory or in Redis
\* is zero or one whose intent and decision are out, wherever a publication failed
\* or the process stopped: nothing is ever held to be ordered that was not.
RecordedWasOrdered ==
    \A y \in Symbols : {targets[y], stored[y]} \subseteq
        {0} \cup {made[d].target : d \in {d \in orders \cap decided : made[d].symbol = y}}

\* main.py: a regime is fanned out to every symbol of the universe.  Short of the
\* dead letters, a signal is acknowledged only when each of its symbols was
\* considered to the end, whatever failed or stopped in the middle of the fan-out.
AcknowledgedWasConsidered ==
    \A t \in Streams : \A i \in (1 .. group[t].cursor) \ (group[t].pel \cup group[t].dead) :
        \A k \in DOMAIN sent[t][i].symbols : <<i, sent[t][i].symbols[k]>> \in considered[t]

\* A signal that names y went to the dead letters.
GivenUpOn(y) ==
    \E t \in Streams : \E i \in group[t].dead :
        \E k \in DOMAIN sent[t][i].symbols : sent[t][i].symbols[k] = y

\* router.py: the deadband.  When every signal is settled, the recorded target of a
\* symbol is within the deadband of the target computed when it was last considered,
\* unless that was with a decision on the symbol under way in another task, or a
\* signal on the symbol was given up on: a target whose publication failed is reached
\* by the retry, or let go there because the signals of the symbol have gone stale.
Converged ==
    (\A t \in Streams : Settled(group[t], Len(sent[t]))) =>
        \A y \in Symbols : \A goal \in due[y] :
            \/ goal = targets[y] \/ Magnitude(goal - targets[y]) < MinDelta
            \/ GivenUpOn(y)
=============================================================================
