------------------------- MODULE OrchestratorProofs -------------------------
(***************************************************************************)
(* Proofs about Orchestrator for any symbols, agents, signals, caps and    *)
(* bounds: the type invariant, that no target is held that was not         *)
(* ordered, that no signal is acknowledged half considered, that intents   *)
(* drift from the targets only by what races and losses pay for, and that  *)
(* a quiet target is reached or given up with its signals.                 *)
(***************************************************************************)
EXTENDS Orchestrator, ConsumerGroupProofs, SequenceTheorems, FiniteSetTheorems, TLAPS

\* The decision a task carries out is published before its intent, its intent before
\* its target is recorded, and its target recorded before it is saved.
Ordered ==
    /\ \A t \in Streams : /\ at[t] = "order" => job[t] \in decided
                          /\ at[t] = "record" => job[t] \in decided \cap orders
    /\ saving \subseteq decided \cap orders

\* Where a task stands in the symbols of the signal in hand: what is left is the rest
\* of them, those before were considered, or the last is being decided on.
Standing(t, i) ==
    LET s    == sent[t][i].symbols
        past == Len(s) - Len(left[t])
    IN  /\ Len(left[t]) <= Len(s)
        /\ \A k \in 1 .. Len(left[t]) : left[t][k] = s[past + k]
        /\ \A k \in 1 .. past :
               \/ <<i, s[k]>> \in considered[t]
               \/ job[t] # 0 /\ k = past /\ made[job[t]].symbol = s[k]

\* Every symbol of a signal was considered.
Complete(t, i) == \A k \in DOMAIN sent[t][i].symbols : <<i, sent[t][i].symbols[k]>> \in considered[t]

Groups == \A t \in Streams : WellFormed(group[t], Len(sent[t]))

Progress ==
    \A t \in Streams :
        /\ at[t] # "rest" => \A i \in group[t].todo : InHand(group[t], i) => Standing(t, i)
        /\ \A i \in group[t].done : Complete(t, i)
        /\ \A i \in (1 .. group[t].cursor) \ (group[t].pel \cup group[t].dead) : Complete(t, i)

IInv == TypeOK /\ Groups /\ Ordered /\ RecordedWasOrdered /\ Progress

-----------------------------------------------------------------------------
(* Signals and groups *)

LEMMA Constants ==
    /\ Cap \in Nat /\ MinDelta \in Nat /\ Batch \in Nat \ {0} /\ MaxSignals \in Nat
    /\ MaxClock \in Nat /\ MaxFailures \in Nat /\ Traded \subseteq Symbols
    /\ Targets \subseteq Int /\ 0 \in Targets
    /\ \A t \in Streams : \A sig \in Signals[t] : sig \in Signal
  BY OrchestratorAssumption DEF Targets

\* The signals on a stream only grow.
LEMMA SentStep ==
    ASSUME TypeOK, [Next]_vars
    PROVE  /\ sent' \in [Streams -> Seq(Stamped)]
           /\ \A t \in Streams : /\ Len(sent'[t]) \in {Len(sent[t]), Len(sent[t]) + 1}
                                 /\ \A i \in 1 .. Len(sent[t]) : sent'[t][i] = sent[t][i]
                                 /\ Len(sent'[t]) <= MaxSignals
           /\ clock' \in 0 .. MaxClock
<1>1. /\ sent \in [Streams -> Seq(Stamped)] /\ clock \in 0 .. MaxClock
      /\ \A t \in Streams : Len(sent[t]) \in Nat /\ Len(sent[t]) <= MaxSignals
      /\ MaxSignals \in Nat /\ MaxClock \in Nat
  BY Constants DEF TypeOK, SignalTypes, TaskTypes
<1>2. ASSUME NEW t \in Streams, NEW sig \in Signals[t], Publish(t, sig)
      PROVE  /\ sent' \in [Streams -> Seq(Stamped)] /\ clock' = clock
             /\ \A u \in Streams : /\ Len(sent'[u]) \in {Len(sent[u]), Len(sent[u]) + 1}
                                   /\ \A i \in 1 .. Len(sent[u]) : sent'[u][i] = sent[u][i]
                                   /\ Len(sent'[u]) <= MaxSignals
  <2> DEFINE m == [agent |-> sig.agent, symbols |-> sig.symbols, direction |-> sig.direction,
                   confidence |-> sig.confidence, horizon |-> sig.horizon, ts |-> clock]
  <2>1. m \in Stamped
    BY <1>1, Constants DEF Signal, Stamped
  <2>2. sent' = [sent EXCEPT ![t] = Append(sent[t], m)] /\ clock' = clock
    BY <1>2 DEF Publish
  <2> HIDE DEF m
  <2>3. Append(sent[t], m) \in Seq(Stamped) /\ Len(Append(sent[t], m)) = Len(sent[t]) + 1
    BY <1>1, <2>1
  <2>4. \A i \in 1 .. Len(sent[t]) : Append(sent[t], m)[i] = sent[t][i]
    BY <1>1, <2>1
  <2>5. Len(sent[t]) + 1 <= MaxSignals
    <3>1. Len(sent["predict"]) + Len(sent["sentiment"]) + Len(sent["regime"]) < MaxSignals
      BY <1>2 DEF Publish
    <3> QED BY <1>1, <3>1 DEF Streams
  <2> QED BY <1>1, <2>2, <2>3, <2>4, <2>5
<1>3. CASE sent' = sent /\ clock' = clock
  BY <1>1, <1>3
<1>4. CASE Tick
  BY <1>1, <1>4 DEF Tick
<1>5. ASSUME \/ Start \/ Crash \/ (\E y \in Symbols : PriceSeen(y))
             \/ (\E t \in Streams : TaskStep(t) \/ LoopError(t))
             \/ (\E t \in Streams : \E i \in group[t].todo : Late(t, i) \/ HandlerFails(t, i))
             \/ (\E d \in saving : Persist(d)) \/ UNCHANGED vars
      PROVE  sent' = sent /\ clock' = clock
  <2>1. ASSUME NEW t \in Streams, Consume(t) \/ LoopError(t) \/ PublishDecision(t) \/ PublishOrder(t)
        PROVE  sent' = sent /\ clock' = clock
    BY <2>1 DEF Consume, LoopError, PublishDecision, PublishOrder, signalVars
  <2>2. ASSUME NEW t \in Streams, NEW i \in group[t].todo,
               PassOver(t, i) \/ Decide(t, i) \/ Record(t, i)
        PROVE  sent' = sent /\ clock' = clock
    BY <2>2 DEF PassOver, Decide, Record, signalVars
  <2>3. ASSUME NEW t \in Streams, NEW i \in group[t].todo,
               Return(t, i) \/ Late(t, i) \/ HandlerFails(t, i)
        PROVE  sent' = sent /\ clock' = clock
    BY <2>3 DEF Return, Late, HandlerFails, signalVars
  <2>4. ASSUME \/ Start \/ Crash \/ (\E y \in Symbols : PriceSeen(y))
               \/ (\E d \in saving : Persist(d)) \/ UNCHANGED vars
        PROVE  sent' = sent /\ clock' = clock
    BY <2>4 DEF Start, Crash, PriceSeen, Persist, vars, signalVars
  <2> QED BY <1>5, <2>1, <2>2, <2>3, <2>4 DEF TaskStep
<1> QED BY <1>1, <1>2, <1>3, <1>4, <1>5 DEF Next

\* What a step does to the groups: one moves, or all are abandoned.
LEMMA GroupMoves ==
    ASSUME TypeOK, [Next]_vars
    PROVE  \A t \in Streams : Moves(group[t], group'[t], Len(sent[t]), Batch)
<1>1. DOMAIN group = Streams
  BY DEF TypeOK, TaskTypes
<1>2. CASE group' = group
  BY <1>2 DEF Moves
<1>3. CASE Crash
  BY <1>1, <1>3 DEF Crash, Moves
<1>4. ASSUME NEW t \in Streams, NEW g, group' = [group EXCEPT ![t] = g],
             Moves(group[t], g, Len(sent[t]), Batch)
      PROVE  \A u \in Streams : Moves(group[u], group'[u], Len(sent[u]), Batch)
  BY <1>1, <1>4 DEF Moves
<1>5. ASSUME NEW t \in Streams, Consume(t)
      PROVE  \A u \in Streams : Moves(group[u], group'[u], Len(sent[u]), Batch)
  <2>1. PICK g \in Consumed(group[t], Len(sent[t]), Batch) : group' = [group EXCEPT ![t] = g]
    BY <1>5 DEF Consume
  <2> QED BY <1>4, <2>1 DEF Moves
<1>6. ASSUME NEW t \in Streams, NEW i \in group[t].todo,
             Return(t, i) \/ Late(t, i) \/ HandlerFails(t, i)
      PROVE  \A u \in Streams : Moves(group[u], group'[u], Len(sent[u]), Batch)
  <2>1. \E g \in {Handled(group[t], i), Abandoned(group[t])} \cup Raised(group[t], i) :
            group' = [group EXCEPT ![t] = g]
    BY <1>6 DEF Return, Late, HandlerFails
  <2> QED BY <1>4, <2>1 DEF Moves
<1>9. ASSUME NEW t \in Streams, LoopError(t)
      PROVE  \A u \in Streams : Moves(group[u], group'[u], Len(sent[u]), Batch)
  <2>1. group' = [group EXCEPT ![t] = Abandoned(group[t])]
    BY <1>9 DEF LoopError
  <2> QED BY <1>4, <2>1 DEF Moves
<1>7. ASSUME NEW t \in Streams, NEW i \in group[t].todo,
             PassOver(t, i) \/ Decide(t, i) \/ Record(t, i)
      PROVE  group' = group
  BY <1>7 DEF PassOver, Decide, Record
<1>8. ASSUME \/ (\E t \in Streams : \E sig \in Signals[t] : Publish(t, sig)) \/ Tick \/ Start
             \/ (\E y \in Symbols : PriceSeen(y))
             \/ (\E t \in Streams : PublishDecision(t) \/ PublishOrder(t))
             \/ (\E d \in saving : Persist(d)) \/ UNCHANGED vars
      PROVE  group' = group
  BY <1>8 DEF Publish, Tick, Start, PriceSeen, PublishDecision, PublishOrder, Persist, vars,
     taskVars
<1> QED BY <1>2, <1>3, <1>5, <1>6, <1>7, <1>8, <1>9 DEF Next, TaskStep

LEMMA GroupsStep ==
    ASSUME IInv, [Next]_vars
    PROVE  Groups'
<1>1. /\ TypeOK /\ Batch \in Nat \ {0}
      /\ \A t \in Streams : Len(sent[t]) \in Nat /\ WellFormed(group[t], Len(sent[t]))
  BY Constants DEF IInv, TypeOK, TaskTypes, Groups
<1>2. ASSUME NEW t \in Streams
      PROVE  WellFormed(group'[t], Len(sent'[t]))
  <2>1. PICK n \in Nat : n = Len(sent[t])
    BY <1>1
  <2>2. PICK g : g = group[t]
    OBVIOUS
  <2>3. PICK h : h = group'[t]
    OBVIOUS
  <2>4. WellFormed(h, n)
    <3>1. WellFormed(g, n) /\ Moves(g, h, n, Batch)
      BY <1>1, <2>1, <2>2, <2>3, GroupMoves
    <3> QED BY <1>1, <3>1, MovesFacts
  <2>5. WellFormed(h, n + 1)
    BY <2>4, GroupGrows
  <2> QED BY <1>1, <2>1, <2>3, <2>4, <2>5, SentStep
<1> QED BY <1>2 DEF Groups

-----------------------------------------------------------------------------
(* The tasks *)

LEMMA Steps ==
    ASSUME [Next]_vars
    PROVE  \/ \E t \in Streams : \E sig \in Signals[t] : Publish(t, sig)
           \/ Tick \/ Start \/ Crash \/ (\E y \in Symbols : PriceSeen(y))
           \/ \E t \in Streams : Consume(t) \/ LoopError(t) \/ PublishDecision(t) \/ PublishOrder(t)
           \/ \E t \in Streams : \E i \in group[t].todo :
                  \/ PassOver(t, i) \/ Decide(t, i) \/ Record(t, i)
                  \/ Return(t, i) \/ Late(t, i) \/ HandlerFails(t, i)
           \/ (\E d \in saving : Persist(d)) \/ UNCHANGED vars
  BY DEF Next, TaskStep

\* A signal in hand is one of its stream, with symbols to handle.
LEMMA InHandFacts ==
    ASSUME TypeOK, Groups, NEW t \in Streams, NEW i \in group[t].todo
    PROVE  /\ i \in 1 .. Len(sent[t]) /\ sent[t][i] \in Stamped
           /\ Todo(t, i) \in Seq(Symbols)
           /\ Todo(t, i) # <<>> =>
                  Head(Todo(t, i)) \in Symbols /\ Tail(Todo(t, i)) \in Seq(Symbols)
<1>1. i \in 1 .. Len(sent[t]) /\ sent \in [Streams -> Seq(Stamped)]
      /\ left \in [Streams -> Seq(Symbols)]
  BY DEF TypeOK, TaskTypes, Groups, WellFormed, GroupType
<1>2. sent[t][i] \in Stamped
  BY <1>1, ElementOfSeq
<1>3. Todo(t, i) \in Seq(Symbols)
  BY <1>1, <1>2 DEF Todo, Stamped
<1> QED BY <1>1, <1>2, <1>3

\* A decision is built in one way only.
LEMMA DecideFacts ==
    ASSUME TypeOK, Groups, NEW t \in Streams, NEW i \in group[t].todo, Decide(t, i)
    PROVE  LET y == Head(Todo(t, i)) IN
           /\ at[t] \in {"rest", "next"} /\ InHand(group[t], i) /\ Todo(t, i) # <<>>
           /\ y \in Symbols /\ Tail(Todo(t, i)) \in Seq(Symbols)
           /\ \E goal \in Targets :
                  /\ made' = Append(made, [symbol |-> y, target |-> goal,
                                           delta |-> goal - targets[y]])
                  /\ [symbol |-> y, target |-> goal, delta |-> goal - targets[y]] \in Decisions
                  /\ due' = [due EXCEPT ![y] = Due(y, goal)]
           /\ cache' = Updated(sent[t][i], y)
           /\ slips' = [slips EXCEPT ![y] = IF Underway(y) = {} THEN @ ELSE @ + 1]
           /\ job' = [job EXCEPT ![t] = Len(made) + 1]
           /\ at' = [at EXCEPT ![t] = "decision"]
           /\ left' = [left EXCEPT ![t] = Tail(Todo(t, i))]
<1> DEFINE y == Head(Todo(t, i))
           fresh == Fresh(Updated(sent[t][i], y), y)
           goal == TargetNotional(fresh)
<1>1. at[t] \in {"rest", "next"} /\ InHand(group[t], i) /\ Todo(t, i) # <<>>
  BY DEF Decide
<1>2. y \in Symbols /\ Tail(Todo(t, i)) \in Seq(Symbols)
  BY <1>1, InHandFacts
<1>3. /\ goal \in Targets
      /\ made' = Append(made, [symbol |-> y, target |-> goal, delta |-> goal - targets[y]])
      /\ due' = [due EXCEPT ![y] = Due(y, goal)]
      /\ cache' = Updated(sent[t][i], y)
      /\ slips' = [slips EXCEPT ![y] = IF Underway(y) = {} THEN @ ELSE @ + 1]
      /\ job' = [job EXCEPT ![t] = Len(made) + 1]
      /\ at' = [at EXCEPT ![t] = "decision"]
      /\ left' = [left EXCEPT ![t] = Tail(Todo(t, i))]
  BY DEF Decide
<1>4. goal - targets[y] \in Int
  BY <1>2, <1>3, Constants DEF TypeOK, TargetTypes
<1>5. [symbol |-> y, target |-> goal, delta |-> goal - targets[y]] \in Decisions
  BY <1>2, <1>3, <1>4 DEF Decisions
<1> HIDE DEF goal, y
<1> QED BY <1>1, <1>2, <1>3, <1>5 DEF y

\* Decisions are only added.
LEMMA MadeStep ==
    ASSUME TypeOK, Groups, [Next]_vars
    PROVE  /\ made' \in Seq(Decisions) /\ DOMAIN made \subseteq DOMAIN made'
           /\ DOMAIN made = 1 .. Len(made) /\ DOMAIN made' = 1 .. Len(made')
           /\ Len(made) \in Nat /\ Len(made') \in Nat /\ Len(made) <= Len(made')
           /\ \A d \in DOMAIN made : made'[d] = made[d] /\ made[d] \in Decisions
<1>1. made \in Seq(Decisions) /\ DOMAIN made = 1 .. Len(made) /\ Len(made) \in Nat
  BY DEF TypeOK, TargetTypes
<1>2. \A d \in DOMAIN made : made[d] \in Decisions
  BY <1>1, ElementOfSeq
<1>3. CASE made' = made
  BY <1>1, <1>2, <1>3
<1>4. ASSUME NEW t \in Streams, NEW i \in group[t].todo, Decide(t, i)
      PROVE  \E d \in Decisions : made' = Append(made, d)
  BY <1>4, DecideFacts
<1>5. CASE \E d \in Decisions : made' = Append(made, d)
  <2>1. PICK d \in Decisions : made' = Append(made, d)
    BY <1>5
  <2>2. made' \in Seq(Decisions) /\ Len(made') = Len(made) + 1
    BY <1>1, <2>1
  <2>3. \A k \in 1 .. Len(made) : made'[k] = made[k]
    BY <1>1, <2>1
  <2>4. DOMAIN made' = 1 .. Len(made')
    BY <2>2
  <2> QED BY <1>1, <1>2, <2>2, <2>3, <2>4
<1>6. ASSUME NEW t \in Streams, NEW i \in group[t].todo,
             \/ PassOver(t, i) \/ Record(t, i) \/ Return(t, i) \/ Late(t, i) \/ HandlerFails(t, i)
      PROVE  made' = made
  BY <1>6 DEF PassOver, Record, Return, Late, HandlerFails
<1>7. ASSUME \/ (\E t \in Streams : \E sig \in Signals[t] : Publish(t, sig)) \/ Tick \/ Start
             \/ Crash \/ (\E y \in Symbols : PriceSeen(y))
             \/ (\E t \in Streams : \/ Consume(t) \/ LoopError(t)
                                    \/ PublishDecision(t) \/ PublishOrder(t))
             \/ (\E d \in saving : Persist(d)) \/ UNCHANGED vars
      PROVE  made' = made
  BY <1>7 DEF Publish, Tick, Start, Crash, PriceSeen, Consume, LoopError, PublishDecision, PublishOrder,
     Persist, vars
<1> QED BY <1>3, <1>4, <1>5, <1>6, <1>7, Steps

\* The decision a task carries out.
LEMMA JobFacts ==
    ASSUME TypeOK, Groups, [Next]_vars, NEW t \in Streams,
           job[t] # 0 \/ at[t] \in {"decision", "order", "record"}
    PROVE  /\ job[t] # 0 /\ job[t] \in DOMAIN made /\ made[job[t]].symbol \in Symbols
           /\ made[job[t]].delta \in Int
<1>1. job[t] \in 0 .. Len(made) /\ job[t] # 0 /\ Len(made) \in Nat /\ made \in Seq(Decisions)
  BY MadeStep DEF TypeOK, TaskTypes, TargetTypes
<1>2. job[t] \in 1 .. Len(made) /\ DOMAIN made = 1 .. Len(made)
  BY <1>1
<1>3. made[job[t]] \in Decisions
  BY <1>1, <1>2, ElementOfSeq
<1> QED BY <1>1, <1>2, <1>3 DEF Decisions

Places == {"rest", "next", "decision", "order", "record"}

\* A task moves to a place with symbols left and a decision or none.
Sits(t, place, rest, d) ==
    /\ at' = [at EXCEPT ![t] = place]
    /\ left' = [left EXCEPT ![t] = rest]
    /\ job' = [job EXCEPT ![t] = d]

FlowTypes ==
    /\ at \in [Streams -> Places] /\ left \in [Streams -> Seq(Symbols)]
    /\ job \in [Streams -> 0 .. Len(made)]
    /\ \A t \in Streams : job[t] = 0 <=> at[t] \in {"rest", "next"}

LEMMA SitsTyped ==
    ASSUME TypeOK, Groups, [Next]_vars, NEW t \in Streams, NEW place \in Places,
           NEW rest \in Seq(Symbols), NEW d \in 0 .. Len(made'), Sits(t, place, rest, d),
           d = 0 <=> place \in {"rest", "next"}
    PROVE  FlowTypes'
<1>1. FlowTypes /\ Len(made) <= Len(made') /\ Len(made) \in Nat /\ Len(made') \in Nat
  BY MadeStep DEF TypeOK, TaskTypes, FlowTypes, Places
<1>2. job' \in [Streams -> 0 .. Len(made')]
  BY <1>1 DEF FlowTypes, Sits
<1>3. at' \in [Streams -> Places] /\ left' \in [Streams -> Seq(Symbols)]
  BY <1>1 DEF FlowTypes, Sits
<1>4. \A u \in Streams : job'[u] = 0 <=> at'[u] \in {"rest", "next"}
  BY <1>1 DEF FlowTypes, Sits
<1> QED BY <1>2, <1>3, <1>4 DEF FlowTypes

\* What becomes of the tasks in one step.
LEMMA FlowMoves ==
    ASSUME TypeOK, Groups, [Next]_vars
    PROVE  \/ UNCHANGED <<at, left, job>>
           \/ Crash
           \/ \E t \in Streams, place \in Places, rest \in Seq(Symbols), d \in 0 .. Len(made') :
                  /\ Sits(t, place, rest, d)
                  /\ d = 0 <=> place \in {"rest", "next"}
<1> DEFINE Goal == \E t \in Streams, place \in Places, rest \in Seq(Symbols), d \in 0 .. Len(made') :
                      /\ Sits(t, place, rest, d)
                      /\ d = 0 <=> place \in {"rest", "next"}
<1>1. /\ FlowTypes /\ Len(made) <= Len(made') /\ Len(made) \in Nat /\ Len(made') \in Nat
      /\ \A t \in Streams : /\ left[t] \in Seq(Symbols) /\ job[t] \in 0 .. Len(made')
                            /\ left = [left EXCEPT ![t] = left[t]]
                            /\ job = [job EXCEPT ![t] = job[t]]
      /\ 0 \in 0 .. Len(made') /\ <<>> \in Seq(Symbols)
  BY MadeStep DEF TypeOK, TaskTypes, FlowTypes, Places
<1>2. ASSUME NEW t \in Streams, PublishDecision(t) \/ PublishOrder(t)
      PROVE  Goal
  <2>1. \E place \in {"order", "record"} : Sits(t, place, left[t], job[t])
    BY <1>1, <1>2 DEF PublishDecision, PublishOrder, Sits
  <2>2. job[t] # 0
    BY <1>1, <1>2 DEF PublishDecision, PublishOrder, FlowTypes
  <2> QED BY <1>1, <2>1, <2>2 DEF Places
<1>3. ASSUME NEW t \in Streams, NEW i \in group[t].todo, PassOver(t, i)
      PROVE  Goal
  <2>1. Sits(t, "next", Tail(Todo(t, i)), job[t]) /\ Todo(t, i) # <<>> /\ at[t] \in {"rest", "next"}
    BY <1>1, <1>3 DEF PassOver, Sits
  <2>2. Tail(Todo(t, i)) \in Seq(Symbols) /\ job[t] = 0
    BY <1>1, <2>1, InHandFacts DEF FlowTypes
  <2> QED BY <1>1, <2>1, <2>2 DEF Places
<1>4. ASSUME NEW t \in Streams, NEW i \in group[t].todo, Decide(t, i)
      PROVE  Goal
  <2>1. /\ Sits(t, "decision", Tail(Todo(t, i)), Len(made) + 1)
        /\ Tail(Todo(t, i)) \in Seq(Symbols) /\ \E d \in Decisions : made' = Append(made, d)
    BY <1>4, DecideFacts DEF Sits
  <2>2. Len(made) + 1 \in 0 .. Len(made') /\ Len(made) + 1 # 0
    <3>1. made \in Seq(Decisions)
      BY DEF TypeOK, TargetTypes
    <3> QED BY <1>1, <2>1, <3>1
  <2> QED BY <1>1, <2>1, <2>2 DEF Places
<1>5. ASSUME NEW t \in Streams, NEW i \in group[t].todo, Record(t, i)
      PROVE  Goal
  <2>1. Sits(t, "next", left[t], 0)
    BY <1>1, <1>5 DEF Record, Sits
  <2> QED BY <1>1, <2>1 DEF Places
<1>6. ASSUME NEW t \in Streams, NEW i \in group[t].todo, Return(t, i) \/ Late(t, i)
      PROVE  Goal
  <2>1. Sits(t, "rest", left[t], job[t]) /\ at[t] = "next"
    BY <1>1, <1>6 DEF Return, Late, Sits
  <2> QED BY <1>1, <2>1 DEF Places, FlowTypes
<1>7. ASSUME NEW t \in Streams, NEW i \in group[t].todo, HandlerFails(t, i)
      PROVE  Goal
  <2>1. Sits(t, "rest", <<>>, 0)
    BY <1>7 DEF HandlerFails, Sits
  <2> QED BY <1>1, <2>1 DEF Places
<1>8. ASSUME \/ (\E t \in Streams : \E sig \in Signals[t] : Publish(t, sig)) \/ Tick \/ Start
             \/ (\E y \in Symbols : PriceSeen(y))
             \/ (\E t \in Streams : Consume(t) \/ LoopError(t))
             \/ (\E d \in saving : Persist(d)) \/ UNCHANGED vars
      PROVE  UNCHANGED <<at, left, job>>
  BY <1>8 DEF Publish, Tick, Start, PriceSeen, Consume, LoopError, Persist, vars, taskVars
<1> HIDE DEF Goal
<1>9. UNCHANGED <<at, left, job>> \/ Crash \/ Goal
  BY <1>2, <1>3, <1>4, <1>5, <1>6, <1>7, <1>8, Steps
<1> QED BY <1>9 DEF Goal

LEMMA FlowStep ==
    ASSUME TypeOK, Groups, [Next]_vars
    PROVE  FlowTypes' /\ up' \in BOOLEAN /\ alive' \subseteq Streams
<1>1. /\ FlowTypes /\ Len(made) <= Len(made') /\ Len(made) \in Nat /\ Len(made') \in Nat
      /\ up \in BOOLEAN /\ alive \subseteq Streams
  BY MadeStep DEF TypeOK, TaskTypes, FlowTypes, Places
<1>2. ASSUME UNCHANGED <<at, left, job>> PROVE FlowTypes'
  BY <1>1, <1>2 DEF FlowTypes
<1>3. ASSUME Crash PROVE FlowTypes'
  BY <1>1, <1>3 DEF Crash, FlowTypes, Places
<1>4. FlowTypes'
  BY <1>2, <1>3, FlowMoves, SitsTyped
<1>5. ASSUME NEW t \in Streams, NEW i \in group[t].todo,
             \/ PassOver(t, i) \/ Decide(t, i) \/ Record(t, i) \/ Return(t, i) \/ Late(t, i)
             \/ HandlerFails(t, i)
      PROVE  up' = up /\ alive' \subseteq alive
  BY <1>5 DEF PassOver, Decide, Record, Return, Late, HandlerFails
<1>6. ASSUME \/ (\E t \in Streams : \E sig \in Signals[t] : Publish(t, sig)) \/ Tick
             \/ (\E y \in Symbols : PriceSeen(y))
             \/ (\E t \in Streams : \/ Consume(t) \/ LoopError(t)
                                    \/ PublishDecision(t) \/ PublishOrder(t))
             \/ (\E d \in saving : Persist(d)) \/ UNCHANGED vars
      PROVE  up' = up /\ alive' \subseteq alive
  BY <1>6 DEF Publish, Tick, PriceSeen, Consume, LoopError, PublishDecision, PublishOrder, Persist, vars,
     taskVars
<1>7. Start \/ Crash => up' \in BOOLEAN /\ alive' \subseteq Streams
  BY DEF Start, Crash
<1> QED BY <1>1, <1>4, <1>5, <1>6, <1>7, Steps

-----------------------------------------------------------------------------
(* The stores *)

LEMMA CacheStep ==
    ASSUME TypeOK, Groups, [Next]_vars
    PROVE  cache' \subseteq Entries
<1>1. cache \subseteq Entries
  BY DEF TypeOK, TargetTypes
<1>2. ASSUME NEW t \in Streams, NEW i \in group[t].todo, Todo(t, i) # <<>>
      PROVE  Updated(sent[t][i], Head(Todo(t, i))) \subseteq Entries
  <2>1. sent[t][i] \in Stamped /\ Head(Todo(t, i)) \in Symbols
    BY <1>2, InHandFacts
  <2>2. PICK sig \in Stamped, y \in Symbols : sig = sent[t][i] /\ y = Head(Todo(t, i))
    BY <2>1
  <2>3. [symbol |-> y, agent |-> sig.agent, direction |-> sig.direction,
         confidence |-> sig.confidence, horizon |-> sig.horizon, ts |-> sig.ts] \in Entries
    BY <2>2 DEF Stamped, Entries
  <2>4. Updated(sig, y) \subseteq Entries
    BY <1>1, <2>3 DEF Updated
  <2> QED BY <2>2, <2>4
<1>3. ASSUME NEW t \in Streams, NEW i \in group[t].todo, PassOver(t, i) \/ Decide(t, i)
      PROVE  cache' \subseteq Entries
  <2>1. Todo(t, i) # <<>> /\ cache' = Updated(sent[t][i], Head(Todo(t, i)))
    BY <1>3 DEF PassOver, Decide
  <2> QED BY <1>2, <2>1
<1>4. ASSUME NEW t \in Streams, NEW i \in group[t].todo,
             Record(t, i) \/ Return(t, i) \/ Late(t, i) \/ HandlerFails(t, i)
      PROVE  cache' \subseteq cache
  BY <1>4 DEF Record, Return, Late, HandlerFails, Evicted
<1>5. ASSUME \/ (\E t \in Streams : \E sig \in Signals[t] : Publish(t, sig)) \/ Tick \/ Start
             \/ Crash \/ (\E y \in Symbols : PriceSeen(y))
             \/ (\E t \in Streams : \/ Consume(t) \/ LoopError(t)
                                    \/ PublishDecision(t) \/ PublishOrder(t))
             \/ (\E d \in saving : Persist(d)) \/ UNCHANGED vars
      PROVE  cache' \subseteq cache
  BY <1>5 DEF Publish, Tick, Start, Crash, PriceSeen, Consume, LoopError, PublishDecision, PublishOrder,
     Persist, vars
<1> QED BY <1>1, <1>3, <1>4, <1>5, Steps

\* What becomes of the recorded targets: those of one symbol are those of a decision.
TargetChanges ==
    /\ \/ targets' \in {targets, stored, NoTargets}
       \/ \E t \in Streams : /\ at[t] = "record" /\ job[t] # 0
                             /\ targets' = RecordedTarget(job[t])
    /\ \/ stored' = stored
       \/ \E d \in saving : stored' = [stored EXCEPT ![made[d].symbol] = made[d].target]

\* What becomes of the sets of decisions.
SetChanges ==
    /\ \/ decided' = decided
       \/ \E t \in Streams : at[t] = "decision" /\ decided' = decided \cup {job[t]}
    /\ \/ orders' = orders
       \/ \E t \in Streams : at[t] = "order" /\ orders' = orders \cup {job[t]}
    /\ \/ saving' \subseteq saving
       \/ \E t \in Streams : at[t] = "record" /\ saving' = saving \cup {job[t]}
    /\ priced' \subseteq priced \cup Traded

LEMMA Changes ==
    ASSUME TypeOK, Groups, [Next]_vars
    PROVE  TargetChanges /\ SetChanges
<1>1. \A t \in Streams : at[t] = "record" => job[t] # 0
  BY DEF TypeOK, TaskTypes
<1>2. CASE UNCHANGED <<targets, stored, saving, decided, orders>> /\ priced' \subseteq priced
  BY <1>2 DEF TargetChanges, SetChanges
<1>3. ASSUME NEW y \in Symbols, PriceSeen(y)
      PROVE  TargetChanges /\ SetChanges
  BY <1>3 DEF PriceSeen, TargetChanges, SetChanges
<1>4. CASE Start
  BY <1>4 DEF Start, TargetChanges, SetChanges
<1>5. CASE Crash
  BY <1>5 DEF Crash, TargetChanges, SetChanges
<1>6. ASSUME NEW t \in Streams, PublishDecision(t) \/ PublishOrder(t)
      PROVE  TargetChanges /\ SetChanges
  BY <1>6 DEF PublishDecision, PublishOrder, TargetChanges, SetChanges
<1>7. ASSUME NEW t \in Streams, NEW i \in group[t].todo, Record(t, i)
      PROVE  TargetChanges /\ SetChanges
  BY <1>1, <1>7 DEF Record, TargetChanges, SetChanges
<1>8. ASSUME NEW d \in saving, Persist(d)
      PROVE  TargetChanges /\ SetChanges
  BY <1>8 DEF Persist, TargetChanges, SetChanges
<1>9. ASSUME NEW t \in Streams, NEW i \in group[t].todo,
             \/ PassOver(t, i) \/ Decide(t, i) \/ Return(t, i) \/ Late(t, i) \/ HandlerFails(t, i)
      PROVE  UNCHANGED <<targets, stored, saving, decided, orders>> /\ priced' \subseteq priced
  BY <1>9 DEF PassOver, Decide, Return, Late, HandlerFails
<1>10. ASSUME \/ (\E t \in Streams : \E sig \in Signals[t] : Publish(t, sig)) \/ Tick
              \/ (\E t \in Streams : Consume(t) \/ LoopError(t)) \/ UNCHANGED vars
       PROVE  UNCHANGED <<targets, stored, saving, decided, orders>> /\ priced' \subseteq priced
  BY <1>10 DEF Publish, Tick, Consume, LoopError, vars
<1> QED BY <1>2, <1>3, <1>4, <1>5, <1>6, <1>7, <1>8, <1>9, <1>10, Steps

LEMMA TargetTypesStep ==
    ASSUME TypeOK, Groups, [Next]_vars
    PROVE  TargetTypes'
<1>1. /\ targets \in [Symbols -> Targets] /\ stored \in [Symbols -> Targets]
      /\ NoTargets \in [Symbols -> Targets]
      /\ priced \subseteq Symbols /\ Traded \subseteq Symbols
      /\ saving \subseteq DOMAIN made /\ decided \subseteq DOMAIN made
      /\ orders \subseteq DOMAIN made /\ DOMAIN made \subseteq DOMAIN made'
      /\ TargetChanges /\ SetChanges
  BY Constants, MadeStep, Changes DEF TypeOK, TargetTypes, NoTargets
<1>2. \A d \in DOMAIN made : made[d].symbol \in Symbols /\ made[d].target \in Targets
  BY MadeStep DEF Decisions
<1>3. \A t \in Streams : at[t] \in {"decision", "order", "record"} => job[t] \in DOMAIN made
  BY JobFacts
<1>4. targets' \in [Symbols -> Targets]
  BY <1>1, <1>2, <1>3 DEF TargetChanges, RecordedTarget
<1>5. stored' \in [Symbols -> Targets]
  BY <1>1, <1>2 DEF TargetChanges
<1>6. /\ priced' \subseteq Symbols /\ saving' \subseteq DOMAIN made'
      /\ decided' \subseteq DOMAIN made' /\ orders' \subseteq DOMAIN made'
  BY <1>1, <1>3 DEF SetChanges
<1> QED BY <1>4, <1>5, <1>6, CacheStep, MadeStep DEF TargetTypes

-----------------------------------------------------------------------------
(* The history *)

LEMMA StreamsFinite == IsFiniteSet(Streams)
<1>1. IsFiniteSet({}) /\ IsFiniteSet({} \cup {"predict"})
  BY FS_EmptySet, FS_AddElement
<1>2. IsFiniteSet(({} \cup {"predict"}) \cup {"sentiment"})
  BY <1>1, FS_AddElement
<1>3. IsFiniteSet((({} \cup {"predict"}) \cup {"sentiment"}) \cup {"regime"})
  BY <1>2, FS_AddElement
<1>4. ((({} \cup {"predict"}) \cup {"sentiment"}) \cup {"regime"}) = Streams
  BY DEF Streams
<1> QED BY <1>3, <1>4

\* Times a target goes wrong are counted by naturals.
LEMMA SlipsStep ==
    ASSUME TypeOK, Groups, [Next]_vars
    PROVE  slips' \in [Symbols -> Nat]
<1>1. /\ slips \in [Symbols -> Nat] /\ stored \in [Symbols -> Targets]
      /\ targets \in [Symbols -> Targets]
  BY DEF TypeOK, HistoryTypes, TargetTypes
<1>2. \A y \in Symbols : Cardinality(Unrecorded(y)) \in Nat
  BY StreamsFinite, FS_Subset, FS_CardinalityType DEF Unrecorded
<1>3. CASE Start
  BY <1>1, <1>3 DEF Start
<1>4. CASE Crash
  <2>1. slips' = [y \in Symbols |-> slips[y] + Cardinality(Unrecorded(y))
                                       + IF stored[y] = targets[y] THEN 0 ELSE 1]
    BY <1>4 DEF Crash
  <2> QED BY <1>1, <1>2, <2>1
<1>5. ASSUME NEW t \in Streams, NEW i \in group[t].todo, Decide(t, i)
      PROVE  slips' \in [Symbols -> Nat]
  <2>1. PICK y \in Symbols :
            slips' = [slips EXCEPT ![y] = IF Underway(y) = {} THEN @ ELSE @ + 1]
    BY <1>5, DecideFacts
  <2> QED BY <1>1, <2>1
<1>6. ASSUME NEW t \in Streams, NEW i \in group[t].todo, HandlerFails(t, i)
      PROVE  slips' \in [Symbols -> Nat]
  <2>1. PICK y : y = made[job[t]].symbol
    OBVIOUS
  <2>2. job[t] # 0 /\ slips' = [slips EXCEPT ![y] = IF at[t] = "record" THEN @ + 1 ELSE @]
    BY <1>6, <2>1 DEF HandlerFails
  <2>3. y \in Symbols
    BY <2>1, <2>2, JobFacts
  <2> QED BY <1>1, <2>2, <2>3
<1>7. ASSUME NEW t \in Streams, NEW i \in group[t].todo,
             PassOver(t, i) \/ Record(t, i) \/ Return(t, i) \/ Late(t, i)
      PROVE  slips' = slips
  BY <1>7 DEF PassOver, Record, Return, Late, history
<1>8. ASSUME \/ (\E t \in Streams : \E sig \in Signals[t] : Publish(t, sig)) \/ Tick
             \/ (\E y \in Symbols : PriceSeen(y))
             \/ (\E t \in Streams : \/ Consume(t) \/ LoopError(t)
                                    \/ PublishDecision(t) \/ PublishOrder(t))
             \/ (\E d \in saving : Persist(d)) \/ UNCHANGED vars
      PROVE  slips' = slips
  BY <1>8 DEF Publish, Tick, PriceSeen, Consume, LoopError, PublishDecision, PublishOrder, Persist, vars,
     history
<1> QED BY <1>1, <1>3, <1>4, <1>5, <1>6, <1>7, <1>8, Steps

LEMMA NetStep ==
    ASSUME TypeOK, Groups, [Next]_vars
    PROVE  net' \in [Symbols -> Int]
<1>1. net \in [Symbols -> Int]
  BY DEF TypeOK, HistoryTypes
<1>2. ASSUME NEW t \in Streams, PublishOrder(t)
      PROVE  net' \in [Symbols -> Int]
  <2>1. at[t] = "order" /\ net' = [net EXCEPT ![made[job[t]].symbol] = @ + made[job[t]].delta]
    BY <1>2 DEF PublishOrder
  <2>2. PICK y \in Symbols, delta \in Int : y = made[job[t]].symbol /\ delta = made[job[t]].delta
    BY <2>1, JobFacts
  <2>3. net' = [net EXCEPT ![y] = @ + delta]
    BY <2>1, <2>2
  <2> QED BY <1>1, <2>3
<1>3. ASSUME NEW t \in Streams, NEW i \in group[t].todo,
             \/ PassOver(t, i) \/ Decide(t, i) \/ Record(t, i) \/ Return(t, i) \/ Late(t, i)
             \/ HandlerFails(t, i)
      PROVE  net' = net
  BY <1>3 DEF PassOver, Decide, Record, Return, Late, HandlerFails, history
<1>4. ASSUME \/ (\E t \in Streams : \E sig \in Signals[t] : Publish(t, sig)) \/ Tick \/ Start
             \/ Crash \/ (\E y \in Symbols : PriceSeen(y))
             \/ (\E t \in Streams : Consume(t) \/ LoopError(t) \/ PublishDecision(t))
             \/ (\E d \in saving : Persist(d)) \/ UNCHANGED vars
      PROVE  net' = net
  BY <1>4 DEF Publish, Tick, Start, Crash, PriceSeen, Consume, LoopError, PublishDecision, Persist, vars,
     history
<1> QED BY <1>1, <1>2, <1>3, <1>4, Steps

LEMMA DueStep ==
    ASSUME TypeOK, Groups, [Next]_vars
    PROVE  due' \in [Symbols -> SUBSET Targets]
<1>1. due \in [Symbols -> SUBSET Targets]
  BY DEF TypeOK, HistoryTypes
<1>2. ASSUME NEW y \in Symbols, NEW goal \in Targets, due' = [due EXCEPT ![y] = Due(y, goal)]
      PROVE  due' \in [Symbols -> SUBSET Targets]
  <2>1. PICK S \in SUBSET Targets : S = Due(y, goal)
    BY DEF Due
  <2>2. due' = [due EXCEPT ![y] = S]
    BY <1>2, <2>1
  <2> QED BY <1>1, <2>2
<1>3. ASSUME NEW t \in Streams, NEW i \in group[t].todo, Decide(t, i)
      PROVE  due' \in [Symbols -> SUBSET Targets]
  <2>1. PICK y \in Symbols : y = Head(Todo(t, i))
    BY <1>3, DecideFacts
  <2>2. \E goal \in Targets : due' = [due EXCEPT ![y] = Due(y, goal)]
    BY <1>3, <2>1 DEF Decide
  <2> QED BY <1>2, <2>2
<1>4. ASSUME NEW t \in Streams, NEW i \in group[t].todo, PassOver(t, i)
      PROVE  due' \in [Symbols -> SUBSET Targets]
  <2>1. Todo(t, i) # <<>>
    BY <1>4 DEF PassOver
  <2>2. PICK y \in Symbols : y = Head(Todo(t, i))
    BY <2>1, InHandFacts
  <2>3. \/ due' = [due EXCEPT ![y] = {}]
        \/ \E goal \in Targets : due' = [due EXCEPT ![y] = Due(y, goal)]
    BY <1>4, <2>2 DEF PassOver
  <2> QED BY <1>1, <1>2, <2>2, <2>3
<1>5. ASSUME NEW t \in Streams, NEW i \in group[t].todo,
             Record(t, i) \/ Return(t, i) \/ Late(t, i) \/ HandlerFails(t, i)
      PROVE  due' = due
  BY <1>5 DEF Record, Return, Late, HandlerFails, history
<1>6. ASSUME \/ (\E t \in Streams : \E sig \in Signals[t] : Publish(t, sig)) \/ Tick \/ Start
             \/ (\E y \in Symbols : PriceSeen(y))
             \/ (\E t \in Streams : \/ Consume(t) \/ LoopError(t)
                                    \/ PublishDecision(t) \/ PublishOrder(t))
             \/ (\E d \in saving : Persist(d)) \/ UNCHANGED vars
      PROVE  due' = due
  BY <1>6 DEF Publish, Tick, Start, PriceSeen, Consume, LoopError, PublishDecision, PublishOrder, Persist,
     vars, history
<1>7. Crash => due' \in [Symbols -> SUBSET Targets]
  BY DEF Crash
<1> QED BY <1>1, <1>3, <1>4, <1>5, <1>6, <1>7, Steps

\* Which signals were considered: one more at most, of a task that has it in hand.
ConsideredChanges ==
    \/ considered' = considered
    \/ \E t \in Streams, y \in Symbols : \E i \in group[t].todo :
           considered' = [considered EXCEPT ![t] = @ \cup {<<i, y>>}]

LEMMA ConsideredStep ==
    ASSUME TypeOK, Groups, [Next]_vars
    PROVE  /\ ConsideredChanges /\ considered' \in [Streams -> SUBSET (Nat \X Symbols)]
           /\ \A t \in Streams : considered[t] \subseteq considered'[t]
<1>1. considered \in [Streams -> SUBSET (Nat \X Symbols)]
  BY DEF TypeOK, HistoryTypes
<1>2. ASSUME NEW t \in Streams, NEW i \in group[t].todo, PassOver(t, i)
      PROVE  ConsideredChanges
  <2>1. /\ Todo(t, i) # <<>>
        /\ considered' = [considered EXCEPT ![t] = @ \cup {<<i, Head(Todo(t, i))>>}]
    BY <1>2 DEF PassOver
  <2> QED BY <2>1, InHandFacts DEF ConsideredChanges
<1>3. ASSUME NEW t \in Streams, NEW i \in group[t].todo, Record(t, i)
      PROVE  ConsideredChanges
  <2>1. /\ at[t] = "record"
        /\ considered' = [considered EXCEPT ![t] = @ \cup {<<i, made[job[t]].symbol>>}]
    BY <1>3 DEF Record
  <2>2. made[job[t]].symbol \in Symbols
    BY <2>1, JobFacts
  <2> QED BY <2>1, <2>2 DEF ConsideredChanges
<1>4. ASSUME NEW t \in Streams, NEW i \in group[t].todo,
             Decide(t, i) \/ Return(t, i) \/ Late(t, i) \/ HandlerFails(t, i)
      PROVE  considered' = considered
  BY <1>4 DEF Decide, Return, Late, HandlerFails, history
<1>5. ASSUME \/ (\E t \in Streams : \E sig \in Signals[t] : Publish(t, sig)) \/ Tick \/ Start
             \/ Crash \/ (\E y \in Symbols : PriceSeen(y))
             \/ (\E t \in Streams : \/ Consume(t) \/ LoopError(t)
                                    \/ PublishDecision(t) \/ PublishOrder(t))
             \/ (\E d \in saving : Persist(d)) \/ UNCHANGED vars
      PROVE  considered' = considered
  BY <1>5 DEF Publish, Tick, Start, Crash, PriceSeen, Consume, LoopError, PublishDecision, PublishOrder,
     Persist, vars, history
<1>6. CASE considered' = considered
  BY <1>1, <1>6 DEF ConsideredChanges
<1>7. ConsideredChanges
  BY <1>2, <1>3, <1>4, <1>5, Steps DEF ConsideredChanges
<1>8. ASSUME NEW t \in Streams, NEW y \in Symbols, NEW i \in group[t].todo,
             considered' = [considered EXCEPT ![t] = @ \cup {<<i, y>>}]
      PROVE  /\ considered' \in [Streams -> SUBSET (Nat \X Symbols)]
             /\ \A u \in Streams : considered[u] \subseteq considered'[u]
  <2>1. i \in Nat
    BY InHandFacts
  <2> QED BY <1>1, <1>8, <2>1
<1> QED BY <1>1, <1>7, <1>8 DEF ConsideredChanges

LEMMA FailuresStep ==
    ASSUME TypeOK, Groups, [Next]_vars
    PROVE  failures' \in 0 .. MaxFailures
<1>1. failures \in 0 .. MaxFailures /\ MaxFailures \in Nat
  BY Constants DEF TypeOK, HistoryTypes
<1>2. ASSUME NEW t \in Streams, NEW i \in group[t].todo,
             \/ PassOver(t, i) \/ Decide(t, i) \/ Record(t, i) \/ Return(t, i) \/ Late(t, i)
             \/ HandlerFails(t, i)
      PROVE  failures' = failures \/ Failure
  BY <1>2 DEF PassOver, Decide, Record, Return, Late, HandlerFails
<1>3. ASSUME \/ (\E t \in Streams : \E sig \in Signals[t] : Publish(t, sig)) \/ Tick \/ Start
             \/ Crash \/ (\E y \in Symbols : PriceSeen(y))
             \/ (\E t \in Streams : \/ Consume(t) \/ LoopError(t)
                                    \/ PublishDecision(t) \/ PublishOrder(t))
             \/ (\E d \in saving : Persist(d)) \/ UNCHANGED vars
      PROVE  failures' = failures \/ Failure
  BY <1>3 DEF Publish, Tick, Start, Crash, PriceSeen, Consume, LoopError, PublishDecision, PublishOrder,
     Persist, vars
<1>4. failures' = failures \/ Failure
  BY <1>2, <1>3, Steps
<1> QED BY <1>1, <1>4 DEF Failure

LEMMA TypesStep ==
    ASSUME TypeOK, Groups, [Next]_vars, Groups'
    PROVE  TypeOK'
<1>1. SignalTypes'
  BY SentStep DEF SignalTypes
<1>2. \A t \in Streams : group'[t] \in GroupType(Len(sent'[t]))
  BY DEF Groups, WellFormed
<1>3. DOMAIN group' = Streams
  <2>1. DOMAIN group = Streams
    BY DEF TypeOK, TaskTypes
  <2>2. ASSUME NEW t \in Streams, Consume(t) \/ LoopError(t)
        PROVE  DOMAIN group' = Streams
    BY <2>1, <2>2 DEF Consume, LoopError
  <2>3. ASSUME NEW t \in Streams, NEW i \in group[t].todo,
               \/ PassOver(t, i) \/ Decide(t, i) \/ Record(t, i) \/ Return(t, i) \/ Late(t, i)
               \/ HandlerFails(t, i)
        PROVE  DOMAIN group' = Streams
    BY <2>1, <2>3 DEF PassOver, Decide, Record, Return, Late, HandlerFails
  <2>4. ASSUME \/ (\E t \in Streams : \E sig \in Signals[t] : Publish(t, sig)) \/ Tick \/ Start
               \/ Crash \/ (\E y \in Symbols : PriceSeen(y))
               \/ (\E t \in Streams : PublishDecision(t) \/ PublishOrder(t))
               \/ (\E d \in saving : Persist(d)) \/ UNCHANGED vars
        PROVE  DOMAIN group' = Streams
    BY <2>1, <2>4 DEF Publish, Tick, Start, Crash, PriceSeen, PublishDecision, PublishOrder,
       Persist, vars, taskVars
  <2> QED BY <2>2, <2>3, <2>4, Steps
<1>4. TaskTypes'
  BY <1>2, <1>3, SentStep, FlowStep DEF TaskTypes, FlowTypes, Places
<1>5. HistoryTypes'
  BY SlipsStep, NetStep, DueStep, ConsideredStep, FailuresStep DEF HistoryTypes
<1> QED BY <1>1, <1>4, <1>5, TargetTypesStep DEF TypeOK

-----------------------------------------------------------------------------
(* Recorded targets were ordered *)

\* A task reaches the place after a publication by way of it.
LEMMA OrderMoves ==
    ASSUME TypeOK, Groups, [Next]_vars
    PROVE  \A t \in Streams :
               /\ at'[t] = "order" =>
                      /\ job'[t] = job[t]
                      /\ at[t] = "order" \/ job[t] \in decided'
               /\ at'[t] = "record" =>
                      /\ job'[t] = job[t]
                      /\ at[t] = "record" \/ (at[t] = "order" /\ job[t] \in orders')
<1>1. at \in [Streams -> Places] /\ job \in [Streams -> 0 .. Len(made)]
  BY DEF TypeOK, TaskTypes, Places
<1> DEFINE Goal == \A t \in Streams :
               /\ at'[t] = "order" =>
                      /\ job'[t] = job[t]
                      /\ at[t] = "order" \/ job[t] \in decided'
               /\ at'[t] = "record" =>
                      /\ job'[t] = job[t]
                      /\ at[t] = "record" \/ (at[t] = "order" /\ job[t] \in orders')
<1>2. ASSUME NEW t \in Streams, PublishDecision(t) \/ PublishOrder(t)
      PROVE  Goal
  BY <1>1, <1>2 DEF PublishDecision, PublishOrder
<1>3. ASSUME NEW t \in Streams, NEW i \in group[t].todo,
             PassOver(t, i) \/ Record(t, i) \/ Return(t, i) \/ Late(t, i) \/ HandlerFails(t, i)
      PROVE  Goal
  BY <1>1, <1>3 DEF PassOver, Record, Return, Late, HandlerFails
<1>4. ASSUME NEW t \in Streams, NEW i \in group[t].todo, Decide(t, i)
      PROVE  Goal
  BY <1>1, <1>4, DecideFacts
<1>5. CASE Crash
  BY <1>5 DEF Crash
<1>6. ASSUME \/ (\E t \in Streams : \E sig \in Signals[t] : Publish(t, sig)) \/ Tick \/ Start
             \/ (\E y \in Symbols : PriceSeen(y)) \/ (\E t \in Streams : Consume(t) \/ LoopError(t))
             \/ (\E d \in saving : Persist(d)) \/ UNCHANGED vars
      PROVE  at' = at /\ job' = job
  BY <1>6 DEF Publish, Tick, Start, PriceSeen, Consume, LoopError, Persist, vars, taskVars
<1>7. CASE at' = at /\ job' = job
  BY <1>7
<1>8. Crash => Goal
  BY <1>5
<1>9. at' = at /\ job' = job => Goal
  BY <1>7
<1> HIDE DEF Goal
<1>10. Goal
  BY <1>2, <1>3, <1>4, <1>6, <1>8, <1>9, Steps
<1> QED BY <1>10 DEF Goal

LEMMA OrderedStep ==
    ASSUME TypeOK, Groups, Ordered, [Next]_vars
    PROVE  Ordered'
<1>1. SetChanges /\ decided \subseteq decided' /\ orders \subseteq orders'
  BY Changes DEF SetChanges
<1>2. \A t \in Streams : at'[t] = "order" => job'[t] \in decided'
  BY <1>1, OrderMoves DEF Ordered
<1>3. \A t \in Streams : at'[t] = "record" => job'[t] \in decided' \cap orders'
  BY <1>1, OrderMoves DEF Ordered
<1>4. saving' \subseteq decided' \cap orders'
  BY <1>1 DEF SetChanges, Ordered
<1> QED BY <1>2, <1>3, <1>4 DEF Ordered

\* v is zero or the target of a decision on y that went out with its intent.
Backs(y, v) ==
    v = 0 \/ \E d \in orders \cap decided : made[d].symbol = y /\ made[d].target = v

LEMMA BacksMeans == RecordedWasOrdered <=> \A y \in Symbols : Backs(y, targets[y]) /\ Backs(y, stored[y])
  BY DEF RecordedWasOrdered, Backs

LEMMA RecordedStep ==
    ASSUME TypeOK, Groups, Ordered, RecordedWasOrdered, [Next]_vars
    PROVE  RecordedWasOrdered'
<1>1. \A y \in Symbols : Backs(y, targets[y]) /\ Backs(y, stored[y])
  BY BacksMeans
<1>2. /\ targets \in [Symbols -> Targets] /\ stored \in [Symbols -> Targets]
      /\ orders \subseteq DOMAIN made /\ decided \subseteq DOMAIN made
      /\ decided \subseteq decided' /\ orders \subseteq orders'
      /\ \A d \in DOMAIN made : made'[d] = made[d] /\ made[d] \in Decisions
  BY Changes, MadeStep DEF TypeOK, TargetTypes, SetChanges
<1>3. ASSUME NEW y \in Symbols, NEW v, Backs(y, v)
      PROVE  Backs(y, v)'
  BY <1>2, <1>3 DEF Backs
<1>4. ASSUME NEW d \in orders \cap decided
      PROVE  made[d].symbol \in Symbols /\ Backs(made[d].symbol, made[d].target)
  BY <1>2, <1>4 DEF Backs, Decisions
<1>5. ASSUME NEW f \in [Symbols -> Targets], NEW d \in orders \cap decided,
             \A y \in Symbols : Backs(y, f[y]), NEW y \in Symbols
      PROVE  Backs(y, [f EXCEPT ![made[d].symbol] = made[d].target][y])
  BY <1>4, <1>5
<1>6. \A y \in Symbols : Backs(y, NoTargets[y])
  BY DEF NoTargets, Backs
<1>7. \A y \in Symbols : Backs(y, targets'[y])
  <2>1. CASE targets' \in {targets, stored, NoTargets}
    BY <1>1, <1>6, <2>1
  <2>2. CASE \E t \in Streams : at[t] = "record" /\ targets' = RecordedTarget(job[t])
    <3>1. PICK d \in orders \cap decided :
              targets' = [targets EXCEPT ![made[d].symbol] = made[d].target]
      BY <2>2 DEF Ordered, RecordedTarget
    <3> QED BY <1>1, <1>2, <1>5, <3>1
  <2> QED BY <2>1, <2>2, Changes DEF TargetChanges
<1>8. \A y \in Symbols : Backs(y, stored'[y])
  <2>1. CASE stored' = stored
    BY <1>1, <2>1
  <2>2. CASE \E d \in saving : stored' = [stored EXCEPT ![made[d].symbol] = made[d].target]
    <3>1. PICK d \in orders \cap decided :
              stored' = [stored EXCEPT ![made[d].symbol] = made[d].target]
      BY <2>2 DEF Ordered
    <3> QED BY <1>1, <1>2, <1>5, <3>1
  <2> QED BY <2>1, <2>2, Changes DEF TargetChanges
<1>9. ASSUME NEW y \in Symbols
      PROVE  Backs(y, targets[y])' /\ Backs(y, stored[y])'
  <2>1. PICK v, w : v = targets'[y] /\ w = stored'[y]
    OBVIOUS
  <2>2. Backs(y, v)' /\ Backs(y, w)'
    BY <1>3, <1>7, <1>8, <2>1
  <2> QED BY <2>1, <2>2 DEF Backs
<1> QED BY <1>9, BacksMeans DEF RecordedWasOrdered, Backs

-----------------------------------------------------------------------------
(* What is acknowledged was considered *)

\* l is the end of s, and the symbols of s before it are in C, for signal i.
Ahead(s, l, C, i) ==
    /\ Len(l) <= Len(s)
    /\ \A k \in 1 .. Len(l) : l[k] = s[Len(s) - Len(l) + k]
    /\ \A k \in 1 .. Len(s) - Len(l) : <<i, s[k]>> \in C

\* One symbol further: its head is the symbol just passed.
LEMMA OneFurther ==
    ASSUME NEW s \in Seq(Symbols), NEW l \in Seq(Symbols), l # <<>>, NEW C, NEW i,
           Ahead(s, l, C, i)
    PROVE  /\ Tail(l) \in Seq(Symbols) /\ Len(Tail(l)) <= Len(s)
           /\ \A k \in 1 .. Len(Tail(l)) : Tail(l)[k] = s[Len(s) - Len(Tail(l)) + k]
           /\ \A k \in 1 .. Len(s) - Len(Tail(l)) :
                  \/ <<i, s[k]>> \in C
                  \/ k = Len(s) - Len(Tail(l)) /\ s[k] = Head(l)
<1>1. /\ Len(l) \in Nat \ {0} /\ Len(s) \in Nat /\ Len(l) <= Len(s)
      /\ Tail(l) \in Seq(Symbols) /\ Len(Tail(l)) = Len(l) - 1 /\ Head(l) = l[1]
      /\ \A k \in 1 .. Len(Tail(l)) : Tail(l)[k] = l[k + 1]
  BY DEF Ahead
<1>2. \A k \in 1 .. Len(l) : l[k] = s[Len(s) - Len(l) + k]
  BY DEF Ahead
<1>3. ASSUME NEW k \in 1 .. Len(Tail(l))
      PROVE  Tail(l)[k] = s[Len(s) - Len(Tail(l)) + k]
  <2>1. k + 1 \in 1 .. Len(l) /\ Tail(l)[k] = l[k + 1]
    BY <1>1
  <2>2. l[k + 1] = s[Len(s) - Len(l) + (k + 1)]
    BY <1>2, <2>1
  <2>3. Len(s) - Len(l) + (k + 1) = Len(s) - Len(Tail(l)) + k
    BY <1>1
  <2> QED BY <2>1, <2>2, <2>3
<1>4. ASSUME NEW k \in 1 .. Len(s) - Len(Tail(l))
      PROVE  <<i, s[k]>> \in C \/ (k = Len(s) - Len(Tail(l)) /\ s[k] = Head(l))
  <2>1. CASE k \in 1 .. Len(s) - Len(l)
    BY <2>1 DEF Ahead
  <2>2. CASE k = Len(s) - Len(Tail(l))
    <3>1. k = Len(s) - Len(l) + 1 /\ 1 \in 1 .. Len(l)
      BY <1>1, <2>2
    <3> QED BY <1>1, <1>2, <2>2, <3>1
  <2> QED BY <1>1, <2>1, <2>2
<1> QED BY <1>1, <1>3, <1>4

\* Between two symbols, what is left of the signal in hand is what was not considered.
LEMMA TodoAhead ==
    ASSUME IInv, NEW t \in Streams, NEW i \in group[t].todo, InHand(group[t], i),
           at[t] \in {"rest", "next"}
    PROVE  /\ sent[t][i].symbols \in Seq(Symbols)
           /\ Ahead(sent[t][i].symbols, Todo(t, i), considered[t], i)
<1>1. sent[t][i].symbols \in Seq(Symbols)
  BY InHandFacts DEF IInv, Stamped
<1>2. CASE at[t] = "rest"
  BY <1>1, <1>2 DEF Todo, Ahead
<1>3. CASE at[t] = "next"
  <2>1. job[t] = 0 /\ Todo(t, i) = left[t] /\ Standing(t, i)
    BY <1>3 DEF IInv, TypeOK, TaskTypes, Todo, Progress
  <2> QED BY <1>1, <2>1 DEF Standing, Ahead
<1> QED BY <1>1, <1>2, <1>3

\* What a task with a signal in hand did in one step.
LEMMA TaskCases ==
    ASSUME TypeOK, Groups, [Next]_vars, NEW t \in Streams, at'[t] # "rest"
    PROVE  /\ group'[t] = group[t]
           /\ \/ at[t] # "rest" /\ left'[t] = left[t] /\ job'[t] = job[t]
              \/ \E i \in group[t].todo : PassOver(t, i) \/ Decide(t, i) \/ Record(t, i)
<1> DEFINE Goal == /\ group'[t] = group[t]
                   /\ \/ at[t] # "rest" /\ left'[t] = left[t] /\ job'[t] = job[t]
                      \/ \E i \in group[t].todo : PassOver(t, i) \/ Decide(t, i) \/ Record(t, i)
<1>1. /\ at \in [Streams -> Places] /\ left \in [Streams -> Seq(Symbols)]
      /\ job \in [Streams -> 0 .. Len(made)] /\ DOMAIN group = Streams
  BY DEF TypeOK, TaskTypes, Places
<1>2. ASSUME NEW u \in Streams, Consume(u) \/ LoopError(u)
      PROVE  Goal
  BY <1>1, <1>2 DEF Consume, LoopError
<1>3. ASSUME NEW u \in Streams, PublishDecision(u) \/ PublishOrder(u)
      PROVE  Goal
  BY <1>1, <1>3 DEF PublishDecision, PublishOrder
<1>4. ASSUME NEW u \in Streams, NEW i \in group[u].todo, PassOver(u, i) \/ Record(u, i)
      PROVE  Goal
  <2>1. CASE u = t
    BY <1>4, <2>1 DEF PassOver, Record
  <2>2. CASE u # t
    BY <1>1, <1>4, <2>2 DEF PassOver, Record
  <2> QED BY <2>1, <2>2
<1>5. ASSUME NEW u \in Streams, NEW i \in group[u].todo, Decide(u, i)
      PROVE  Goal
  <2>1. CASE u = t
    BY <1>5, <2>1 DEF Decide
  <2>2. CASE u # t
    BY <1>1, <1>5, <2>2, DecideFacts DEF Decide
  <2> QED BY <2>1, <2>2
<1>6. ASSUME NEW u \in Streams, NEW i \in group[u].todo,
             Return(u, i) \/ Late(u, i) \/ HandlerFails(u, i)
      PROVE  Goal
  BY <1>1, <1>6 DEF Return, Late, HandlerFails
<1>7. ~Crash
  BY DEF Crash
<1>8. ASSUME \/ (\E u \in Streams : \E sig \in Signals[u] : Publish(u, sig)) \/ Tick \/ Start
             \/ (\E y \in Symbols : PriceSeen(y))
             \/ (\E d \in saving : Persist(d)) \/ UNCHANGED vars
      PROVE  UNCHANGED <<group, at, left, job>>
  BY <1>8 DEF Publish, Tick, Start, PriceSeen, Persist, vars, taskVars
<1>9. ASSUME UNCHANGED <<group, at, left, job>>
      PROVE  Goal
  BY <1>9
<1> HIDE DEF Goal
<1>10. Goal
  BY <1>2, <1>3, <1>4, <1>5, <1>6, <1>7, <1>8, <1>9, Steps
<1> QED BY <1>10 DEF Goal

\* A task that works on a signal stands where Standing says.
LEMMA StandingStep ==
    ASSUME IInv, [Next]_vars, NEW t \in Streams, at'[t] # "rest",
           NEW i \in group'[t].todo, InHand(group'[t], i)
    PROVE  Standing(t, i)'
<1>1. TypeOK /\ Groups /\ Progress
  BY DEF IInv
<1>2. group'[t] = group[t] /\ i \in group[t].todo /\ InHand(group[t], i)
  BY <1>1, TaskCases DEF InHand
<1>3. /\ sent[t][i].symbols \in Seq(Symbols) /\ sent'[t][i] = sent[t][i]
      /\ considered[t] \subseteq considered'[t]
      /\ \A d \in DOMAIN made : made'[d] = made[d]
  BY <1>1, <1>2, InHandFacts, SentStep, ConsideredStep, MadeStep DEF Stamped
<1>4. PICK s \in Seq(Symbols) : s = sent[t][i].symbols
  BY <1>3
<1>5. ASSUME at[t] # "rest", left'[t] = left[t], job'[t] = job[t]
      PROVE  Standing(t, i)'
  <2>1. Standing(t, i)
    BY <1>1, <1>2, <1>5 DEF Progress
  <2>2. job[t] # 0 => made'[job[t]] = made[job[t]]
    BY <1>1, <1>3, JobFacts
  <2> QED BY <1>3, <1>5, <2>1, <2>2 DEF Standing
<1>6. ASSUME NEW j \in group[t].todo, PassOver(t, j) \/ Decide(t, j)
      PROVE  Standing(t, i)'
  <2>1. /\ j = i /\ at[t] \in {"rest", "next"} /\ Todo(t, i) # <<>>
        /\ left'[t] = Tail(Todo(t, i))
    <3>1. /\ InHand(group[t], j) /\ at[t] \in {"rest", "next"} /\ Todo(t, j) # <<>>
          /\ left' = [left EXCEPT ![t] = Tail(Todo(t, j))]
      BY <1>6 DEF PassOver, Decide
    <3>2. j = i
      <4>1. i \in Int /\ j \in Int /\ i <= j /\ j <= i
        BY <1>1, <1>2, <3>1, InHandFacts DEF InHand
      <4> QED BY <4>1
    <3> QED BY <1>1, <3>1, <3>2 DEF TypeOK, TaskTypes
  <2>2. PICK l \in Seq(Symbols) : l = Todo(t, i)
    BY <1>1, <1>2, InHandFacts
  <2>3. l # <<>> /\ Ahead(s, l, considered[t], i)
    BY <1>2, <1>4, <2>1, <2>2, TodoAhead
  <2>4. /\ Tail(l) \in Seq(Symbols) /\ Len(Tail(l)) <= Len(s)
        /\ \A k \in 1 .. Len(Tail(l)) : Tail(l)[k] = s[Len(s) - Len(Tail(l)) + k]
        /\ \A k \in 1 .. Len(s) - Len(Tail(l)) :
               <<i, s[k]>> \in considered[t] \/ (k = Len(s) - Len(Tail(l)) /\ s[k] = Head(l))
    <3>1. PICK C : C = considered[t]
      OBVIOUS
    <3> QED BY <2>3, <3>1, OneFurther
  <2>5. \/ <<i, Head(l)>> \in considered'[t]
        \/ job'[t] # 0 /\ made'[job'[t]].symbol = Head(l)
    <3>1. CASE PassOver(t, j)
      <4>1. considered' = [considered EXCEPT ![t] = @ \cup {<<j, Head(Todo(t, j))>>}]
        BY <3>1 DEF PassOver
      <4>2. DOMAIN considered = Streams
        BY <1>1 DEF TypeOK, HistoryTypes
      <4> QED BY <2>1, <2>2, <4>1, <4>2
    <3>2. CASE Decide(t, j)
      <4>1. /\ \E d \in Decisions : d.symbol = Head(l) /\ made' = Append(made, d)
            /\ job' = [job EXCEPT ![t] = Len(made) + 1]
        <5>1. \E goal \in Targets :
                  /\ made' = Append(made, [symbol |-> Head(l), target |-> goal,
                                           delta |-> goal - targets[Head(l)]])
                  /\ [symbol |-> Head(l), target |-> goal,
                      delta |-> goal - targets[Head(l)]] \in Decisions
          BY <1>1, <2>1, <2>2, <3>2, DecideFacts
        <5> QED BY <1>1, <3>2, <5>1, DecideFacts
      <4>2. made \in Seq(Decisions) /\ DOMAIN job = Streams
        BY <1>1 DEF TypeOK, TargetTypes, TaskTypes
      <4>3. made'[Len(made) + 1].symbol = Head(l)
        BY <4>1, <4>2
      <4> QED BY <4>1, <4>2, <4>3
    <3> QED BY <1>6, <3>1, <3>2
  <2> QED BY <1>3, <1>4, <2>1, <2>2, <2>4, <2>5 DEF Standing
<1>7. ASSUME NEW j \in group[t].todo, Record(t, j)
      PROVE  Standing(t, i)'
  <2>1. /\ InHand(group[t], j) /\ at[t] = "record"
        /\ considered' = [considered EXCEPT ![t] = @ \cup {<<j, made[job[t]].symbol>>}]
        /\ left' = left
    BY <1>7 DEF Record
  <2>2. j = i
    <3>1. i \in Int /\ j \in Int /\ i <= j /\ j <= i
      BY <1>1, <1>2, <2>1, InHandFacts DEF InHand
    <3> QED BY <3>1
  <2>3. <<i, made[job[t]].symbol>> \in considered'[t]
    <3>1. DOMAIN considered = Streams
      BY <1>1 DEF TypeOK, HistoryTypes
    <3> QED BY <2>1, <2>2, <3>1
  <2>4. Standing(t, i)
    BY <1>1, <1>2, <2>1 DEF Progress
  <2> QED BY <1>3, <2>1, <2>3, <2>4 DEF Standing
<1> QED BY <1>1, <1>5, <1>6, <1>7, TaskCases

\* A signal counts as done when its task returned from it with nothing left.
LEMMA DoneStep ==
    ASSUME IInv, [Next]_vars, NEW t \in Streams, NEW i \in group'[t].done
    PROVE  \/ i \in group[t].done
           \/ i \in group[t].todo /\ InHand(group[t], i) /\ at[t] = "next" /\ left[t] = <<>>
<1> DEFINE Goal == \/ i \in group[t].done
                   \/ /\ i \in group[t].todo /\ InHand(group[t], i)
                      /\ at[t] = "next" /\ left[t] = <<>>
<1>1. /\ TypeOK /\ Groups /\ DOMAIN group = Streams /\ Batch \in Nat \ {0}
      /\ Len(sent[t]) \in Nat /\ WellFormed(group[t], Len(sent[t]))
  BY Constants DEF IInv, Groups, TypeOK, TaskTypes
<1>2. PICK n, g, h : n \in Nat /\ n = Len(sent[t]) /\ g = group[t] /\ h = group'[t]
  BY <1>1
<1>3. WellFormed(g, n)
  BY <1>1, <1>2
<1>4. ASSUME NEW u \in Streams, Consume(u)
      PROVE  Goal
  <2>1. h = g \/ h \in Consumed(g, n, Batch)
    BY <1>1, <1>2, <1>4 DEF Consume
  <2>2. h \in Consumed(g, n, Batch) => h.done = {}
    BY <1>1, <1>2, <1>3, ConsumedFacts
  <2> QED BY <1>2, <2>1, <2>2
<1>5. ASSUME NEW u \in Streams, NEW j \in group[u].todo, Return(u, j)
      PROVE  Goal
  <2>1. CASE u = t
    <3>1. h = Handled(g, j) /\ j \in g.todo
      BY <1>1, <1>2, <1>5, <2>1 DEF Return
    <3>2. h.done \subseteq g.done \cup {j}
      BY <1>2, <1>3, <3>1, HandlerEndFacts
    <3> QED BY <1>2, <1>5, <2>1, <3>2 DEF Return
  <2>2. CASE u # t
    BY <1>1, <1>5, <2>2 DEF Return
  <2> QED BY <2>1, <2>2
<1>6. ASSUME NEW u \in Streams, NEW j \in group[u].todo, Late(u, j)
      PROVE  Goal
  <2>1. h = g \/ h = Abandoned(g)
    BY <1>1, <1>2, <1>6 DEF Late
  <2> QED BY <1>2, <1>3, <2>1, AbandonedFacts
<1>13. ASSUME NEW u \in Streams, LoopError(u)
       PROVE  Goal
  <2>1. h = g \/ h = Abandoned(g)
    BY <1>1, <1>2, <1>13 DEF LoopError
  <2> QED BY <1>2, <1>3, <2>1, AbandonedFacts
<1>7. ASSUME NEW u \in Streams, NEW j \in group[u].todo, HandlerFails(u, j)
      PROVE  Goal
  <2>1. h = g \/ (j \in g.todo /\ (h = Failed(g, j) \/ h = GivenUp(g, j)))
    BY <1>1, <1>2, <1>7 DEF HandlerFails, Raised
  <2>2. h.done = g.done
    <3>1. j \in g.todo => j \in g.pel \ g.done
      BY <1>3 DEF WellFormed
    <3> QED BY <1>2, <1>3, <2>1, <3>1, HandlerEndFacts, GivenUpFacts
  <2> QED BY <1>2, <2>2
<1>8. ASSUME Crash
      PROVE  Goal
  <2>1. h = Abandoned(g)
    BY <1>2, <1>8 DEF Crash
  <2> QED BY <1>2, <1>3, <2>1, AbandonedFacts
<1>9. ASSUME NEW u \in Streams, NEW j \in group[u].todo,
             PassOver(u, j) \/ Decide(u, j) \/ Record(u, j)
      PROVE  group' = group
  BY <1>9 DEF PassOver, Decide, Record
<1>10. ASSUME \/ (\E u \in Streams : \E sig \in Signals[u] : Publish(u, sig)) \/ Tick \/ Start
              \/ (\E y \in Symbols : PriceSeen(y))
              \/ (\E u \in Streams : PublishDecision(u) \/ PublishOrder(u))
              \/ (\E d \in saving : Persist(d)) \/ UNCHANGED vars
       PROVE  group' = group
  BY <1>10 DEF Publish, Tick, Start, PriceSeen, PublishDecision, PublishOrder, Persist, vars,
     taskVars
<1>11. ASSUME group' = group
       PROVE  Goal
  BY <1>11
<1> HIDE DEF Goal
<1>12. Goal
  BY <1>4, <1>5, <1>6, <1>7, <1>8, <1>9, <1>10, <1>11, <1>13, Steps
<1> QED BY <1>12 DEF Goal

LEMMA ProgressStep ==
    ASSUME IInv, [Next]_vars
    PROVE  Progress'
<1>1. TypeOK /\ Groups /\ Progress /\ Batch \in Nat \ {0}
  BY Constants DEF IInv
<1> SUFFICES ASSUME NEW t \in Streams
             PROVE  /\ at'[t] # "rest" => \A i \in group'[t].todo :
                           InHand(group'[t], i) => Standing(t, i)'
                    /\ \A i \in group'[t].done : Complete(t, i)'
                    /\ \A i \in (1 .. group'[t].cursor) \ (group'[t].pel \cup group'[t].dead) :
                           Complete(t, i)'
  BY DEF Progress, Standing, Complete, InHand
<1>2. /\ group[t] \in GroupType(Len(sent[t])) /\ Len(sent[t]) \in Nat
      /\ WellFormed(group[t], Len(sent[t]))
  BY <1>1 DEF TypeOK, TaskTypes, Groups
<1>3. ASSUME NEW i \in 1 .. Len(sent[t]), Complete(t, i)
      PROVE  Complete(t, i)'
  BY <1>1, <1>3, SentStep, ConsideredStep DEF Complete
<1>4. ASSUME NEW i \in group'[t].done
      PROVE  Complete(t, i)'
  <2>1. CASE i \in group[t].done
    BY <1>1, <1>2, <1>3, <2>1 DEF GroupType, Progress
  <2>2. CASE i \in group[t].todo /\ InHand(group[t], i) /\ at[t] = "next" /\ left[t] = <<>>
    <3>1. Standing(t, i) /\ job[t] = 0 /\ sent[t][i] \in Stamped /\ i \in 1 .. Len(sent[t])
      BY <1>1, <2>2, InHandFacts DEF Progress, TypeOK, TaskTypes
    <3>2. PICK s \in Seq(Symbols) : s = sent[t][i].symbols
      BY <3>1 DEF Stamped
    <3>3. Len(left[t]) = 0 /\ DOMAIN s = 1 .. Len(s) /\ Len(s) \in Nat
      BY <2>2
    <3>4. Complete(t, i)
      BY <3>1, <3>2, <3>3 DEF Standing, Complete
    <3> QED BY <1>3, <3>1, <3>4
  <2> QED BY <2>1, <2>2, DoneStep
<1>5. ASSUME NEW i \in (1 .. group'[t].cursor) \ (group'[t].pel \cup group'[t].dead)
      PROVE  Complete(t, i)'
  <2>1. /\ i \in 1 .. group[t].cursor /\ i \notin group[t].pel \ group[t].done
        /\ i \notin group[t].dead
    <3>1. PICK n, g, h : n \in Nat /\ n = Len(sent[t]) /\ g = group[t] /\ h = group'[t]
      BY <1>2
    <3>2. WellFormed(g, n) /\ Moves(g, h, n, Batch)
      BY <1>1, <1>2, <3>1, GroupMoves
    <3>3. /\ g.dead \subseteq h.dead
          /\ \A k \in 1 .. h.cursor :
                 \/ k \in h.pel \/ k \in h.dead
                 \/ k \in 1 .. g.cursor /\ k \notin g.pel \ g.done
      BY <1>1, <3>1, <3>2, MovesFacts
    <3> QED BY <1>5, <3>1, <3>3
  <2>2. i \in 1 .. Len(sent[t])
    BY <1>2, <2>1 DEF GroupType
  <2>3. Complete(t, i)
    BY <1>1, <2>1 DEF Progress
  <2> QED BY <1>3, <2>2, <2>3
<1> QED BY <1>4, <1>5, StandingStep

-----------------------------------------------------------------------------
(* The invariant *)

LEMMA InitIInv == Init => IInv
<1> SUFFICES ASSUME Init PROVE IInv
  OBVIOUS
<1>1. \A t \in Streams : sent[t] = <<>> /\ Len(sent[t]) = 0 /\ group[t] = EmptyGroup
  BY DEF Init
<1>2. Groups
  BY <1>1, EmptyWellFormed DEF Groups
<1>3. SignalTypes
  BY <1>1, Constants DEF Init, SignalTypes
<1>4. TaskTypes
  <2>1. \A t \in Streams : group[t] \in GroupType(Len(sent[t]))
    BY <1>2 DEF Groups, WellFormed
  <2>2. made = <<>> /\ Len(made) = 0
    BY DEF Init
  <2>3. sent \in [Streams -> Seq(Stamped)] /\ left \in [Streams -> Seq(Symbols)]
    BY DEF Init
  <2>4. /\ at \in [Streams -> {"rest", "next", "decision", "order", "record"}]
        /\ job \in [Streams -> 0 .. Len(made)]
        /\ \A t \in Streams : job[t] = 0 <=> at[t] \in {"rest", "next"}
    BY <2>2 DEF Init
  <2> QED BY <2>1, <2>3, <2>4 DEF Init, TaskTypes
<1>5. TargetTypes
  BY Constants DEF Init, TargetTypes, NoTargets
<1>6. HistoryTypes
  BY Constants DEF Init, HistoryTypes, NoTargets
<1>7. Ordered
  BY DEF Init, Ordered
<1>8. RecordedWasOrdered
  BY DEF Init, RecordedWasOrdered, NoTargets
<1>9. Progress
  <2>1. \A t \in Streams : group[t].done = {} /\ 1 .. group[t].cursor = {} /\ at[t] = "rest"
    BY <1>1 DEF EmptyGroup, Init
  <2> QED BY <2>1 DEF Progress
<1> QED BY <1>2, <1>3, <1>4, <1>5, <1>6, <1>7, <1>8, <1>9 DEF IInv, TypeOK

LEMMA StepIInv == IInv /\ [Next]_vars => IInv'
<1> SUFFICES ASSUME IInv, [Next]_vars PROVE IInv'
  OBVIOUS
<1>1. TypeOK /\ Groups /\ Ordered /\ RecordedWasOrdered
  BY DEF IInv
<1> QED BY <1>1, GroupsStep, TypesStep, OrderedStep, RecordedStep, ProgressStep DEF IInv

LEMMA Invariance == Spec => []IInv
  BY InitIInv, StepIInv, PTL DEF Spec

\* Every variable keeps its type.
THEOREM TypeCorrect == Spec => []TypeOK
<1>1. IInv => TypeOK
  BY DEF IInv
<1> QED BY <1>1, Invariance, PTL

\* decisions.py: whatever fails, and wherever the process stops, a target in memory or
\* in Redis is zero or one whose decision and intent were published.
THEOREM OnlyOrderedIsRecorded == Spec => []RecordedWasOrdered
<1>1. IInv => RecordedWasOrdered
  BY DEF IInv
<1> QED BY <1>1, Invariance, PTL

\* main.py: a signal, a regime fanned out to the whole universe included, is
\* acknowledged only when each of its symbols was considered to the end, or as a dead
\* letter after its last attempt.
THEOREM NoneHalfConsidered == Spec => []AcknowledgedWasConsidered
<1>1. IInv => AcknowledgedWasConsidered
  BY DEF IInv, Progress, Complete, AcknowledgedWasConsidered
<1> QED BY <1>1, Invariance, PTL

-----------------------------------------------------------------------------
(* The drift of the intents from the recorded targets *)

\* A process that is down has nothing under way, and a task that is not at rest lives and
\* has a signal in hand.
Running ==
    /\ ~up => alive = {} /\ saving = {} /\ \A y \in Symbols : due[y] = {}
    /\ \A t \in Streams : at[t] # "rest" => t \in alive /\ group[t].todo # {}

\* The target a decision started from.
Base(d) == made[d].target - made[d].delta

Based == \A d \in DOMAIN made : Base(d) \in Targets

\* Every decision under way on y started from the target that is recorded now.
Steady(y) == \A t \in Underway(y) : Base(job[t]) = targets[y]

\* How many of the decisions in U can still be recorded over another target than the one
\* they started from: all but the first to come, and all once one of them is late.
Exposed(U, steady) == IF U # {} /\ steady THEN Cardinality(U) - 1 ELSE Cardinality(U)

Drift(y) == net[y] - Recorded(y) - Outstanding(y)

\* The drift of y and what the decisions under way can add to it are paid for.
Paid(y) == Magnitude(Drift(y)) + 2 * Cap * Exposed(Underway(y), Steady(y)) <= 2 * Cap * slips[y]

DriftInv == IInv /\ Running /\ Based /\ \A y \in Symbols : Paid(y)

\* What each task still owes to the recorded target of y.
Owing(y) == [t \in Streams |-> IF t \in Unrecorded(y) THEN made[job[t]].delta ELSE 0]

Sum(a) == a["predict"] + a["sentiment"] + a["regime"]

LEMMA OutstandingIs == \A y \in Symbols : Outstanding(y) = Sum(Owing(y))
  BY DEF Outstanding, Owing, Sum

LEMMA SumChanges ==
    ASSUME NEW a \in [Streams -> Int], NEW b \in [Streams -> Int], NEW t \in Streams,
           \A u \in Streams \ {t} : b[u] = a[u]
    PROVE  Sum(b) = Sum(a) + b[t] - a[t] /\ Sum(a) \in Int /\ Sum(b) \in Int
<1>1. /\ a["predict"] \in Int /\ a["sentiment"] \in Int /\ a["regime"] \in Int
      /\ b["predict"] \in Int /\ b["sentiment"] \in Int /\ b["regime"] \in Int
  BY DEF Streams
<1>2. CASE t = "predict"
  BY <1>1, <1>2 DEF Streams, Sum
<1>3. CASE t = "sentiment"
  BY <1>1, <1>3 DEF Streams, Sum
<1>4. CASE t = "regime"
  BY <1>1, <1>4 DEF Streams, Sum
<1> QED BY <1>2, <1>3, <1>4 DEF Streams

\* What is counted of a set of streams.
LEMMA StreamSets ==
    ASSUME NEW U \in SUBSET Streams
    PROVE  /\ Cardinality(U) \in Nat /\ (U = {} <=> Cardinality(U) = 0)
           /\ \A t \in U : Cardinality(U \ {t}) = Cardinality(U) - 1
           /\ \A t \in Streams \ U : Cardinality(U \cup {t}) = Cardinality(U) + 1
<1>1. IsFiniteSet(U)
  BY StreamsFinite, FS_Subset
<1>2. Cardinality(U) \in Nat /\ (U = {} <=> Cardinality(U) = 0)
  BY <1>1, FS_CardinalityType, FS_EmptySet
<1>3. \A t \in U : Cardinality(U \ {t}) = Cardinality(U) - 1
  BY <1>1, FS_RemoveElement
<1>4. \A t \in Streams \ U : Cardinality(U \cup {t}) = Cardinality(U) + 1
  BY <1>1, FS_AddElement
<1> QED BY <1>2, <1>3, <1>4

LEMMA ExposedFacts ==
    ASSUME NEW U \in SUBSET Streams, NEW s \in BOOLEAN
    PROVE  /\ Exposed(U, s) \in Nat
           /\ Exposed(U, s) <= Cardinality(U) /\ Cardinality(U) - 1 <= Exposed(U, s)
           /\ U = {} => Exposed(U, s) = 0
           /\ ~s => Exposed(U, s) = Cardinality(U)
<1>1. Cardinality(U) \in Nat /\ (U = {} <=> Cardinality(U) = 0)
  BY StreamSets
<1> QED BY <1>1 DEF Exposed

\* One decision more, or less.
LEMMA ExposedMoves ==
    ASSUME NEW U \in SUBSET Streams, NEW s \in BOOLEAN, NEW r \in BOOLEAN, U = {} => s
    PROVE  /\ \A t \in Streams \ U :
                  Exposed(U \cup {t}, s) <= Exposed(U, s) + (IF U = {} THEN 0 ELSE 1)
           /\ \A t \in U : /\ Exposed(U \ {t}, r) <= Exposed(U, s)
                           /\ ~s => Exposed(U \ {t}, r) + 1 <= Exposed(U, s)
<1>1. Cardinality(U) \in Nat /\ (U = {} <=> Cardinality(U) = 0)
  BY StreamSets
<1>2. ASSUME NEW t \in Streams \ U
      PROVE  Exposed(U \cup {t}, s) <= Exposed(U, s) + (IF U = {} THEN 0 ELSE 1)
  <2>1. Cardinality(U \cup {t}) = Cardinality(U) + 1 /\ U \cup {t} # {}
    BY StreamSets
  <2> QED BY <1>1, <2>1 DEF Exposed
<1>3. ASSUME NEW t \in U
      PROVE  /\ Exposed(U \ {t}, r) <= Exposed(U, s)
             /\ ~s => Exposed(U \ {t}, r) + 1 <= Exposed(U, s)
  <2>1. Cardinality(U \ {t}) = Cardinality(U) - 1
    BY StreamSets
  <2>2. /\ Exposed(U \ {t}, r) \in Nat /\ Exposed(U \ {t}, r) <= Cardinality(U) - 1
        /\ Exposed(U, s) \in Nat /\ Cardinality(U) - 1 <= Exposed(U, s)
        /\ ~s => Exposed(U, s) = Cardinality(U)
    BY <2>1, ExposedFacts
  <2> QED BY <1>1, <2>2
<1> QED BY <1>2, <1>3

\* What a step adds to a drift is paid by what it takes off the exposed decisions and
\* what it adds to the slips.
LEMMA Payment ==
    ASSUME NEW C \in Nat, NEW x \in Int, NEW z \in Int, NEW e \in Nat, NEW f \in Nat,
           NEW p \in Nat, NEW q \in Nat, NEW k \in Nat,
           Magnitude(x) + C * e <= C * p, Magnitude(z) <= Magnitude(x) + C * k,
           f + k + p <= e + q
    PROVE  Magnitude(z) + C * f <= C * q
<1>1. C * (f + k + p) <= C * (e + q)
  <2>1. PICK m \in Nat : e + q = (f + k + p) + m
    <3>1. (e + q) - (f + k + p) \in Nat
      OBVIOUS
    <3> QED BY <3>1
  <2>2. C * ((f + k + p) + m) = C * (f + k + p) + C * m /\ C * m \in Nat
    OBVIOUS
  <2>3. C * (f + k + p) \in Nat
    OBVIOUS
  <2> QED BY <2>1, <2>2, <2>3
<1>2. C * (f + k + p) = C * f + C * k + C * p /\ C * (e + q) = C * e + C * q
  OBVIOUS
<1>3. /\ C * f \in Nat /\ C * k \in Nat /\ C * p \in Nat /\ C * e \in Nat /\ C * q \in Nat
      /\ Magnitude(x) \in Int /\ Magnitude(z) \in Int
  BY DEF Magnitude
<1> HIDE DEF Magnitude
<1> QED BY <1>1, <1>2, <1>3

LEMMA DecisionFields ==
    ASSUME NEW m \in Seq(Decisions), NEW d \in 1 .. Len(m)
    PROVE  m[d].symbol \in Symbols /\ m[d].target \in Targets /\ m[d].delta \in Int
<1>1. m[d] \in Decisions
  BY ElementOfSeq
<1> QED BY <1>1 DEF Decisions

LEMMA OwingTyped ==
    ASSUME TypeOK
    PROVE  \A y \in Symbols : Owing(y) \in [Streams -> Int]
<1>1. /\ made \in Seq(Decisions) /\ job \in [Streams -> 0 .. Len(made)] /\ Len(made) \in Nat
      /\ \A t \in Streams : at[t] = "record" => job[t] # 0
  BY DEF TypeOK, TaskTypes, TargetTypes
<1>2. \A t \in Streams : at[t] = "record" => made[job[t]].delta \in Int
  BY <1>1, DecisionFields
<1> QED BY <1>2 DEF Owing, Unrecorded

LEMMA OwingTypedNext ==
    ASSUME TypeOK'
    PROVE  \A y \in Symbols : Owing(y)' \in [Streams -> Int]
<1>1. /\ made' \in Seq(Decisions) /\ job' \in [Streams -> 0 .. Len(made')] /\ Len(made') \in Nat
      /\ \A t \in Streams : at'[t] = "record" => job'[t] # 0
  BY DEF TypeOK, TaskTypes, TargetTypes
<1>2. \A t \in Streams : at'[t] = "record" => made'[job'[t]].delta \in Int
  BY <1>1, DecisionFields
<1> QED BY <1>2 DEF Owing, Unrecorded

\* The tasks other than t stay where they are, with their decisions.
Elsewhere(t) == \A u \in Streams \ {t} : at'[u] = at[u] /\ job'[u] = job[u]

\* Then what t owes is all that changes of what is outstanding.
LEMMA OneTask ==
    ASSUME TypeOK, TypeOK', Groups, [Next]_vars, NEW t \in Streams, Elsewhere(t), NEW y \in Symbols
    PROVE  /\ Underway(y)' \ {t} = Underway(y) \ {t}
           /\ \A u \in Underway(y) \ {t} : job'[u] = job[u] /\ Base(job[u])' = Base(job[u])
           /\ Outstanding(y)' = Outstanding(y) + Owing(y)'[t] - Owing(y)[t]
           /\ Outstanding(y) \in Int /\ Outstanding(y)' \in Int
           /\ Owing(y)[t] \in Int /\ Owing(y)'[t] \in Int
<1>1. /\ \A u \in Streams : at[u] = "record" => job[u] # 0
      /\ \A u \in Streams : job[u] # 0 => job[u] \in DOMAIN made
      /\ \A d \in DOMAIN made : made'[d] = made[d]
  <2>1. \A u \in Streams : job[u] # 0 => job[u] \in DOMAIN made
    BY JobFacts
  <2>2. \A u \in Streams : at[u] = "record" => job[u] # 0
    BY DEF TypeOK, TaskTypes
  <2>3. \A d \in DOMAIN made : made'[d] = made[d]
    BY MadeStep
  <2> QED BY <2>1, <2>2, <2>3
<1>2. \A u \in Streams \ {t} :
          /\ job'[u] = job[u] /\ at'[u] = at[u]
          /\ job[u] # 0 => made'[job[u]] = made[job[u]]
  BY <1>1 DEF Elsewhere
<1>3. Underway(y)' \ {t} = Underway(y) \ {t}
  BY <1>2 DEF Underway
<1>4. \A u \in Underway(y) \ {t} : job'[u] = job[u] /\ Base(job[u])' = Base(job[u])
  BY <1>2 DEF Underway, Base
<1>5. \A u \in Streams \ {t} : Owing(y)'[u] = Owing(y)[u]
  BY <1>1, <1>2 DEF Owing, Unrecorded
<1>6. PICK a \in [Streams -> Int], b \in [Streams -> Int] : a = Owing(y) /\ b = Owing(y)'
  BY OwingTyped, OwingTypedNext
<1>7. Sum(b) = Sum(a) + b[t] - a[t] /\ Sum(a) \in Int /\ Sum(b) \in Int
  BY <1>5, <1>6, SumChanges
<1>8. Outstanding(y) = Sum(a) /\ Outstanding(y)' = Sum(b)
  BY <1>6 DEF Outstanding, Owing, Sum
<1> QED BY <1>3, <1>4, <1>6, <1>7, <1>8

\* The numbers of a symbol.
LEMMA Numbers ==
    ASSUME TypeOK, NEW y \in Symbols
    PROVE  /\ 2 * Cap \in Nat /\ Cap \in Nat /\ net[y] \in Int /\ slips[y] \in Nat
           /\ targets[y] \in Targets /\ stored[y] \in Targets /\ Recorded(y) \in Targets
           /\ Targets \subseteq Int /\ Outstanding(y) \in Int /\ Drift(y) \in Int
           /\ Underway(y) \in SUBSET Streams /\ Steady(y) \in BOOLEAN
           /\ Underway(y) = {} => Steady(y)
           /\ Exposed(Underway(y), Steady(y)) \in Nat
<1>1. /\ 2 * Cap \in Nat /\ Cap \in Nat /\ net[y] \in Int /\ slips[y] \in Nat /\ Targets \subseteq Int
      /\ targets[y] \in Targets /\ stored[y] \in Targets /\ Recorded(y) \in Targets
  BY Constants DEF TypeOK, TargetTypes, HistoryTypes, Recorded
<1>2. Outstanding(y) \in Int
  <2>1. PICK a \in [Streams -> Int] : a = Owing(y)
    BY OwingTyped
  <2>2. Sum(a) \in Int
    BY DEF Sum, Streams
  <2> QED BY <2>1, <2>2, OutstandingIs
<1>3. /\ Underway(y) \in SUBSET Streams /\ Steady(y) \in BOOLEAN
      /\ Underway(y) = {} => Steady(y)
  BY DEF Underway, Steady
<1>4. Exposed(Underway(y), Steady(y)) \in Nat
  BY <1>3, ExposedFacts
<1>5. Drift(y) \in Int
  <2>1. net[y] \in Int /\ Recorded(y) \in Int /\ Outstanding(y) \in Int
    BY <1>1, <1>2
  <2> QED BY <2>1 DEF Drift
<1> QED BY <1>1, <1>2, <1>3, <1>4, <1>5

LEMMA NumbersNext ==
    ASSUME TypeOK', NEW y \in Symbols
    PROVE  /\ net'[y] \in Int /\ slips'[y] \in Nat
           /\ targets'[y] \in Targets /\ stored'[y] \in Targets /\ Recorded(y)' \in Targets
           /\ Outstanding(y)' \in Int /\ Drift(y)' \in Int
           /\ Underway(y)' \in SUBSET Streams /\ Steady(y)' \in BOOLEAN
           /\ Exposed(Underway(y)', Steady(y)') \in Nat
<1>1. /\ net'[y] \in Int /\ slips'[y] \in Nat /\ Targets \subseteq Int
      /\ targets'[y] \in Targets /\ stored'[y] \in Targets /\ Recorded(y)' \in Targets
  BY Constants DEF TypeOK, TargetTypes, HistoryTypes, Recorded
<1>2. Outstanding(y)' \in Int
  <2>1. PICK a \in [Streams -> Int] : a = Owing(y)'
    BY OwingTypedNext
  <2>2. Sum(a) \in Int
    BY DEF Sum, Streams
  <2> QED BY <2>1, <2>2 DEF Outstanding, Owing, Sum
<1>3. Underway(y)' \in SUBSET Streams /\ Steady(y)' \in BOOLEAN
  BY DEF Underway, Steady
<1>4. Exposed(Underway(y)', Steady(y)') \in Nat
  BY <1>3, ExposedFacts
<1>5. Drift(y)' \in Int
  <2>1. net'[y] \in Int /\ Recorded(y)' \in Int /\ Outstanding(y)' \in Int
    BY <1>1, <1>2
  <2> QED BY <2>1 DEF Drift
<1> QED BY <1>1, <1>2, <1>3, <1>4, <1>5

LEMMA PaidWhen ==
    ASSUME TypeOK, TypeOK', NEW y \in Symbols, Paid(y), NEW k \in Nat,
           Magnitude(Drift(y)') <= Magnitude(Drift(y)) + 2 * Cap * k,
           Exposed(Underway(y)', Steady(y)') + k + slips[y]
               <= Exposed(Underway(y), Steady(y)) + slips'[y]
    PROVE  Paid(y)'
<1>1. PICK C \in Nat, x \in Int, z \in Int, e \in Nat, f \in Nat, p \in Nat, q \in Nat :
          /\ C = 2 * Cap /\ x = Drift(y) /\ z = Drift(y)' /\ p = slips[y] /\ q = slips'[y]
          /\ e = Exposed(Underway(y), Steady(y)) /\ f = Exposed(Underway(y)', Steady(y)')
  BY Numbers, NumbersNext
<1>2. Magnitude(x) + C * e <= C * p /\ Magnitude(z) <= Magnitude(x) + C * k /\ f + k + p <= e + q
  BY <1>1 DEF Paid
<1>3. Magnitude(z) + C * f <= C * q
  BY <1>2, Payment
<1> QED BY <1>1, <1>3 DEF Paid, Magnitude, Exposed

LEMMA RunningStep ==
    ASSUME IInv, Running, [Next]_vars
    PROVE  Running'
<1>1. TypeOK /\ Groups /\ at \in [Streams -> Places] /\ alive \subseteq Streams /\ up \in BOOLEAN
  BY DEF IInv, TypeOK, TaskTypes, Places
<1> DEFINE Down == ~up' => alive' = {} /\ saving' = {} /\ \A y \in Symbols : due'[y] = {}
           Alive == \A t \in Streams : at'[t] # "rest" => t \in alive'
<1>2. CASE Start
  BY <1>1, <1>2 DEF Start, Running
<1>3. CASE Crash
  BY <1>3 DEF Crash, Running
<1>4. ASSUME NEW t \in Streams, PublishDecision(t) \/ PublishOrder(t) \/ Consume(t) \/ LoopError(t)
      PROVE  Down /\ Alive
  BY <1>1, <1>4 DEF PublishDecision, PublishOrder, Consume, LoopError, Running, history
<1>5. ASSUME NEW t \in Streams, NEW i \in group[t].todo,
             PassOver(t, i) \/ Record(t, i) \/ Return(t, i)
      PROVE  Down /\ Alive
  BY <1>1, <1>5 DEF PassOver, Record, Return, Running
<1>6. ASSUME NEW t \in Streams, NEW i \in group[t].todo, Decide(t, i)
      PROVE  Down /\ Alive
  BY <1>1, <1>6 DEF Decide, Running
<1>7. ASSUME NEW t \in Streams, NEW i \in group[t].todo, Late(t, i) \/ HandlerFails(t, i)
      PROVE  Down /\ Alive
  BY <1>1, <1>7 DEF Late, HandlerFails, Running, history
<1>8. ASSUME \/ (\E t \in Streams : \E sig \in Signals[t] : Publish(t, sig)) \/ Tick
             \/ (\E y \in Symbols : PriceSeen(y))
             \/ (\E d \in saving : Persist(d)) \/ UNCHANGED vars
      PROVE  UNCHANGED <<up, alive, at, due>> /\ saving' \subseteq saving
  BY <1>8 DEF Publish, Tick, PriceSeen, Persist, vars, taskVars, history
<1>9. ASSUME UNCHANGED <<up, alive, at, due>>, saving' \subseteq saving
      PROVE  Down /\ Alive
  BY <1>9 DEF Running
<1>10. Start \/ Crash => Down /\ Alive
  BY <1>2, <1>3 DEF Running
<1>11. ASSUME NEW t \in Streams, at'[t] # "rest"
       PROVE  group'[t].todo # {}
  BY <1>1, <1>11, TaskCases DEF Running
<1> HIDE DEF Down, Alive
<1>12. Down /\ Alive
  BY <1>4, <1>5, <1>6, <1>7, <1>8, <1>9, <1>10, Steps
<1> QED BY <1>11, <1>12 DEF Running, Down, Alive

LEMMA BasedStep ==
    ASSUME TypeOK, Groups, Based, [Next]_vars
    PROVE  Based'
<1>1. made \in Seq(Decisions) /\ DOMAIN made = 1 .. Len(made) /\ Targets \subseteq Int
  BY Constants DEF TypeOK, TargetTypes
<1>2. ASSUME made' = made
      PROVE  Based'
  BY <1>2 DEF Based, Base
<1>3. ASSUME NEW t \in Streams, NEW i \in group[t].todo, Decide(t, i)
      PROVE  Based'
  <2>1. PICK y \in Symbols, goal \in Targets :
            /\ made' = Append(made, [symbol |-> y, target |-> goal, delta |-> goal - targets[y]])
            /\ [symbol |-> y, target |-> goal, delta |-> goal - targets[y]] \in Decisions
    BY <1>3, DecideFacts
  <2>2. PICK m \in Decisions : /\ made' = Append(made, m)
                               /\ m.target = goal /\ m.delta = goal - targets[y]
    BY <2>1
  <2>3. /\ DOMAIN made' = DOMAIN made \cup {Len(made) + 1} /\ made'[Len(made) + 1] = m
        /\ \A d \in DOMAIN made : made'[d] = made[d]
    BY <1>1, <2>2
  <2>4. m.target - m.delta \in Targets
    <3>1. targets[y] \in Targets /\ goal \in Int /\ targets[y] \in Int
      BY <1>1 DEF TypeOK, TargetTypes
    <3>2. goal - (goal - targets[y]) = targets[y]
      BY <3>1
    <3> QED BY <2>2, <3>1, <3>2
  <2>5. \A d \in DOMAIN made : made[d].target - made[d].delta \in Targets
    BY DEF Based, Base
  <2> HIDE DEF Targets
  <2>6. \A d \in DOMAIN made' : made'[d].target - made'[d].delta \in Targets
    BY <2>3, <2>4, <2>5
  <2> QED BY <2>6 DEF Based, Base
<1>4. ASSUME NEW t \in Streams, NEW i \in group[t].todo,
             \/ PassOver(t, i) \/ Record(t, i) \/ Return(t, i) \/ Late(t, i) \/ HandlerFails(t, i)
      PROVE  made' = made
  BY <1>4 DEF PassOver, Record, Return, Late, HandlerFails
<1>5. ASSUME \/ (\E t \in Streams : \E sig \in Signals[t] : Publish(t, sig)) \/ Tick \/ Start
             \/ Crash \/ (\E y \in Symbols : PriceSeen(y))
             \/ (\E t \in Streams : \/ Consume(t) \/ LoopError(t)
                                    \/ PublishDecision(t) \/ PublishOrder(t))
             \/ (\E d \in saving : Persist(d)) \/ UNCHANGED vars
      PROVE  made' = made
  BY <1>5 DEF Publish, Tick, Start, Crash, PriceSeen, Consume, LoopError, PublishDecision, PublishOrder,
     Persist, vars
<1> QED BY <1>2, <1>3, <1>4, <1>5, Steps

\* A step that leaves the tasks at their places with their decisions, and what is recorded
\* of y, changes nothing of its drift.
LEMMA PaidSame ==
    ASSUME TypeOK, TypeOK', Groups, [Next]_vars, NEW y \in Symbols, Paid(y),
           \A u \in Streams : job'[u] = job[u] /\ (at'[u] = "record" <=> at[u] = "record"),
           targets'[y] = targets[y], Recorded(y)' = Recorded(y), net'[y] = net[y],
           slips'[y] = slips[y]
    PROVE  Paid(y)'
<1>1. \A u \in Streams : job[u] # 0 => job[u] \in DOMAIN made
  BY JobFacts
<1>2. \A u \in Streams : job[u] # 0 => made'[job[u]] = made[job[u]]
  BY <1>1, MadeStep
<1>3. \A u \in Streams : at[u] = "record" => job[u] # 0
  BY DEF TypeOK, TaskTypes
<1>4. Underway(y)' = Underway(y) /\ Unrecorded(y)' = Unrecorded(y)
  BY <1>2, <1>3 DEF Underway, Unrecorded
<1>5. Steady(y)' = Steady(y)
  BY <1>2, <1>4 DEF Steady, Base, Underway
<1>6. Outstanding(y)' = Outstanding(y)
  <2>1. Owing(y)' = Owing(y)
    BY <1>2, <1>3, <1>4 DEF Owing, Unrecorded
  <2> QED BY <2>1 DEF Outstanding, Owing
<1>7. Drift(y)' = Drift(y)
  BY <1>6 DEF Drift
<1>8. /\ Magnitude(Drift(y)') <= Magnitude(Drift(y)) + 2 * Cap * 0
      /\ Exposed(Underway(y)', Steady(y)') + 0 + slips[y]
             <= Exposed(Underway(y), Steady(y)) + slips'[y]
  BY <1>4, <1>5, <1>7, Numbers DEF Magnitude
<1> QED BY <1>8, PaidWhen

\* What remains of the decisions under way on y when t's is over, and of their being steady.
LEMMA OneOver ==
    ASSUME TypeOK, TypeOK', Groups, [Next]_vars, NEW t \in Streams, Elsewhere(t), job'[t] = 0,
           NEW y \in Symbols
    PROVE  /\ Underway(y)' = Underway(y) \ {t}
           /\ Exposed(Underway(y)', Steady(y)') <= Exposed(Underway(y), Steady(y))
              \/ t \notin Underway(y)
           /\ t \in Underway(y) /\ ~Steady(y) =>
                  Exposed(Underway(y)', Steady(y)') + 1 <= Exposed(Underway(y), Steady(y))
           /\ t \notin Underway(y) /\ targets'[y] = targets[y] =>
                  Exposed(Underway(y)', Steady(y)') = Exposed(Underway(y), Steady(y))
<1>1. Underway(y)' = Underway(y) \ {t}
  <2>1. Underway(y)' \ {t} = Underway(y) \ {t}
    BY OneTask
  <2>2. t \notin Underway(y)'
    BY DEF Underway
  <2> QED BY <2>1, <2>2
<1>2. PICK U \in SUBSET Streams, s \in BOOLEAN, r \in BOOLEAN :
          U = Underway(y) /\ s = Steady(y) /\ r = Steady(y)'
  BY Numbers, NumbersNext
<1>3. U = {} => s
  BY <1>2, Numbers
<1>4. t \in U => /\ Exposed(U \ {t}, r) <= Exposed(U, s)
                 /\ ~s => Exposed(U \ {t}, r) + 1 <= Exposed(U, s)
  BY <1>3, ExposedMoves
<1>5. ASSUME t \notin Underway(y), targets'[y] = targets[y]
      PROVE  r = s /\ Underway(y)' = Underway(y)
  <2>1. Underway(y)' = Underway(y)
    BY <1>1, <1>5
  <2>2. \A u \in Underway(y) : job'[u] = job[u] /\ Base(job[u])' = Base(job[u])
    BY <1>5, OneTask
  <2>3. Steady(y)' <=> Steady(y)
    <3>1. Steady(y)' <=> \A u \in Underway(y) : Base(job[u])' = targets'[y]
      BY <2>1 DEF Steady
    <3>2. Steady(y) <=> \A u \in Underway(y) : Base(job[u]) = targets[y]
      BY DEF Steady
    <3> QED BY <1>5, <2>2, <3>1, <3>2
  <2> QED BY <1>2, <2>1, <2>3
<1> QED BY <1>1, <1>2, <1>4, <1>5

\* The decision of t, when it is published, recorded or given up, is on one symbol.
LEMMA PaidRecord ==
    ASSUME TypeOK, TypeOK', Groups, Running, Based, [Next]_vars,
           NEW t \in Streams, NEW i \in group[t].todo, Record(t, i), NEW y \in Symbols, Paid(y)
    PROVE  Paid(y)'
<1>1. /\ at[t] = "record" /\ t \in alive /\ job[t] # 0 /\ job[t] \in DOMAIN made
      /\ targets' = RecordedTarget(job[t]) /\ job' = [job EXCEPT ![t] = 0]
      /\ at' = [at EXCEPT ![t] = "next"] /\ up' = up /\ net' = net /\ slips' = slips
      /\ stored' = stored
  BY JobFacts DEF Record, TypeOK, TaskTypes
<1>2. up
  BY <1>1 DEF Running
<1>3. Elsewhere(t) /\ job'[t] = 0 /\ at'[t] = "next"
  BY <1>1 DEF Elsewhere, TypeOK, TaskTypes
<1>4. PICK z \in Symbols, goal \in Targets, delta \in Int :
          /\ z = made[job[t]].symbol /\ goal = made[job[t]].target /\ delta = made[job[t]].delta
          /\ goal - delta \in Targets
  <2>1. made \in Seq(Decisions) /\ DOMAIN made = 1 .. Len(made)
    BY DEF TypeOK, TargetTypes
  <2>2. made[job[t]].target - made[job[t]].delta \in Targets
    BY <1>1 DEF Based, Base
  <2> HIDE DEF Targets
  <2> QED BY <1>1, <2>1, <2>2, DecisionFields
<1>5. targets' = [targets EXCEPT ![z] = goal] /\ targets \in [Symbols -> Targets]
  BY <1>1, <1>4 DEF RecordedTarget, TypeOK, TargetTypes
<1>6. Recorded(y) = targets[y] /\ Recorded(y)' = targets'[y]
  BY <1>1, <1>2 DEF Recorded
<1>7. Owing(y)'[t] = 0 /\ Owing(y)[t] = IF y = z THEN delta ELSE 0
  BY <1>1, <1>3, <1>4 DEF Owing, Unrecorded
<1>8. t \in Underway(y) <=> y = z
  BY <1>1, <1>4 DEF Underway
<1>9. Outstanding(y)' = Outstanding(y) - (IF y = z THEN delta ELSE 0)
      /\ Outstanding(y) \in Int /\ Outstanding(y)' \in Int
  <2>1. Outstanding(y)' = Outstanding(y) + Owing(y)'[t] - Owing(y)[t] /\ Outstanding(y) \in Int
    BY <1>3, OneTask
  <2> QED BY <1>4, <1>7, <2>1
<1>10. /\ targets[y] \in Int /\ targets'[y] \in Int /\ net[y] \in Int /\ net'[y] = net[y]
       /\ slips'[y] = slips[y] /\ slips[y] \in Nat
       /\ Exposed(Underway(y), Steady(y)) \in Nat /\ Exposed(Underway(y)', Steady(y)') \in Nat
  BY <1>1, Numbers, NumbersNext
<1>11. CASE y # z
  <2>1. targets'[y] = targets[y] /\ Outstanding(y)' = Outstanding(y)
    BY <1>5, <1>9, <1>11
  <2>2. Drift(y)' = Drift(y)
    BY <1>6, <1>10, <2>1 DEF Drift
  <2>3. Exposed(Underway(y)', Steady(y)') = Exposed(Underway(y), Steady(y))
    BY <1>3, <1>8, <1>11, <2>1, OneOver
  <2>4. Magnitude(Drift(y)') <= Magnitude(Drift(y)) + 2 * Cap * 0
    BY <2>2, Numbers DEF Magnitude
  <2>5. Exposed(Underway(y)', Steady(y)') + 0 + slips[y]
            <= Exposed(Underway(y), Steady(y)) + slips'[y]
    BY <1>10, <2>3
  <2> QED BY <2>4, <2>5, PaidWhen
<1>12. CASE y = z
  <2>1. targets'[y] = goal /\ Outstanding(y)' = Outstanding(y) - delta
    BY <1>5, <1>9, <1>12
  <2>2. Drift(y)' = Drift(y) + (targets[y] - (goal - delta))
    <3>1. goal \in Int /\ delta \in Int
      BY <1>4, Constants
    <3>2. Drift(y)' = net[y] - goal - (Outstanding(y) - delta)
      BY <1>6, <1>10, <2>1 DEF Drift
    <3>3. Drift(y) = net[y] - targets[y] - Outstanding(y)
      BY <1>6 DEF Drift
    <3> QED BY <1>9, <1>10, <3>1, <3>2, <3>3
  <2>3. CASE targets[y] = goal - delta
    <3>1. Drift(y)' = Drift(y)
      BY <2>2, <2>3, <1>10, Numbers
    <3>2. Exposed(Underway(y)', Steady(y)') <= Exposed(Underway(y), Steady(y))
      BY <1>3, <1>8, <1>12, OneOver
    <3>3. Magnitude(Drift(y)') <= Magnitude(Drift(y)) + 2 * Cap * 0
      BY <3>1, Numbers DEF Magnitude
    <3>4. Exposed(Underway(y)', Steady(y)') + 0 + slips[y]
              <= Exposed(Underway(y), Steady(y)) + slips'[y]
      BY <1>10, <3>2
    <3> QED BY <3>3, <3>4, PaidWhen
  <2>4. CASE targets[y] # goal - delta
    <3>1. ~Steady(y)
      BY <1>4, <1>8, <1>12, <2>4 DEF Steady, Base
    <3>2. Exposed(Underway(y)', Steady(y)') + 1 <= Exposed(Underway(y), Steady(y))
      BY <1>3, <1>8, <1>12, <3>1, OneOver
    <3>3. Magnitude(Drift(y)') <= Magnitude(Drift(y)) + 2 * Cap * 1
      <4>1. targets[y] \in -Cap .. Cap /\ goal - delta \in -Cap .. Cap /\ Cap \in Nat
        BY <1>4, Numbers DEF Targets
      <4>2. PICK x \in Int, b \in Int, w \in Int : x = Drift(y) /\ b = goal - delta /\ w = targets[y]
        BY <1>4, <1>10, Numbers, Constants
      <4>3. Magnitude(x + (w - b)) <= Magnitude(x) + 2 * Cap * 1
        BY <4>1, <4>2 DEF Magnitude
      <4> QED BY <2>2, <4>2, <4>3
    <3>4. Exposed(Underway(y)', Steady(y)') + 1 + slips[y]
              <= Exposed(Underway(y), Steady(y)) + slips'[y]
      BY <1>10, <3>2
    <3> QED BY <3>3, <3>4, PaidWhen
  <2> QED BY <2>3, <2>4
<1> QED BY <1>11, <1>12

LEMMA PaidOrder ==
    ASSUME TypeOK, TypeOK', Groups, [Next]_vars,
           NEW t \in Streams, PublishOrder(t), NEW y \in Symbols, Paid(y)
    PROVE  Paid(y)'
<1>1. /\ at[t] = "order" /\ job[t] # 0 /\ job[t] \in DOMAIN made
      /\ UNCHANGED <<job, made, targets, stored, up, slips>>
      /\ at' = [at EXCEPT ![t] = "record"]
      /\ net' = [net EXCEPT ![made[job[t]].symbol] = @ + made[job[t]].delta]
  BY JobFacts DEF PublishOrder, TypeOK, TaskTypes
<1>2. Elsewhere(t) /\ job'[t] = job[t] /\ at'[t] = "record"
  BY <1>1 DEF Elsewhere, TypeOK, TaskTypes
<1>3. PICK z \in Symbols, delta \in Int :
          z = made[job[t]].symbol /\ delta = made[job[t]].delta
  BY <1>1, JobFacts
<1>4. Owing(y)[t] = 0 /\ Owing(y)'[t] = IF y = z THEN delta ELSE 0
  BY <1>1, <1>2, <1>3 DEF Owing, Unrecorded
<1>5. /\ Outstanding(y)' = Outstanding(y) + (IF y = z THEN delta ELSE 0)
      /\ Outstanding(y) \in Int
  <2>1. Outstanding(y)' = Outstanding(y) + Owing(y)'[t] - Owing(y)[t] /\ Outstanding(y) \in Int
    BY <1>2, OneTask
  <2> QED BY <1>3, <1>4, <2>1
<1>6. net'[y] = net[y] + (IF y = z THEN delta ELSE 0) /\ net[y] \in Int
  <2>1. net \in [Symbols -> Int] /\ net' = [net EXCEPT ![z] = @ + delta]
    BY <1>1, <1>3 DEF TypeOK, HistoryTypes
  <2> QED BY <1>3, <2>1
<1>7. Recorded(y)' = Recorded(y) /\ Recorded(y) \in Int
  BY <1>1, Numbers DEF Recorded
<1>8. Drift(y)' = Drift(y) /\ Drift(y) \in Int
  BY <1>3, <1>5, <1>6, <1>7 DEF Drift
<1>9. Underway(y)' = Underway(y) /\ Steady(y)' = Steady(y) /\ slips'[y] = slips[y]
  BY <1>1 DEF Underway, Steady, Base
<1>10. /\ Magnitude(Drift(y)') <= Magnitude(Drift(y)) + 2 * Cap * 0
       /\ Exposed(Underway(y)', Steady(y)') + 0 + slips[y]
              <= Exposed(Underway(y), Steady(y)) + slips'[y]
  BY <1>8, <1>9, Numbers DEF Magnitude
<1> QED BY <1>10, PaidWhen

LEMMA PaidDecide ==
    ASSUME TypeOK, TypeOK', Groups, [Next]_vars,
           NEW t \in Streams, NEW i \in group[t].todo, Decide(t, i), NEW y \in Symbols, Paid(y)
    PROVE  Paid(y)'
<1>1. /\ at[t] \in {"rest", "next"} /\ job[t] = 0 /\ Len(made) \in Nat /\ made \in Seq(Decisions)
      /\ UNCHANGED <<targets, stored, up, net>>
      /\ job' = [job EXCEPT ![t] = Len(made) + 1] /\ at' = [at EXCEPT ![t] = "decision"]
  BY DEF Decide, TypeOK, TaskTypes, TargetTypes
<1>2. Elsewhere(t) /\ job'[t] = Len(made) + 1 /\ at'[t] = "decision"
  BY <1>1 DEF Elsewhere, TypeOK, TaskTypes
<1>3. PICK z \in Symbols, m \in Decisions :
          /\ made' = Append(made, m) /\ m.symbol = z /\ m.target - m.delta = targets[z]
          /\ slips' = [slips EXCEPT ![z] = IF Underway(z) = {} THEN @ ELSE @ + 1]
  <2>1. PICK z : z = Head(Todo(t, i))
    OBVIOUS
  <2>2. z \in Symbols /\ slips' = [slips EXCEPT ![z] = IF Underway(z) = {} THEN @ ELSE @ + 1]
    BY <2>1, DecideFacts
  <2>3. PICK goal \in Targets :
            /\ made' = Append(made, [symbol |-> z, target |-> goal, delta |-> goal - targets[z]])
            /\ [symbol |-> z, target |-> goal, delta |-> goal - targets[z]] \in Decisions
    BY <2>1, DecideFacts
  <2>4. goal - (goal - targets[z]) = targets[z]
    <3>1. goal \in Int /\ targets[z] \in Int
      BY <2>2, <2>3, Numbers
    <3> QED BY <3>1
  <2>5. PICK m \in Decisions :
            /\ made' = Append(made, m) /\ m.symbol = z /\ m.target = goal
            /\ m.delta = goal - targets[z]
    BY <2>3
  <2> QED BY <2>2, <2>4, <2>5
<1>4. made'[job'[t]] = m
  BY <1>1, <1>2, <1>3
<1>5. t \notin Underway(y) /\ (t \in Underway(y)' <=> y = z)
  BY <1>1, <1>2, <1>3, <1>4 DEF Underway
<1>6. Outstanding(y)' = Outstanding(y) /\ Outstanding(y) \in Int
  <2>1. Owing(y)[t] = 0 /\ Owing(y)'[t] = 0
    BY <1>1, <1>2 DEF Owing, Unrecorded
  <2>2. Outstanding(y)' = Outstanding(y) + Owing(y)'[t] - Owing(y)[t] /\ Outstanding(y) \in Int
    BY <1>2, OneTask
  <2> QED BY <2>1, <2>2
<1>7. Drift(y)' = Drift(y)
  BY <1>1, <1>6 DEF Drift, Recorded
<1>8. Magnitude(Drift(y)') <= Magnitude(Drift(y)) + 2 * Cap * 0
  BY <1>7, Numbers DEF Magnitude
<1>9. \A u \in Underway(y) : job'[u] = job[u] /\ Base(job[u])' = Base(job[u])
  BY <1>2, <1>5, OneTask
<1>10. slips \in [Symbols -> Nat]
  BY DEF TypeOK, HistoryTypes
<1>11. CASE y # z
  <2>1. Underway(y)' = Underway(y)
    <3>1. Underway(y)' \ {t} = Underway(y) \ {t}
      BY <1>2, OneTask
    <3> QED BY <1>5, <1>11, <3>1
  <2>2. Steady(y)' = Steady(y)
    <3>1. Steady(y)' = \A u \in Underway(y) : Base(job[u])' = targets[y]
      BY <1>1, <1>9, <2>1 DEF Steady, Base
    <3> QED BY <1>9, <3>1 DEF Steady
  <2>3. slips'[y] = slips[y]
    BY <1>3, <1>10, <1>11
  <2>4. Exposed(Underway(y)', Steady(y)') + 0 + slips[y]
            <= Exposed(Underway(y), Steady(y)) + slips'[y]
    BY <2>1, <2>2, <2>3, Numbers
  <2> QED BY <1>8, <2>4, PaidWhen
<1>12. CASE y = z
  <2>1. Underway(y)' = Underway(y) \cup {t}
    <3>1. Underway(y)' \ {t} = Underway(y) \ {t}
      BY <1>2, OneTask
    <3> QED BY <1>5, <1>12, <3>1
  <2>2. Base(job[t])' = targets[y]
    BY <1>3, <1>4, <1>12 DEF Base
  <2>3. Steady(y)' = Steady(y)
    <3>1. Steady(y)' = \A u \in Underway(y) \cup {t} : Base(job[u])' = targets[y]
      BY <1>1, <2>1 DEF Steady, Base
    <3> QED BY <1>9, <2>2, <3>1 DEF Steady
  <2>4. PICK U \in SUBSET Streams, s \in BOOLEAN : U = Underway(y) /\ s = Steady(y)
    BY Numbers
  <2>5. Exposed(U \cup {t}, s) <= Exposed(U, s) + (IF U = {} THEN 0 ELSE 1)
    <3>1. t \in Streams \ U /\ (U = {} => s)
      BY <1>5, <2>4, Numbers
    <3> QED BY <3>1, ExposedMoves
  <2>6. slips'[y] = slips[y] + (IF U = {} THEN 0 ELSE 1) /\ slips[y] \in Nat
    BY <1>3, <1>10, <1>12, <2>4
  <2>7. Exposed(Underway(y)', Steady(y)') \in Nat /\ Exposed(U, s) \in Nat
    BY <2>4, Numbers, NumbersNext
  <2>8. Exposed(Underway(y)', Steady(y)') + 0 + slips[y]
            <= Exposed(Underway(y), Steady(y)) + slips'[y]
    BY <2>1, <2>3, <2>4, <2>5, <2>6, <2>7
  <2> QED BY <1>8, <2>8, PaidWhen
<1> QED BY <1>11, <1>12

LEMMA PaidFails ==
    ASSUME TypeOK, TypeOK', Groups, Based, [Next]_vars,
           NEW t \in Streams, NEW i \in group[t].todo, HandlerFails(t, i), NEW y \in Symbols, Paid(y)
    PROVE  Paid(y)'
<1>1. /\ job[t] # 0 /\ job[t] \in DOMAIN made
      /\ UNCHANGED <<targets, stored, up, net, made>>
      /\ job' = [job EXCEPT ![t] = 0] /\ at' = [at EXCEPT ![t] = "rest"]
      /\ slips' = [slips EXCEPT ![made[job[t]].symbol] = IF at[t] = "record" THEN @ + 1 ELSE @]
  BY JobFacts DEF HandlerFails
<1>2. Elsewhere(t) /\ job'[t] = 0 /\ at'[t] = "rest"
  BY <1>1 DEF Elsewhere, TypeOK, TaskTypes
<1>3. PICK z \in Symbols, goal \in Targets, delta \in Int :
          /\ z = made[job[t]].symbol /\ goal = made[job[t]].target /\ delta = made[job[t]].delta
          /\ goal - delta \in Targets
  <2>1. made \in Seq(Decisions) /\ DOMAIN made = 1 .. Len(made)
    BY DEF TypeOK, TargetTypes
  <2>2. made[job[t]].target - made[job[t]].delta \in Targets
    BY <1>1 DEF Based, Base
  <2> HIDE DEF Targets
  <2> QED BY <1>1, <2>1, <2>2, DecisionFields
<1>4. t \in Underway(y) <=> y = z
  BY <1>1, <1>3 DEF Underway
<1>5. slips'[y] = slips[y] + (IF y = z /\ at[t] = "record" THEN 1 ELSE 0) /\ slips[y] \in Nat
  <2>1. slips \in [Symbols -> Nat] /\ slips' = [slips EXCEPT ![z] = IF at[t] = "record" THEN @ + 1 ELSE @]
    BY <1>1, <1>3 DEF TypeOK, HistoryTypes
  <2> QED BY <2>1
<1>6. Owing(y)'[t] = 0 /\ Owing(y)[t] = IF y = z /\ at[t] = "record" THEN delta ELSE 0
  BY <1>2, <1>3 DEF Owing, Unrecorded
<1>7. /\ Outstanding(y)' = Outstanding(y) - (IF y = z /\ at[t] = "record" THEN delta ELSE 0)
      /\ Outstanding(y) \in Int
  <2>1. Outstanding(y)' = Outstanding(y) + Owing(y)'[t] - Owing(y)[t] /\ Outstanding(y) \in Int
    BY <1>2, OneTask
  <2> QED BY <1>3, <1>6, <2>1
<1>8. Recorded(y)' = Recorded(y) /\ Recorded(y) \in Int /\ net'[y] = net[y] /\ net[y] \in Int
  BY <1>1, Numbers DEF Recorded
<1>9. Exposed(Underway(y)', Steady(y)') <= Exposed(Underway(y), Steady(y))
  <2>1. targets'[y] = targets[y]
    BY <1>1
  <2>2. CASE y # z
    BY <1>2, <1>4, <2>1, <2>2, OneOver, Numbers
  <2>3. CASE y = z
    BY <1>2, <1>4, <2>3, OneOver
  <2> QED BY <2>2, <2>3
<1>10. Exposed(Underway(y), Steady(y)) \in Nat /\ Exposed(Underway(y)', Steady(y)') \in Nat
  BY Numbers, NumbersNext
<1>11. CASE y = z /\ at[t] = "record"
  <2>1. Drift(y)' = Drift(y) + delta
    BY <1>3, <1>7, <1>8, <1>11 DEF Drift
  <2>2. Magnitude(Drift(y)') <= Magnitude(Drift(y)) + 2 * Cap * 1
    <3>1. goal \in -Cap .. Cap /\ goal - delta \in -Cap .. Cap /\ Cap \in Nat
      BY <1>3, Numbers DEF Targets
    <3>2. PICK x \in Int : x = Drift(y)
      BY Numbers
    <3>3. Magnitude(x + delta) <= Magnitude(x) + 2 * Cap * 1
      BY <3>1 DEF Magnitude
    <3> QED BY <2>1, <3>2, <3>3
  <2>3. Exposed(Underway(y)', Steady(y)') + 1 + slips[y]
            <= Exposed(Underway(y), Steady(y)) + slips'[y]
    BY <1>5, <1>9, <1>10, <1>11
  <2> QED BY <2>2, <2>3, PaidWhen
<1>12. CASE ~(y = z /\ at[t] = "record")
  <2>1. Drift(y)' = Drift(y)
    BY <1>7, <1>8, <1>12 DEF Drift
  <2>2. Magnitude(Drift(y)') <= Magnitude(Drift(y)) + 2 * Cap * 0
    BY <2>1, Numbers DEF Magnitude
  <2>3. Exposed(Underway(y)', Steady(y)') + 0 + slips[y]
            <= Exposed(Underway(y), Steady(y)) + slips'[y]
    BY <1>5, <1>9, <1>10, <1>12
  <2> QED BY <2>2, <2>3, PaidWhen
<1> QED BY <1>11, <1>12

LEMMA CountIs ==
    ASSUME NEW U \in SUBSET Streams
    PROVE  Cardinality(U) = Sum([t \in Streams |-> IF t \in U THEN 1 ELSE 0])
<1>1. PICK V, W : V = U \ {"predict"} /\ W = V \ {"sentiment"}
  OBVIOUS
<1>2. /\ V \in SUBSET Streams /\ W \in SUBSET Streams /\ W \ {"regime"} = {}
      /\ ("sentiment" \in V <=> "sentiment" \in U) /\ ("regime" \in W <=> "regime" \in U)
  BY <1>1 DEF Streams
<1>3. \A X \in SUBSET Streams, t \in Streams :
          /\ Cardinality(X) \in Nat
          /\ Cardinality(X) = Cardinality(X \ {t}) + (IF t \in X THEN 1 ELSE 0)
  <2>1. ASSUME NEW X \in SUBSET Streams, NEW t \in Streams
        PROVE  /\ Cardinality(X) \in Nat
               /\ Cardinality(X) = Cardinality(X \ {t}) + (IF t \in X THEN 1 ELSE 0)
    <3>1. Cardinality(X) \in Nat /\ (t \in X => Cardinality(X \ {t}) = Cardinality(X) - 1)
      BY StreamSets
    <3>2. t \notin X => X \ {t} = X
      OBVIOUS
    <3> QED BY <3>1, <3>2
  <2> QED BY <2>1
<1>4. /\ "predict" \in Streams /\ "sentiment" \in Streams /\ "regime" \in Streams
  BY DEF Streams
<1>5. Cardinality(U) = Cardinality(V) + (IF "predict" \in U THEN 1 ELSE 0)
  BY <1>1, <1>3, <1>4
<1>6. Cardinality(V) = Cardinality(W) + (IF "sentiment" \in U THEN 1 ELSE 0)
  BY <1>1, <1>2, <1>3, <1>4
<1>7. Cardinality(W) = IF "regime" \in U THEN 1 ELSE 0
  <2>1. Cardinality(W) = Cardinality({}) + (IF "regime" \in U THEN 1 ELSE 0)
    BY <1>2, <1>3, <1>4
  <2>2. Cardinality({}) = 0
    BY FS_EmptySet
  <2> QED BY <2>1, <2>2
<1>8. Cardinality(V) \in Nat /\ Cardinality(W) \in Nat
  BY <1>2, <1>3, <1>4
<1> QED BY <1>4, <1>5, <1>6, <1>7, <1>8 DEF Sum

\* A sum of as many terms as U has members, each of magnitude D at most.
LEMMA SumBound ==
    ASSUME NEW a \in [Streams -> Int], NEW U \in SUBSET Streams, NEW D \in Nat,
           \A t \in Streams : Magnitude(a[t]) <= D /\ (t \notin U => a[t] = 0)
    PROVE  Magnitude(Sum(a)) <= D * Cardinality(U)
<1> DEFINE b == [t \in Streams |-> IF t \in U THEN 1 ELSE 0]
<1>1. /\ a["predict"] \in Int /\ a["sentiment"] \in Int /\ a["regime"] \in Int
      /\ b["predict"] \in {0, 1} /\ b["sentiment"] \in {0, 1} /\ b["regime"] \in {0, 1}
  BY DEF Streams
<1>2. \A t \in Streams : b[t] \in {0, 1} /\ Magnitude(a[t]) <= D * b[t]
  BY DEF Magnitude
<1>3. Cardinality(U) = b["predict"] + b["sentiment"] + b["regime"]
  BY CountIs DEF Sum
<1> HIDE DEF b
<1>4. /\ Magnitude(a["predict"]) <= D * b["predict"]
      /\ Magnitude(a["sentiment"]) <= D * b["sentiment"]
      /\ Magnitude(a["regime"]) <= D * b["regime"]
  BY <1>2 DEF Streams
<1>5. D * (b["predict"] + b["sentiment"] + b["regime"])
          = D * b["predict"] + D * b["sentiment"] + D * b["regime"]
  BY <1>1
<1>6. PICK p \in Int, q \in Int, r \in Int :
          p = D * b["predict"] /\ q = D * b["sentiment"] /\ r = D * b["regime"]
  BY <1>1
<1>7. Magnitude(a["predict"] + a["sentiment"] + a["regime"]) <= p + q + r
  <2>1. PICK x \in Int, y \in Int, z \in Int :
            x = a["predict"] /\ y = a["sentiment"] /\ z = a["regime"]
    BY <1>1
  <2>2. Magnitude(x) <= p /\ Magnitude(y) <= q /\ Magnitude(z) <= r
    BY <1>4, <1>6, <2>1
  <2>3. Magnitude(x + y + z) <= p + q + r
    BY <2>2 DEF Magnitude
  <2> QED BY <2>1, <2>3
<1> QED BY <1>3, <1>5, <1>6, <1>7 DEF Sum

LEMMA PaidCrash ==
    ASSUME TypeOK, TypeOK', Groups, Based, [Next]_vars, Crash, NEW y \in Symbols, Paid(y)
    PROVE  Paid(y)'
<1>1. /\ up /\ ~up' /\ net' = net /\ stored' = stored
      /\ \A t \in Streams : job'[t] = 0 /\ at'[t] = "rest"
      /\ slips'[y] = slips[y] + Cardinality(Unrecorded(y))
                        + (IF stored[y] = targets[y] THEN 0 ELSE 1)
  BY DEF Crash
<1>2. Recorded(y) = targets[y] /\ Recorded(y)' = stored[y]
  BY <1>1 DEF Recorded
<1>3. Underway(y)' = {} /\ Unrecorded(y)' = {}
  BY <1>1 DEF Underway, Unrecorded
<1>4. Outstanding(y)' = 0
  BY <1>3 DEF Outstanding, Streams
<1>5. Exposed(Underway(y)', Steady(y)') = 0
  <2>1. PICK r \in BOOLEAN : r = Steady(y)'
    BY NumbersNext
  <2>2. Exposed({}, r) = 0
    BY ExposedFacts
  <2> QED BY <1>3, <2>1, <2>2
<1>6. PICK c \in Nat : c = Cardinality(Unrecorded(y))
  BY StreamSets DEF Unrecorded
<1>7. Magnitude(Outstanding(y)) <= 2 * Cap * c
  <2>1. PICK a \in [Streams -> Int], U \in SUBSET Streams : a = Owing(y) /\ U = Unrecorded(y)
    BY OwingTyped DEF Unrecorded
  <2>2. ASSUME NEW t \in Streams
        PROVE  Magnitude(a[t]) <= 2 * Cap /\ (t \notin U => a[t] = 0)
    <3>1. CASE t \notin U
      BY <2>1, <3>1, Constants DEF Owing, Magnitude
    <3>2. CASE t \in U
      <4>1. job[t] \in DOMAIN made /\ a[t] = made[job[t]].delta
        BY <2>1, <3>2, JobFacts DEF Owing, Unrecorded
      <4>2. made \in Seq(Decisions) /\ DOMAIN made = 1 .. Len(made)
        BY DEF TypeOK, TargetTypes
      <4>3. made[job[t]].target - made[job[t]].delta \in Targets
        BY <4>1 DEF Based, Base
      <4>4. PICK goal \in Int, delta \in Int :
                /\ goal = made[job[t]].target /\ delta = made[job[t]].delta
                /\ goal \in Targets
        BY <4>1, <4>2, DecisionFields, Constants
      <4>5. goal \in -Cap .. Cap /\ goal - delta \in -Cap .. Cap /\ Cap \in Nat
        BY <4>3, <4>4, Constants DEF Targets
      <4> QED BY <3>2, <4>1, <4>4, <4>5 DEF Magnitude
    <3> QED BY <3>1, <3>2
  <2>3. Magnitude(Sum(a)) <= 2 * Cap * Cardinality(U)
    <3>1. PICK D \in Nat : D = 2 * Cap
      BY Constants
    <3> QED BY <2>2, <3>1, SumBound
  <2> QED BY <1>6, <2>1, <2>3, OutstandingIs
<1>8. PICK n \in Int, o \in Int, v \in Int, w \in Int, C \in Nat :
          /\ n = net[y] /\ o = Outstanding(y) /\ v = targets[y] /\ w = stored[y] /\ C = 2 * Cap
          /\ v \in -Cap .. Cap /\ w \in -Cap .. Cap
  BY Numbers DEF Targets
<1>9. PICK d \in Nat : d = IF stored[y] = targets[y] THEN 0 ELSE 1
  OBVIOUS
<1>10. Magnitude(Drift(y)') <= Magnitude(Drift(y)) + 2 * Cap * (c + d)
  <2>1. Drift(y)' = n - w /\ Drift(y) = n - v - o
    <3>1. Drift(y)' = net'[y] - Recorded(y)' - Outstanding(y)'
      BY DEF Drift
    <3>2. Drift(y)' = n - w - 0
      BY <1>1, <1>2, <1>4, <1>8, <3>1
    <3> QED BY <1>2, <1>8, <3>2 DEF Drift
  <2>2. Magnitude(v - w) <= C * d
    BY <1>8, <1>9, Constants DEF Magnitude
  <2>3. C * (c + d) = C * c + C * d /\ C * c \in Nat /\ C * d \in Nat
    OBVIOUS
  <2>4. PICK p \in Nat, q \in Nat : p = C * c /\ q = C * d
    BY <2>3
  <2>5. Magnitude(n - w) <= Magnitude(n - v - o) + (p + q)
    BY <1>7, <1>8, <2>2, <2>4 DEF Magnitude
  <2> QED BY <1>8, <2>1, <2>3, <2>4, <2>5
<1>11. Exposed(Underway(y)', Steady(y)') + (c + d) + slips[y]
           <= Exposed(Underway(y), Steady(y)) + slips'[y]
  BY <1>1, <1>5, <1>6, <1>9, Numbers
<1> QED BY <1>10, <1>11, PaidWhen

\* At a start nothing is under way, and a hydrate that fails counts as a slip.
LEMMA PaidStart ==
    ASSUME TypeOK, TypeOK', Groups, Running, [Next]_vars, Start, NEW y \in Symbols, Paid(y)
    PROVE  Paid(y)'
<1>1. /\ ~up /\ up' /\ UNCHANGED <<stored, net, job, at, made>>
      /\ \/ targets' = stored /\ slips' = slips
         \/ /\ targets' = NoTargets
            /\ slips' = [u \in Symbols |-> slips[u] + IF stored[u] = 0 THEN 0 ELSE 1]
  BY DEF Start
<1>2. \A t \in Streams : at[t] = "rest" /\ job[t] = 0
  BY <1>1 DEF Running, TypeOK, TaskTypes
<1>3. /\ Underway(y) = {} /\ Unrecorded(y) = {} /\ Underway(y)' = {} /\ Unrecorded(y)' = {}
  BY <1>1, <1>2 DEF Underway, Unrecorded
<1>4. Outstanding(y) = 0 /\ Outstanding(y)' = 0
  BY <1>3 DEF Outstanding, Streams
<1>5. Exposed(Underway(y)', Steady(y)') = 0 /\ Exposed(Underway(y), Steady(y)) \in Nat
  <2>1. PICK r \in BOOLEAN : r = Steady(y)'
    BY NumbersNext
  <2>2. Exposed({}, r) = 0
    BY ExposedFacts
  <2> QED BY <1>3, <2>1, <2>2, Numbers
<1>6. PICK n \in Int, w \in Int : n = net[y] /\ w = stored[y] /\ w \in -Cap .. Cap
  BY Numbers DEF Targets
<1>7. Drift(y) = n - w
  BY <1>1, <1>4, <1>6 DEF Drift, Recorded
<1>8. CASE targets'[y] = stored[y]
  <2>1. Drift(y)' = n - w
    <3>1. Drift(y)' = net'[y] - Recorded(y)' - Outstanding(y)'
      BY DEF Drift
    <3>2. Recorded(y)' = targets'[y]
      BY <1>1 DEF Recorded
    <3> QED BY <1>1, <1>4, <1>6, <1>8, <3>1, <3>2
  <2>2. Magnitude(Drift(y)') <= Magnitude(Drift(y)) + 2 * Cap * 0
    BY <1>6, <1>7, <2>1, Constants DEF Magnitude
  <2>3. slips'[y] \in Nat /\ slips[y] \in Nat /\ slips[y] <= slips'[y]
    BY <1>1, Numbers, NumbersNext
  <2>4. Exposed(Underway(y)', Steady(y)') + 0 + slips[y]
            <= Exposed(Underway(y), Steady(y)) + slips'[y]
    BY <1>5, <2>3
  <2> QED BY <2>2, <2>4, PaidWhen
<1>9. CASE targets'[y] # stored[y]
  <2>1. targets'[y] = 0 /\ slips'[y] = slips[y] + 1 /\ slips[y] \in Nat
    BY <1>1, <1>9, Numbers DEF NoTargets
  <2>2. Drift(y)' = n
    <3>1. Drift(y)' = net'[y] - Recorded(y)' - Outstanding(y)'
      BY DEF Drift
    <3>2. Recorded(y)' = targets'[y]
      BY <1>1 DEF Recorded
    <3> QED BY <1>1, <1>4, <1>6, <2>1, <3>1, <3>2
  <2>3. Magnitude(Drift(y)') <= Magnitude(Drift(y)) + 2 * Cap * 1
    BY <1>6, <1>7, <2>2, Constants DEF Magnitude
  <2>4. Exposed(Underway(y)', Steady(y)') + 1 + slips[y]
            <= Exposed(Underway(y), Steady(y)) + slips'[y]
    BY <1>5, <2>1
  <2> QED BY <2>3, <2>4, PaidWhen
<1> QED BY <1>8, <1>9

LEMMA PaidStep ==
    ASSUME DriftInv, IInv', [Next]_vars
    PROVE  \A y \in Symbols : Paid(y)'
<1> SUFFICES ASSUME NEW y \in Symbols
             PROVE  Paid(y)'
  OBVIOUS
<1>1. /\ TypeOK /\ TypeOK' /\ Groups /\ Running /\ Based /\ Paid(y)
      /\ at \in [Streams -> Places] /\ job \in [Streams -> 0 .. Len(made)]
  BY DEF DriftInv, IInv, TypeOK, TaskTypes, Places
<1> DEFINE Same == /\ \A u \in Streams : job'[u] = job[u] /\ (at'[u] = "record" <=> at[u] = "record")
                   /\ targets'[y] = targets[y] /\ Recorded(y)' = Recorded(y)
                   /\ net'[y] = net[y] /\ slips'[y] = slips[y]
<1>2. Same => Paid(y)'
  BY <1>1, PaidSame
<1>3. ASSUME NEW t \in Streams, Consume(t) \/ LoopError(t) \/ PublishDecision(t)
      PROVE  Same
  BY <1>1, <1>3 DEF Consume, LoopError, PublishDecision, Recorded, history
<1>4. ASSUME NEW t \in Streams, NEW i \in group[t].todo,
             PassOver(t, i) \/ Return(t, i) \/ Late(t, i)
      PROVE  Same
  BY <1>1, <1>4 DEF PassOver, Return, Late, Recorded, history
<1>5. ASSUME NEW d \in saving, Persist(d)
      PROVE  Same
  <2>1. up
    BY <1>1 DEF Running
  <2> QED BY <1>1, <1>5, <2>1 DEF Persist, Recorded, taskVars, history
<1>6. ASSUME \/ (\E t \in Streams : \E sig \in Signals[t] : Publish(t, sig)) \/ Tick
             \/ (\E u \in Symbols : PriceSeen(u)) \/ UNCHANGED vars
      PROVE  UNCHANGED <<at, job, targets, stored, up, net, slips>>
  BY <1>6 DEF Publish, Tick, PriceSeen, vars, taskVars, history
<1>7. UNCHANGED <<at, job, targets, stored, up, net, slips>> => Same
  BY DEF Recorded
<1> HIDE DEF Same
<1>8. ASSUME NEW t \in Streams, NEW i \in group[t].todo,
             Decide(t, i) \/ Record(t, i) \/ HandlerFails(t, i)
      PROVE  Paid(y)'
  BY <1>1, <1>8, PaidDecide, PaidRecord, PaidFails
<1>9. ASSUME NEW t \in Streams, PublishOrder(t)
      PROVE  Paid(y)'
  BY <1>1, <1>9, PaidOrder
<1>10. Start \/ Crash => Paid(y)'
  BY <1>1, PaidStart, PaidCrash
<1> QED BY <1>2, <1>3, <1>4, <1>5, <1>6, <1>7, <1>8, <1>9, <1>10, Steps

LEMMA InitDriftInv == Init => DriftInv
<1> SUFFICES ASSUME Init PROVE DriftInv
  OBVIOUS
<1>1. IInv /\ TypeOK
  BY InitIInv DEF IInv
<1>2. Running /\ Based
  BY DEF Init, Running, Based
<1>3. ASSUME NEW y \in Symbols
      PROVE  Paid(y)
  <2>1. Underway(y) = {} /\ Unrecorded(y) = {}
    BY DEF Init, Underway, Unrecorded
  <2>2. Outstanding(y) = 0 /\ Recorded(y) = 0 /\ net[y] = 0 /\ slips[y] = 0
    BY <2>1 DEF Init, Outstanding, Recorded, NoTargets, Streams
  <2>3. Exposed(Underway(y), Steady(y)) = 0
    <3>1. PICK s \in BOOLEAN : s = Steady(y)
      BY <1>1, Numbers
    <3>2. Exposed({}, s) = 0
      BY ExposedFacts
    <3> QED BY <2>1, <3>1, <3>2
  <2> QED BY <2>2, <2>3, Constants DEF Paid, Drift, Magnitude
<1> QED BY <1>1, <1>2, <1>3 DEF DriftInv

LEMMA StepDriftInv == DriftInv /\ [Next]_vars => DriftInv'
<1> SUFFICES ASSUME DriftInv, [Next]_vars PROVE DriftInv'
  OBVIOUS
<1>1. IInv /\ TypeOK /\ Groups /\ Running /\ Based
  BY DEF DriftInv, IInv
<1>2. IInv'
  BY <1>1, StepIInv
<1> QED BY <1>1, <1>2, RunningStep, BasedStep, PaidStep DEF DriftInv

\* router.py: deltas are against the last emitted target.  The intents of a symbol add up
\* to its recorded target, but for twice the cap for each time two tasks decide on it at
\* once, an intent is out and its target lost, or a start finds another target.
THEOREM DriftIsPaidFor == Spec => []DriftBounded
<1>1. DriftInv => DriftBounded
  <2> SUFFICES ASSUME DriftInv, NEW y \in Symbols
               PROVE  Magnitude(net[y] - Recorded(y) - Outstanding(y)) <= 2 * Cap * slips[y]
    BY DEF DriftBounded
  <2>1. TypeOK /\ Paid(y)
    BY DEF DriftInv, IInv
  <2>2. PICK C \in Nat, x \in Int, e \in Nat, p \in Nat :
            /\ C = 2 * Cap /\ x = Drift(y) /\ e = Exposed(Underway(y), Steady(y)) /\ p = slips[y]
    BY <2>1, Numbers
  <2>3. Magnitude(x) + C * e <= C * p
    BY <2>1, <2>2 DEF Paid
  <2>4. C * e \in Nat /\ C * p \in Nat /\ Magnitude(x) \in Int
    BY DEF Magnitude
  <2>5. Magnitude(x) <= C * p
    BY <2>3, <2>4
  <2> QED BY <2>2, <2>5 DEF Drift
<1> QED BY <1>1, InitDriftInv, StepDriftInv, PTL DEF Spec

-----------------------------------------------------------------------------
(* What was last computed is reached *)

Members(s) == {s[k] : k \in DOMAIN s}

\* The decision of a task is on a symbol of the signal it has in hand.
Working ==
    \A t \in Streams : \A i \in group[t].todo :
        (InHand(group[t], i) /\ job[t] # 0) => made[job[t]].symbol \in Members(sent[t][i].symbols)

Reached(y, goal) == goal = targets[y] \/ Magnitude(goal - targets[y]) < MinDelta

\* A signal that names y is pending, and when it is in hand y is still ahead.
Retried(y) ==
    \E t \in Streams : \E i \in group[t].pel \ group[t].done :
        /\ y \in Members(sent[t][i].symbols)
        /\ (at[t] # "rest" /\ InHand(group[t], i)) => y \in Members(left[t])

\* The target last computed for y is that of the one decision under way on it, or none is
\* under way and it is reached, or y will be considered again, or a signal on y is a
\* dead letter.
Kept(y) ==
    \A goal \in due[y] :
        \/ \E t \in Streams : Underway(y) = {t} /\ made[job[t]].target = goal
        \/ Underway(y) = {} /\ (Reached(y, goal) \/ Retried(y) \/ GivenUpOn(y))

KeptInv == IInv /\ Running /\ Working /\ \A y \in Symbols : Kept(y)

LEMMA TailMembers ==
    ASSUME NEW l \in Seq(Symbols), l # <<>>
    PROVE  /\ Head(l) \in Members(l)
           /\ \A y \in Members(l) : y = Head(l) \/ y \in Members(Tail(l))
<1>1. /\ Len(l) \in Nat \ {0} /\ DOMAIN l = 1 .. Len(l) /\ Head(l) = l[1]
      /\ Tail(l) \in Seq(Symbols) /\ Len(Tail(l)) = Len(l) - 1
      /\ DOMAIN Tail(l) = 1 .. Len(Tail(l))
      /\ \A k \in 1 .. Len(Tail(l)) : Tail(l)[k] = l[k + 1]
  OBVIOUS
<1>2. Head(l) \in Members(l)
  BY <1>1 DEF Members
<1>3. ASSUME NEW k \in DOMAIN l, k # 1
      PROVE  l[k] \in Members(Tail(l))
  <2>1. k - 1 \in DOMAIN Tail(l) /\ Tail(l)[k - 1] = l[(k - 1) + 1]
    BY <1>1, <1>3
  <2>2. (k - 1) + 1 = k
    BY <1>1
  <2> QED BY <2>1, <2>2 DEF Members
<1> QED BY <1>1, <1>2, <1>3 DEF Members

LEMMA AheadMembers ==
    ASSUME NEW s \in Seq(Symbols), NEW l \in Seq(Symbols), NEW C, NEW i, Ahead(s, l, C, i)
    PROVE  Members(l) \subseteq Members(s)
<1>1. /\ Len(l) \in Nat /\ Len(s) \in Nat /\ Len(l) <= Len(s)
      /\ DOMAIN l = 1 .. Len(l) /\ DOMAIN s = 1 .. Len(s)
      /\ \A k \in 1 .. Len(l) : l[k] = s[Len(s) - Len(l) + k]
  BY DEF Ahead
<1>2. \A k \in 1 .. Len(l) : Len(s) - Len(l) + k \in 1 .. Len(s)
  BY <1>1
<1> QED BY <1>1, <1>2 DEF Members

\* Two signals in hand are one.
LEMMA OneInHand ==
    ASSUME TypeOK, Groups, NEW t \in Streams, NEW i \in group[t].todo, NEW j \in group[t].todo,
           InHand(group[t], i), InHand(group[t], j)
    PROVE  i = j
<1>1. i \in Int /\ j \in Int /\ i <= j /\ j <= i
  BY InHandFacts DEF InHand
<1> QED BY <1>1

LEMMA WorkingStep ==
    ASSUME IInv, IInv', Working, [Next]_vars
    PROVE  Working'
<1> SUFFICES ASSUME NEW t \in Streams, NEW i \in group'[t].todo, InHand(group'[t], i), job'[t] # 0
             PROVE  made'[job'[t]].symbol \in Members(sent'[t][i].symbols)
  BY DEF Working, InHand
<1>1. TypeOK /\ Groups /\ TypeOK'
  BY DEF IInv
<1>2. at'[t] # "rest"
  BY <1>1 DEF TypeOK, TaskTypes
<1>3. group'[t] = group[t] /\ i \in group[t].todo /\ InHand(group[t], i)
  BY <1>1, <1>2, TaskCases
<1>4. i \in 1 .. Len(sent[t]) /\ sent'[t][i] = sent[t][i] /\ sent[t][i].symbols \in Seq(Symbols)
  BY <1>1, <1>3, InHandFacts, SentStep DEF Stamped
<1>5. ASSUME job'[t] = job[t]
      PROVE  made'[job'[t]].symbol \in Members(sent'[t][i].symbols)
  <2>1. made'[job[t]] = made[job[t]]
    BY <1>1, <1>5, JobFacts, MadeStep
  <2> QED BY <1>3, <1>4, <1>5, <2>1 DEF Working
<1>6. ASSUME NEW j \in group[t].todo, Decide(t, j)
      PROVE  made'[job'[t]].symbol \in Members(sent'[t][i].symbols)
  <2>1. InHand(group[t], j) /\ at[t] \in {"rest", "next"} /\ Todo(t, j) # <<>>
        /\ job' = [job EXCEPT ![t] = Len(made) + 1]
    BY <1>6 DEF Decide
  <2>2. j = i
    BY <1>1, <1>3, <2>1, OneInHand
  <2>3. \E d \in Decisions : d.symbol = Head(Todo(t, i)) /\ made' = Append(made, d)
    <3>1. \E goal \in Targets :
              /\ made' = Append(made, [symbol |-> Head(Todo(t, i)), target |-> goal,
                                       delta |-> goal - targets[Head(Todo(t, i))]])
              /\ [symbol |-> Head(Todo(t, i)), target |-> goal,
                  delta |-> goal - targets[Head(Todo(t, i))]] \in Decisions
      BY <1>1, <1>6, <2>2, DecideFacts
    <3> QED BY <3>1
  <2>4. made \in Seq(Decisions) /\ DOMAIN job = Streams
    BY <1>1 DEF TypeOK, TargetTypes, TaskTypes
  <2>5. made'[job'[t]].symbol = Head(Todo(t, i))
    BY <2>1, <2>3, <2>4
  <2>6. PICK s, l, C : /\ s \in Seq(Symbols) /\ l \in Seq(Symbols)
                         /\ s = sent[t][i].symbols /\ l = Todo(t, i) /\ C = considered[t]
    BY <1>1, <1>3, <1>4, InHandFacts
  <2>7. Ahead(s, l, C, i) /\ l # <<>>
    BY <1>3, <2>1, <2>2, <2>6, TodoAhead
  <2>8. Head(l) \in Members(s)
    BY <2>6, <2>7, AheadMembers, TailMembers
  <2> QED BY <1>4, <2>5, <2>6, <2>8
<1>7. ASSUME NEW j \in group[t].todo, PassOver(t, j)
      PROVE  job'[t] = job[t]
  BY <1>7 DEF PassOver
<1>8. ~\E j \in group[t].todo : Record(t, j)
  <2>1. DOMAIN job = Streams
    BY <1>1 DEF TypeOK, TaskTypes
  <2> QED BY <2>1 DEF Record
<1> QED BY <1>1, <1>2, <1>5, <1>6, <1>7, <1>8, TaskCases

\* What was given up on stays so.
LEMMA GivenUpStays ==
    ASSUME IInv, [Next]_vars, NEW y \in Symbols, GivenUpOn(y)
    PROVE  GivenUpOn(y)'
<1>1. TypeOK /\ Groups /\ Batch \in Nat \ {0}
  BY Constants DEF IInv
<1>2. PICK t \in Streams : \E j \in group[t].dead :
          \E k \in DOMAIN sent[t][j].symbols : sent[t][j].symbols[k] = y
  BY DEF GivenUpOn
<1>3. PICK i \in group[t].dead :
          \E k \in DOMAIN sent[t][i].symbols : sent[t][i].symbols[k] = y
  BY <1>2
<1>4. PICK n \in Nat, g \in {group[t]}, h \in {group'[t]} :
          n = Len(sent[t]) /\ g = group[t] /\ h = group'[t]
  BY <1>1 DEF TypeOK, TaskTypes
<1>5. WellFormed(g, n) /\ Moves(g, h, n, Batch)
  BY <1>1, <1>4, GroupMoves DEF Groups
<1>6. i \in h.dead /\ i \in 1 .. n
  BY <1>1, <1>3, <1>4, <1>5, MovesFacts DEF WellFormed, GroupType
<1>7. sent'[t][i] = sent[t][i]
  BY <1>1, <1>4, <1>6, SentStep
<1> QED BY <1>3, <1>4, <1>6, <1>7 DEF GivenUpOn

\* A step that considers y in no task, short of a crash, leaves it to be considered again
\* or gives up on it.
LEMMA RetriedStep ==
    ASSUME IInv, [Next]_vars, NEW y \in Symbols, Retried(y),
           \A t \in Streams : \A i \in group[t].todo :
               PassOver(t, i) \/ Decide(t, i) => Head(Todo(t, i)) # y
    PROVE  Retried(y)' \/ GivenUpOn(y)'
<1>1. TypeOK /\ Groups /\ Batch \in Nat \ {0}
  BY Constants DEF IInv
<1>0. PICK t \in Streams : \E i \in group[t].pel \ group[t].done :
          /\ y \in Members(sent[t][i].symbols)
          /\ (at[t] # "rest" /\ InHand(group[t], i)) => y \in Members(left[t])
  BY DEF Retried
<1>2. PICK i \in group[t].pel \ group[t].done :
          /\ y \in Members(sent[t][i].symbols)
          /\ (at[t] # "rest" /\ InHand(group[t], i)) => y \in Members(left[t])
  BY <1>0
<1>3. i \in 1 .. Len(sent[t]) /\ sent'[t][i] = sent[t][i]
  <2>1. i \in 1 .. Len(sent[t])
    BY <1>1, <1>2 DEF Groups, WellFormed, GroupType
  <2> QED BY <1>1, <2>1, SentStep
<1>4. i \in group'[t].pel \/ i \in group'[t].dead
  <2>0. Len(sent[t]) \in Nat
    BY <1>1 DEF TypeOK, TaskTypes
  <2>1. PICK n \in Nat, g \in {group[t]}, h \in {group'[t]} :
            n = Len(sent[t]) /\ g = group[t] /\ h = group'[t]
    BY <2>0, Zenon
  <2>2. WellFormed(g, n) /\ Moves(g, h, n, Batch)
    BY <1>1, <2>1, GroupMoves DEF Groups
  <2>3. /\ g.cursor <= h.cursor /\ WellFormed(h, n)
        /\ \A k \in 1 .. h.cursor :
               \/ k \in h.pel \/ k \in h.dead
               \/ k \in 1 .. g.cursor /\ k \notin g.pel \ g.done
    BY <1>1, <2>2, MovesFacts
  <2>4. i \in 1 .. g.cursor /\ g.cursor \in Nat /\ h.cursor \in Nat
    BY <1>2, <2>1, <2>2, <2>3 DEF WellFormed, GroupType
  <2>5. i \in 1 .. h.cursor
    BY <2>3, <2>4
  <2> QED BY <1>2, <2>1, <2>3, <2>5
<1>5. i \notin group'[t].done
  <2>1. y \in Members(<<>>) => FALSE
    BY DEF Members
  <2>2. ASSUME i \in group'[t].done
        PROVE  InHand(group[t], i) /\ at[t] = "next" /\ left[t] = <<>>
    BY <1>2, <2>2, DoneStep
  <2> QED BY <1>2, <2>1, <2>2
<1>6. ASSUME at'[t] # "rest", InHand(group'[t], i)
      PROVE  y \in Members(left'[t])
  <2>1. group'[t] = group[t] /\ InHand(group[t], i) /\ i \in group[t].todo
    BY <1>1, <1>6, TaskCases DEF InHand
  <2>2. CASE at[t] # "rest" /\ left'[t] = left[t]
    BY <1>2, <2>1, <2>2
  <2>3. ASSUME NEW j \in group[t].todo, PassOver(t, j) \/ Decide(t, j)
        PROVE  y \in Members(left'[t])
    <3>1. /\ InHand(group[t], j) /\ at[t] \in {"rest", "next"} /\ Todo(t, j) # <<>>
          /\ left' = [left EXCEPT ![t] = Tail(Todo(t, j))]
      BY <2>3 DEF PassOver, Decide
    <3>2. j = i
      BY <1>1, <2>1, <3>1, OneInHand
    <3>3. left'[t] = Tail(Todo(t, i)) /\ Head(Todo(t, i)) # y /\ Todo(t, i) # <<>>
      BY <1>1, <2>3, <3>1, <3>2 DEF TypeOK, TaskTypes
    <3>4. PICK l \in Seq(Symbols) : l = Todo(t, i)
      BY <1>1, <2>1, InHandFacts
    <3>5. y \in Members(l)
      BY <1>2, <2>1, <3>1, <3>4 DEF Todo
    <3> QED BY <3>3, <3>4, <3>5, TailMembers
  <2>4. ASSUME NEW j \in group[t].todo, Record(t, j)
        PROVE  y \in Members(left'[t])
    BY <1>2, <2>1, <2>4 DEF Record
  <2> QED BY <1>1, <1>6, <2>2, <2>3, <2>4, TaskCases
<1>7. y \in Members(sent'[t][i].symbols)
  BY <1>2, <1>3
<1>8. CASE i \in group'[t].dead
  BY <1>7, <1>8 DEF GivenUpOn, Members
<1>9. CASE i \in group'[t].pel \ group'[t].done
  BY <1>6, <1>7, <1>9 DEF Retried, InHand, Members
<1> QED BY <1>4, <1>5, <1>8, <1>9

\* A step that considers y in no task, and changes neither what is under way on y nor its
\* target, keeps what is due.
LEMMA KeptSame ==
    ASSUME IInv, [Next]_vars, NEW y \in Symbols, Kept(y), due'[y] = due[y],
           targets'[y] = targets[y], Underway(y)' = Underway(y),
           \A u \in Underway(y) : job'[u] = job[u],
           \A t \in Streams : \A i \in group[t].todo :
               PassOver(t, i) \/ Decide(t, i) => Head(Todo(t, i)) # y
    PROVE  Kept(y)'
<1>1. TypeOK /\ Groups
  BY DEF IInv
<1>2. \A u \in Underway(y) : made'[job'[u]] = made[job[u]]
  <2>1. \A u \in Underway(y) : u \in Streams /\ job[u] # 0
    BY DEF Underway
  <2>2. \A u \in Underway(y) : job[u] \in DOMAIN made
    BY <1>1, <2>1, JobFacts
  <2> QED BY <1>1, <2>2, MadeStep
<1>3. ASSUME NEW goal \in due'[y]
      PROVE  \/ \E t \in Streams : Underway(y)' = {t} /\ made'[job'[t]].target = goal
             \/ Underway(y)' = {} /\ (Reached(y, goal)' \/ Retried(y)' \/ GivenUpOn(y)')
  <2>1. CASE \E t \in Streams : Underway(y) = {t} /\ made[job[t]].target = goal
    BY <1>2, <2>1
  <2>2. CASE Underway(y) = {} /\ Reached(y, goal)
    BY <2>2 DEF Reached
  <2>3. CASE Underway(y) = {} /\ Retried(y)
    BY <2>3, RetriedStep
  <2>4. CASE Underway(y) = {} /\ GivenUpOn(y)
    BY <2>4, GivenUpStays
  <2> QED BY <1>3, <2>1, <2>2, <2>3, <2>4 DEF Kept
<1> QED BY <1>3 DEF Kept, Reached, Retried, GivenUpOn, Underway, Members, InHand

\* A task passes y over because its target is reached.
LEMMA KeptPassOver ==
    ASSUME IInv, [Next]_vars, NEW t \in Streams, NEW i \in group[t].todo, PassOver(t, i),
           NEW y \in Symbols, Head(Todo(t, i)) = y
    PROVE  Kept(y)'
<1>1. TypeOK /\ Groups
  BY DEF IInv
<1>3. UNCHANGED <<targets, job, made>>
  BY DEF PassOver
<1>4. \/ due'[y] = {}
      \/ \E goal \in Targets : /\ due'[y] = Due(y, goal)
                               /\ ~WorthATrade(goal - targets[y]) \/ y \notin priced
  <2>1. due \in [Symbols -> SUBSET Targets]
    BY <1>1 DEF TypeOK, HistoryTypes
  <2> QED BY <2>1 DEF PassOver
<1>5. ASSUME NEW goal \in due'[y]
      PROVE  Underway(y)' = {} /\ Reached(y, goal)'
  <2>1. goal \in Targets /\ Underway(y) = {} /\ ~WorthATrade(goal - targets[y])
    BY <1>4, <1>5 DEF Due
  <2>2. goal \in Int /\ targets[y] \in Int
    BY <1>1, <2>1, Numbers
  <2>3. goal = targets[y] \/ ~(Magnitude(goal - targets[y]) >= MinDelta)
    BY <2>1, <2>2 DEF WorthATrade
  <2>4. goal - targets[y] \in Int /\ MinDelta \in Nat
    BY <2>2, Constants
  <2>5. Reached(y, goal)
    BY <2>3, <2>4 DEF Reached, Magnitude
  <2> QED BY <1>3, <2>1, <2>5 DEF Underway, Reached
<1> QED BY <1>5 DEF Kept, Reached, Retried, GivenUpOn, Underway, Members, InHand

\* One task considers one symbol in a step.
LEMMA OneConsiders ==
    ASSUME TypeOK, Groups, NEW t \in Streams, NEW i \in group[t].todo,
           PassOver(t, i) \/ Decide(t, i),
           NEW u \in Streams, NEW j \in group[u].todo, PassOver(u, j) \/ Decide(u, j)
    PROVE  u = t /\ j = i
<1>1. /\ InHand(group[t], i) /\ left' = [left EXCEPT ![t] = Tail(Todo(t, i))]
      /\ at' = [at EXCEPT ![t] = "next"] \/ at' = [at EXCEPT ![t] = "decision"]
  BY DEF PassOver, Decide
<1>2. /\ InHand(group[u], j) /\ left' = [left EXCEPT ![u] = Tail(Todo(u, j))]
      /\ at' = [at EXCEPT ![u] = "next"] \/ at' = [at EXCEPT ![u] = "decision"]
      /\ at[u] \in {"rest", "next"} /\ Todo(u, j) # <<>>
  BY DEF PassOver, Decide
<1>3. left \in [Streams -> Seq(Symbols)] /\ at \in [Streams -> Places]
  BY DEF TypeOK, TaskTypes, Places
<1>4. u = t
  <2> SUFFICES ASSUME u # t PROVE FALSE
    OBVIOUS
  <2>1. left'[u] = left[u] /\ at'[u] = at[u]
    BY <1>1, <1>3
  <2>2. left'[u] = Tail(Todo(u, j)) /\ at'[u] \in {"next", "decision"}
    BY <1>2, <1>3
  <2>3. at[u] = "next"
    BY <1>2, <2>1, <2>2
  <2>4. left[u] # <<>> /\ left[u] = Tail(left[u]) /\ left[u] \in Seq(Symbols)
    BY <1>2, <1>3, <2>1, <2>2, <2>3 DEF Todo
  <2>5. \A l \in Seq(Symbols) : l # <<>> => l # Tail(l)
    <3>1. \A l \in Seq(Symbols) : l # <<>> => Len(Tail(l)) = Len(l) - 1 /\ Len(l) \in Nat
      OBVIOUS
    <3>2. \A l \in Seq(Symbols) : l # <<>> => Len(Tail(l)) # Len(l)
      BY <3>1
    <3> QED BY <3>2
  <2> QED BY <2>4, <2>5
<1> QED BY <1>1, <1>2, <1>4, OneInHand

\* A decision on y is under way, alone when its target is due.
LEMMA KeptDecide ==
    ASSUME IInv, IInv', [Next]_vars, NEW t \in Streams, NEW i \in group[t].todo, Decide(t, i),
           NEW y \in Symbols, Kept(y)
    PROVE  Kept(y)'
<1>1. TypeOK /\ TypeOK' /\ Groups
  BY DEF IInv
<1>2. /\ at[t] \in {"rest", "next"} /\ job[t] = 0 /\ Len(made) \in Nat /\ made \in Seq(Decisions)
      /\ UNCHANGED <<targets, stored, up, net>>
      /\ job' = [job EXCEPT ![t] = Len(made) + 1] /\ at' = [at EXCEPT ![t] = "decision"]
  BY <1>1 DEF Decide, TypeOK, TaskTypes, TargetTypes
<1>3. Elsewhere(t) /\ job'[t] = Len(made) + 1
  BY <1>1, <1>2 DEF Elsewhere, TypeOK, TaskTypes
<1>4. PICK z \in Symbols, goal \in Targets, m \in Decisions :
          /\ z = Head(Todo(t, i)) /\ made' = Append(made, m) /\ m.symbol = z /\ m.target = goal
          /\ due' = [due EXCEPT ![z] = Due(z, goal)]
  <2>1. PICK z \in Symbols : z = Head(Todo(t, i))
    BY <1>1, DecideFacts
  <2>2. PICK goal \in Targets :
            /\ made' = Append(made, [symbol |-> z, target |-> goal, delta |-> goal - targets[z]])
            /\ [symbol |-> z, target |-> goal, delta |-> goal - targets[z]] \in Decisions
            /\ due' = [due EXCEPT ![z] = Due(z, goal)]
    BY <1>1, <2>1, DecideFacts
  <2>3. PICK m \in Decisions : made' = Append(made, m) /\ m.symbol = z /\ m.target = goal
    BY <2>2
  <2> QED BY <2>1, <2>2, <2>3
<1>5. made'[job'[t]] = m
  BY <1>2, <1>3, <1>4
<1>6. t \notin Underway(y) /\ (t \in Underway(y)' <=> y = z)
  BY <1>2, <1>3, <1>4, <1>5 DEF Underway
<1>7. Underway(y)' \ {t} = Underway(y) \ {t}
  BY <1>1, <1>3, OneTask
<1>8. due \in [Symbols -> SUBSET Targets]
  BY <1>1 DEF TypeOK, HistoryTypes
<1>9. CASE y = z
  <2>1. due'[y] = Due(y, goal)
    BY <1>4, <1>8, <1>9
  <2>2. ASSUME NEW g \in due'[y]
        PROVE  Underway(y)' = {t} /\ made'[job'[t]].target = g
    <3>1. Underway(y) = {} /\ g = goal
      BY <2>1, <2>2 DEF Due
    <3> QED BY <1>4, <1>5, <1>6, <1>7, <1>9, <3>1
  <2>3. \A g \in due'[y] : \E u \in Streams :
            Underway(y)' = {u} /\ made'[job'[u]].target = g
    BY <2>2
  <2> QED BY <2>3 DEF Kept
<1>10. CASE y # z
  <2>0. due'[y] = due[y]
    BY <1>4, <1>8, <1>10
  <2>1. Underway(y)' = Underway(y)
    BY <1>6, <1>7, <1>10
  <2>2. \A u \in Underway(y) : job'[u] = job[u]
    BY <1>3, <1>6 DEF Elsewhere, Underway
  <2>3. \A u \in Streams : \A j \in group[u].todo :
            PassOver(u, j) \/ Decide(u, j) => Head(Todo(u, j)) # y
    BY <1>1, <1>4, <1>10, OneConsiders
  <2> QED BY <1>2, <2>0, <2>1, <2>2, <2>3, KeptSame
<1> QED BY <1>9, <1>10

\* A decision on y that is recorded reaches its target; one that is given up is on a signal
\* that stays pending or is given up on.
LEMMA KeptRecord ==
    ASSUME IInv, IInv', Working, [Next]_vars, NEW t \in Streams, NEW i \in group[t].todo,
           Record(t, i), NEW y \in Symbols, Kept(y),
           ~\E u \in Streams : \E j \in group[u].todo : PassOver(u, j) \/ Decide(u, j)
    PROVE  Kept(y)'
<1>1. TypeOK /\ TypeOK' /\ Groups
  BY DEF IInv
<1>2. /\ at[t] = "record" /\ job[t] # 0 /\ job[t] \in DOMAIN made /\ UNCHANGED <<due, made>>
      /\ targets' = RecordedTarget(job[t]) /\ job' = [job EXCEPT ![t] = 0]
      /\ at' = [at EXCEPT ![t] = "next"]
  BY <1>1, JobFacts DEF Record, TypeOK, TaskTypes
<1>3. Elsewhere(t) /\ job'[t] = 0
  BY <1>1, <1>2 DEF Elsewhere, TypeOK, TaskTypes
<1>4. PICK z \in Symbols : z = made[job[t]].symbol
  BY <1>1, <1>2, JobFacts
<1>5. targets' = [targets EXCEPT ![z] = made[job[t]].target] /\ targets \in [Symbols -> Targets]
  BY <1>1, <1>2, <1>4 DEF RecordedTarget, TypeOK, TargetTypes
<1>6. (t \in Underway(y) <=> y = z) /\ Underway(y)' = Underway(y) \ {t}
  BY <1>1, <1>2, <1>3, <1>4, OneOver DEF Underway
<1>7. CASE y = z
  <2>1. ASSUME NEW goal \in due'[y]
        PROVE  Underway(y)' = {} /\ Reached(y, goal)'
    <3>1. PICK u \in Streams : Underway(y) = {u} /\ made[job[u]].target = goal
      BY <1>2, <1>6, <1>7, <2>1 DEF Kept
    <3>2. u = t
      BY <1>6, <1>7, <3>1
    <3>3. targets'[y] = goal
      BY <1>5, <1>7, <3>1, <3>2
    <3> QED BY <1>6, <3>1, <3>2, <3>3 DEF Reached
  <2> QED BY <2>1 DEF Kept, Reached, Retried, GivenUpOn, Underway, Members, InHand
<1>8. CASE y # z
  <2>1. Underway(y)' = Underway(y) /\ targets'[y] = targets[y] /\ due'[y] = due[y]
    BY <1>2, <1>5, <1>6, <1>8
  <2>2. \A u \in Underway(y) : job'[u] = job[u]
    BY <1>3, <1>6, <1>8 DEF Elsewhere, Underway
  <2> QED BY <2>1, <2>2, KeptSame
<1> QED BY <1>7, <1>8

LEMMA KeptFails ==
    ASSUME IInv, IInv', Working, [Next]_vars, NEW t \in Streams, NEW i \in group[t].todo,
           HandlerFails(t, i), NEW y \in Symbols, Kept(y),
           ~\E u \in Streams : \E j \in group[u].todo : PassOver(u, j) \/ Decide(u, j)
    PROVE  Kept(y)'
<1>1. TypeOK /\ TypeOK' /\ Groups
  BY DEF IInv
<1>2. /\ job[t] # 0 /\ job[t] \in DOMAIN made /\ UNCHANGED <<due, made, targets, sent>>
      /\ job' = [job EXCEPT ![t] = 0] /\ at' = [at EXCEPT ![t] = "rest"]
      /\ InHand(group[t], i)
      /\ \E g \in Raised(group[t], i) : group' = [group EXCEPT ![t] = g]
  BY <1>1, JobFacts DEF HandlerFails, signalVars
<1>3. Elsewhere(t) /\ job'[t] = 0 /\ at'[t] = "rest"
  BY <1>1, <1>2 DEF Elsewhere, TypeOK, TaskTypes
<1>4. PICK z \in Symbols : z = made[job[t]].symbol
  BY <1>1, <1>2, JobFacts
<1>5. (t \in Underway(y) <=> y = z) /\ Underway(y)' = Underway(y) \ {t}
  BY <1>1, <1>2, <1>3, <1>4, OneOver DEF Underway
<1>6. CASE y = z
  <2>1. y \in Members(sent[t][i].symbols)
    BY <1>2, <1>4, <1>6 DEF Working
  <2>2. i \in group'[t].pel \ group'[t].done \/ i \in group'[t].dead
    <3>0. Len(sent[t]) \in Nat
      BY <1>1 DEF TypeOK, TaskTypes
    <3>1. PICK n \in Nat, g \in {group[t]}, h \in {group'[t]} :
              n = Len(sent[t]) /\ g = group[t] /\ h = group'[t]
      BY <3>0, Zenon
    <3>2. /\ WellFormed(g, n) /\ i \in g.todo /\ i \in g.pel \ g.done
          /\ h = Failed(g, i) \/ h = GivenUp(g, i)
      BY <1>1, <1>2, <3>1 DEF Groups, TypeOK, TaskTypes, WellFormed, Raised
    <3>3. CASE h = Failed(g, i)
      BY <3>1, <3>2, <3>3, HandlerEndFacts
    <3>4. CASE h = GivenUp(g, i)
      BY <3>1, <3>2, <3>4, GivenUpFacts
    <3> QED BY <3>2, <3>3, <3>4
  <2>3. Retried(y)' \/ GivenUpOn(y)'
    BY <1>2, <1>3, <2>1, <2>2 DEF Retried, GivenUpOn, Members, InHand
  <2>4. ASSUME NEW goal \in due'[y]
        PROVE  Underway(y)' = {}
    <3>1. PICK u \in Streams : Underway(y) = {u}
      BY <1>2, <1>5, <1>6, <2>4 DEF Kept
    <3> QED BY <1>5, <1>6, <3>1
  <2> QED BY <2>3, <2>4 DEF Kept, Reached, Retried, GivenUpOn, Underway, Members, InHand
<1>7. CASE y # z
  <2>1. Underway(y)' = Underway(y) /\ targets'[y] = targets[y] /\ due'[y] = due[y]
    BY <1>2, <1>5, <1>7
  <2>2. \A u \in Underway(y) : job'[u] = job[u]
    BY <1>3, <1>5, <1>7 DEF Elsewhere, Underway
  <2> QED BY <2>1, <2>2, KeptSame
<1> QED BY <1>6, <1>7

LEMMA KeptStep ==
    ASSUME KeptInv, IInv', [Next]_vars
    PROVE  \A y \in Symbols : Kept(y)'
<1> SUFFICES ASSUME NEW y \in Symbols
             PROVE  Kept(y)'
  OBVIOUS
<1>1. /\ IInv /\ TypeOK /\ Groups /\ Running /\ Working /\ Kept(y)
      /\ at \in [Streams -> Places] /\ job \in [Streams -> 0 .. Len(made)]
  BY DEF KeptInv, IInv, TypeOK, TaskTypes, Places
<1>2. ASSUME NEW t \in Streams, NEW i \in group[t].todo, Decide(t, i)
      PROVE  Kept(y)'
  BY <1>1, <1>2, KeptDecide
<1>3. ASSUME NEW t \in Streams, NEW i \in group[t].todo, PassOver(t, i)
      PROVE  Kept(y)'
  <2>1. CASE Head(Todo(t, i)) = y
    BY <1>1, <1>3, <2>1, KeptPassOver
  <2>2. CASE Head(Todo(t, i)) # y
    <3>1. UNCHANGED <<targets, job, made>>
      BY <1>3 DEF PassOver
    <3>2. due'[y] = due[y]
      <4>1. due \in [Symbols -> SUBSET Targets]
        BY <1>1 DEF TypeOK, HistoryTypes
      <4> QED BY <1>3, <2>2, <4>1 DEF PassOver
    <3>3. \A u \in Streams : \A j \in group[u].todo :
              PassOver(u, j) \/ Decide(u, j) => Head(Todo(u, j)) # y
      BY <1>1, <1>3, <2>2, OneConsiders
    <3>4. Underway(y)' = Underway(y)
      BY <3>1 DEF Underway
    <3> QED BY <1>1, <3>1, <3>2, <3>3, <3>4, KeptSame
  <2> QED BY <2>1, <2>2
<1>4. ASSUME ~\E u \in Streams : \E j \in group[u].todo : PassOver(u, j) \/ Decide(u, j)
      PROVE  Kept(y)'
  <2> DEFINE Same == /\ due'[y] = due[y] /\ targets'[y] = targets[y]
                     /\ job' = job /\ made' = made
  <2>1. Same => Kept(y)'
    <3> SUFFICES ASSUME Same PROVE Kept(y)'
      OBVIOUS
    <3>1. Underway(y)' = Underway(y)
      BY DEF Underway
    <3> QED BY <1>1, <1>4, <3>1, KeptSame
  <2>2. ASSUME NEW t \in Streams, NEW i \in group[t].todo, Record(t, i) \/ HandlerFails(t, i)
        PROVE  Kept(y)'
    BY <1>1, <1>4, <2>2, KeptRecord, KeptFails
  <2>3. ASSUME NEW t \in Streams, NEW i \in group[t].todo, Return(t, i) \/ Late(t, i)
        PROVE  Same
    BY <2>3 DEF Return, Late, history
  <2>4. ASSUME \/ (\E t \in Streams : \E sig \in Signals[t] : Publish(t, sig)) \/ Tick
               \/ (\E u \in Symbols : PriceSeen(u))
               \/ (\E t \in Streams : \/ Consume(t) \/ LoopError(t)
                                      \/ PublishDecision(t) \/ PublishOrder(t))
               \/ (\E d \in saving : Persist(d)) \/ UNCHANGED vars
        PROVE  Same
    BY <2>4 DEF Publish, Tick, PriceSeen, Consume, LoopError, PublishDecision, PublishOrder, Persist, vars,
       taskVars, history
  <2>5. ASSUME Crash \/ Start
        PROVE  due'[y] = {}
    BY <1>1, <2>5 DEF Crash, Start, Running
  <2>6. due'[y] = {} => Kept(y)'
    BY DEF Kept
  <2> HIDE DEF Same
  <2> QED BY <1>4, <2>1, <2>2, <2>3, <2>4, <2>5, <2>6, Steps
<1> QED BY <1>2, <1>3, <1>4

LEMMA InitKeptInv == Init => KeptInv
<1> SUFFICES ASSUME Init PROVE KeptInv
  OBVIOUS
<1>1. IInv
  BY InitIInv
<1>2. Running /\ Working /\ \A y \in Symbols : Kept(y)
  BY DEF Init, Running, Working, Kept, EmptyGroup
<1> QED BY <1>1, <1>2 DEF KeptInv

LEMMA StepKeptInv == KeptInv /\ [Next]_vars => KeptInv'
<1> SUFFICES ASSUME KeptInv, [Next]_vars PROVE KeptInv'
  OBVIOUS
<1>1. IInv /\ Running /\ Working
  BY DEF KeptInv
<1>2. IInv'
  BY <1>1, StepIInv
<1> QED BY <1>1, <1>2, RunningStep, WorkingStep, KeptStep DEF KeptInv

\* router.py: the deadband.  When every signal is settled, the recorded target of a symbol
\* is within the deadband of the target computed when it was last considered, whatever
\* failed, was tried again or stopped on the way, unless a signal on it is a dead letter.
THEOREM SettledIsReached == Spec => []Converged
<1>1. KeptInv => Converged
  <2> SUFFICES ASSUME KeptInv, \A t \in Streams : Settled(group[t], Len(sent[t])),
                      NEW y \in Symbols, NEW goal \in due[y]
               PROVE  \/ goal = targets[y] \/ Magnitude(goal - targets[y]) < MinDelta
                      \/ GivenUpOn(y)
    BY DEF Converged
  <2>1. TypeOK /\ Running /\ Kept(y)
    BY DEF KeptInv, IInv
  <2>2. \A t \in Streams : group[t].todo = {} /\ group[t].pel = {}
    BY DEF Settled, AtRest
  <2>3. Underway(y) = {}
    <3>1. \A t \in Streams : at[t] = "rest"
      BY <2>1, <2>2 DEF Running
    <3> QED BY <2>1, <3>1 DEF TypeOK, TaskTypes, Underway
  <2>4. ~Retried(y)
    BY <2>2 DEF Retried
  <2> QED BY <2>1, <2>3, <2>4 DEF Kept, Reached
<1> QED BY <1>1, InitKeptInv, StepKeptInv, PTL DEF Spec

=============================================================================
