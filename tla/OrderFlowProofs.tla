--------------------------- MODULE OrderFlowProofs ---------------------------
(***************************************************************************)
(* Proofs about OrderFlow for every set of strategies, symbols and         *)
(* intents, every cap, batch size and bound: the type invariant, that no   *)
(* intent is lost but as a dead letter, that a trip of the kill switch     *)
(* lets at most the intent in hand fill, that every fill is booked exactly *)
(* once while none is delivered again, and that an intent approved on a    *)
(* settled snapshot is within the caps.  At the end, what a fill does to   *)
(* the books, and any number of them.                                      *)
(*                                                                         *)
(* Sums over sets are folds, recursive functions on the subsets of a set.  *)
(* What is true of them by induction is proved here with a smallest        *)
(* counterexample: a set of subsets of a finite set has a smallest one.    *)
(***************************************************************************)
EXTENDS OrderFlow, PositionKernel, ConsumerGroupProofs, SequenceTheorems,
        FiniteSetTheorems, WellFoundedInduction, TLAPS

-----------------------------------------------------------------------------
(* Facts about the data *)

\* The four verdicts, how many messages each publishes, and which.
LEMMA PlanFacts ==
    /\ DOMAIN Plan = {"none", "reject", "nomid", "fill"}
    /\ Len(Plan["none"]) = 0 /\ Len(Plan["reject"]) = 1
    /\ Len(Plan["nomid"]) = 3 /\ Len(Plan["fill"]) = 4
    /\ Plan["reject"][1] = "REJECTED"
    /\ Plan["nomid"][1] = "PENDING_NEW" /\ Plan["nomid"][2] = "NEW"
    /\ Plan["nomid"][3] = "REJECTED"
    /\ Plan["fill"][1] = "PENDING_NEW" /\ Plan["fill"][2] = "NEW"
    /\ Plan["fill"][3] = "FILLED" /\ Plan["fill"][4] = "Fill"
  BY DEF Plan

\* The only fill of a plan is the fourth message of an approved intent's.
LEMMA FillIsFourth ==
    ASSUME NEW v \in {"reject", "nomid", "fill"}, NEW n \in Nat, n < Len(Plan[v])
    PROVE  Plan[v][n + 1] = "Fill" <=> v = "fill" /\ n = 3
<1>1. CASE v = "reject"
  BY <1>1, PlanFacts
<1>2. CASE v = "nomid"
  BY <1>2, PlanFacts
<1>3. CASE v = "fill"
  BY <1>3, PlanFacts
<1> QED BY <1>1, <1>2, <1>3

\* A magnitude is a natural number.
LEMMA MagnitudeNat ==
    ASSUME NEW a \in Int, NEW b \in Int
    PROVE  Magnitude(a * b) \in Nat
<1>1. a * b \in Int
  OBVIOUS
<1> QED BY <1>1 DEF Magnitude

\* Prices are numbers.
LEMMA PriceNumbers == Prices \cup {NoPrice} \subseteq Int
<1>1. Prices \subseteq Nat
  BY OrderFlowAssumption
<1> QED BY <1>1 DEF NoPrice

\* Appending to a sequence of a set.
LEMMA AppendFacts ==
    ASSUME NEW S, NEW q \in Seq(S), NEW e \in S, NEW r, r = Append(q, e)
    PROVE  /\ r \in Seq(S) /\ Len(r) = Len(q) + 1
           /\ \A k \in 1 .. Len(q) : r[k] = q[k]
           /\ r[Len(r)] = e
<1>1. r \in Seq(S) /\ Len(r) = Len(q) + 1
  OBVIOUS
<1>2. \A k \in 1 .. Len(q) : r[k] = q[k]
  OBVIOUS
<1>3. r[Len(q) + 1] = e
  OBVIOUS
<1> QED BY <1>1, <1>2, <1>3

-----------------------------------------------------------------------------
(* Sums *)

\* The element a fold takes first, the sum a fold computes, and the equation its
\* recursive function satisfies.
Pick(s) == CHOOSE x \in s : TRUE
Total(h, S) == MapThenSumSet(LAMBDA k : h[k], S)
Adds(g, h, S) ==
    g = [s \in SUBSET S |-> IF s = {} THEN 0 ELSE h[Pick(s)] + g[s \ {Pick(s)}]]

\* What is picked from a set is in it.
LEMMA PickIn == ASSUME NEW s, s # {} PROVE Pick(s) \in s
  BY DEF Pick

\* A set of subsets of a finite set has a smallest one.
LEMMA SmallestSet ==
  ASSUME NEW S, IsFiniteSet(S), NEW B, B \subseteq SUBSET S, B # {}
  PROVE  \E T \in B : \A U \in B : ~(U \subseteq T /\ U # T)
<1>1. B \subseteq FiniteSubsetsOf(S)
  BY FS_FiniteSubsetsOfFinite
<1>2. \E x \in B : \A y \in B : ~ (<<y, x>> \in StrictSubsetOrdering(S))
  BY <1>1, WFMin, FS_StrictSubsetOrderingWellFounded
<1> QED BY <1>2 DEF StrictSubsetOrdering

\* Two such functions agree where both are defined ...
LEMMA AddsAgree ==
  ASSUME NEW S, NEW U, NEW g, NEW k, NEW h, IsFiniteSet(S), Adds(g, h, S), Adds(k, h, U)
  PROVE  \A s \in SUBSET S : s \subseteq U => g[s] = k[s]
<1> DEFINE B == {s \in SUBSET S : s \subseteq U /\ g[s] # k[s]}
<1> SUFFICES ASSUME B # {} PROVE FALSE
  OBVIOUS
<1>1. PICK T \in B : \A V \in B : ~(V \subseteq T /\ V # T)
  <2>1. B \subseteq SUBSET S
    OBVIOUS
  <2> HIDE DEF B
  <2> QED BY <2>1, SmallestSet
<1>2. CASE T = {}
  BY <1>2, <1>1 DEF Adds
<1>3. CASE T # {}
  <2>1. Pick(T) \in T
    BY <1>3, PickIn
  <2>2. T \ {Pick(T)} \notin B
    BY <1>1, <2>1
  <2>3. g[T \ {Pick(T)}] = k[T \ {Pick(T)}]
    BY <2>2
  <2>4. g[T] = h[Pick(T)] + g[T \ {Pick(T)}] /\ k[T] = h[Pick(T)] + k[T \ {Pick(T)}]
    BY <1>3 DEF Adds
  <2> QED BY <2>3, <2>4
<1> QED BY <1>2, <1>3

\* ... and there is one: the function of the smallest set that had none is put
\* together from those of its subsets.
LEMMA AddsExists ==
  ASSUME NEW S, NEW h, IsFiniteSet(S)
  PROVE  \E g : Adds(g, h, S)
<1> DEFINE B == {s \in SUBSET S : ~ \E g : Adds(g, h, s)}
<1> SUFFICES ASSUME B # {} PROVE FALSE
  OBVIOUS
<1>1. PICK T \in B : \A V \in B : ~(V \subseteq T /\ V # T)
  <2>1. B \subseteq SUBSET S
    OBVIOUS
  <2> HIDE DEF B
  <2> QED BY <2>1, SmallestSet
<1> DEFINE G(t) == CHOOSE g : Adds(g, h, t)
           k == [t \in SUBSET T |->
                    IF t = {} THEN 0
                    ELSE h[Pick(t)] + G(t \ {Pick(t)})[t \ {Pick(t)}]]
<1>2. \A t \in SUBSET T : t # T => Adds(G(t), h, t) /\ IsFiniteSet(t)
  BY <1>1, FS_Subset
<1>3. ASSUME NEW t \in SUBSET T, t # {}
      PROVE  k[t \ {Pick(t)}] = G(t \ {Pick(t)})[t \ {Pick(t)}]
  <2> DEFINE v == t \ {Pick(t)}
  <2>1. v \in SUBSET T /\ v # T
    BY <1>3, PickIn
  <2>2. Adds(G(v), h, v) /\ IsFiniteSet(v)
    BY <2>1, <1>2
  <2> HIDE DEF G
  <2>3. CASE v = {}
    BY <2>3, <2>2 DEF Adds
  <2>4. CASE v # {}
    <3> DEFINE w == v \ {Pick(v)}
    <3>1. w \in SUBSET v /\ w # T /\ w \in SUBSET T
      BY <2>4, <2>1, PickIn
    <3>2. Adds(G(w), h, w)
      BY <3>1, <1>2
    <3>3. G(v)[w] = G(w)[w]
      BY <3>1, <3>2, <2>2, AddsAgree
    <3>4. G(v)[v] = h[Pick(v)] + G(v)[w]
      BY <2>2, <2>4 DEF Adds
    <3>5. k[v] = h[Pick(v)] + G(w)[w]
      BY <2>1, <2>4
    <3> QED BY <3>3, <3>4, <3>5
  <2> QED BY <2>3, <2>4
<1>4. k = [t \in SUBSET T |-> IF t = {} THEN 0 ELSE h[Pick(t)] + k[t \ {Pick(t)}]]
  <2> DEFINE F(t) == G(t \ {Pick(t)})[t \ {Pick(t)}]
  <2>1. k = [t \in SUBSET T |-> IF t = {} THEN 0 ELSE h[Pick(t)] + F(t)]
    OBVIOUS
  <2>2. \A t \in SUBSET T : t # {} => F(t) = k[t \ {Pick(t)}]
    BY <1>3
  <2> HIDE DEF F, k
  <2> QED BY <2>1, <2>2
<1>5. Adds(k, h, T)
  BY <1>4 DEF Adds
<1> QED BY <1>5, <1>1

\* A total is the value of that function at the whole set.
LEMMA TotalIs == ASSUME NEW h, NEW S PROVE Total(h, S) = (CHOOSE g : Adds(g, h, S))[S]
  BY DEF Total, MapThenSumSet, MapThenFoldSet, Pick, Adds

\* The total of nothing, the first element taken off, and that totals are numbers.
LEMMA TotalEmpty == ASSUME NEW h PROVE Total(h, {}) = 0
<1>1. Adds(CHOOSE g : Adds(g, h, {}), h, {})
  BY AddsExists, FS_EmptySet
<1> QED BY <1>1, TotalIs DEF Adds

LEMMA TotalPick ==
  ASSUME NEW h, NEW S, IsFiniteSet(S), S # {}
  PROVE  Total(h, S) = h[Pick(S)] + Total(h, S \ {Pick(S)})
<1> DEFINE G(t) == CHOOSE g : Adds(g, h, t)
           U == S \ {Pick(S)}
<1>1. Adds(G(S), h, S) /\ Adds(G(U), h, U)
  BY AddsExists, FS_RemoveElement, FS_Subset
<1> HIDE DEF G
<1>2. G(S)[U] = G(U)[U]
  BY <1>1, AddsAgree
<1>3. G(S)[S] = h[Pick(S)] + G(S)[U]
  BY <1>1 DEF Adds
<1>4. Total(h, S) = G(S)[S] /\ Total(h, U) = G(U)[U]
  BY TotalIs DEF G
<1> QED BY <1>2, <1>3, <1>4

LEMMA TotalInt ==
  ASSUME NEW h, NEW S, IsFiniteSet(S), \A x \in S : h[x] \in Int
  PROVE  Total(h, S) \in Int
<1> DEFINE B == {s \in SUBSET S : Total(h, s) \notin Int}
<1> SUFFICES ASSUME B # {} PROVE FALSE
  OBVIOUS
<1>1. PICK T \in B : \A V \in B : ~(V \subseteq T /\ V # T)
  <2>1. B \subseteq SUBSET S
    OBVIOUS
  <2> HIDE DEF B
  <2> QED BY <2>1, SmallestSet
<1>2. T # {}
  BY TotalEmpty
<1>3. Pick(T) \in T /\ IsFiniteSet(T)
  BY <1>2, PickIn, FS_Subset
<1>4. Total(h, T \ {Pick(T)}) \in Int
  BY <1>1, <1>3
<1> QED BY <1>2, <1>3, <1>4, TotalPick

\* Any element may be taken off: the order of the fold does not matter.
LEMMA TotalRemove ==
  ASSUME NEW h, NEW S, IsFiniteSet(S), \A x \in S : h[x] \in Int
  PROVE  \A x \in S : Total(h, S) = h[x] + Total(h, S \ {x})
<1> DEFINE B == {s \in SUBSET S : \E x \in s : Total(h, s) # h[x] + Total(h, s \ {x})}
<1> SUFFICES ASSUME B # {} PROVE FALSE
  OBVIOUS
<1>1. PICK T \in B : \A V \in B : ~(V \subseteq T /\ V # T)
  <2>1. B \subseteq SUBSET S
    OBVIOUS
  <2> HIDE DEF B
  <2> QED BY <2>1, SmallestSet
<1>2. PICK x \in T : Total(h, T) # h[x] + Total(h, T \ {x})
  BY <1>1
<1> DEFINE p == Pick(T)
           R == (T \ {p}) \ {x}
<1>3. p \in T /\ IsFiniteSet(T) /\ IsFiniteSet(T \ {p}) /\ IsFiniteSet(R)
  BY <1>2, PickIn, FS_Subset
<1> HIDE DEF p
<1>4. Total(h, T) = h[p] + Total(h, T \ {p})
  BY <1>3, <1>2, TotalPick DEF p
<1>5. x # p
  BY <1>4, <1>2
<1>6. Total(h, T \ {p}) = h[x] + Total(h, R)
  <2>1. T \ {p} \notin B /\ x \in T \ {p}
    BY <1>1, <1>3, <1>5
  <2> QED BY <2>1
<1>7. Total(h, T \ {x}) = h[p] + Total(h, R)
  <2>1. T \ {x} \notin B /\ p \in T \ {x} /\ (T \ {x}) \ {p} = R
    BY <1>1, <1>3, <1>5
  <2> QED BY <2>1
<1>8. Total(h, R) \in Int /\ h[p] \in Int /\ h[x] \in Int
  BY <1>3, TotalInt
<1> QED BY <1>2, <1>4, <1>6, <1>7, <1>8

\* The total depends on the numbers in the set only.
LEMMA TotalAgree ==
  ASSUME NEW h, NEW k, NEW S, IsFiniteSet(S), \A x \in S : h[x] = k[x]
  PROVE  Total(h, S) = Total(k, S)
<1> DEFINE B == {s \in SUBSET S : Total(h, s) # Total(k, s)}
<1> SUFFICES ASSUME B # {} PROVE FALSE
  OBVIOUS
<1>1. PICK T \in B : \A V \in B : ~(V \subseteq T /\ V # T)
  <2>1. B \subseteq SUBSET S
    OBVIOUS
  <2> HIDE DEF B
  <2> QED BY <2>1, SmallestSet
<1>2. T # {}
  BY TotalEmpty
<1>3. Pick(T) \in T /\ IsFiniteSet(T)
  BY <1>2, PickIn, FS_Subset
<1>4. Total(h, T \ {Pick(T)}) = Total(k, T \ {Pick(T)})
  BY <1>1, <1>3
<1> QED BY <1>1, <1>2, <1>3, <1>4, TotalPick

-----------------------------------------------------------------------------
(* The steps of the two services, and what each service leaves alone *)

OmsAction ==
    \/ OmsStart \/ OmsCrash \/ OmsLoopError \/ OmsStep
    \/ \E i \in inbox.todo : OmsHandlerFails(i) \/ OmsLate(i)

PortfolioAction ==
    \/ PortfolioStart \/ PortfolioCrash \/ PortfolioLoopError \/ PortfolioStep
    \/ \E k \in fillbox.todo : PortfolioHandlerFails(k) \/ PortfolioLate(k)

WorldAction ==
    \/ \E intent \in Intents : Submit(intent)
    \/ \E y \in Symbols, p \in Prices : PriceTick(y, p)
    \/ Switch

LEMMA NextCases ==
    ASSUME [Next]_vars
    PROVE  WorldAction \/ OmsAction \/ PortfolioAction \/ UNCHANGED vars
  BY DEF Next, WorldAction, OmsAction, PortfolioAction

LEMMA PortfolioFrame ==
    ASSUME PortfolioAction
    PROVE  UNCHANGED <<orders, status, fills, audited, oms, inbox, opc, toRead, seen,
                       verdict, sent, settledRead, price, engaged, lateFills, ticks,
                       trips>>
<1>1. CASE PortfolioStart \/ PortfolioCrash \/ PortfolioConsume \/ PortfolioLoopError
  BY <1>1 DEF PortfolioStart, PortfolioCrash, PortfolioConsume, PortfolioLoopError,
     omsVars, gate, bounds
<1>2. CASE \E k \in fillbox.todo : ApplyFill(k) \/ PutPosition(k) \/ PutIndex(k)
  BY <1>2 DEF ApplyFill, PutPosition, PutIndex, omsVars, gate, bounds
<1>3. CASE \E k \in fillbox.todo : \/ PublishPosition(k) \/ PortfolioHandlerFails(k)
                                   \/ PortfolioLate(k)
  BY <1>3 DEF PublishPosition, PortfolioHandlerFails, PortfolioLate, omsVars, gate, bounds
<1> QED BY <1>1, <1>2, <1>3 DEF PortfolioAction, PortfolioStep

LEMMA OmsFrame ==
    ASSUME OmsAction
    PROVE  UNCHANGED <<orders, engaged, portfolio, fillbox, ppc, memory, store, index,
                       orphans, ticks, trips>>
<1>1. CASE OmsStart \/ OmsCrash \/ OmsLoopError \/ OmsConsume \/ ReadIndex
  BY <1>1 DEF OmsStart, OmsCrash, OmsLoopError, OmsConsume, ReadIndex, portVars, book,
     bounds
<1>2. CASE \E s \in Strategies : ReadPositions(s)
  BY <1>2 DEF ReadPositions, portVars, book, bounds
<1>3. CASE \E i \in inbox.todo : AuditIntent(i) \/ Decide(i) \/ PublishNext(i)
  BY <1>3 DEF AuditIntent, Decide, PublishNext, portVars, book, bounds
<1>4. CASE \E i \in inbox.todo : OmsHandled(i) \/ OmsHandlerFails(i) \/ OmsLate(i)
  BY <1>4 DEF OmsHandled, OmsHandlerFails, OmsLate, portVars, book, bounds
<1> QED BY <1>1, <1>2, <1>3, <1>4 DEF OmsAction, OmsStep

LEMMA WorldFrame ==
    ASSUME WorldAction
    PROVE  UNCHANGED <<status, fills, audited, oms, inbox, opc, toRead, seen, verdict,
                       sent, portfolio, fillbox, ppc, memory, store, index, orphans,
                       failures>>
  BY DEF WorldAction, Submit, PriceTick, Switch, omsVars, portVars, gate, book, bounds

-----------------------------------------------------------------------------
(* Types and groups *)

\* Both consumer groups are in order.
Groups == WellFormed(inbox, Len(orders)) /\ WellFormed(fillbox, Len(fills))

\* What the OMS has read, handles and will acknowledge are intents.
LEMMA InboxFacts ==
    ASSUME TypeOK, Groups
    PROVE  /\ inbox.todo \subseteq Ids /\ inbox.done \subseteq Ids
           /\ 1 .. inbox.cursor \subseteq Ids
<1>1. /\ Len(orders) \in Nat /\ Len(orders) <= MaxIntents /\ MaxIntents \in Nat
      /\ inbox \in GroupType(Len(orders))
  BY OrderFlowAssumption DEF TypeOK, StreamTypes, Groups, WellFormed
<1>2. /\ inbox.cursor \in 0 .. Len(orders) /\ inbox.todo \subseteq 1 .. Len(orders)
      /\ inbox.done \subseteq 1 .. Len(orders)
  BY <1>1 DEF GroupType
<1> QED BY <1>1, <1>2 DEF Ids

\* The streams grow by what is submitted, audited and published.
LEMMA StreamTypesStep ==
    ASSUME TypeOK, Groups, [Next]_vars
    PROVE  StreamTypes'
<1> USE OrderFlowAssumption
<1>1. /\ StreamTypes /\ Len(orders) \in Nat
      /\ inbox.todo \subseteq 1 .. Len(orders) /\ 1 .. Len(orders) \subseteq Ids
  BY DEF TypeOK, StreamTypes, Groups, WellFormed, GroupType, Ids
<1>2. CASE WorldAction
  <2>1. UNCHANGED <<status, fills, audited>>
    BY <1>2, WorldFrame
  <2>2. CASE \E intent \in Intents : Submit(intent)
    <3> PICK intent \in Intents : Submit(intent)
      BY <2>2
    <3>1. orders' = Append(orders, intent) /\ Len(orders) < MaxIntents
      BY DEF Submit
    <3>2. orders' \in Seq(Intents) /\ Len(orders') = Len(orders) + 1
      BY <1>1, <3>1, AppendFacts DEF StreamTypes
    <3>3. Len(orders') <= MaxIntents /\ 1 .. Len(orders) \subseteq 1 .. Len(orders')
      BY <1>1, <3>1, <3>2
    <3>4. \A k \in DOMAIN fills : fills[k] <= Len(orders')
      <4> TAKE k \in DOMAIN fills
      <4>1. fills[k] \in Nat /\ fills[k] <= Len(orders)
        BY <1>1, ElementOfSeq DEF StreamTypes, Ids
      <4> QED BY <1>1, <3>2, <4>1
    <3> QED BY <1>1, <2>1, <3>2, <3>3, <3>4 DEF StreamTypes
  <2>3. CASE ~\E intent \in Intents : Submit(intent)
    <3>1. UNCHANGED orders
      BY <1>2, <2>3 DEF WorldAction, PriceTick, Switch
    <3> QED BY <1>1, <2>1, <3>1 DEF StreamTypes
  <2> QED BY <2>2, <2>3
<1>3. CASE OmsAction
  <2>1. UNCHANGED orders
    BY <1>3, OmsFrame
  <2>2. CASE \E i \in inbox.todo : AuditIntent(i)
    <3> PICK i \in inbox.todo : AuditIntent(i)
      BY <2>2
    <3>1. UNCHANGED <<status, fills>> /\ audited' \subseteq audited \cup {i}
      BY DEF AuditIntent
    <3> QED BY <1>1, <2>1, <3>1 DEF StreamTypes
  <2>3. CASE \E i \in inbox.todo : PublishNext(i)
    <3> PICK i \in inbox.todo : PublishNext(i)
      BY <2>3
    <3>0. i \in Ids /\ i <= Len(orders)
      BY <1>1
    <3>4. UNCHANGED audited
      BY DEF PublishNext
    <3>1. i \in Ids /\ i <= Len(orders) /\ UNCHANGED audited
      BY <3>0, <3>4
    <3>2. CASE fills' = Append(fills, i) /\ UNCHANGED status
      <4>1. /\ fills' \in Seq(Ids) /\ Len(fills') = Len(fills) + 1
            /\ \A k \in 1 .. Len(fills) : fills'[k] = fills[k]
            /\ fills'[Len(fills')] = i
        BY <1>1, <3>1, <3>2, AppendFacts DEF StreamTypes
      <4>2. \A k \in DOMAIN fills' : fills'[k] <= Len(orders)
        <5> TAKE k \in DOMAIN fills'
        <5>1. k \in 1 .. Len(fills) \/ k = Len(fills')
          BY <1>1, <4>1 DEF StreamTypes
        <5>2. k \in 1 .. Len(fills) => k \in DOMAIN fills
          BY <1>1 DEF StreamTypes
        <5> QED BY <1>1, <3>1, <4>1, <5>1, <5>2 DEF StreamTypes
      <4> QED BY <1>1, <2>1, <3>1, <3>2, <4>1, <4>2 DEF StreamTypes
    <3>3. CASE /\ UNCHANGED fills
               /\ status' = [status EXCEPT ![i] = Plan[verdict][sent + 1]]
               /\ Plan[verdict][sent + 1] # "Fill"
      <4>1. Plan[verdict][sent + 1] \in Statuses
        BY <3>3, PlanFacts DEF PublishNext, TypeOK, OmsTypes, Statuses
      <4>2. status' \in [Ids -> Statuses]
        BY <1>1, <3>1, <3>3, <4>1 DEF StreamTypes
      <4> QED BY <1>1, <2>1, <3>1, <3>3, <4>2 DEF StreamTypes
    <3> QED BY <3>2, <3>3 DEF PublishNext
  <2>4. CASE ~\E i \in inbox.todo : AuditIntent(i) \/ PublishNext(i)
    <3>1. UNCHANGED <<status, fills, audited>>
      BY <1>3, <2>4 DEF OmsAction, OmsStart, OmsCrash, OmsLoopError, OmsStep, OmsConsume, ReadIndex,
           ReadPositions, Decide, OmsHandled, OmsHandlerFails, OmsLate
    <3> QED BY <1>1, <2>1, <3>1 DEF StreamTypes
  <2> QED BY <2>2, <2>3, <2>4
<1>4. CASE PortfolioAction
  <2>1. UNCHANGED <<orders, status, fills, audited>>
    BY <1>4, PortfolioFrame
  <2> QED BY <1>1, <2>1 DEF StreamTypes
<1>5. CASE UNCHANGED vars
  BY <1>1, <1>5 DEF StreamTypes, vars
<1> QED BY <1>2, <1>3, <1>4, <1>5, NextCases

\* What the services do to their groups, and when the length of a stream changes.
LEMMA GroupMoves ==
    ASSUME [Next]_vars
    PROVE  /\ Moves(inbox, inbox', Len(orders), Batch)
           /\ Moves(fillbox, fillbox', Len(fills), Batch)
<1>1. CASE WorldAction \/ UNCHANGED vars
  BY <1>1, WorldFrame DEF vars, omsVars, portVars, Moves
<1>2. CASE OmsAction
  <2>1. Moves(inbox, inbox', Len(orders), Batch)
    <3>1. CASE OmsCrash \/ OmsLoopError \/ \E i \in inbox.todo : OmsLate(i)
      BY <3>1 DEF OmsCrash, OmsLoopError, OmsLate, OmsLeaves, Moves
    <3>2. CASE \E i \in inbox.todo : OmsHandlerFails(i) \/ OmsHandled(i)
      BY <3>2 DEF OmsHandlerFails, OmsHandled, OmsLeaves, Moves
    <3>3. CASE OmsStart \/ ReadIndex \/ \E s \in Strategies : ReadPositions(s)
      BY <3>3 DEF OmsStart, ReadIndex, ReadPositions, omsVars, Moves
    <3>4. CASE \E i \in inbox.todo : AuditIntent(i) \/ Decide(i) \/ PublishNext(i)
      BY <3>4 DEF AuditIntent, Decide, PublishNext, omsVars, Moves
    <3>5. CASE OmsConsume
      BY <3>5 DEF OmsConsume, Moves
    <3> QED BY <1>2, <3>1, <3>2, <3>3, <3>4, <3>5 DEF OmsAction, OmsStep
  <2>2. Moves(fillbox, fillbox', Len(fills), Batch)
    BY <1>2, OmsFrame DEF Moves
  <2> QED BY <2>1, <2>2
<1>3. CASE PortfolioAction
  <2>1. Moves(fillbox, fillbox', Len(fills), Batch)
    <3>1. CASE PortfolioCrash \/ PortfolioLoopError \/ \E k \in fillbox.todo : PortfolioLate(k)
      BY <3>1 DEF PortfolioCrash, PortfolioLoopError, PortfolioLate, Moves
    <3>2. CASE \E k \in fillbox.todo : PortfolioHandlerFails(k) \/ PublishPosition(k)
      BY <3>2 DEF PortfolioHandlerFails, PublishPosition, Moves
    <3>3. CASE PortfolioStart \/ \E k \in fillbox.todo : PutPosition(k) \/ PutIndex(k)
      BY <3>3 DEF PortfolioStart, PutPosition, PutIndex, Moves
    <3>4. CASE \E k \in fillbox.todo : ApplyFill(k)
      BY <3>4 DEF ApplyFill, Moves
    <3>5. CASE PortfolioConsume
      BY <3>5 DEF PortfolioConsume, Moves
    <3> QED BY <1>3, <3>1, <3>2, <3>3, <3>4, <3>5 DEF PortfolioAction, PortfolioStep
  <2>2. Moves(inbox, inbox', Len(orders), Batch)
    BY <1>3, PortfolioFrame DEF Moves
  <2> QED BY <2>1, <2>2
<1> QED BY <1>1, <1>2, <1>3, NextCases

\* A stream grows by one message at a time.
LEMMA StreamsGrow ==
    ASSUME TypeOK, Groups, [Next]_vars
    PROVE  /\ Len(orders) \in Nat /\ Len(fills) \in Nat
           /\ Len(orders') \in {Len(orders), Len(orders) + 1}
           /\ Len(fills') \in {Len(fills), Len(fills) + 1}
<1>1. Len(orders) \in Nat /\ Len(fills) \in Nat
  BY DEF TypeOK, StreamTypes
<1>2. UNCHANGED orders \/ \E intent \in Intents : orders' = Append(orders, intent)
  <2>1. WorldAction => UNCHANGED orders \/ \E intent \in Intents : Submit(intent)
    BY DEF WorldAction, PriceTick, Switch
  <2> QED BY <2>1, NextCases, OmsFrame, PortfolioFrame DEF Submit, vars
<1>3. UNCHANGED fills \/ \E i \in inbox.todo : fills' = Append(fills, i)
  <2>1. OmsAction => UNCHANGED fills \/ \E i \in inbox.todo : PublishNext(i)
    BY DEF OmsAction, OmsStart, OmsCrash, OmsLoopError, OmsStep, OmsConsume, ReadIndex,
           ReadPositions, AuditIntent, Decide, OmsHandled, OmsHandlerFails, OmsLate
  <2> QED BY <2>1, NextCases, WorldFrame, PortfolioFrame DEF PublishNext, vars
<1>4. Len(orders') \in {Len(orders), Len(orders) + 1}
  BY <1>1, <1>2, AppendFacts DEF TypeOK, StreamTypes
<1>6. Len(fills') \in {Len(fills), Len(fills) + 1}
  BY <1>1, <1>3, InboxFacts, AppendFacts DEF TypeOK, StreamTypes
<1> QED BY <1>1, <1>4, <1>6

LEMMA GroupsStep ==
    ASSUME TypeOK, Groups, [Next]_vars
    PROVE  Groups'
<1>1. Batch \in Nat \ {0}
  BY OrderFlowAssumption
<1>2. WellFormed(inbox', Len(orders)) /\ WellFormed(fillbox', Len(fills))
  BY <1>1, GroupMoves, StreamsGrow, MovesFacts DEF Groups
<1> QED BY <1>2, StreamsGrow, GroupGrows DEF Groups

\* A handler has a verdict exactly when it is publishing.
Undecided == opc # "publish" <=> verdict = "none"

\* The OMS side of the type invariant.
LEMMA OmsTypesStep ==
    ASSUME TypeOK, Groups', Undecided, [Next]_vars
    PROVE  OmsTypes'
<1> USE OrderFlowAssumption
<1>1. OmsTypes /\ index \subseteq Strategies
  BY DEF TypeOK, PortfolioTypes
<1>2. inbox' \in GroupType(Len(orders'))
  BY DEF Groups, WellFormed
<1>3. CASE UNCHANGED <<oms, opc, toRead, seen, verdict, sent>> /\ settledRead' \in BOOLEAN
  BY <1>1, <1>2, <1>3 DEF OmsTypes
<1>4. CASE WorldAction \/ PortfolioAction \/ UNCHANGED vars
  <2>1. UNCHANGED <<oms, opc, toRead, seen, verdict, sent>>
    BY <1>4, WorldFrame, PortfolioFrame DEF vars, omsVars, gate
  <2>2. settledRead' \in BOOLEAN
    <3>1. UNCHANGED settledRead \/ settledRead' = FALSE
      BY <1>4, PortfolioFrame DEF WorldAction, Submit, PriceTick, Switch, gate, vars
    <3> QED BY <1>1, <3>1 DEF OmsTypes
  <2> QED BY <1>3, <2>1, <2>2
<1>5. CASE OmsStart
  BY <1>1, <1>2, <1>5 DEF OmsStart, gate, OmsTypes
<1>6. CASE OmsConsume
  BY <1>1, <1>2, <1>6 DEF OmsConsume, gate, OmsTypes
<1>7. CASE \/ OmsCrash \/ OmsLoopError
           \/ \E i \in inbox.todo : OmsHandled(i) \/ OmsHandlerFails(i) \/ OmsLate(i)
  <2>1. /\ oms' \in {"up", "down", "deaf"} /\ opc' = "rest" /\ toRead' = {}
        /\ seen' = NoSnapshot /\ verdict' = "none" /\ sent' = 0 /\ settledRead' = FALSE
    BY <1>1, <1>7 DEF OmsCrash, OmsLoopError, OmsHandled, OmsHandlerFails, OmsLate, OmsLeaves, OmsTypes
  <2>2. NoSnapshot \in [Strategies -> [Symbols -> Nat]]
    BY DEF NoSnapshot
  <2>3. sent' \in 0 .. Len(Plan[verdict']) /\ verdict' \in DOMAIN Plan
    BY <2>1, PlanFacts
  <2>4. seen' \in [Strategies -> [Symbols -> Nat]] /\ toRead' \subseteq Strategies
    BY <2>1, <2>2
  <2> QED BY <1>2, <2>1, <2>3, <2>4 DEF OmsTypes
<1>8. CASE ReadIndex
  <2>1. AllBooked \in BOOLEAN
    BY DEF AllBooked
  <2>2. /\ UNCHANGED <<oms, seen, verdict, sent>> /\ opc' = "read"
        /\ toRead' = index /\ settledRead' = AllBooked
    BY <1>8 DEF ReadIndex
  <2> QED BY <1>1, <1>2, <2>1, <2>2 DEF OmsTypes
<1>9. CASE \E s \in Strategies : ReadPositions(s)
  <2> PICK s \in Strategies : ReadPositions(s)
    BY <1>9
  <2>1. /\ UNCHANGED <<oms, opc, verdict, sent, settledRead>> /\ toRead' \subseteq toRead
        /\ seen' = [seen EXCEPT ![s] = [y \in Symbols |-> Magnitude(store[s][y] * price[y])]]
    BY DEF ReadPositions, omsVars
  <2>2. \A y \in Symbols : Magnitude(store[s][y] * price[y]) \in Nat
    <3> TAKE y \in Symbols
    <3>1. store[s][y] \in Int
      <4>1. store \in [Strategies -> [Symbols -> Int]]
        BY DEF TypeOK, PortfolioTypes
      <4> QED BY <4>1
    <3>2. price[y] \in Prices \cup {NoPrice}
      BY DEF TypeOK, WorldTypes
    <3>3. price[y] \in Int
      BY <3>2, PriceNumbers
    <3> QED BY <3>1, <3>3, MagnitudeNat
  <2>3. [y \in Symbols |-> Magnitude(store[s][y] * price[y])] \in [Symbols -> Nat]
    BY <2>2
  <2>4. seen' \in [Strategies -> [Symbols -> Nat]]
    BY <1>1, <2>1, <2>3 DEF OmsTypes
  <2> QED BY <1>1, <1>2, <2>1, <2>4 DEF OmsTypes
<1>10. CASE \E i \in inbox.todo : AuditIntent(i)
  BY <1>1, <1>2, <1>10 DEF AuditIntent, gate, OmsTypes
<1>11. CASE \E i \in inbox.todo : Decide(i)
  <2>1. /\ UNCHANGED <<oms, toRead, seen, sent, settledRead>> /\ opc' = "publish"
        /\ verdict' \in {"reject", "nomid", "fill"} /\ opc = "read"
    BY <1>11 DEF Decide
  <2>2. sent = 0
    BY <1>1, <2>1, PlanFacts DEF Undecided, OmsTypes
  <2> QED BY <1>1, <1>2, <2>1, <2>2, PlanFacts DEF OmsTypes
<1>12. CASE \E i \in inbox.todo : PublishNext(i)
  <2>1. /\ UNCHANGED <<oms, opc, toRead, seen, verdict, settledRead>>
        /\ sent < Len(Plan[verdict]) /\ sent' = sent + 1
    BY <1>12 DEF PublishNext, omsVars
  <2>2. sent' \in 0 .. Len(Plan[verdict])
    BY <1>1, <2>1, PlanFacts DEF OmsTypes
  <2> QED BY <1>1, <1>2, <2>1, <2>2 DEF OmsTypes
<1> QED BY <1>4, <1>5, <1>6, <1>7, <1>8, <1>9, <1>10, <1>11, <1>12, NextCases
        DEF OmsAction, OmsStep

LEMMA UndecidedStep ==
    ASSUME Undecided, TypeOK, [Next]_vars
    PROVE  Undecided'
<1>1. CASE WorldAction \/ PortfolioAction \/ UNCHANGED vars
  BY <1>1, WorldFrame, PortfolioFrame DEF Undecided, vars, omsVars, gate
<1>2. CASE OmsStart \/ OmsConsume \/ ReadIndex \/ \E s \in Strategies : ReadPositions(s)
  BY <1>2 DEF OmsStart, OmsConsume, ReadIndex, ReadPositions, omsVars, gate, Undecided
<1>3. CASE \E i \in inbox.todo : AuditIntent(i) \/ Decide(i) \/ PublishNext(i)
  BY <1>3 DEF AuditIntent, Decide, PublishNext, omsVars, gate, Undecided
<1>4. CASE \/ OmsCrash \/ OmsLoopError
           \/ \E i \in inbox.todo : OmsHandled(i) \/ OmsHandlerFails(i) \/ OmsLate(i)
  BY <1>4 DEF OmsCrash, OmsLoopError, OmsHandled, OmsHandlerFails, OmsLate, OmsLeaves, Undecided
<1> QED BY <1>1, <1>2, <1>3, <1>4, NextCases DEF OmsAction, OmsStep

\* The owner, the symbol and the signed quantity of a fill.
LEMMA OwnerFacts ==
    ASSUME TypeOK, Groups, NEW k \in fillbox.todo
    PROVE  /\ k \in 1 .. Len(fills) /\ fills[k] \in Ids
           /\ Strategy(k) \in Strategies /\ Symbol(k) \in Symbols /\ Signed(k) \in Int
<1>1. k \in 1 .. Len(fills) /\ fills \in Seq(Ids) /\ fills[k] <= Len(orders)
  BY DEF TypeOK, StreamTypes, Groups, WellFormed, GroupType
<1>2. fills[k] \in 1 .. Len(orders)
  BY <1>1, ElementOfSeq DEF Ids, TypeOK, StreamTypes
<1>3. orders[fills[k]] \in Intents
  BY <1>2, ElementOfSeq DEF TypeOK, StreamTypes
<1>4. orders[fills[k]] \in [strategy : Strategies, symbol : Symbols,
                            side : {"BUY", "SELL"}, qty : Nat, limit : Nat]
  BY <1>3, OrderFlowAssumption
<1>5. fills[k] \in Ids
  BY <1>1, ElementOfSeq
<1>6. orders[fills[k]].qty \in Int /\ -orders[fills[k]].qty \in Int
  BY <1>4
<1> QED BY <1>1, <1>4, <1>5, <1>6 DEF Strategy, Symbol, Signed

\* Writing one cell of a table of integers.
LEMMA CellWritten ==
    ASSUME NEW m \in [Strategies -> [Symbols -> Int]],
           NEW s \in Strategies, NEW y \in Symbols, NEW v \in Int,
           NEW r, r = [m EXCEPT ![s][y] = v]
    PROVE  r \in [Strategies -> [Symbols -> Int]]
  OBVIOUS

\* The portfolio side of the type invariant.
LEMMA PortfolioTypesStep ==
    ASSUME TypeOK, Groups, Groups', [Next]_vars
    PROVE  PortfolioTypes'
<1>1. PortfolioTypes /\ 1 .. Len(fills) \subseteq 1 .. Len(fills')
  BY StreamsGrow DEF TypeOK
<1>2. fillbox' \in GroupType(Len(fills'))
  BY DEF Groups, WellFormed
<1>3. CASE UNCHANGED <<portfolio, ppc, memory, store, index, orphans>>
  BY <1>1, <1>2, <1>3 DEF PortfolioTypes
<1>4. CASE WorldAction \/ OmsAction \/ UNCHANGED vars
  BY <1>3, <1>4, WorldFrame, OmsFrame DEF vars, portVars, book
<1>5. CASE PortfolioStart
  <2>1. /\ portfolio' = "up" /\ UNCHANGED <<ppc, store, index, orphans>>
        /\ memory' = [s \in Strategies |-> IF s \in index THEN store[s] ELSE NoSnapshot[s]]
    BY <1>5 DEF PortfolioStart
  <2>2. memory' \in [Strategies -> [Symbols -> Int]]
    BY <1>1, <2>1 DEF PortfolioTypes, NoSnapshot
  <2> QED BY <1>1, <1>2, <2>1, <2>2 DEF PortfolioTypes
<1>6. CASE PortfolioCrash
  <2>1. /\ portfolio' = "down" /\ ppc' = "rest" /\ memory' = NoSnapshot
        /\ UNCHANGED <<store, index, orphans>>
    BY <1>6 DEF PortfolioCrash
  <2>2. memory' \in [Strategies -> [Symbols -> Int]]
    BY <2>1 DEF NoSnapshot
  <2> QED BY <1>1, <1>2, <2>1, <2>2 DEF PortfolioTypes
<1>7. CASE PortfolioConsume
  BY <1>3, <1>7 DEF PortfolioConsume, book
<1>8. CASE \E k \in fillbox.todo : ApplyFill(k)
  <2> PICK k \in fillbox.todo : ApplyFill(k)
    BY <1>8
  <2>1. UNCHANGED <<portfolio, store, index>>
    BY DEF ApplyFill
  <2>2. CASE /\ memory' = [memory EXCEPT ![Strategy(k)][Symbol(k)] = @ + Signed(k)]
             /\ ppc' = "put" /\ UNCHANGED orphans
    <3>1. memory \in [Strategies -> [Symbols -> Int]]
      BY <1>1 DEF PortfolioTypes
    <3>2. memory[Strategy(k)][Symbol(k)] + Signed(k) \in Int
      BY <3>1, OwnerFacts
    <3>3. memory' \in [Strategies -> [Symbols -> Int]]
      BY <2>2, <3>1, <3>2, OwnerFacts, CellWritten
    <3> QED BY <1>1, <1>2, <2>1, <2>2, <3>3 DEF PortfolioTypes
  <2>3. CASE orphans' = orphans \cup {k} /\ UNCHANGED <<memory, ppc>>
    <3>1. orphans' \subseteq 1 .. Len(fills')
      BY <1>1, <2>3, OwnerFacts DEF PortfolioTypes
    <3> QED BY <1>1, <1>2, <2>1, <2>3, <3>1 DEF PortfolioTypes
  <2> QED BY <2>2, <2>3 DEF ApplyFill
<1>9. CASE \E k \in fillbox.todo : PutPosition(k)
  <2> PICK k \in fillbox.todo : PutPosition(k)
    BY <1>9
  <2>1. /\ ppc' = "index" /\ UNCHANGED <<portfolio, memory, index, orphans>>
        /\ store' = [store EXCEPT ![Strategy(k)][Symbol(k)] = memory[Strategy(k)][Symbol(k)]]
    BY DEF PutPosition
  <2>2. /\ store \in [Strategies -> [Symbols -> Int]]
        /\ memory \in [Strategies -> [Symbols -> Int]]
    BY <1>1 DEF PortfolioTypes
  <2>3. memory[Strategy(k)][Symbol(k)] \in Int
    BY <2>2, OwnerFacts
  <2>4. store' \in [Strategies -> [Symbols -> Int]]
    BY <2>1, <2>2, <2>3, OwnerFacts, CellWritten
  <2> QED BY <1>1, <1>2, <2>1, <2>4 DEF PortfolioTypes
<1>10. CASE \E k \in fillbox.todo : PutIndex(k)
  <2> PICK k \in fillbox.todo : PutIndex(k)
    BY <1>10
  <2>1. /\ ppc' = "publish" /\ index' = index \cup {Strategy(k)}
        /\ UNCHANGED <<portfolio, memory, store, orphans>>
    BY DEF PutIndex
  <2> QED BY <1>1, <1>2, <2>1, OwnerFacts DEF PortfolioTypes
<1>11. CASE \/ PortfolioLoopError
           \/ \E k \in fillbox.todo : \/ PublishPosition(k) \/ PortfolioLate(k)
                                      \/ PortfolioHandlerFails(k)
  <2>1. /\ portfolio' \in {"up", "down", "deaf"} /\ ppc' = "rest"
        /\ UNCHANGED <<memory, store, index, orphans>>
    BY <1>1, <1>11 DEF PortfolioLoopError, PublishPosition, PortfolioLate,
       PortfolioHandlerFails, book, PortfolioTypes
  <2> QED BY <1>1, <1>2, <2>1 DEF PortfolioTypes
<1> QED BY <1>4, <1>5, <1>6, <1>7, <1>8, <1>9, <1>10, <1>11, NextCases
        DEF PortfolioAction, PortfolioStep

\* Prices, the switch, and what the bounds count.
LEMMA WorldTypesStep ==
    ASSUME TypeOK, [Next]_vars
    PROVE  WorldTypes'
<1> USE OrderFlowAssumption
<1>1. WorldTypes
  BY DEF TypeOK
<1>2. failures' = failures \/ (failures < MaxFailures /\ failures' = failures + 1)
  <2>1. CASE WorldAction \/ UNCHANGED vars
    BY <2>1, WorldFrame DEF vars, bounds
  <2>2. CASE OmsAction
    BY <2>2 DEF OmsAction, OmsStart, OmsCrash, OmsLoopError, OmsStep, OmsConsume, ReadIndex,
       ReadPositions, AuditIntent, Decide, PublishNext, OmsHandled, OmsHandlerFails,
       OmsLate, Failure, NoFailure, bounds
  <2>3. CASE PortfolioAction
    BY <2>3 DEF PortfolioAction, PortfolioStart, PortfolioCrash, PortfolioLoopError, PortfolioStep,
       PortfolioConsume, ApplyFill, PutPosition, PutIndex, PublishPosition,
       PortfolioLate, PortfolioHandlerFails, Failure, NoFailure, bounds
  <2> QED BY <2>1, <2>2, <2>3, NextCases
<1>3. failures' \in 0 .. MaxFailures
  BY <1>1, <1>2 DEF WorldTypes
<1>4. CASE UNCHANGED <<price, engaged, lateFills, ticks, trips>>
  BY <1>1, <1>3, <1>4 DEF WorldTypes
<1>5. CASE \E intent \in Intents : Submit(intent)
  BY <1>4, <1>5 DEF Submit, bounds
<1>6. CASE \E y \in Symbols, p \in Prices : PriceTick(y, p)
  <2> PICK y \in Symbols, p \in Prices : PriceTick(y, p)
    BY <1>6
  <2>1. /\ price' = [price EXCEPT ![y] = p] /\ ticks < MaxTicks /\ ticks' = ticks + 1
        /\ UNCHANGED <<engaged, lateFills, trips>>
    BY DEF PriceTick
  <2>2. price' \in [Symbols -> Prices \cup {NoPrice}]
    BY <1>1, <2>1 DEF WorldTypes
  <2>3. ticks' \in 0 .. MaxTicks
    BY <1>1, <2>1 DEF WorldTypes
  <2> QED BY <1>1, <1>3, <2>1, <2>2, <2>3 DEF WorldTypes
<1>7. CASE Switch
  <2>1. /\ engaged' \in BOOLEAN /\ lateFills' = 0 /\ UNCHANGED <<price, ticks>>
    BY <1>7 DEF Switch
  <2>2. trips' \in 0 .. MaxTrips
    BY <1>1, <1>7 DEF Switch, WorldTypes
  <2> QED BY <1>1, <1>3, <2>1, <2>2 DEF WorldTypes
<1>8. CASE OmsAction
  <2>1. UNCHANGED <<engaged, ticks, trips>>
    BY <1>8, OmsFrame
  <2>2. CASE OmsCrash
    <3>1. price' = [y \in Symbols |-> NoPrice] /\ UNCHANGED lateFills
      BY <2>2 DEF OmsCrash
    <3>2. price' \in [Symbols -> Prices \cup {NoPrice}]
      BY <3>1
    <3> QED BY <1>1, <1>3, <2>1, <3>1, <3>2 DEF WorldTypes
  <2>3. CASE \E i \in inbox.todo : PublishNext(i)
    <3>1. UNCHANGED price /\ lateFills' \in {lateFills, lateFills + 1, 0}
      BY <2>3 DEF PublishNext
    <3> QED BY <1>1, <1>3, <2>1, <3>1 DEF WorldTypes
  <2>4. CASE ~OmsCrash /\ ~\E i \in inbox.todo : PublishNext(i)
    <3>1. UNCHANGED <<price, lateFills>>
      BY <1>8, <2>4 DEF OmsAction, OmsStart, OmsLoopError, OmsStep, OmsConsume, ReadIndex,
         ReadPositions, AuditIntent, Decide, OmsHandled, OmsHandlerFails, OmsLate
    <3> QED BY <1>1, <1>3, <2>1, <3>1 DEF WorldTypes
  <2> QED BY <2>2, <2>3, <2>4
<1>9. CASE PortfolioAction
  BY <1>4, <1>9, PortfolioFrame
<1>10. CASE UNCHANGED vars
  BY <1>4, <1>10 DEF vars, bounds
<1> QED BY <1>5, <1>6, <1>7, <1>8, <1>9, <1>10, NextCases DEF WorldAction

-----------------------------------------------------------------------------
(* No intent is lost *)

\* What subscribers were told about intent i once n messages of the verdict are out.
Told(i, n) ==
    /\ n >= 1 => status[i] = Plan[verdict][IF n = 4 THEN 3 ELSE n]
    /\ n = 4 => \E k \in DOMAIN fills : fills[k] = i

\* The messages published so far about the intent in hand are the first ones of
\* its plan; this is what makes an intent answered once the handler returns.
Telling == \A i \in inbox.todo : opc = "publish" /\ InHand(inbox, i) => Told(i, sent)

\* Whatever will be acknowledged is answered.
DoneAnswered == \A i \in inbox.done : Answered(i)

\* The fill of an intent stays out.
LEMMA FillsStay ==
    ASSUME TypeOK, Groups, [Next]_vars, NEW i,
           \E k \in DOMAIN fills : fills[k] = i
    PROVE  \E k \in DOMAIN fills' : fills'[k] = i
<1> PICK k \in DOMAIN fills : fills[k] = i
  OBVIOUS
<1>1. CASE UNCHANGED fills
  BY <1>1
<1>2. CASE \E j \in inbox.todo : PublishNext(j)
  <2> PICK j \in inbox.todo : PublishNext(j)
    BY <1>2
  <2>1. j \in Ids /\ fills \in Seq(Ids) /\ k \in 1 .. Len(fills)
    BY InboxFacts DEF TypeOK, StreamTypes
  <2>2. UNCHANGED fills \/ fills' = Append(fills, j)
    BY DEF PublishNext
  <2>3. CASE fills' = Append(fills, j)
    <3>1. /\ fills' \in Seq(Ids) /\ Len(fills') = Len(fills) + 1
          /\ \A m \in 1 .. Len(fills) : fills'[m] = fills[m]
      BY <2>1, <2>3, AppendFacts
    <3>2. k \in DOMAIN fills' /\ fills'[k] = i
      BY <2>1, <3>1
    <3> QED BY <3>2
  <2> QED BY <2>2, <2>3, <1>1
<1>3. CASE ~\E j \in inbox.todo : PublishNext(j)
  <2>1. OmsAction => UNCHANGED fills
    BY <1>3 DEF OmsAction, OmsStart, OmsCrash, OmsLoopError, OmsStep, OmsConsume, ReadIndex,
       ReadPositions, AuditIntent, Decide, OmsHandled, OmsHandlerFails, OmsLate
  <2>2. UNCHANGED fills
    BY <2>1, NextCases, WorldFrame, PortfolioFrame DEF vars
  <2> QED BY <1>1, <2>2
<1> QED BY <1>2, <1>3

\* Only the intent in hand gets a new state.
LEMMA AnswersStay ==
    ASSUME TypeOK, Groups, [Next]_vars, NEW i \in Ids, i \notin inbox.todo, Answered(i)
    PROVE  Answered(i)'
<1>1. CASE \E j \in inbox.todo : PublishNext(j)
  <2> PICK j \in inbox.todo : PublishNext(j)
    BY <1>1
  <2>1. i # j /\ status \in [Ids -> Statuses]
    BY DEF TypeOK, StreamTypes
  <2>2. UNCHANGED status \/ status' = [status EXCEPT ![j] = Plan[verdict][sent + 1]]
    BY DEF PublishNext
  <2>3. status'[i] = status[i]
    BY <2>1, <2>2
  <2> QED BY <2>3, FillsStay DEF Answered
<1>2. CASE ~\E j \in inbox.todo : PublishNext(j)
  <2>1. OmsAction => UNCHANGED status
    BY <1>2 DEF OmsAction, OmsStart, OmsCrash, OmsLoopError, OmsStep, OmsConsume, ReadIndex,
       ReadPositions, AuditIntent, Decide, OmsHandled, OmsHandlerFails, OmsLate
  <2>2. UNCHANGED status
    BY <2>1, NextCases, WorldFrame, PortfolioFrame DEF vars
  <2> QED BY <2>2, FillsStay DEF Answered
<1> QED BY <1>1, <1>2

LEMMA TellingStep ==
    ASSUME TypeOK, Groups, Undecided, Telling, [Next]_vars
    PROVE  Telling'
<1>1. CASE opc' # "publish"
  BY <1>1 DEF Telling
<1>2. CASE UNCHANGED <<opc, inbox, sent, verdict, status, fills>>
  BY <1>2 DEF Telling, Told, InHand
<1>3. CASE WorldAction \/ PortfolioAction \/ UNCHANGED vars
  BY <1>2, <1>3, WorldFrame, PortfolioFrame DEF vars, omsVars, gate
<1>4. CASE OmsStart
  BY <1>2, <1>4 DEF OmsStart, gate
<1>5. CASE OmsConsume \/ ReadIndex \/ \E s \in Strategies : ReadPositions(s)
  <2>1. opc' # "publish"
    BY <1>5 DEF OmsConsume, ReadIndex, ReadPositions, omsVars
  <2> QED BY <1>1, <2>1
<1>6. CASE \/ OmsCrash \/ OmsLoopError
           \/ \E i \in inbox.todo : \/ AuditIntent(i) \/ OmsHandled(i)
                                    \/ OmsHandlerFails(i) \/ OmsLate(i)
  <2>1. opc' # "publish"
    BY <1>6 DEF OmsCrash, OmsLoopError, AuditIntent, OmsHandled, OmsHandlerFails, OmsLate, OmsLeaves
  <2> QED BY <1>1, <2>1
<1>7. CASE \E i \in inbox.todo : Decide(i)
  <2>1. UNCHANGED sent /\ opc = "read"
    BY <1>7 DEF Decide
  <2>2. sent = 0
    BY <2>1, PlanFacts DEF Undecided, TypeOK, OmsTypes
  <2> QED BY <2>1, <2>2 DEF Telling, Told
<1>8. CASE \E i \in inbox.todo : PublishNext(i)
  <2> PICK i \in inbox.todo : PublishNext(i)
    BY <1>8
  <2>1. /\ UNCHANGED <<inbox, opc, verdict>> /\ sent' = sent + 1 /\ opc = "publish"
        /\ InHand(inbox, i) /\ sent < Len(Plan[verdict])
    BY DEF PublishNext, omsVars
  <2>2. \A j \in inbox.todo : InHand(inbox, j) => j = i
    BY <2>1 DEF InHand, Groups, WellFormed, GroupType
  <2>3. sent \in Nat /\ verdict \in {"reject", "nomid", "fill"}
    BY <2>1, PlanFacts DEF Undecided, TypeOK, OmsTypes
  <2>4. Plan[verdict][sent + 1] = "Fill" <=> verdict = "fill" /\ sent = 3
    BY <2>1, <2>3, FillIsFourth
  <2>5. i \in Ids /\ status \in [Ids -> Statuses] /\ fills \in Seq(Ids)
    BY InboxFacts DEF TypeOK, StreamTypes
  <2>6. CASE Plan[verdict][sent + 1] = "Fill"
    <3>1. fills' = Append(fills, i) /\ UNCHANGED status
      BY <2>6 DEF PublishNext
    <3>2. status[i] = Plan[verdict][3]
      BY <2>1, <2>4, <2>6 DEF Telling, Told
    <3>3. fills'[Len(fills')] = i /\ Len(fills') \in DOMAIN fills'
      BY <2>5, <3>1, AppendFacts
    <3>4. Told(i, sent)'
      BY <2>1, <2>4, <2>6, <3>1, <3>2, <3>3 DEF Told
    <3> QED BY <2>1, <2>2, <3>4 DEF Telling
  <2>7. CASE Plan[verdict][sent + 1] # "Fill"
    <3>1. status' = [status EXCEPT ![i] = Plan[verdict][sent + 1]]
      BY <2>7 DEF PublishNext
    <3>2. sent' # 4
      BY <2>1, <2>3, <2>4, <2>7, PlanFacts
    <3>3. Told(i, sent)'
      BY <2>1, <2>5, <3>1, <3>2 DEF Told
    <3> QED BY <2>1, <2>2, <3>3 DEF Telling
  <2> QED BY <2>6, <2>7
<1> QED BY <1>3, <1>4, <1>5, <1>6, <1>7, <1>8, NextCases DEF OmsAction, OmsStep

\* An intent is answered when its handler returns.
LEMMA HandledAnswered ==
    ASSUME TypeOK, Groups, Undecided, Telling, NEW i \in inbox.todo, OmsHandled(i)
    PROVE  Answered(i)'
<1>1. /\ opc = "publish" /\ InHand(inbox, i) /\ sent = Len(Plan[verdict])
      /\ UNCHANGED <<status, fills>>
  BY DEF OmsHandled
<1>2. Told(i, sent)
  BY <1>1 DEF Telling
<1>3. verdict \in {"reject", "nomid", "fill"}
  BY <1>1, PlanFacts DEF Undecided, TypeOK, OmsTypes
<1>4. status[i] \in Terminal
  BY <1>1, <1>2, <1>3, PlanFacts DEF Told, Terminal
<1>5. status[i] = "FILLED" => \E k \in DOMAIN fills : fills[k] = i
  BY <1>1, <1>2, <1>3, PlanFacts DEF Told
<1> QED BY <1>1, <1>4, <1>5 DEF Answered

LEMMA DoneAnsweredStep ==
    ASSUME TypeOK, Groups, Undecided, Telling, DoneAnswered, [Next]_vars
    PROVE  DoneAnswered'
<1>1. \A i \in inbox.done : i \notin inbox.todo
  BY DEF Groups, WellFormed
<1>2. CASE inbox'.done \subseteq inbox.done
  BY <1>1, <1>2, InboxFacts, AnswersStay DEF DoneAnswered
<1>3. Len(orders) \in Nat /\ Batch \in Nat \ {0} /\ WellFormed(inbox, Len(orders))
  BY StreamsGrow, OrderFlowAssumption DEF Groups
<1>4. CASE WorldAction \/ PortfolioAction \/ UNCHANGED vars
  BY <1>2, <1>4, WorldFrame, PortfolioFrame DEF vars, omsVars
<1>5. CASE OmsStart \/ ReadIndex \/ \E s \in Strategies : ReadPositions(s)
  BY <1>2, <1>5 DEF OmsStart, ReadIndex, ReadPositions, omsVars
<1>6. CASE \E i \in inbox.todo : AuditIntent(i) \/ Decide(i) \/ PublishNext(i)
  BY <1>2, <1>6 DEF AuditIntent, Decide, PublishNext, omsVars
<1>7. CASE OmsConsume
  <2>1. inbox' \in Consumed(inbox, Len(orders), Batch)
    BY <1>7 DEF OmsConsume
  <2>2. inbox'.done = {}
    BY <1>3, <2>1, ConsumedFacts
  <2> QED BY <1>2, <2>2
<1>8. CASE OmsCrash \/ OmsLoopError \/ \E i \in inbox.todo : OmsLate(i)
  <2>1. inbox' = Abandoned(inbox)
    BY <1>8 DEF OmsCrash, OmsLoopError, OmsLate, OmsLeaves
  <2>2. inbox'.done = {}
    BY <1>3, <2>1, AbandonedFacts
  <2> QED BY <1>2, <2>2
<1>9. CASE \E i \in inbox.todo : OmsHandlerFails(i)
  <2> PICK i \in inbox.todo : OmsHandlerFails(i)
    BY <1>9
  <2>1. inbox' = Failed(inbox, i) \/ inbox' = GivenUp(inbox, i)
    BY DEF OmsHandlerFails, OmsLeaves, Raised
  <2>2. i \in inbox.pel \ inbox.done
    BY <1>3 DEF WellFormed
  <2>3. inbox'.done = inbox.done
    BY <1>3, <2>1, <2>2, HandlerEndFacts, GivenUpFacts
  <2> QED BY <1>2, <2>3
<1>10. CASE \E i \in inbox.todo : OmsHandled(i)
  <2> PICK i \in inbox.todo : OmsHandled(i)
    BY <1>10
  <2>1. inbox' = Handled(inbox, i)
    BY DEF OmsHandled, OmsLeaves
  <2>2. inbox'.done \subseteq inbox.done \cup {i}
    BY <1>3, <2>1, HandlerEndFacts
  <2> QED BY <1>1, <2>2, InboxFacts, AnswersStay, HandledAnswered DEF DoneAnswered
<1> QED BY <1>4, <1>5, <1>6, <1>7, <1>8, <1>9, <1>10, NextCases DEF OmsAction, OmsStep

LEMMA NoIntentLostStep ==
    ASSUME TypeOK, Groups, DoneAnswered, NoIntentLost, [Next]_vars
    PROVE  NoIntentLost'
<1>1. Len(orders) \in Nat /\ Batch \in Nat \ {0} /\ WellFormed(inbox, Len(orders))
  BY StreamsGrow, OrderFlowAssumption DEF Groups
<1>2. /\ inbox.dead \subseteq inbox'.dead
      /\ \A i \in 1 .. inbox'.cursor :
             \/ i \in inbox'.pel \/ i \in inbox'.dead
             \/ i \in 1 .. inbox.cursor /\ i \notin inbox.pel \ inbox.done
  BY <1>1, GroupMoves, MovesFacts
<1>3. ASSUME NEW i \in 1 .. inbox'.cursor, i \notin inbox'.pel, i \notin inbox'.dead
      PROVE  Answered(i)'
  <2>1. /\ i \in 1 .. inbox.cursor /\ i \notin inbox.dead
        /\ i \notin inbox.pel \/ i \in inbox.done
    BY <1>2, <1>3
  <2>2. Answered(i)
    BY <2>1 DEF NoIntentLost, DoneAnswered
  <2>3. i \notin inbox.todo
    BY <1>1, <2>1 DEF WellFormed
  <2> QED BY <2>1, <2>2, <2>3, InboxFacts, AnswersStay
<1> QED BY <1>3 DEF NoIntentLost

-----------------------------------------------------------------------------
(* A trip stops the flow *)

\* The fill that is decided and not out.
Due == IF verdict = "fill" /\ sent < 4 THEN 1 ELSE 0

\* TripStopsFills alone does not survive the publication of a fill that was
\* decided before the trip: counting that fill beforehand does.
AtMostOneLate == engaged => lateFills + Due <= 1

LEMMA AtMostOneLateStep ==
    ASSUME TypeOK, Groups, Undecided, AtMostOneLate, [Next]_vars
    PROVE  AtMostOneLate'
<1>1. lateFills \in Nat /\ Due \in {0, 1} /\ Due' \in {0, 1}
  BY DEF TypeOK, WorldTypes, Due
<1>2. CASE UNCHANGED <<engaged, lateFills>> /\ (Due' = 0 \/ UNCHANGED <<verdict, sent>>)
  BY <1>1, <1>2 DEF AtMostOneLate, Due
<1>3. CASE WorldAction
  <2>1. UNCHANGED <<verdict, sent>>
    BY <1>3, WorldFrame
  <2>2. UNCHANGED <<engaged, lateFills>> \/ lateFills' = 0
    BY <1>3 DEF WorldAction, Submit, PriceTick, Switch
  <2>3. CASE lateFills' = 0
    <3>1. lateFills' + Due' <= 1
      <4>1. CASE Due' = 0
        BY <2>3, <4>1
      <4>2. CASE Due' = 1
        BY <2>3, <4>2
      <4> QED BY <1>1, <4>1, <4>2
    <3> QED BY <3>1 DEF AtMostOneLate
  <2> QED BY <1>2, <2>1, <2>2, <2>3
<1>4. CASE PortfolioAction \/ UNCHANGED vars
  BY <1>2, <1>4, PortfolioFrame DEF vars, gate
<1>5. CASE OmsAction
  <2>1. UNCHANGED engaged
    BY <1>5, OmsFrame
  <2>2. CASE \/ OmsCrash \/ OmsLoopError
             \/ \E i \in inbox.todo : OmsHandled(i) \/ OmsHandlerFails(i) \/ OmsLate(i)
    <3>1. verdict' = "none" /\ UNCHANGED lateFills
      BY <2>2 DEF OmsCrash, OmsLoopError, OmsHandled, OmsHandlerFails, OmsLate, OmsLeaves
    <3> QED BY <1>2, <2>1, <3>1 DEF Due
  <2>3. CASE \/ OmsStart \/ OmsConsume \/ ReadIndex \/ \E s \in Strategies : ReadPositions(s)
             \/ \E i \in inbox.todo : AuditIntent(i)
    <3>1. UNCHANGED <<lateFills, verdict, sent>>
      BY <2>3 DEF OmsStart, OmsConsume, ReadIndex, ReadPositions, AuditIntent, gate
    <3> QED BY <1>2, <2>1, <3>1
  <2>4. CASE \E i \in inbox.todo : Decide(i)
    <3> PICK i \in inbox.todo : Decide(i)
      BY <2>4
    <3>1. engaged => verdict' = "reject"
      BY DEF Decide, Approved
    <3>2. UNCHANGED lateFills
      BY DEF Decide
    <3>3. engaged => Due' = 0
      BY <3>1 DEF Due
    <3> QED BY <1>1, <2>1, <3>2, <3>3 DEF AtMostOneLate
  <2>5. CASE \E i \in inbox.todo : PublishNext(i)
    <3> PICK i \in inbox.todo : PublishNext(i)
      BY <2>5
    <3>1. /\ sent' = sent + 1 /\ UNCHANGED verdict /\ opc = "publish"
          /\ sent < Len(Plan[verdict])
      BY DEF PublishNext
    <3>2. verdict \in {"reject", "nomid", "fill"} /\ sent \in Nat
      BY <3>1, PlanFacts DEF Undecided, TypeOK, OmsTypes
    <3>3. CASE Plan[verdict][sent + 1] = "Fill" /\ verdict = "fill" /\ sent = 3
      <4>1. lateFills' = IF engaged THEN lateFills + 1 ELSE 0
        BY <3>3 DEF PublishNext
      <4>2. Due = 1 /\ Due' = 0
        BY <3>1, <3>3 DEF Due
      <4> QED BY <1>1, <2>1, <4>1, <4>2 DEF AtMostOneLate
    <3>4. CASE Plan[verdict][sent + 1] # "Fill" /\ ~(verdict = "fill" /\ sent = 3)
      <4>1. UNCHANGED lateFills
        BY <3>4 DEF PublishNext
      <4>2. Due' = Due
        BY <3>1, <3>2, <3>4, PlanFacts DEF Due
      <4> QED BY <1>1, <2>1, <4>1, <4>2 DEF AtMostOneLate
    <3>5. Plan[verdict][sent + 1] = "Fill" <=> verdict = "fill" /\ sent = 3
      BY <3>1, <3>2, FillIsFourth
    <3> QED BY <3>3, <3>4, <3>5
  <2> QED BY <1>5, <2>2, <2>3, <2>4, <2>5 DEF OmsAction, OmsStep
<1> QED BY <1>3, <1>4, <1>5, NextCases

-----------------------------------------------------------------------------
(* The inductive invariant and the theorems *)

IInv == /\ TypeOK /\ Groups /\ Undecided /\ Telling /\ DoneAnswered /\ NoIntentLost
        /\ AtMostOneLate

LEMMA InitIInv == Init => IInv
<1> SUFFICES ASSUME Init PROVE IInv
  OBVIOUS
<1> USE OrderFlowAssumption DEF Init
<1>1. WellFormed(inbox, Len(orders)) /\ WellFormed(fillbox, Len(fills))
  BY EmptyWellFormed
<1>2. StreamTypes
  <2>1. orders \in Seq(Intents) /\ fills \in Seq(Ids) /\ Len(orders) = 0 /\ DOMAIN fills = {}
    OBVIOUS
  <2>2. status \in [Ids -> Statuses]
    BY DEF Statuses
  <2> QED BY <2>1, <2>2 DEF StreamTypes
<1>3. NoSnapshot \in [Strategies -> [Symbols -> Nat]]
  BY DEF NoSnapshot
<1>4. OmsTypes
  <2>1. verdict \in DOMAIN Plan /\ sent \in 0 .. Len(Plan[verdict])
    BY PlanFacts
  <2>2. inbox \in GroupType(Len(orders)) /\ seen \in [Strategies -> [Symbols -> Nat]]
    BY <1>1, <1>3 DEF WellFormed
  <2> QED BY <2>1, <2>2 DEF OmsTypes
<1>5. NoSnapshot \in [Strategies -> [Symbols -> Int]]
  BY DEF NoSnapshot
<1>6. PortfolioTypes
  BY <1>1, <1>5 DEF PortfolioTypes, WellFormed
<1>7. WorldTypes
  <2>1. price \in [Symbols -> Prices \cup {NoPrice}] /\ engaged \in BOOLEAN
    OBVIOUS
  <2>2. /\ lateFills \in Nat /\ ticks \in 0 .. MaxTicks /\ trips \in 0 .. MaxTrips
        /\ failures \in 0 .. MaxFailures
    OBVIOUS
  <2> QED BY <2>1, <2>2 DEF WorldTypes
<1>8. Undecided /\ Telling /\ DoneAnswered /\ NoIntentLost /\ AtMostOneLate
  BY DEF Undecided, Telling, DoneAnswered, NoIntentLost, AtMostOneLate, EmptyGroup
<1> QED BY <1>1, <1>2, <1>4, <1>6, <1>7, <1>8 DEF IInv, TypeOK, Groups

LEMMA StepIInv == IInv /\ [Next]_vars => IInv'
<1> SUFFICES ASSUME IInv, [Next]_vars PROVE IInv'
  OBVIOUS
<1>1. /\ TypeOK /\ Groups /\ Undecided /\ Telling /\ DoneAnswered /\ NoIntentLost
      /\ AtMostOneLate
  BY DEF IInv
<1>2. Groups'
  BY <1>1, GroupsStep
<1>3. TypeOK'
  BY <1>1, <1>2, StreamTypesStep, OmsTypesStep, PortfolioTypesStep, WorldTypesStep DEF TypeOK
<1>4. Undecided' /\ Telling'
  BY <1>1, UndecidedStep, TellingStep
<1>5. DoneAnswered' /\ NoIntentLost'
  BY <1>1, DoneAnsweredStep, NoIntentLostStep
<1>6. AtMostOneLate'
  BY <1>1, AtMostOneLateStep
<1> QED BY <1>2, <1>3, <1>4, <1>5, <1>6 DEF IInv

LEMMA Invariance == Spec => []IInv
  BY InitIInv, StepIInv, PTL DEF Spec

\* Every variable keeps its type: the snapshot, the store and memory stay tables
\* of numbers, groups stay within their streams, bounds are kept.
THEOREM TypeCorrect == Spec => []TypeOK
<1>1. IInv => TypeOK
  BY DEF IInv
<1> QED BY <1>1, Invariance, PTL

\* Every intent the OMS has read is pending, answered or a dead letter, wherever its
\* handler was interrupted: an order state or a fill that did not get out keeps it
\* pending until its last attempt, and no other way leads off the pending list.
THEOREM NoIntentIsLost == Spec => []NoIntentLost
<1>1. IInv => NoIntentLost
  BY DEF IInv
<1> QED BY <1>1, Invariance, PTL

\* After a trip at most one fill is published until the switch is cleared: the
\* one decided on before it.
THEOREM TripStopsFlow == Spec => []TripStopsFills
<1>1. IInv => TripStopsFills
  <2> SUFFICES ASSUME IInv PROVE TripStopsFills
    OBVIOUS
  <2>1. lateFills \in Nat /\ Due \in {0, 1}
    BY DEF IInv, TypeOK, WorldTypes, Due
  <2> QED BY <2>1 DEF IInv, AtMostOneLate, TripStopsFills
<1> QED BY <1>1, Invariance, PTL

-----------------------------------------------------------------------------
(* What a set of fills makes up *)

\* For orders o and fills f: the signed quantity of a fill, the fills of K that
\* belong to strategy s and symbol y, and the sum a fold over M computes.
SignedIn(o, f, k) == IF o[f[k]].side = "BUY" THEN o[f[k]].qty ELSE -o[f[k]].qty
Lots(o, f) == [k \in DOMAIN f |-> SignedIn(o, f, k)]
Mine(o, f, s, y, K) == {k \in K : o[f[k]].strategy = s /\ o[f[k]].symbol = y}
FoldIn(o, f, M) ==
    (CHOOSE g : g = [t \in SUBSET M |->
                        IF t = {} THEN 0 ELSE SignedIn(o, f, Pick(t)) + g[t \ {Pick(t)}]])[M]

\* The fold over the lots of M is their total.
LEMMA FoldIsTotal ==
    ASSUME NEW o, NEW f, NEW M, IsFiniteSet(M), M \subseteq DOMAIN f
    PROVE  FoldIn(o, f, M) = Total(Lots(o, f), M)
<1> DEFINE P(g) == g = [t \in SUBSET M |->
                        IF t = {} THEN 0 ELSE SignedIn(o, f, Pick(t)) + g[t \ {Pick(t)}]]
<1>1. ASSUME NEW t \in SUBSET M, t # {} PROVE Lots(o, f)[Pick(t)] = SignedIn(o, f, Pick(t))
  BY <1>1, PickIn DEF Lots
<1>2. ASSUME NEW g PROVE P(g) <=> Adds(g, Lots(o, f), M)
  <2> DEFINE h == Lots(o, f)
             F(t) == SignedIn(o, f, Pick(t))
             r(t) == g[t \ {Pick(t)}]
  <2>1. \A t \in SUBSET M : t # {} => h[Pick(t)] = F(t)
    BY <1>1
  <2> HIDE DEF h, F, r
  <2>2. [t \in SUBSET M |-> IF t = {} THEN 0 ELSE F(t) + r(t)]
         = [t \in SUBSET M |-> IF t = {} THEN 0 ELSE h[Pick(t)] + r(t)]
    BY <2>1
  <2> QED BY <2>2 DEF F, r, h, Adds
<1>3. (CHOOSE g : P(g)) = (CHOOSE g : Adds(g, Lots(o, f), M))
  <2> HIDE DEF P
  <2> QED BY <1>2
<1>4. FoldIn(o, f, M) = (CHOOSE g : P(g))[M]
  BY DEF FoldIn
<1> HIDE DEF P
<1> QED BY <1>3, <1>4, TotalIs

\* Net is a total of lots, before and after a step.
LEMMA NetNow ==
    ASSUME NEW s, NEW y, NEW K, IsFiniteSet(K), K \subseteq DOMAIN fills
    PROVE  Net(s, y, K) = Total(Lots(orders, fills), Mine(orders, fills, s, y, K))
<1>1. Net(s, y, K) = FoldIn(orders, fills, Mine(orders, fills, s, y, K))
  BY DEF Net, MapThenSumSet, MapThenFoldSet, Strategy, Symbol, Signed, FoldIn, Mine,
         SignedIn, Pick
<1>2. /\ Mine(orders, fills, s, y, K) \subseteq DOMAIN fills
      /\ IsFiniteSet(Mine(orders, fills, s, y, K))
  BY FS_Subset DEF Mine
<1> QED BY <1>1, <1>2, FoldIsTotal

LEMMA NetThen ==
    ASSUME NEW s, NEW y, NEW K, IsFiniteSet(K), K \subseteq DOMAIN fills'
    PROVE  Net(s, y, K)' = Total(Lots(orders', fills'), Mine(orders', fills', s, y, K))
<1>1. Net(s, y, K)' = FoldIn(orders', fills', Mine(orders', fills', s, y, K))
  BY DEF Net, MapThenSumSet, MapThenFoldSet, Strategy, Symbol, Signed, FoldIn, Mine,
         SignedIn, Pick
<1>2. /\ Mine(orders', fills', s, y, K) \subseteq DOMAIN fills'
      /\ IsFiniteSet(Mine(orders', fills', s, y, K))
  BY FS_Subset DEF Mine
<1> QED BY <1>1, <1>2, FoldIsTotal

\* The owner, the symbol and the signed quantity of a fill that is out.
LEMMA FillFacts ==
    ASSUME TypeOK, NEW k \in DOMAIN fills
    PROVE  /\ fills[k] \in DOMAIN orders
           /\ Strategy(k) \in Strategies /\ Symbol(k) \in Symbols /\ Signed(k) \in Int
<1>1. k \in 1 .. Len(fills) /\ fills \in Seq(Ids) /\ fills[k] <= Len(orders)
  BY DEF TypeOK, StreamTypes
<1>2. fills[k] \in 1 .. Len(orders)
  BY <1>1, ElementOfSeq DEF Ids, TypeOK, StreamTypes
<1>3. orders[fills[k]] \in Intents
  BY <1>2, ElementOfSeq DEF TypeOK, StreamTypes
<1>4. orders[fills[k]] \in [strategy : Strategies, symbol : Symbols,
                            side : {"BUY", "SELL"}, qty : Nat, limit : Nat]
  BY <1>3, OrderFlowAssumption
<1>6. orders[fills[k]].qty \in Int /\ -orders[fills[k]].qty \in Int
  BY <1>4
<1>7. DOMAIN orders = 1 .. Len(orders)
  BY DEF TypeOK, StreamTypes
<1> QED BY <1>2, <1>4, <1>6, <1>7 DEF Strategy, Symbol, Signed

\* No fills, no position.
LEMMA NetOfNone ==
    ASSUME NEW s, NEW y
    PROVE  Net(s, y, {}) = 0
<1>1. Mine(orders, fills, s, y, {}) = {}
  BY DEF Mine
<1> QED BY <1>1, NetNow, TotalEmpty, FS_EmptySet

\* One more fill changes the position of its owner and symbol, and no other.
LEMMA NetOfOneMore ==
    ASSUME TypeOK, NEW s, NEW y, NEW K, IsFiniteSet(K), K \subseteq DOMAIN fills,
           NEW k \in DOMAIN fills, k \notin K
    PROVE  /\ Net(s, y, K) \in Int
           /\ Net(s, y, K \cup {k}) =
                  IF Strategy(k) = s /\ Symbol(k) = y THEN Net(s, y, K) + Signed(k)
                                                      ELSE Net(s, y, K)
<1> DEFINE h == Lots(orders, fills)
           M == Mine(orders, fills, s, y, K)
           N == Mine(orders, fills, s, y, K \cup {k})
<1>1. IsFiniteSet(K \cup {k}) /\ K \cup {k} \subseteq DOMAIN fills
  BY FS_AddElement
<1>2. Net(s, y, K) = Total(h, M) /\ Net(s, y, K \cup {k}) = Total(h, N)
  BY <1>1, NetNow
<1>3. M \subseteq K /\ N \subseteq K \cup {k}
  BY DEF Mine
<1>4. IsFiniteSet(M) /\ IsFiniteSet(N)
  BY <1>1, <1>3, FS_Subset
<1>5. \A x \in K \cup {k} : h[x] = Signed(x) /\ h[x] \in Int
  BY <1>1, FillFacts DEF Lots, SignedIn, Signed
<1>6. Total(h, M) \in Int
  BY <1>3, <1>4, <1>5, TotalInt
<1>7. CASE Strategy(k) = s /\ Symbol(k) = y
  <2>1. k \in N /\ N \ {k} = M
    BY <1>7 DEF Mine, Strategy, Symbol
  <2> HIDE DEF M, N, h
  <2>2. Total(h, N) = h[k] + Total(h, N \ {k})
    BY <1>3, <1>4, <1>5, <2>1, TotalRemove
  <2>3. h[k] = Signed(k) /\ h[k] \in Int
    BY <1>5
  <2>4. Total(h, N) = Total(h, M) + Signed(k)
    <3>1. Total(h, N) = h[k] + Total(h, M)
      BY <2>1, <2>2
    <3> QED BY <1>6, <2>3, <3>1
  <2>5. Net(s, y, K \cup {k}) = Net(s, y, K) + Signed(k)
    BY <1>2, <2>4
  <2> QED BY <1>2, <1>6, <1>7, <2>5
<1>8. CASE ~(Strategy(k) = s /\ Symbol(k) = y)
  <2>1. N = M
    BY <1>8 DEF Mine, Strategy, Symbol
  <2> QED BY <1>2, <1>6, <1>8, <2>1
<1> QED BY <1>7, <1>8

\* Fills and the intents they belong to stay what they are, ...
LEMMA FillsFixed ==
    ASSUME TypeOK, Groups, [Next]_vars, NEW k \in DOMAIN fills
    PROVE  k \in DOMAIN fills' /\ fills'[k] = fills[k] /\ orders'[fills[k]] = orders[fills[k]]
<1>1. k \in 1 .. Len(fills) /\ fills \in Seq(Ids) /\ orders \in Seq(Intents)
      /\ fills[k] \in 1 .. Len(orders)
  BY FillFacts DEF TypeOK, StreamTypes
<1>2. UNCHANGED orders \/ \E intent \in Intents : orders' = Append(orders, intent)
  <2>1. WorldAction => UNCHANGED orders \/ \E intent \in Intents : Submit(intent)
    BY DEF WorldAction, PriceTick, Switch
  <2> QED BY <2>1, NextCases, OmsFrame, PortfolioFrame DEF Submit, vars
<1>3. UNCHANGED fills \/ \E i \in Ids : fills' = Append(fills, i)
  <2>1. OmsAction => UNCHANGED fills \/ \E i \in inbox.todo : PublishNext(i)
    BY DEF OmsAction, OmsStart, OmsCrash, OmsLoopError, OmsStep, OmsConsume, ReadIndex,
           ReadPositions, AuditIntent, Decide, OmsHandled, OmsHandlerFails, OmsLate
  <2> QED BY <2>1, NextCases, WorldFrame, PortfolioFrame, InboxFacts DEF PublishNext, vars
<1>4. orders'[fills[k]] = orders[fills[k]]
  BY <1>1, <1>2, AppendFacts
<1>5. k \in DOMAIN fills' /\ fills'[k] = fills[k]
  <2>1. CASE UNCHANGED fills
    BY <2>1
  <2>2. CASE \E i \in Ids : fills' = Append(fills, i)
    <3> PICK i \in Ids : fills' = Append(fills, i)
      BY <2>2
    <3>1. /\ fills' \in Seq(Ids) /\ Len(fills') = Len(fills) + 1
          /\ fills'[k] = fills[k]
      BY <1>1, AppendFacts
    <3> QED BY <1>1, <3>1
  <2> QED BY <1>3, <2>1, <2>2
<1> QED BY <1>4, <1>5

\* ... nor do sets of them change what they make up.
LEMMA NetFixed ==
    ASSUME TypeOK, Groups, [Next]_vars, NEW s, NEW y,
           NEW K, IsFiniteSet(K), K \subseteq DOMAIN fills
    PROVE  Net(s, y, K)' = Net(s, y, K)
<1>1. \A k \in K : /\ k \in DOMAIN fills' /\ fills'[k] = fills[k]
                   /\ orders'[fills[k]] = orders[fills[k]]
  BY FillsFixed
<1>2. K \subseteq DOMAIN fills'
  BY <1>1
<1> DEFINE M == Mine(orders, fills, s, y, K)
<1>3. Mine(orders', fills', s, y, K) = M
  BY <1>1 DEF Mine
<1>4. M \subseteq K /\ IsFiniteSet(M)
  BY FS_Subset DEF Mine
<1>5. \A k \in M : Lots(orders', fills')[k] = Lots(orders, fills)[k]
  BY <1>1, <1>4 DEF Lots, SignedIn
<1> HIDE DEF M
<1>6. Total(Lots(orders', fills'), M) = Total(Lots(orders, fills), M)
  BY <1>4, <1>5, TotalAgree
<1>7. Net(s, y, K)' = Total(Lots(orders', fills'), M)
  BY <1>2, <1>3, NetThen
<1>8. Net(s, y, K) = Total(Lots(orders, fills), M)
  BY NetNow DEF M
<1> QED BY <1>6, <1>7, <1>8

-----------------------------------------------------------------------------
(* The books are exact *)

\* Of a group: no message was claimed or given up on, and whatever is pending is in
\* the batch in hand.  From a group that is not orderly there is no way back to an orderly one.
Orderly(g) == g.claimed = {} /\ g.dead = {} /\ g.pel \subseteq g.todo \cup g.done

\* Messages the consumer is through with.
Passed(g) == (1 .. g.cursor) \ g.todo

\* Whatever leads to an orderly group began in one: a claim, a failure, a message
\* given up on and a departure with a batch in hand do not.
LEMMA OrderlyMoves ==
    ASSUME NEW n \in Nat, NEW g, WellFormed(g, n), NEW batch \in Nat \ {0},
           NEW h, Moves(g, h, n, batch), Orderly(h)
    PROVE  /\ Orderly(g)
           /\ h = g \/ (AtRest(g) /\ h = Delivered(g, n, batch))
                \/ (g.todo = {} /\ h = Acknowledged(g)) \/ \E i \in g.todo : h = Handled(g, i)
           /\ \/ Passed(h) = Passed(g)
              \/ \E i \in g.todo : h = Handled(g, i) /\ Passed(h) = Passed(g) \cup {i}
<1>1. /\ g \in GroupType(n) /\ g.cursor \in 0 .. n /\ g.pel \subseteq 1 .. g.cursor
      /\ g.todo \subseteq g.pel /\ g.done \subseteq g.pel /\ g.todo \cap g.done = {}
  BY DEF WellFormed, GroupType
<1>2. CASE h = g
  BY <1>2
<1>3. CASE h = Abandoned(g)
  <2>1. h = [cursor |-> g.cursor, pel |-> g.pel, claimed |-> g.claimed,
             todo |-> {}, done |-> {}, dead |-> g.dead]
    BY <1>1, <1>3 DEF Abandoned, GroupType
  <2>2. g.pel = {} /\ g.todo = {} /\ g.done = {} /\ g.claimed = {}
    BY <1>1, <2>1 DEF Orderly
  <2>3. h = g
    BY <1>1, <2>1, <2>2 DEF GroupType
  <2> QED BY <2>3
<1>4. CASE h \in Consumed(g, n, batch)
  <2>1. CASE AtRest(g) /\ \E S \in SUBSET g.pel : Claimable(g, S) /\ h = Claims(g, S)
    <3> PICK S \in SUBSET g.pel : Claimable(g, S) /\ h = Claims(g, S)
      BY <2>1
    <3>1. h.claimed = g.claimed \cup S /\ S # {}
      BY <1>1 DEF Claims, Claimable, GroupType
    <3> QED BY <3>1 DEF Orderly
  <2>2. CASE AtRest(g) /\ g.cursor < n /\ h = Delivered(g, n, batch)
    <3> DEFINE last == IF g.cursor + batch <= n THEN g.cursor + batch ELSE n
    <3>1. h = [cursor |-> last, pel |-> g.pel \cup (g.cursor + 1 .. last),
               claimed |-> g.claimed, todo |-> g.cursor + 1 .. last, done |-> g.done,
               dead |-> g.dead]
      BY <1>1 , <2>2 DEF Delivered, GroupType
    <3>2. last \in Nat /\ g.cursor <= last /\ g.cursor \in Nat
      BY <1>1
    <3> HIDE DEF last
    <3>3. g.todo = {} /\ g.done = {}
      BY <2>2 DEF AtRest
    <3>4. \A i \in g.pel : i \notin g.cursor + 1 .. last
      BY <1>1, <3>2
    <3>5. Orderly(g)
      BY <3>1, <3>3, <3>4 DEF Orderly
    <3>6. Passed(h) = 1 .. g.cursor /\ Passed(g) = 1 .. g.cursor
      BY <3>1, <3>2, <3>3 DEF Passed
    <3> QED BY <2>2, <3>5, <3>6
  <2>3. CASE g.todo = {} /\ h = Acknowledged(g)
    <3>1. h = [cursor |-> g.cursor, pel |-> g.pel \ g.done, claimed |-> g.claimed,
               todo |-> g.todo, done |-> {}, dead |-> g.dead]
      BY <1>1, <2>3 DEF Acknowledged, GroupType
    <3>2. Orderly(g) /\ Passed(h) = Passed(g)
      BY <2>3, <3>1 DEF Orderly, Passed
    <3> QED BY <2>3, <3>2
  <2>4. CASE \E i \in g.pel : h = GivenUp(g, i)
    <3>1. h.dead # {}
      BY <1>1, <2>4 DEF GivenUp, GroupType
    <3> QED BY <3>1 DEF Orderly
  <2> QED BY <1>4, <2>1, <2>2, <2>3, <2>4 DEF Consumed
<1>5. CASE \E i \in g.todo : h = Handled(g, i)
  <2> PICK i \in g.todo : h = Handled(g, i)
    BY <1>5
  <2>1. h = [cursor |-> g.cursor, pel |-> g.pel, claimed |-> g.claimed,
             todo |-> g.todo \ {i}, done |-> g.done \cup {i}, dead |-> g.dead]
    BY <1>1 DEF Handled, GroupType
  <2>2. Orderly(g) /\ Passed(h) = Passed(g) \cup {i}
    BY <1>1, <2>1 DEF Orderly, Passed
  <2> QED BY <2>2
<1>6. CASE \E i \in g.todo : h = Failed(g, i)
  <2> PICK i \in g.todo : h = Failed(g, i)
    BY <1>6
  <2>1. h = [cursor |-> g.cursor, pel |-> g.pel, claimed |-> g.claimed,
             todo |-> g.todo \ {i}, done |-> g.done, dead |-> g.dead]
    BY <1>1 DEF Failed, GroupType
  <2> QED BY <1>1, <2>1 DEF Orderly
<1>7. CASE \E i \in g.todo : h = GivenUp(g, i)
  <2>1. h.dead # {}
    BY <1>1, <1>7 DEF GivenUp, GroupType
  <2> QED BY <2>1 DEF Orderly
<1> QED BY <1>2, <1>3, <1>4, <1>5, <1>6, <1>7 DEF Moves, Raised

\* The fill in hand, if any; what memory and the store hold while the books are in
\* order: the fills passed, and the one in hand once it has got there.
Hand == {k \in fillbox.todo : InHand(fillbox, k)}
InMemory == (Passed(fillbox) \cup (IF ppc # "rest" THEN Hand ELSE {})) \ orphans
InStore == (Passed(fillbox) \cup (IF ppc \in {"index", "publish"} THEN Hand ELSE {})) \ orphans

MemoryIs(K) == \A s \in Strategies, y \in Symbols : memory[s][y] = Net(s, y, K)
StoreIs(K) == \A s \in Strategies, y \in Symbols : store[s][y] = Net(s, y, K)

\* A strategy missing in the index has no position, but for the fill in hand.
Filed ==
    \A s \in Strategies \ index :
        store[s] = NoSnapshot[s] \/ (ppc = "index" /\ \E k \in Hand : Strategy(k) = s)

\* A portfolio service that is down has no batch; one in its handler is up.
Quiet ==
    /\ portfolio = "down" => AtRest(fillbox)
    /\ ppc # "rest" => portfolio = "up" /\ fillbox.todo # {}

\* PositionsExact with the fills on their way added: it says where each fill has
\* got to, and so which step of its handler must not be taken twice.
BooksExact ==
    Orderly(fillbox) =>
        /\ orphans \subseteq Passed(fillbox)
        /\ StoreIs(InStore)
        /\ portfolio # "down" => MemoryIs(InMemory)
        /\ Filed

\* There is one fill in hand, and the consumer is not through with it.
LEMMA HandIsOne ==
    ASSUME Groups, NEW k, InHand(fillbox, k)
    PROVE  Hand = {k} /\ k \in fillbox.todo /\ k \notin Passed(fillbox)
<1>1. fillbox.todo \subseteq Int /\ k \in fillbox.todo
  BY DEF Groups, WellFormed, GroupType, InHand
<1>2. \A j \in Hand : j = k
  BY <1>1 DEF Hand, InHand
<1> QED BY <1>1, <1>2 DEF Hand, Passed

\* Passed fills, and the one in hand, are out; there are finitely many.
LEMMA PassedFacts ==
    ASSUME TypeOK, Groups
    PROVE  /\ Passed(fillbox) \cup fillbox.todo \subseteq DOMAIN fills
           /\ \A K \in SUBSET DOMAIN fills : IsFiniteSet(K)
<1>1. Len(fills) \in Nat /\ DOMAIN fills = 1 .. Len(fills)
  BY DEF TypeOK, StreamTypes
<1>2. fillbox.cursor \in 0 .. Len(fills) /\ fillbox.todo \subseteq 1 .. Len(fills)
  BY DEF Groups, WellFormed, GroupType
<1>3. IsFiniteSet(DOMAIN fills)
  BY <1>1, FS_Interval
<1> QED BY <1>1, <1>2, <1>3, FS_Subset DEF Passed

\* What memory and the store hold are fills that are out.
LEMMA SetsAreFills ==
    ASSUME TypeOK, Groups
    PROVE  /\ InMemory \subseteq DOMAIN fills /\ InStore \subseteq DOMAIN fills
           /\ IsFiniteSet(InMemory) /\ IsFiniteSet(InStore)
<1>1. Hand \subseteq fillbox.todo
  BY DEF Hand
<1>2. InMemory \subseteq DOMAIN fills /\ InStore \subseteq DOMAIN fills
  BY <1>1, PassedFacts DEF InMemory, InStore
<1> QED BY <1>2, PassedFacts

\* A fill keeps its owner.
LEMMA StrategyFixed ==
    ASSUME TypeOK, Groups, [Next]_vars, NEW k \in DOMAIN fills
    PROVE  Strategy(k)' = Strategy(k)
  BY FillsFixed DEF Strategy

\* Starting, stopping and the steps of the handler keep it quiet.
LEMMA QuietStep ==
    ASSUME TypeOK, Groups, Quiet, [Next]_vars
    PROVE  Quiet'
<1>1. CASE UNCHANGED <<portfolio, fillbox, ppc>>
  BY <1>1 DEF Quiet, AtRest
<1>2. CASE PortfolioStart
  BY <1>2 DEF PortfolioStart, Quiet, AtRest
<1>3. fillbox \in GroupType(Len(fills))
  BY DEF Groups, WellFormed
<1>4. CASE PortfolioCrash \/ PortfolioLoopError \/ \E k \in fillbox.todo : PortfolioLate(k)
  BY <1>3, <1>4 DEF PortfolioCrash, PortfolioLoopError, PortfolioLate, Quiet, AtRest, Abandoned, GroupType
<1>5. CASE PortfolioConsume
  BY <1>5 DEF PortfolioConsume, Quiet, book
<1>6. CASE \E k \in fillbox.todo : \/ ApplyFill(k) \/ PutPosition(k) \/ PutIndex(k)
                                   \/ PublishPosition(k) \/ PortfolioHandlerFails(k)
  BY <1>6 DEF ApplyFill, PutPosition, PutIndex, PublishPosition, PortfolioHandlerFails, Quiet
<1> QED BY <1>1, <1>2, <1>4, <1>5, <1>6, NextCases, WorldFrame, OmsFrame
        DEF PortfolioAction, PortfolioStep, vars, portVars

\* What a step that changes neither the store nor what it should hold leaves true.
LEMMA StoreStays ==
    ASSUME TypeOK, Groups, [Next]_vars, StoreIs(InStore), UNCHANGED store,
           InStore' = InStore
    PROVE  StoreIs(InStore)'
<1> PICK K : K = InStore
  OBVIOUS
<1>1. IsFiniteSet(K) /\ K \subseteq DOMAIN fills
  BY SetsAreFills
<1>2. \A s \in Strategies, y \in Symbols : Net(s, y, K)' = Net(s, y, K)
  BY <1>1, NetFixed
<1>3. StoreIs(K)'
  BY <1>2 DEF StoreIs
<1> QED BY <1>3

LEMMA MemoryStays ==
    ASSUME TypeOK, Groups, [Next]_vars, MemoryIs(InMemory), UNCHANGED memory,
           InMemory' = InMemory
    PROVE  MemoryIs(InMemory)'
<1> PICK K : K = InMemory
  OBVIOUS
<1>1. IsFiniteSet(K) /\ K \subseteq DOMAIN fills
  BY SetsAreFills
<1>2. \A s \in Strategies, y \in Symbols : Net(s, y, K)' = Net(s, y, K)
  BY <1>1, NetFixed
<1>3. MemoryIs(K)'
  BY <1>2 DEF MemoryIs
<1> QED BY <1>3

\* The owner of the fill in hand is the owner after any step.
LEMMA OwnerFixed ==
    ASSUME TypeOK, Groups, [Next]_vars, NEW k \in Hand
    PROVE  k \in DOMAIN fills /\ Strategy(k)' = Strategy(k)
<1>1. k \in DOMAIN fills
  BY PassedFacts DEF Hand
<1> QED BY <1>1, StrategyFixed

\* As long as store, index and place stay, so does who is filed.
LEMMA FiledStays ==
    ASSUME TypeOK, Groups, [Next]_vars, Filed, UNCHANGED <<store, index, ppc>>,
           Hand' = Hand
    PROVE  Filed'
  BY OwnerFixed DEF Filed

\* A fill is applied: memory holds one more, the store is not there yet.
LEMMA Applying ==
    ASSUME TypeOK, Groups, Groups', Quiet, BooksExact, [Next]_vars, Orderly(fillbox),
           NEW k \in fillbox.todo, ApplyFill(k)
    PROVE  BooksExact'
<1>1. /\ portfolio = "up" /\ ppc = "rest" /\ InHand(fillbox, k)
      /\ UNCHANGED <<fills, orders, portfolio, store, index>>
  BY DEF ApplyFill
<1>2. Hand = {k} /\ k \notin Passed(fillbox)
  BY <1>1, HandIsOne
<1>3. /\ orphans \subseteq Passed(fillbox) /\ StoreIs(InStore) /\ MemoryIs(InMemory)
      /\ Filed
  BY <1>1 DEF BooksExact
<1>4. InStore = Passed(fillbox) \ orphans /\ InMemory = Passed(fillbox) \ orphans
  BY <1>1 DEF InStore, InMemory
<1>5. CASE /\ memory' = [memory EXCEPT ![Strategy(k)][Symbol(k)] = @ + Signed(k)]
           /\ ppc' = "put" /\ UNCHANGED <<fillbox, orphans>>
  <2>1. Hand' = Hand /\ Passed(fillbox)' = Passed(fillbox)
    BY <1>5 DEF Hand
  <2>2. InStore' = InStore /\ InMemory' = InMemory \cup {k}
    BY <1>2, <1>3, <1>4, <1>5, <2>1 DEF InStore, InMemory
  <2>3. StoreIs(InStore)'
    BY <1>1, <1>3, <2>2, StoreStays
  <2>4. MemoryIs(InMemory)'
    <3> PICK K : K = InMemory
      OBVIOUS
    <3>1. IsFiniteSet(K) /\ K \subseteq DOMAIN fills /\ k \in DOMAIN fills /\ k \notin K
      BY <1>2, <1>4, SetsAreFills, PassedFacts
    <3>2. IsFiniteSet(K \cup {k}) /\ K \cup {k} \subseteq DOMAIN fills
      BY <3>1, FS_AddElement
    <3>3. ASSUME NEW s \in Strategies, NEW y \in Symbols
          PROVE  memory'[s][y] = Net(s, y, K \cup {k})'
      <4>1. Net(s, y, K \cup {k})' = Net(s, y, K \cup {k})
        BY <3>2, NetFixed
      <4>2. Net(s, y, K \cup {k}) =
                IF Strategy(k) = s /\ Symbol(k) = y THEN Net(s, y, K) + Signed(k)
                                                    ELSE Net(s, y, K)
        BY <3>1, NetOfOneMore
      <4>3. memory[s][y] = Net(s, y, K)
        BY <1>3 DEF MemoryIs
      <4>4. /\ memory \in [Strategies -> [Symbols -> Int]]
            /\ Strategy(k) \in Strategies /\ Symbol(k) \in Symbols
        BY OwnerFacts DEF TypeOK, PortfolioTypes
      <4>5. memory'[s][y] = IF Strategy(k) = s /\ Symbol(k) = y
                            THEN memory[s][y] + Signed(k) ELSE memory[s][y]
        BY <1>5, <4>4
      <4> QED BY <4>1, <4>2, <4>3, <4>5
    <3>4. MemoryIs(K \cup {k})'
      BY <3>3 DEF MemoryIs
    <3> QED BY <2>2, <3>4
  <2>5. Filed'
    BY <1>1, <1>3, <1>5, <2>1, OwnerFixed DEF Filed
  <2> QED BY <1>3, <1>5, <2>1, <2>3, <2>4, <2>5 DEF BooksExact
<1>6. CASE /\ orphans' = orphans \cup {k} /\ fillbox' = Handled(fillbox, k)
           /\ UNCHANGED <<memory, ppc>>
  <2>1. /\ fillbox'.cursor = fillbox.cursor /\ fillbox'.todo = fillbox.todo \ {k}
        /\ fillbox \in GroupType(Len(fills)) /\ fillbox.pel \subseteq 1 .. fillbox.cursor
        /\ fillbox.todo \subseteq fillbox.pel
    BY <1>6 DEF Groups, WellFormed, GroupType, Handled
  <2>2. Passed(fillbox)' = Passed(fillbox) \cup {k}
    BY <2>1 DEF Passed
  <2>3. InStore' = InStore /\ InMemory' = InMemory
    BY <1>1, <1>2, <1>4, <1>6, <2>2 DEF InStore, InMemory
  <2>4. StoreIs(InStore)' /\ MemoryIs(InMemory)'
    BY <1>1, <1>3, <1>6, <2>3, StoreStays, MemoryStays
  <2>5. Filed'
    BY <1>1, <1>3, <1>6 DEF Filed
  <2>6. orphans' \subseteq Passed(fillbox)'
    BY <1>3, <1>6, <2>2
  <2> QED BY <2>4, <2>5, <2>6 DEF BooksExact
<1> QED BY <1>5, <1>6 DEF ApplyFill

\* The store follows: after the write it holds the fill too.
LEMMA Putting ==
    ASSUME TypeOK, Groups, Groups', BooksExact, [Next]_vars, Orderly(fillbox),
           NEW k \in fillbox.todo, PutPosition(k)
    PROVE  BooksExact'
<1>1. /\ portfolio = "up" /\ ppc = "put" /\ InHand(fillbox, k) /\ ppc' = "index"
      /\ store' = [store EXCEPT ![Strategy(k)][Symbol(k)] = memory[Strategy(k)][Symbol(k)]]
      /\ UNCHANGED <<fills, orders, portfolio, fillbox, memory, index, orphans>>
  BY DEF PutPosition
<1>2. Hand = {k} /\ k \notin Passed(fillbox)
  BY <1>1, HandIsOne
<1>3. /\ orphans \subseteq Passed(fillbox) /\ StoreIs(InStore) /\ MemoryIs(InMemory)
      /\ Filed
  BY <1>1 DEF BooksExact
<1>4. Hand' = Hand /\ Passed(fillbox)' = Passed(fillbox)
  BY <1>1 DEF Hand
<1>5. InMemory' = InMemory /\ InMemory = InStore \cup {k} /\ InStore' = InMemory /\ k \notin InStore
  BY <1>1, <1>2, <1>3, <1>4 DEF InMemory, InStore
<1>6. MemoryIs(InMemory)'
  BY <1>1, <1>3, <1>5, MemoryStays
<1>7. /\ store \in [Strategies -> [Symbols -> Int]] /\ memory \in [Strategies -> [Symbols -> Int]]
      /\ Strategy(k) \in Strategies /\ Symbol(k) \in Symbols
  BY OwnerFacts DEF TypeOK, PortfolioTypes
<1>8. StoreIs(InStore)'
  <2> PICK K : K = InStore
    OBVIOUS
  <2>1. IsFiniteSet(K) /\ K \subseteq DOMAIN fills /\ k \in DOMAIN fills /\ k \notin K
    BY <1>5, SetsAreFills, PassedFacts
  <2>2. IsFiniteSet(K \cup {k}) /\ K \cup {k} \subseteq DOMAIN fills
    BY <2>1, FS_AddElement
  <2>3. ASSUME NEW s \in Strategies, NEW y \in Symbols
        PROVE  store'[s][y] = Net(s, y, K \cup {k})'
    <3>1. Net(s, y, K \cup {k})' = Net(s, y, K \cup {k})
      BY <2>2, NetFixed
    <3>2. store[s][y] = Net(s, y, K) /\ memory[s][y] = Net(s, y, K \cup {k})
      BY <1>3, <1>5 DEF StoreIs, MemoryIs
    <3>3. ~(Strategy(k) = s /\ Symbol(k) = y) => Net(s, y, K \cup {k}) = Net(s, y, K)
      BY <2>1, NetOfOneMore
    <3>4. store'[s][y] = IF Strategy(k) = s /\ Symbol(k) = y
                         THEN memory[s][y] ELSE store[s][y]
      BY <1>1, <1>7
    <3> QED BY <3>1, <3>2, <3>3, <3>4
  <2>4. StoreIs(K \cup {k})'
    BY <2>3 DEF StoreIs
  <2> QED BY <1>5, <2>4
<1>9. Filed'
  <2> SUFFICES ASSUME NEW s \in Strategies \ index
               PROVE  store'[s] = NoSnapshot[s] \/ \E j \in Hand : Strategy(j)' = s
    BY <1>1, <1>4 DEF Filed
  <2>1. CASE s = Strategy(k)
    BY <1>2, <2>1, OwnerFixed
  <2>2. CASE s # Strategy(k)
    <3>1. store'[s] = store[s]
      BY <1>1, <1>7, <2>2
    <3> QED BY <1>1, <1>3, <3>1 DEF Filed
  <2> QED BY <2>1, <2>2
<1> QED BY <1>1, <1>3, <1>4, <1>6, <1>8, <1>9 DEF BooksExact

\* The index follows the store.
LEMMA Filing ==
    ASSUME TypeOK, Groups, Groups', BooksExact, [Next]_vars, Orderly(fillbox),
           NEW k \in fillbox.todo, PutIndex(k)
    PROVE  BooksExact'
<1>1. /\ portfolio = "up" /\ ppc = "index" /\ InHand(fillbox, k) /\ ppc' = "publish"
      /\ index' = index \cup {Strategy(k)}
      /\ UNCHANGED <<fills, orders, portfolio, fillbox, memory, store, orphans>>
  BY DEF PutIndex
<1>2. Hand = {k} /\ Hand' = Hand /\ Passed(fillbox)' = Passed(fillbox)
  BY <1>1, HandIsOne DEF Hand
<1>3. /\ orphans \subseteq Passed(fillbox) /\ StoreIs(InStore) /\ MemoryIs(InMemory)
      /\ Filed
  BY <1>1 DEF BooksExact
<1>4. InMemory' = InMemory /\ InStore' = InStore
  BY <1>1, <1>2 DEF InMemory, InStore
<1>5. StoreIs(InStore)' /\ MemoryIs(InMemory)'
  BY <1>1, <1>3, <1>4, StoreStays, MemoryStays
<1>6. Filed'
  BY <1>1, <1>2, <1>3 DEF Filed
<1> QED BY <1>1, <1>2, <1>3, <1>5, <1>6 DEF BooksExact

\* The position goes out and the fill is through.
LEMMA Finishing ==
    ASSUME TypeOK, Groups, Groups', BooksExact, [Next]_vars, Orderly(fillbox),
           NEW k \in fillbox.todo, PublishPosition(k)
    PROVE  BooksExact'
<1>1. /\ portfolio = "up" /\ ppc = "publish" /\ InHand(fillbox, k) /\ ppc' = "rest"
      /\ fillbox' = Handled(fillbox, k)
      /\ UNCHANGED <<fills, orders, portfolio, memory, store, index, orphans>>
  BY DEF PublishPosition, book
<1>2. Hand = {k} /\ k \notin Passed(fillbox)
  BY <1>1, HandIsOne
<1>3. /\ orphans \subseteq Passed(fillbox) /\ StoreIs(InStore) /\ MemoryIs(InMemory)
      /\ Filed
  BY <1>1 DEF BooksExact
<1>4. /\ fillbox'.cursor = fillbox.cursor /\ fillbox'.todo = fillbox.todo \ {k}
      /\ fillbox \in GroupType(Len(fills)) /\ fillbox.pel \subseteq 1 .. fillbox.cursor
      /\ fillbox.todo \subseteq fillbox.pel
  BY <1>1 DEF Groups, WellFormed, GroupType, Handled
<1>5. Passed(fillbox)' = Passed(fillbox) \cup {k}
  BY <1>4 DEF Passed
<1>6. InMemory' = InMemory /\ InStore' = InStore
  BY <1>1, <1>2, <1>5 DEF InMemory, InStore
<1>7. StoreIs(InStore)' /\ MemoryIs(InMemory)'
  BY <1>1, <1>3, <1>6, StoreStays, MemoryStays
<1>8. Filed'
  BY <1>1, <1>3 DEF Filed
<1> QED BY <1>1, <1>3, <1>5, <1>7, <1>8 DEF BooksExact

\* Every step keeps the books exact: failures, departures and claims by leaving
\* the group disorderly, the handler by moving one fill along.
LEMMA BooksExactStep ==
    ASSUME TypeOK, Groups, Groups', Quiet, BooksExact, [Next]_vars
    PROVE  BooksExact'
<1> SUFFICES ASSUME Orderly(fillbox') PROVE BooksExact'
  BY DEF BooksExact
<1>1. Batch \in Nat \ {0} /\ Len(fills) \in Nat /\ WellFormed(fillbox, Len(fills))
  BY OrderFlowAssumption DEF TypeOK, StreamTypes, Groups
<1>2. /\ Orderly(fillbox)
      /\ \/ fillbox' = fillbox \/ (AtRest(fillbox) /\ fillbox' = Delivered(fillbox, Len(fills), Batch))
         \/ (fillbox.todo = {} /\ fillbox' = Acknowledged(fillbox))
         \/ \E i \in fillbox.todo : fillbox' = Handled(fillbox, i)
      /\ \/ Passed(fillbox') = Passed(fillbox)
         \/ \E i \in fillbox.todo :
                fillbox' = Handled(fillbox, i) /\ Passed(fillbox') = Passed(fillbox) \cup {i}
  BY <1>1, GroupMoves, OrderlyMoves
<1>3. /\ orphans \subseteq Passed(fillbox) /\ StoreIs(InStore) /\ Filed
      /\ portfolio # "down" => MemoryIs(InMemory)
  BY <1>2 DEF BooksExact
<1>4. CASE UNCHANGED <<portfolio, fillbox, ppc, memory, store, index, orphans>>
  <2>1. Hand' = Hand /\ InMemory' = InMemory /\ InStore' = InStore
    BY <1>4 DEF Hand, InMemory, InStore
  <2> QED BY <1>3, <1>4, <2>1, StoreStays, MemoryStays, FiledStays DEF BooksExact
<1>5. CASE WorldAction \/ OmsAction \/ UNCHANGED vars
  BY <1>4, <1>5, WorldFrame, OmsFrame DEF vars, portVars, book
<1>6. CASE PortfolioStart
  <2>1. /\ portfolio = "down" /\ UNCHANGED <<orders, fills, fillbox, ppc, store, index, orphans>>
        /\ memory' = [s \in Strategies |-> IF s \in index THEN store[s] ELSE NoSnapshot[s]]
    BY <1>6 DEF PortfolioStart
  <2>2. ppc = "rest" /\ fillbox.todo = {}
    BY <2>1 DEF Quiet, AtRest
  <2>3. Hand' = Hand /\ InMemory' = InStore /\ InStore' = InStore
    BY <2>1, <2>2 DEF Hand, InMemory, InStore
  <2>4. StoreIs(InStore)' /\ Filed'
    BY <1>3, <2>1, <2>3, StoreStays, FiledStays
  <2>5. store \in [Strategies -> [Symbols -> Int]]
    BY DEF TypeOK, PortfolioTypes
  <2>6. \A s \in Strategies : memory'[s] = store'[s]
    BY <1>3, <2>1, <2>2, <2>5 DEF Filed
  <2>7. MemoryIs(InMemory)'
    <3> PICK K : K = InStore
      OBVIOUS
    <3>1. StoreIs(K)'
      BY <2>3, <2>4
    <3>2. MemoryIs(K)'
      BY <2>6, <3>1 DEF StoreIs, MemoryIs
    <3> QED BY <2>3, <3>2
  <2> QED BY <1>3, <2>1, <2>4, <2>7 DEF BooksExact
<1>7. CASE \/ PortfolioCrash \/ PortfolioLoopError
          \/ \E k \in fillbox.todo : PortfolioLate(k) \/ PortfolioHandlerFails(k)
  <2>1. /\ UNCHANGED <<orders, fills, store, index, orphans>> /\ ppc' = "rest"
        /\ \/ fillbox' = Abandoned(fillbox)
           \/ \E k \in fillbox.todo : fillbox' \in Raised(fillbox, k)
        /\ portfolio' = "down" \/ UNCHANGED memory
        /\ portfolio # "down"
    BY <1>7 DEF PortfolioCrash, PortfolioLoopError, PortfolioLate, PortfolioHandlerFails, book
  <2>2. /\ fillbox \in GroupType(Len(fills)) /\ fillbox.todo \subseteq fillbox.pel
        /\ fillbox.done \subseteq fillbox.pel /\ fillbox.todo \cap fillbox.done = {}
    BY <1>1 DEF WellFormed
  <2>3. fillbox' = Abandoned(fillbox)
    <3>2. ASSUME NEW k \in fillbox.todo, fillbox' = GivenUp(fillbox, k) PROVE FALSE
      <4>1. fillbox'.dead # {}
        BY <2>2, <3>2 DEF GivenUp, GroupType
      <4> QED BY <4>1 DEF Orderly
    <3>1. ASSUME NEW k \in fillbox.todo, fillbox' = Failed(fillbox, k) PROVE FALSE
      <4>1. fillbox'.pel = fillbox.pel /\ fillbox'.todo = fillbox.todo \ {k}
            /\ fillbox'.done = fillbox.done
        BY <2>2, <3>1 DEF Failed, GroupType
      <4> QED BY <2>2, <4>1 DEF Orderly
    <3> QED BY <2>1, <3>1, <3>2 DEF Raised
  <2>4. fillbox'.pel = fillbox.pel /\ fillbox'.todo = {} /\ fillbox'.done = {}
        /\ fillbox'.cursor = fillbox.cursor
    BY <2>2, <2>3 DEF Abandoned, GroupType
  <2>5. fillbox.todo = {} /\ fillbox.pel = {}
    BY <2>2, <2>4 DEF Orderly
  <2>7. ppc = "rest"
    BY <2>5 DEF Quiet
  <2>8. Hand' = {} /\ Hand = {} /\ Passed(fillbox)' = Passed(fillbox)
    BY <2>4, <2>5 DEF Hand, Passed
  <2>9. InStore' = InStore /\ InMemory' = InMemory
    BY <2>1, <2>7, <2>8 DEF InStore, InMemory
  <2>10. StoreIs(InStore)'
    BY <1>3, <2>1, <2>9, StoreStays
  <2>11. Filed'
    BY <1>3, <2>1, <2>7, <2>8, FiledStays
  <2>12. portfolio' # "down" => MemoryIs(InMemory)'
    BY <1>3, <2>1, <2>9, MemoryStays
  <2> QED BY <1>3, <2>1, <2>8, <2>10, <2>11, <2>12 DEF BooksExact
<1>8. CASE PortfolioConsume
  <2>1. /\ portfolio = "up" /\ ppc = "rest"
        /\ UNCHANGED <<orders, fills, portfolio, ppc, memory, store, index, orphans>>
    BY <1>8 DEF PortfolioConsume, book
  <2>2. Passed(fillbox') = Passed(fillbox)
    <3>1. \A i \in fillbox.todo : fillbox' # Handled(fillbox, i)
      <4>1. fillbox.todo # {} => fillbox' \in Consumed(fillbox, Len(fills), Batch) /\ Consumed(fillbox, Len(fills), Batch) = {}
        BY <1>8 DEF PortfolioConsume, Consumed, AtRest
      <4> QED BY <4>1
    <3> QED BY <1>2, <3>1
  <2>3. InMemory' = InMemory /\ InStore' = InStore
    BY <2>1, <2>2 DEF InMemory, InStore
  <2>4. StoreIs(InStore)' /\ MemoryIs(InMemory)'
    BY <1>3, <2>1, <2>3, StoreStays, MemoryStays
  <2>5. Filed'
    BY <1>3, <2>1 DEF Filed
  <2> QED BY <1>3, <2>1, <2>2, <2>4, <2>5 DEF BooksExact
<1>9. CASE \E k \in fillbox.todo : ApplyFill(k)
  BY <1>2, <1>9, Applying
<1>10. CASE \E k \in fillbox.todo : PutPosition(k) \/ PutIndex(k) \/ PublishPosition(k)
  BY <1>2, <1>10, Putting, Filing, Finishing
<1> QED BY <1>5, <1>6, <1>7, <1>8, <1>9, <1>10, NextCases DEF PortfolioAction, PortfolioStep

\* The invariant PositionsExact needs.
BooksInv == IInv /\ Quiet /\ BooksExact

\* Nothing is booked in the beginning.
LEMMA InitBooks == Init => BooksInv
<1> SUFFICES ASSUME Init PROVE BooksInv
  OBVIOUS
<1>1. IInv /\ Quiet
  BY InitIInv DEF Init, Quiet, EmptyGroup, AtRest
<1>2. Passed(fillbox) = {}
  BY DEF Init, EmptyGroup, Passed
<1>3. InStore = {} /\ InMemory = {}
  BY <1>2 DEF Init, InStore, InMemory
<1>4. StoreIs({}) /\ MemoryIs({})
  BY NetOfNone DEF Init, StoreIs, MemoryIs, NoSnapshot
<1>5. StoreIs(InStore) /\ MemoryIs(InMemory)
  BY <1>3, <1>4
<1>6. orphans \subseteq Passed(fillbox) /\ Filed
  BY DEF Init, Filed
<1> QED BY <1>1, <1>5, <1>6 DEF BooksInv, BooksExact

LEMMA StepBooks == BooksInv /\ [Next]_vars => BooksInv'
<1> SUFFICES ASSUME BooksInv, [Next]_vars PROVE BooksInv'
  OBVIOUS
<1>1. IInv /\ TypeOK /\ Groups /\ Quiet /\ BooksExact
  BY DEF BooksInv, IInv
<1>2. IInv' /\ Groups'
  BY <1>1, StepIInv, GroupsStep
<1> QED BY <1>1, <1>2, QuietStep, BooksExactStep DEF BooksInv

\* As long as no fill is claimed a second time or given up on, a portfolio service
\* that has caught up has booked every fill that found its owner exactly once,
\* through any crash, restart, late handler or failed write on the way.
THEOREM FillsBookedOnce == Spec => []PositionsExact
<1>1. Spec => []BooksInv
  BY InitBooks, StepBooks, PTL DEF Spec
<1>2. BooksInv => PositionsExact
  <2> SUFFICES ASSUME BooksInv, Settled(fillbox, Len(fills)), fillbox.claimed = {},
                      fillbox.dead = {}, NEW s \in Strategies, NEW y \in Symbols
               PROVE  store[s][y] = Net(s, y, DOMAIN fills \ orphans)
    BY DEF PositionsExact
  <2>1. /\ Orderly(fillbox) /\ fillbox.todo = {} /\ fillbox.cursor = Len(fills)
    BY DEF Settled, AtRest, Orderly
  <2>2. DOMAIN fills = 1 .. Len(fills)
    BY DEF BooksInv, IInv, TypeOK, StreamTypes
  <2>3. InStore = DOMAIN fills \ orphans
    BY <2>1, <2>2 DEF InStore, Passed, Hand
  <2>4. StoreIs(InStore)
    BY <2>1 DEF BooksInv, BooksExact
  <2> QED BY <2>3, <2>4 DEF StoreIs
<1> QED BY <1>1, <1>2, PTL

-----------------------------------------------------------------------------
(* Caps hold on a settled snapshot *)

\* What the snapshot in hand says of the strategies it has read, when it began with
\* every fill booked and no price has changed since: fills, the store and prices
\* are still what they were.
SnapshotExact ==
    /\ opc \in {"rest", "index"} => seen = NoSnapshot /\ ~settledRead
    /\ settledRead /\ opc = "read" =>
           /\ AllBooked
           /\ \A s \in Strategies \ toRead, y \in Symbols :
                  seen[s][y] = Magnitude(store[s][y] * price[y])

\* No position has no notional.
LEMMA MagnitudeZero ==
    ASSUME NEW p \in Int
    PROVE  Magnitude(0 * p) = 0
  BY DEF Magnitude

\* While every fill is booked the portfolio service has nothing to do.
LEMMA BookedStays ==
    ASSUME TypeOK, Groups, Quiet, AllBooked, PortfolioAction
    PROVE  AllBooked' /\ UNCHANGED store
<1>1. /\ fillbox.todo = {} /\ fillbox.done = {} /\ fillbox.pel = {} /\ fillbox.claimed = {}
      /\ fillbox.dead = {} /\ fillbox.cursor = Len(fills) /\ Len(fills) \in Nat /\ fillbox \in GroupType(Len(fills))
      /\ UNCHANGED fills
  BY PortfolioFrame DEF AllBooked, Settled, AtRest, Groups, WellFormed, TypeOK, StreamTypes
<1>2. CASE PortfolioStart
  BY <1>2 DEF PortfolioStart, AllBooked
<1>3. CASE PortfolioCrash \/ PortfolioLoopError
  <2>1. fillbox' = fillbox
    <3>1. fillbox' = [cursor |-> fillbox.cursor, pel |-> fillbox.pel,
                      claimed |-> fillbox.claimed, todo |-> {}, done |-> {},
                      dead |-> fillbox.dead]
      BY <1>1, <1>3 DEF PortfolioCrash, PortfolioLoopError, Abandoned, GroupType
    <3> QED BY <1>1, <3>1 DEF GroupType
  <2> QED BY <1>1, <1>3, <2>1 DEF PortfolioCrash, PortfolioLoopError, AllBooked, book
<1>4. CASE PortfolioConsume
  <2>1. fillbox' \in Consumed(fillbox, Len(fills), Batch) /\ AtRest(fillbox)
    BY <1>1, <1>4 DEF PortfolioConsume, AtRest
  <2>2. PICK S \in SUBSET fillbox.pel : Claimable(fillbox, S)
    BY <1>1, <2>1 DEF Consumed
  <2> QED BY <1>1, <2>2 DEF Claimable
<1>5. CASE \E k \in fillbox.todo : TRUE
  BY <1>1, <1>5
<1> QED BY <1>2, <1>3, <1>4, <1>5 DEF PortfolioAction, PortfolioStep

\* Reading the index and the positions builds the snapshot; nothing else in either
\* service touches what it was read from, prices apart.
LEMMA SnapshotExactStep ==
    ASSUME TypeOK, Groups, Quiet, BooksExact, SnapshotExact, [Next]_vars
    PROVE  SnapshotExact'
<1>1. CASE UNCHANGED <<opc, seen, settledRead, toRead, store, price, fillbox, fills, orphans>>
  BY <1>1 DEF SnapshotExact, AllBooked
<1>2. CASE WorldAction
  <2>1. UNCHANGED <<opc, seen, toRead, store, fillbox, fills, orphans>>
    BY <1>2, WorldFrame
  <2>2. ~settledRead' \/ UNCHANGED <<settledRead, price>>
    BY <1>2 DEF WorldAction, Submit, PriceTick, Switch, gate
  <2>3. CASE ~settledRead'
    BY <2>1, <2>3 DEF SnapshotExact
  <2> QED BY <1>1, <2>1, <2>2, <2>3
<1>3. CASE PortfolioAction
  <2>1. UNCHANGED <<opc, seen, settledRead, toRead, price>>
    BY <1>3, PortfolioFrame
  <2>2. settledRead /\ opc = "read" => AllBooked' /\ UNCHANGED store
    BY <1>3, BookedStays DEF SnapshotExact
  <2> QED BY <2>1, <2>2 DEF SnapshotExact
<1>4. CASE OmsAction
  <2>1. UNCHANGED <<store, fillbox, orphans, index>>
    BY <1>4, OmsFrame
  <2>2. CASE \/ OmsCrash \/ OmsLoopError
             \/ \E i \in inbox.todo : OmsHandled(i) \/ OmsHandlerFails(i) \/ OmsLate(i)
    <3>1. opc' = "rest" /\ seen' = NoSnapshot /\ settledRead' = FALSE
      BY <2>2 DEF OmsCrash, OmsLoopError, OmsHandlerFails, OmsHandled, OmsLate, OmsLeaves
    <3> QED BY <3>1 DEF SnapshotExact
  <2>3. CASE OmsStart \/ OmsConsume
    <3>1. UNCHANGED <<opc, seen, settledRead, toRead, price, fills>>
      BY <2>3 DEF OmsStart, OmsConsume, gate
    <3> QED BY <1>1, <2>1, <3>1
  <2>4. CASE \E i \in inbox.todo : AuditIntent(i)
    <3>1. opc = "rest" /\ opc' = "index" /\ UNCHANGED <<seen, settledRead>>
      BY <2>4 DEF AuditIntent, gate
    <3> QED BY <3>1 DEF SnapshotExact
  <2>5. CASE ReadIndex
    <3>1. /\ opc = "index" /\ opc' = "read" /\ toRead' = index /\ settledRead' = AllBooked
          /\ UNCHANGED <<seen, price, fills>>
      BY <2>5 DEF ReadIndex
    <3>2. seen' = NoSnapshot
      BY <3>1 DEF SnapshotExact
    <3>3. ASSUME settledRead', NEW s \in Strategies \ index, NEW y \in Symbols
          PROVE  seen'[s][y] = Magnitude(store[s][y] * price[y])
      <4>1. AllBooked /\ Orderly(fillbox) /\ Hand = {}
        BY <3>1, <3>3 DEF AllBooked, Settled, AtRest, Orderly, Hand
      <4>2. store[s] = NoSnapshot[s]
        BY <4>1 DEF BooksExact, Filed
      <4>3. price[y] \in Int
        BY PriceNumbers DEF TypeOK, WorldTypes
      <4> QED BY <3>2, <4>2, <4>3, MagnitudeZero DEF NoSnapshot
    <3> QED BY <2>1, <3>1, <3>3 DEF SnapshotExact, AllBooked
  <2>6. CASE \E s \in Strategies : ReadPositions(s)
    <3> PICK s \in Strategies : ReadPositions(s)
      BY <2>6
    <3>1. /\ opc = "read" /\ opc' = "read" /\ toRead' = toRead \ {s}
          /\ seen' = [seen EXCEPT ![s] = [y \in Symbols |-> Magnitude(store[s][y] * price[y])]]
          /\ UNCHANGED <<settledRead, price, fills>>
      BY DEF ReadPositions, omsVars
    <3>2. seen \in [Strategies -> [Symbols -> Nat]]
      BY DEF TypeOK, OmsTypes
    <3>3. ASSUME settledRead, NEW t \in Strategies \ (toRead \ {s}), NEW y \in Symbols
          PROVE  seen'[t][y] = Magnitude(store[t][y] * price[y])
      <4>1. CASE t = s
        BY <3>1, <3>2, <4>1
      <4>2. CASE t # s
        BY <3>1, <3>2, <3>3, <4>2 DEF SnapshotExact
      <4> QED BY <4>1, <4>2
    <3> QED BY <2>1, <3>1, <3>3 DEF SnapshotExact, AllBooked
  <2>7. CASE \E i \in inbox.todo : Decide(i) \/ PublishNext(i)
    <3>1. opc' = "publish"
      BY <2>7 DEF Decide, PublishNext, omsVars
    <3> QED BY <3>1 DEF SnapshotExact
  <2> QED BY <1>4, <2>2, <2>3, <2>4, <2>5, <2>6, <2>7 DEF OmsAction, OmsStep
<1>5. CASE UNCHANGED vars
  BY <1>1, <1>5 DEF vars, omsVars, portVars, gate, book
<1> QED BY <1>2, <1>3, <1>4, <1>5, NextCases

\* The notional of a symbol in the snapshot is its exposure, when the snapshot has
\* of each strategy what the fills make up: the same numbers make the same sum.
LEMMA SameNotional ==
    ASSUME NEW y,
           \A s \in Strategies :
               seen[s][y] = Magnitude(Net(s, y, DOMAIN fills) * price[y])
    PROVE  SymbolNotional(y) = Exposure(y)
<1> DEFINE F(s) == seen[s][y]
           G(s) == Magnitude(Net(s, y, DOMAIN fills) * price[y])
           P(g) == g = [t \in SUBSET Strategies |->
                            IF t = {} THEN 0 ELSE F(Pick(t)) + g[t \ {Pick(t)}]]
           Q(g) == g = [t \in SUBSET Strategies |->
                            IF t = {} THEN 0 ELSE G(Pick(t)) + g[t \ {Pick(t)}]]
<1>1. SymbolNotional(y) = (CHOOSE g : P(g))[Strategies]
  BY DEF SymbolNotional, SumOver, MapThenSumSet, MapThenFoldSet, Pick
<1>2. Exposure(y) = (CHOOSE g : Q(g))[Strategies]
  BY DEF Exposure, MapThenSumSet, MapThenFoldSet, Pick
<1>3. \A t \in SUBSET Strategies : t # {} => F(Pick(t)) = G(Pick(t))
  BY PickIn
<1>4. \A g : P(g) <=> Q(g)
  <2> HIDE DEF F, G
  <2> QED BY <1>3
<1>5. (CHOOSE g : P(g)) = (CHOOSE g : Q(g))
  <2> HIDE DEF P, Q
  <2> QED BY <1>4
<1> HIDE DEF P, Q
<1> QED BY <1>1, <1>2, <1>5

\* So is the gross notional.
LEMMA SameGross ==
    ASSUME \A y \in Symbols : SymbolNotional(y) = Exposure(y)
    PROVE  GrossNotional = MapThenSumSet(Exposure, Symbols)
<1> DEFINE P(g) == g = [t \in SUBSET Symbols |->
                            IF t = {} THEN 0 ELSE SymbolNotional(Pick(t)) + g[t \ {Pick(t)}]]
           Q(g) == g = [t \in SUBSET Symbols |->
                            IF t = {} THEN 0 ELSE Exposure(Pick(t)) + g[t \ {Pick(t)}]]
<1>1. GrossNotional = (CHOOSE g : P(g))[Symbols]
  BY DEF GrossNotional, SumOver, MapThenSumSet, MapThenFoldSet, Pick
<1>2. MapThenSumSet(Exposure, Symbols) = (CHOOSE g : Q(g))[Symbols]
  BY DEF MapThenSumSet, MapThenFoldSet, Pick
<1>3. \A t \in SUBSET Symbols : t # {} => SymbolNotional(Pick(t)) = Exposure(Pick(t))
  BY PickIn
<1>4. \A g : P(g) <=> Q(g)
  BY <1>3
<1>5. (CHOOSE g : P(g)) = (CHOOSE g : Q(g))
  <2> HIDE DEF P, Q
  <2> QED BY <1>4
<1> HIDE DEF P, Q
<1> QED BY <1>1, <1>2, <1>5

\* With every fill booked, the store is the sum of all fills.
LEMMA BookedExactly ==
    ASSUME BooksInv, AllBooked, NEW s \in Strategies, NEW y \in Symbols
    PROVE  store[s][y] = Net(s, y, DOMAIN fills)
<1>1. /\ Orderly(fillbox) /\ fillbox.todo = {} /\ fillbox.cursor = Len(fills)
      /\ orphans = {}
  BY DEF AllBooked, Settled, AtRest, Orderly
<1>2. DOMAIN fills = 1 .. Len(fills)
  BY DEF BooksInv, IInv, TypeOK, StreamTypes
<1>3. InStore = DOMAIN fills
  BY <1>1, <1>2 DEF InStore, Passed, Hand
<1>4. StoreIs(InStore)
  BY <1>1 DEF BooksInv, BooksExact
<1> QED BY <1>3, <1>4 DEF StoreIs

\* The invariant the caps need.
SnapshotInv == BooksInv /\ SnapshotExact

LEMMA SnapshotInvariance == Spec => []SnapshotInv
<1>1. Init => SnapshotInv
  BY InitBooks DEF Init, SnapshotInv, SnapshotExact
<1>2. SnapshotInv /\ [Next]_vars => SnapshotInv'
  <2> SUFFICES ASSUME SnapshotInv, [Next]_vars PROVE SnapshotInv'
    OBVIOUS
  <2>1. TypeOK /\ Groups /\ Quiet /\ BooksExact /\ SnapshotExact /\ BooksInv
    BY DEF SnapshotInv, BooksInv, IInv
  <2> QED BY <2>1, StepBooks, SnapshotExactStep DEF SnapshotInv
<1> QED BY <1>1, <1>2, PTL DEF Spec

\* Whoever decides on an intent has found it approved.
LEMMA ApprovalIsDecision ==
    ASSUME TypeOK, Groups, Undecided, [Next]_vars, NEW i \in inbox.todo, Approves(i)
    PROVE  toRead = {} /\ Approved(i)
<1>1. opc = "read" /\ opc' = "publish" /\ verdict' = "fill" /\ InHand(inbox, i)
  BY DEF Approves
<1>2. OmsAction
  BY <1>1, NextCases, WorldFrame, PortfolioFrame DEF vars, omsVars
<1>3. PICK j \in inbox.todo : Decide(j)
  BY <1>1, <1>2 DEF OmsAction, OmsStart, OmsCrash, OmsLoopError, OmsStep, OmsConsume, ReadIndex,
     ReadPositions, AuditIntent, PublishNext, OmsHandled, OmsHandlerFails, OmsLate,
     OmsLeaves, omsVars
<1>4. j = i
  <2>1. inbox.todo \subseteq Int
    BY DEF Groups, WellFormed, GroupType
  <2> QED BY <1>1, <1>3, <2>1 DEF Decide, InHand
<1>5. toRead = {} /\ verdict' # "reject"
  BY <1>1, <1>3 DEF Decide
<1> QED BY <1>3, <1>4, <1>5 DEF Decide

\* An intent approved on a snapshot that began with every fill booked, with no price
\* change since, is within both caps together with all the fills published.
THEOREM SettledSnapshotKeepsCaps == Spec => CapsHoldOnSettledSnapshot
<1>1. SnapshotInv /\ [Next]_vars
        => [\A i \in inbox.todo : Approves(i) /\ settledRead => WithinCaps(i)]_vars
  <2> SUFFICES ASSUME SnapshotInv, [Next]_vars, NEW i \in inbox.todo, Approves(i),
                      settledRead
               PROVE  WithinCaps(i)
    OBVIOUS
  <2>1. TypeOK /\ Groups /\ Undecided /\ BooksInv /\ SnapshotExact
    BY DEF SnapshotInv, BooksInv, IInv
  <2>2. toRead = {} /\ Approved(i) /\ opc = "read"
    BY <2>1, ApprovalIsDecision DEF Approves
  <2>3. /\ AllBooked
        /\ \A s \in Strategies, y \in Symbols :
               seen[s][y] = Magnitude(store[s][y] * price[y])
    BY <2>1, <2>2 DEF SnapshotExact
  <2>4. \A s \in Strategies, y \in Symbols : store[s][y] = Net(s, y, DOMAIN fills)
    BY <2>1, <2>3, BookedExactly
  <2>5. \A y \in Symbols : SymbolNotional(y) = Exposure(y)
    BY <2>3, <2>4, SameNotional
  <2>6. GrossNotional = MapThenSumSet(Exposure, Symbols)
    BY <2>5, SameGross
  <2>7. orders[i].symbol \in Symbols
    <3>1. i \in 1 .. Len(orders) /\ orders \in Seq(Intents)
      BY <2>1 DEF Groups, WellFormed, GroupType, TypeOK, StreamTypes
    <3>2. orders[i] \in Intents
      BY <3>1, ElementOfSeq
    <3> QED BY <3>2, OrderFlowAssumption
  <2> HIDE DEF SnapshotInv
  <2>8. /\ SymbolNotional(orders[i].symbol) + Notional(i) <= SymbolCap
        /\ GrossNotional + Notional(i) <= GrossCap
    BY <2>2 DEF Approved
  <2> QED BY <2>5, <2>6, <2>7, <2>8 DEF WithinCaps
<1> QED BY <1>1, SnapshotInvariance, PTL DEF Spec, CapsHoldOnSettledSnapshot

-----------------------------------------------------------------------------
(* Positions *)

Positions == [qty : Int, cost : Int, pnl : Int]
PositionFills == [qty : Int \ {0}, price : Int]

\* The division leaves nothing, as Decimal's does up to 28 digits.
AverageIsExact(pos, fill) ==
    SameDirection(pos, fill) =>
        /\ Blended(pos, fill) \in Int
        /\ Blended(pos, fill) * Size(pos.qty + fill.qty)
               = pos.cost * Size(pos.qty) + fill.price * Size(fill.qty)

LEMMA Opposites ==
    ASSUME NEW a \in Int, NEW b \in Int, NEW c \in Int, NEW d \in Int, NEW e \in Int,
           NEW f \in Int, a * (-b) = c * (-d) + e * (-f)
    PROVE  a * b = c * d + e * f
  OBVIOUS

LEMMA Signs ==
    ASSUME NEW a \in Int, NEW b \in Int
    PROVE  a * b * 1 = a * b /\ a * b * (-1) = a * (-b) /\ a * (-b) * (-1) = a * b
  OBVIOUS

LEMMA Reduction ==
    ASSUME NEW q \in Int, NEW c \in Int, NEW w \in Int, NEW s \in Int, NEW p \in Int
    PROVE  /\ p * (q + s) - (w + (p - c) * (-s)) = (c * q - w) + p * s + (p - c) * (q + s)
           /\ p * (q + s) - (w + (p - c) * q) = (c * q - w) + p * s
           /\ q + s = 0 => c * (q + s) - (w + (p - c) * q) = (c * q - w) + p * s
  OBVIOUS

\* portfolio.py.  One fill changes what a position has invested by the cash of the
\* fill and by what a reduction forgets, for every position and every fill whose
\* average cost is exact; a fill that reduces nothing keeps the books.
THEOREM FillKeepsBooks ==
    ASSUME NEW pos \in Positions, NEW fill \in PositionFills, AverageIsExact(pos, fill)
    PROVE  Invested(ApplyFillToPosition(pos, fill))
               = Invested(pos) + fill.price * fill.qty + Forgotten(pos, fill)
<1> DEFINE q == pos.qty  c == pos.cost  w == pos.pnl  s == fill.qty  p == fill.price
           next == ApplyFillToPosition(pos, fill)
<1>1. q \in Int /\ c \in Int /\ w \in Int /\ s \in Int \ {0} /\ p \in Int
  BY DEF Positions, PositionFills
<1>2. pos = [qty |-> q, cost |-> c, pnl |-> w]
  BY DEF Positions
<1>3. CASE q = 0
  <2>1. next.qty = s /\ next.cost = p /\ next.pnl = w
    BY <1>2, <1>3 DEF ApplyFillToPosition
  <2>2. Forgotten(pos, fill) = 0
    BY <1>3 DEF Forgotten, Reduces
  <2> QED BY <1>1, <1>3, <2>1, <2>2 DEF Invested
<1>4. CASE q # 0 /\ SameDirection(pos, fill)
  <2> DEFINE average == Blended(pos, fill)
  <2>1. next.qty = q + s /\ next.cost = average /\ next.pnl = w
    BY <1>2, <1>4 DEF ApplyFillToPosition
  <2>5. average \in Int /\ average * Size(q + s) = c * Size(q) + p * Size(s)
    BY <1>4 DEF AverageIsExact
  <2> HIDE DEF average
  <2>2. Forgotten(pos, fill) = 0
    BY <1>4 DEF Forgotten, Reduces
  <2>3. (q > 0 /\ s > 0) \/ (q < 0 /\ s < 0)
    BY <1>1, <1>4 DEF SameDirection
  <2>4. average * (q + s) = c * q + p * s
    <3>1. CASE q > 0 /\ s > 0
      BY <1>1, <2>5, <3>1 DEF Size
    <3>2. CASE q < 0 /\ s < 0
      <4>1. average * (-(q + s)) = c * (-q) + p * (-s)
        BY <1>1, <2>5, <3>2 DEF Size
      <4>2. q + s \in Int
        BY <1>1
      <4> HIDE DEF q, c, s, p
      <4> QED BY <1>1, <2>5, <4>1, <4>2, Opposites
    <3> QED BY <2>3, <3>1, <3>2
  <2> QED BY <1>1, <2>1, <2>2, <2>4, <2>5 DEF Invested
<1>5. CASE q # 0 /\ ~SameDirection(pos, fill)
  <2>1. (q > 0 /\ s < 0) \/ (q < 0 /\ s > 0)
    BY <1>1, <1>5 DEF SameDirection
  <2>2. /\ next.qty = q + s /\ next.pnl = w + Realized(pos, fill)
        /\ next.cost = IF q + s = 0 THEN c ELSE p
    BY <1>5 DEF ApplyFillToPosition
  <2>3. Realized(pos, fill) =
            (p - c) * Closed(pos, fill) * (IF q > 0 THEN 1 ELSE -1)
    BY DEF Realized
  <2>4. Invested(next) = next.cost * next.qty - next.pnl /\ Invested(pos) = c * q - w
    BY DEF Invested
  <2>5. p - c \in Int
    BY <1>1
  <2> DEFINE m == Size(q)  n == Size(s)
  <2>6. m = (IF q > 0 THEN q ELSE -q) /\ n = (IF q > 0 THEN -s ELSE s)
    BY <1>1, <2>1 DEF Size
  <2>7. Closed(pos, fill) = IF m < n THEN m ELSE n
    BY DEF Closed
  <2>8. CASE n < m
    <3>1. Closed(pos, fill) = IF q > 0 THEN -s ELSE s
      BY <1>1, <2>8, <2>6, <2>7
    <3>2. Forgotten(pos, fill) = (p - c) * (q + s) /\ q + s # 0
      BY <1>1, <1>5, <2>1, <2>8 DEF Forgotten, Reduces, Size
    <3> HIDE DEF q, c, w, s, p, next
    <3>3. Realized(pos, fill) = (p - c) * (-s)
      BY <1>1, <2>3, <2>5, <3>1, Signs
    <3>4. p * (q + s) - (w + (p - c) * (-s)) = (c * q - w) + p * s + (p - c) * (q + s)
      BY <1>1, Reduction
    <3>5. Invested(next) = (c * q - w) + p * s + (p - c) * (q + s)
      BY <2>2, <2>4, <3>2, <3>3, <3>4
    <3>6. (c * q - w) + p * s = Invested(pos) + p * s
      BY <2>4
    <3> QED BY <3>2, <3>5, <3>6 DEF next, s, p
  <2>9. CASE ~(n < m)
    <3>1. Closed(pos, fill) = IF q > 0 THEN q ELSE -q
      <4> HIDE DEF m, n
      <4>1. m \in Int /\ n \in Int
        BY <1>1, <2>6
      <4> QED BY <2>9, <2>6, <2>7, <4>1
    <3>2. Forgotten(pos, fill) = 0
      BY <2>9 DEF Forgotten, Reduces
    <3> HIDE DEF q, c, w, s, p, next
    <3>3. Realized(pos, fill) = (p - c) * q
      BY <1>1, <2>3, <2>5, <3>1, Signs
    <3>4. next.cost * (q + s) - (w + (p - c) * q) = (c * q - w) + p * s
      <4>1. CASE q + s = 0
        BY <1>1, <2>2, <4>1, Reduction
      <4>2. CASE q + s # 0
        BY <1>1, <2>2, <4>2, Reduction
      <4> QED BY <4>1, <4>2
    <3>5. Invested(next) = (c * q - w) + p * s
      BY <2>2, <2>4, <3>3, <3>4
    <3>6. (c * q - w) + p * s = Invested(pos) + p * s + 0
      BY <1>1, <2>4
    <3> QED BY <3>2, <3>5, <3>6 DEF next, s, p
  <2> QED BY <2>8, <2>9
<1> QED BY <1>3, <1>4, <1>5

-----------------------------------------------------------------------------
(* Any number of fills *)

\* A set of numbers up to N has a least one.
LEMMA LeastNumber ==
    ASSUME NEW N \in Nat, NEW T, T \subseteq 0 .. N, T # {}
    PROVE  \E m \in T : \A k \in T : m <= k
<1> DEFINE B == {0 .. m : m \in T}
<1>1. PICK U \in B : \A V \in B : ~(V \subseteq U /\ V # U)
  <2>1. \A m \in T : \A i \in 0 .. m : i \in 0 .. N
    <3> TAKE m \in T
    <3> TAKE i \in 0 .. m
    <3>1. m \in 0 .. N
      OBVIOUS
    <3> QED BY <3>1
  <2>2. B \subseteq SUBSET (0 .. N)
    BY <2>1
  <2>3. B # {}
    OBVIOUS
  <2>4. IsFiniteSet(0 .. N)
    BY FS_Interval
  <2> DEFINE D == 0 .. N
  <2>5. B \subseteq SUBSET D /\ IsFiniteSet(D)
    BY <2>2, <2>4
  <2> HIDE DEF B, D
  <2> QED BY <2>3, <2>5, SmallestSet
<1>2. PICK m \in T : U = 0 .. m
  OBVIOUS
<1>3. ASSUME NEW k \in T, k < m PROVE FALSE
  <2>1. k \in Nat /\ m \in Nat
    OBVIOUS
  <2>2. 0 .. k \subseteq U /\ m \in U /\ m \notin 0 .. k
    BY <1>2, <1>3, <2>1
  <2>3. 0 .. k \in B
    OBVIOUS
  <2> HIDE DEF B
  <2> QED BY <1>1, <2>2, <2>3
<1>4. \A k \in T : k \in Nat /\ m \in Nat
  OBVIOUS
<1> QED BY <1>3, <1>4

\* The positions after each fill of a sequence, and a running sum.
Books(a, fs, N) ==
    a = [n \in 0 .. N |-> IF n = 0 THEN NoPosition ELSE ApplyFillToPosition(a[n - 1], fs[n])]
Sums(a, c, N) == a = [n \in 0 .. N |-> IF n = 0 THEN 0 ELSE a[n - 1] + c[n]]

\* Both exist, by induction on their length.
LEMMA BooksExist ==
    ASSUME NEW fs, NEW N \in Nat
    PROVE  \E a : Books(a, fs, N)
<1> DEFINE T == {m \in 0 .. N : ~ \E a : Books(a, fs, m)}
<1> SUFFICES ASSUME T # {} PROVE FALSE
  OBVIOUS
<1>1. PICK m \in T : \A k \in T : m <= k
  <2>1. T \subseteq 0 .. N
    OBVIOUS
  <2> HIDE DEF T
  <2> QED BY <2>1, LeastNumber
<1>2. CASE m = 0
  <2>1. Books([n \in 0 .. 0 |-> NoPosition], fs, 0)
    BY DEF Books
  <2> QED BY <1>2, <2>1
<1>3. CASE m # 0
  <2>1. m \in Nat /\ m - 1 \in 0 .. N /\ m - 1 \notin T
    BY <1>1, <1>3
  <2>2. PICK b : Books(b, fs, m - 1)
    BY <2>1
  <2> DEFINE a == [n \in 0 .. m |-> IF n = m THEN ApplyFillToPosition(b[m - 1], fs[m]) ELSE b[n]]
  <2>3. ASSUME NEW n \in 0 .. m
        PROVE  a[n] = IF n = 0 THEN NoPosition ELSE ApplyFillToPosition(a[n - 1], fs[n])
    <3>1. CASE n = m
      <4>1. m - 1 \in 0 .. m /\ m - 1 # m
        BY <2>1, <1>3
      <4> QED BY <1>3, <3>1, <4>1
    <3>2. CASE n # m
      <4>1. n \in 0 .. m - 1 /\ (n # 0 => n - 1 \in 0 .. m /\ n - 1 # m)
        BY <2>1, <3>2
      <4>2. b[n] = IF n = 0 THEN NoPosition ELSE ApplyFillToPosition(b[n - 1], fs[n])
        BY <2>2, <4>1 DEF Books
      <4> QED BY <3>2, <4>1, <4>2
    <3> QED BY <3>1, <3>2
  <2>4. Books(a, fs, m)
    <3>1. a = [n \in 0 .. m |-> a[n]]
      OBVIOUS
    <3> HIDE DEF a
    <3> QED BY <2>3, <3>1 DEF Books
  <2> QED BY <2>4
<1> QED BY <1>2, <1>3

LEMMA SumsExist ==
    ASSUME NEW c, NEW N \in Nat
    PROVE  \E a : Sums(a, c, N)
<1> DEFINE T == {m \in 0 .. N : ~ \E a : Sums(a, c, m)}
<1> SUFFICES ASSUME T # {} PROVE FALSE
  OBVIOUS
<1>1. PICK m \in T : \A k \in T : m <= k
  <2>1. T \subseteq 0 .. N
    OBVIOUS
  <2> HIDE DEF T
  <2> QED BY <2>1, LeastNumber
<1>2. CASE m = 0
  <2>1. Sums([n \in 0 .. 0 |-> 0], c, 0)
    BY DEF Sums
  <2> QED BY <1>2, <2>1
<1>3. CASE m # 0
  <2>1. m \in Nat /\ m - 1 \in 0 .. N /\ m - 1 \notin T
    BY <1>1, <1>3
  <2>2. PICK b : Sums(b, c, m - 1)
    BY <2>1
  <2> DEFINE a == [n \in 0 .. m |-> IF n = m THEN b[m - 1] + c[m] ELSE b[n]]
  <2>3. ASSUME NEW n \in 0 .. m
        PROVE  a[n] = IF n = 0 THEN 0 ELSE a[n - 1] + c[n]
    <3>1. CASE n = m
      <4>1. m - 1 \in 0 .. m /\ m - 1 # m
        BY <2>1, <1>3
      <4> QED BY <1>3, <3>1, <4>1
    <3>2. CASE n # m
      <4>1. n \in 0 .. m - 1 /\ (n # 0 => n - 1 \in 0 .. m /\ n - 1 # m)
        BY <2>1, <3>2
      <4>2. b[n] = IF n = 0 THEN 0 ELSE b[n - 1] + c[n]
        BY <2>2, <4>1 DEF Sums
      <4> QED BY <3>2, <4>1, <4>2
    <3> QED BY <3>1, <3>2
  <2>4. Sums(a, c, m)
    <3>1. a = [n \in 0 .. m |-> a[n]]
      OBVIOUS
    <3> HIDE DEF a
    <3> QED BY <2>3, <3>1 DEF Sums
  <2> QED BY <2>4
<1> QED BY <1>2, <1>3

\* Booked computes the positions, Spent and Lost sum the cash and what is forgotten.
LEMMA BookedIs ==
    ASSUME NEW fs \in Seq(PositionFills)
    PROVE  /\ Booked(fs)[0] = NoPosition
           /\ \A n \in 1 .. Len(fs) :
                  Booked(fs)[n] = ApplyFillToPosition(Booked(fs)[n - 1], fs[n])
<1> DEFINE P(a) == Books(a, fs, Len(fs))
<1>1. \E a : P(a)
  BY BooksExist
<1>2. Booked(fs) = CHOOSE a : P(a)
  BY DEF Booked, Books
<1>3. P(CHOOSE a : P(a))
  <2> HIDE DEF P
  <2> QED BY <1>1
<1>4. Books(Booked(fs), fs, Len(fs))
  BY <1>2, <1>3
<1>5. Len(fs) \in Nat
  OBVIOUS
<1> QED BY <1>4, <1>5 DEF Books

LEMMA SpentIs ==
    ASSUME NEW fs \in Seq(PositionFills)
    PROVE  \E a : /\ a[0] = 0 /\ Spent(fs) = a[Len(fs)]
                  /\ \A n \in 1 .. Len(fs) : a[n] = a[n - 1] + fs[n].price * fs[n].qty
<1> DEFINE c == [n \in 1 .. Len(fs) |-> fs[n].price * fs[n].qty]
           P(a) == a = [n \in 0 .. Len(fs) |->
                           IF n = 0 THEN 0 ELSE a[n - 1] + fs[n].price * fs[n].qty]
<1>0. Len(fs) \in Nat
  OBVIOUS
<1>1. \A a : P(a) <=> Sums(a, c, Len(fs))
  <2> DEFINE F(n) == fs[n].price * fs[n].qty
  <2>1. \A n \in 0 .. Len(fs) : n # 0 => c[n] = F(n)
    BY <1>0
  <2> HIDE DEF c, F
  <2>2. ASSUME NEW a PROVE [n \in 0 .. Len(fs) |-> IF n = 0 THEN 0 ELSE a[n - 1] + c[n]]
          = [n \in 0 .. Len(fs) |-> IF n = 0 THEN 0 ELSE a[n - 1] + F(n)]
    BY <2>1
  <2> QED BY <2>2 DEF F, Sums
<1>2. \E a : P(a)
  BY <1>0, <1>1, SumsExist
<1>3. Spent(fs) = (CHOOSE a : P(a))[Len(fs)]
  BY DEF Spent
<1>4. P(CHOOSE a : P(a))
  <2> HIDE DEF P
  <2> QED BY <1>2
<1> DEFINE b == CHOOSE a : P(a)
<1>5. Spent(fs) = b[Len(fs)] /\ P(b)
  BY <1>3, <1>4
<1> HIDE DEF b, c
<1> QED BY <1>0, <1>5

LEMMA LostIs ==
    ASSUME NEW fs \in Seq(PositionFills)
    PROVE  \E a : /\ a[0] = 0 /\ Lost(fs) = a[Len(fs)]
                  /\ \A n \in 1 .. Len(fs) :
                         a[n] = a[n - 1] + Forgotten(Booked(fs)[n - 1], fs[n])
<1> DEFINE c == [n \in 1 .. Len(fs) |-> Forgotten(Booked(fs)[n - 1], fs[n])]
           P(a) == a = [n \in 0 .. Len(fs) |->
                           IF n = 0 THEN 0
                           ELSE a[n - 1] + Forgotten(Booked(fs)[n - 1], fs[n])]
<1>0. Len(fs) \in Nat
  OBVIOUS
<1>1. \A a : P(a) <=> Sums(a, c, Len(fs))
  <2> DEFINE F(n) == Forgotten(Booked(fs)[n - 1], fs[n])
  <2>1. \A n \in 0 .. Len(fs) : n # 0 => c[n] = F(n)
    BY <1>0
  <2> HIDE DEF c, F
  <2>2. ASSUME NEW a PROVE [n \in 0 .. Len(fs) |-> IF n = 0 THEN 0 ELSE a[n - 1] + c[n]]
          = [n \in 0 .. Len(fs) |-> IF n = 0 THEN 0 ELSE a[n - 1] + F(n)]
    BY <2>1
  <2> QED BY <2>2 DEF F, Sums
<1>2. \E a : P(a)
  BY <1>0, <1>1, SumsExist
<1>3. Lost(fs) = (CHOOSE a : P(a))[Len(fs)]
  BY DEF Lost
<1>4. P(CHOOSE a : P(a))
  <2> HIDE DEF P
  <2> QED BY <1>2
<1> DEFINE b == CHOOSE a : P(a)
<1>5. Lost(fs) = b[Len(fs)] /\ P(b)
  BY <1>3, <1>4
<1> HIDE DEF b, c
<1> QED BY <1>0, <1>5

\* A fill takes a position to a position.
LEMMA FillKeepsPosition ==
    ASSUME NEW pos \in Positions, NEW fill \in PositionFills, AverageIsExact(pos, fill)
    PROVE  ApplyFillToPosition(pos, fill) \in Positions /\ Forgotten(pos, fill) \in Int
<1> DEFINE q == pos.qty  c == pos.cost  w == pos.pnl  s == fill.qty  p == fill.price
           next == ApplyFillToPosition(pos, fill)
<1>1. q \in Int /\ c \in Int /\ w \in Int /\ s \in Int /\ p \in Int
  BY DEF Positions, PositionFills
<1>2. q + s \in Int /\ p - c \in Int /\ Size(q) \in Int /\ Size(s) \in Int
  BY <1>1 DEF Size
<1>3. (p - c) * (q + s) \in Int
  BY <1>2
<1>4. Forgotten(pos, fill) \in Int
  BY <1>3 DEF Forgotten
<1>5. Closed(pos, fill) \in Int
  BY <1>2 DEF Closed
<1>6. (p - c) * Closed(pos, fill) \in Int
  BY <1>2, <1>5
<1>7. Realized(pos, fill) \in Int
  <2> DEFINE x == (p - c) * Closed(pos, fill)
  <2>1. Realized(pos, fill) = x * (IF q > 0 THEN 1 ELSE -1)
    BY DEF Realized
  <2>2. x \in Int
    BY <1>6
  <2> HIDE DEF x
  <2> QED BY <2>1, <2>2
<1>8. w + Realized(pos, fill) \in Int
  BY <1>1, <1>7
<1>9. CASE q = 0
  <2>1. next = [qty |-> s, cost |-> p, pnl |-> w]
    BY <1>9 DEF ApplyFillToPosition
  <2> QED BY <1>1, <1>4, <2>1 DEF Positions
<1>10. CASE q # 0 /\ SameDirection(pos, fill)
  <2>1. next = [qty |-> q + s, cost |-> Blended(pos, fill), pnl |-> w]
    BY <1>10 DEF ApplyFillToPosition
  <2>2. Blended(pos, fill) \in Int
    BY <1>10 DEF AverageIsExact
  <2> HIDE DEF q, s
  <2> QED BY <1>1, <1>2, <1>4, <2>1, <2>2 DEF Positions
<1>11. CASE q # 0 /\ ~SameDirection(pos, fill)
  <2>1. next = [qty |-> q + s, cost |-> IF q + s = 0 THEN c ELSE p,
                pnl |-> w + Realized(pos, fill)]
    BY <1>11 DEF ApplyFillToPosition
  <2> HIDE DEF q, s, c, p, w
  <2> QED BY <1>1, <1>2, <1>4, <1>8, <2>1 DEF Positions
<1> QED BY <1>4, <1>9, <1>10, <1>11

\* portfolio.py.  After any sequence of fills whose averages come out exact, through
\* any order of opening, adding, closing and flipping, the position accounts for the
\* cash of the fills, but for what its reductions forgot.
THEOREM BooksBalanceForEver ==
    ASSUME NEW fs \in Seq(PositionFills),
           \A n \in 1 .. Len(fs) : AverageIsExact(Booked(fs)[n - 1], fs[n])
    PROVE  Invested(Booked(fs)[Len(fs)]) = Spent(fs) + Lost(fs)
<1> DEFINE B == Booked(fs)
           N == Len(fs)
<1>1. /\ N \in Nat /\ B[0] = NoPosition
      /\ \A n \in 1 .. N : B[n] = ApplyFillToPosition(B[n - 1], fs[n])
      /\ \A n \in 1 .. N : fs[n] \in PositionFills
  BY BookedIs, ElementOfSeq
<1>2. PICK a : /\ a[0] = 0 /\ Spent(fs) = a[N]
               /\ \A n \in 1 .. N : a[n] = a[n - 1] + fs[n].price * fs[n].qty
  BY SpentIs
<1>3. PICK d : /\ d[0] = 0 /\ Lost(fs) = d[N]
               /\ \A n \in 1 .. N : d[n] = d[n - 1] + Forgotten(B[n - 1], fs[n])
  BY LostIs
<1> DEFINE Balanced(n) == /\ B[n] \in Positions /\ a[n] \in Int /\ d[n] \in Int
                          /\ Invested(B[n]) = a[n] + d[n]
           T == {n \in 0 .. N : ~Balanced(n)}
<1>4. T = {}
  <2> SUFFICES ASSUME T # {} PROVE FALSE
    OBVIOUS
  <2>1. PICK m \in T : \A k \in T : m <= k
    <3>1. T \subseteq 0 .. N
      OBVIOUS
    <3> HIDE DEF T
    <3> QED BY <1>1, <3>1, LeastNumber
  <2>2. CASE m = 0
    <3>1. Balanced(0)
      BY <1>1, <1>2, <1>3 DEF NoPosition, Positions, Invested
    <3> QED BY <2>2, <3>1
  <2>3. CASE m # 0
    <3>1. m \in 1 .. N /\ m - 1 \in 0 .. N /\ m - 1 \notin T
      BY <1>1, <2>1, <2>3
    <3>2. Balanced(m - 1)
      BY <3>1
    <3> DEFINE pos == B[m - 1]
               cash == fs[m].price * fs[m].qty
               gone == Forgotten(B[m - 1], fs[m])
    <3>3. B[m] = ApplyFillToPosition(pos, fs[m]) /\ fs[m] \in PositionFills
      BY <1>1, <3>1
    <3>4. AverageIsExact(pos, fs[m]) /\ pos \in Positions
      BY <3>1, <3>2
    <3>5. B[m] \in Positions /\ gone \in Int /\ Invested(B[m]) = Invested(pos) + cash + gone
      BY <3>3, <3>4, FillKeepsPosition, FillKeepsBooks
    <3>6. cash \in Int
      BY <3>3 DEF PositionFills
    <3>7. a[m] = a[m - 1] + cash /\ d[m] = d[m - 1] + gone
      BY <1>2, <1>3, <3>1
    <3> HIDE DEF B, cash, gone, T
    <3>8. Balanced(m)
      BY <3>2, <3>5, <3>6, <3>7
    <3> QED BY <3>8 DEF T
  <2> QED BY <2>2, <2>3
<1>5. Balanced(N)
  BY <1>1, <1>4
<1> QED BY <1>2, <1>3, <1>5
=============================================================================
