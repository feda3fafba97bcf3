------------------------- MODULE ConsumerGroupProofs -------------------------
(***************************************************************************)
(* What the operators of ConsumerGroup preserve: a group stays a group of  *)
(* its stream, its batch stays pending, and a message leaves the pending   *)
(* list only by way of done or to the dead letters.                        *)
(***************************************************************************)
EXTENDS ConsumerGroup, TLAPS

\* A group of a stream of length n, whose batch in hand is pending.
WellFormed(g, n) ==
    /\ g \in GroupType(n)
    /\ g.pel \subseteq 1 .. g.cursor
    /\ g.todo \subseteq g.pel /\ g.done \subseteq g.pel
    /\ g.todo \cap g.done = {}

\* The group of a stream is one of any longer stream.
LEMMA GroupGrows ==
    ASSUME NEW n \in Nat, NEW g, WellFormed(g, n)
    PROVE  WellFormed(g, n + 1)
<1>1. 0 .. n \subseteq 0 .. n + 1 /\ 1 .. n \subseteq 1 .. n + 1
  OBVIOUS
<1>2. g \in GroupType(n + 1)
  BY <1>1 DEF GroupType, WellFormed
<1> QED BY <1>2 DEF WellFormed

\* A new group.
LEMMA EmptyWellFormed ==
    ASSUME NEW n \in Nat
    PROVE  WellFormed(EmptyGroup, n)
  BY DEF EmptyGroup, WellFormed, GroupType

\* A read: the batch follows the cursor, nothing else changes.
LEMMA DeliveredFacts ==
    ASSUME NEW n \in Nat, NEW g, WellFormed(g, n), AtRest(g), g.cursor < n,
           NEW batch \in Nat \ {0},
           NEW h, h = Delivered(g, n, batch)
    PROVE  /\ WellFormed(h, n) /\ g.cursor <= h.cursor
           /\ h.pel = g.pel \cup (g.cursor + 1 .. h.cursor)
           /\ h.done = {} /\ h.dead = g.dead
<1> DEFINE last == IF g.cursor + batch <= n THEN g.cursor + batch ELSE n
           new == g.cursor + 1 .. last
<1>1. g.cursor \in 0 .. n /\ g \in GroupType(n) /\ g.done = {}
  BY DEF WellFormed, GroupType, AtRest
<1>2. last \in 0 .. n /\ g.cursor <= last
  BY <1>1
<1>3. new \subseteq 1 .. n /\ new \subseteq 1 .. last
  BY <1>1, <1>2
<1>4. h = [cursor |-> last, pel |-> g.pel \cup new, claimed |-> g.claimed,
           todo |-> new, done |-> g.done, dead |-> g.dead]
  BY <1>1 DEF Delivered, GroupType
<1>5. g.pel \subseteq 1 .. last
  BY <1>1, <1>2 DEF WellFormed
<1>6. g.pel \cup new \subseteq 1 .. n
  BY <1>1, <1>3 DEF GroupType
<1> HIDE DEF new, last
<1>7. h \in GroupType(n)
  BY <1>1, <1>2, <1>3, <1>4, <1>6 DEF GroupType
<1>8. WellFormed(h, n)
  BY <1>1, <1>3, <1>4, <1>5, <1>7 DEF WellFormed
<1>9. h.pel = g.pel \cup (g.cursor + 1 .. h.cursor)
  BY <1>4 DEF new
<1> QED BY <1>1, <1>2, <1>4, <1>8, <1>9

\* A claim: the batch is taken from the pending list.
LEMMA ClaimsFacts ==
    ASSUME NEW n \in Nat, NEW g, WellFormed(g, n), AtRest(g),
           NEW S \in SUBSET g.pel,
           NEW h, h = Claims(g, S)
    PROVE  /\ WellFormed(h, n) /\ h.cursor = g.cursor
           /\ h.pel = g.pel /\ h.done = {} /\ h.dead = g.dead
<1>1. g \in GroupType(n) /\ g.done = {}
  BY DEF WellFormed, AtRest
<1>2. h = [cursor |-> g.cursor, pel |-> g.pel, claimed |-> g.claimed \cup S,
           todo |-> S, done |-> g.done, dead |-> g.dead]
  BY <1>1 DEF Claims, GroupType
<1>5. S \subseteq 1 .. n /\ g.claimed \cup S \subseteq 1 .. n
  BY <1>1 DEF GroupType
<1>3. h \in GroupType(n)
  BY <1>1, <1>2, <1>5 DEF GroupType
<1>4. WellFormed(h, n)
  BY <1>1, <1>2, <1>3 DEF WellFormed
<1> QED BY <1>1, <1>2, <1>4

\* An acknowledgement takes the handled messages off the pending list.
LEMMA AcknowledgedFacts ==
    ASSUME NEW n \in Nat, NEW g, WellFormed(g, n), g.todo = {},
           NEW h, h = Acknowledged(g)
    PROVE  /\ WellFormed(h, n) /\ h.cursor = g.cursor
           /\ h.pel = g.pel \ g.done /\ h.todo = {} /\ h.done = {} /\ h.dead = g.dead
<1>1. g \in GroupType(n)
  BY DEF WellFormed
<1>2. h = [cursor |-> g.cursor, pel |-> g.pel \ g.done, claimed |-> g.claimed,
           todo |-> g.todo, done |-> {}, dead |-> g.dead]
  BY <1>1 DEF Acknowledged, GroupType
<1>3. h \in GroupType(n)
  BY <1>1, <1>2 DEF GroupType
<1>4. WellFormed(h, n)
  BY <1>1, <1>2, <1>3 DEF WellFormed
<1> QED BY <1>2, <1>4

\* A message in hand or pending is given up on: it alone leaves the pending list.
LEMMA GivenUpFacts ==
    ASSUME NEW n \in Nat, NEW g, WellFormed(g, n), NEW i \in g.pel \ g.done,
           NEW h, h = GivenUp(g, i)
    PROVE  /\ WellFormed(h, n) /\ h.cursor = g.cursor
           /\ h.pel = g.pel \ {i} /\ h.todo = g.todo \ {i} /\ h.done = g.done
           /\ h.claimed = g.claimed /\ h.dead = g.dead \cup {i}
<1>1. g \in GroupType(n) /\ i \in 1 .. n
  BY DEF WellFormed, GroupType
<1>2. h = [cursor |-> g.cursor, pel |-> g.pel \ {i}, claimed |-> g.claimed,
           todo |-> g.todo \ {i}, done |-> g.done, dead |-> g.dead \cup {i}]
  BY <1>1 DEF GivenUp, GroupType
<1>3. h \in GroupType(n)
  BY <1>1, <1>2 DEF GroupType
<1>4. WellFormed(h, n)
  BY <1>1, <1>2, <1>3 DEF WellFormed
<1> QED BY <1>2, <1>4

\* Without its history a group is where it was.
LEMMA CurrentFacts ==
    ASSUME NEW n \in Nat, NEW g, WellFormed(g, n),
           NEW h, h = Current(g)
    PROVE  /\ WellFormed(h, n) /\ h.cursor = g.cursor
           /\ h.pel = g.pel /\ h.todo = g.todo /\ h.done = g.done
<1>1. g \in GroupType(n)
  BY DEF WellFormed
<1>2. h = [cursor |-> g.cursor, pel |-> g.pel, claimed |-> g.claimed \cap g.pel,
           todo |-> g.todo, done |-> g.done, dead |-> {}]
  BY <1>1 DEF Current, GroupType
<1>3. h \in GroupType(n)
  BY <1>1, <1>2 DEF GroupType
<1> QED BY <1>2, <1>3 DEF WellFormed

\* A step of the loop between two handler calls: whatever was delivered before
\* is pending afterwards, was done or is dead, whatever is new is pending.
LEMMA ConsumedFacts ==
    ASSUME NEW n \in Nat, NEW g, WellFormed(g, n), NEW batch \in Nat \ {0},
           NEW h \in Consumed(g, n, batch)
    PROVE  /\ WellFormed(h, n) /\ g.cursor <= h.cursor
           /\ h.done = {} /\ g.dead \subseteq h.dead
           /\ \A i \in 1 .. h.cursor :
                  \/ i \in h.pel \/ i \in h.dead
                  \/ i \in 1 .. g.cursor /\ i \notin g.pel \ g.done
<1>2. g.cursor \in Nat
  BY DEF WellFormed, GroupType
<1>3. CASE AtRest(g) /\ g.cursor < n /\ h = Delivered(g, n, batch)
  <2>1. /\ WellFormed(h, n) /\ g.cursor <= h.cursor
        /\ h.pel = g.pel \cup (g.cursor + 1 .. h.cursor) /\ h.done = {}
        /\ h.dead = g.dead
    BY <1>3, DeliveredFacts
  <2>2. h.cursor \in Nat
    BY <2>1 DEF WellFormed, GroupType
  <2>3. \A i \in 1 .. h.cursor : i \in 1 .. g.cursor \/ i \in g.cursor + 1 .. h.cursor
    BY <1>2, <2>2
  <2> QED BY <2>1, <2>3
<1>4. CASE \E S \in SUBSET g.pel : AtRest(g) /\ h = Claims(g, S)
  <2> PICK S \in SUBSET g.pel : AtRest(g) /\ h = Claims(g, S)
    BY <1>4
  <2>1. /\ WellFormed(h, n) /\ h.cursor = g.cursor
        /\ h.pel = g.pel /\ h.done = {} /\ h.dead = g.dead
    BY ClaimsFacts
  <2> QED BY <1>2, <2>1
<1>5. CASE g.todo = {} /\ h = Acknowledged(g)
  <2>1. /\ WellFormed(h, n) /\ h.cursor = g.cursor
        /\ h.pel = g.pel \ g.done /\ h.done = {} /\ h.dead = g.dead
    BY <1>5, AcknowledgedFacts
  <2> QED BY <1>2, <2>1
<1>6. CASE \E i \in g.pel : AtRest(g) /\ h = GivenUp(g, i)
  <2> PICK i \in g.pel : AtRest(g) /\ h = GivenUp(g, i)
    BY <1>6
  <2>1. g.done = {} /\ i \in g.pel \ g.done
    BY DEF AtRest
  <2>2. /\ WellFormed(h, n) /\ h.cursor = g.cursor
        /\ h.pel = g.pel \ {i} /\ h.done = g.done /\ h.dead = g.dead \cup {i}
    BY <2>1, GivenUpFacts
  <2> QED BY <1>2, <2>1, <2>2
<1> QED BY <1>3, <1>4, <1>5, <1>6 DEF Consumed

\* The end of a handler call: returned, raised, or lost with its consumer.
LEMMA HandlerEndFacts ==
    ASSUME NEW n \in Nat, NEW g, WellFormed(g, n), NEW i \in g.todo, NEW h,
           h = Handled(g, i) \/ h = Failed(g, i)
    PROVE  /\ WellFormed(h, n) /\ h.cursor = g.cursor /\ h.pel = g.pel
           /\ h.done \subseteq g.done \cup {i} /\ h.dead = g.dead
           /\ h = Failed(g, i) => h.done = g.done
<1>1. g \in GroupType(n) /\ i \in 1 .. n
  BY DEF WellFormed, GroupType
<1>2. CASE h = Handled(g, i)
  <2>1. h = [cursor |-> g.cursor, pel |-> g.pel, claimed |-> g.claimed,
             todo |-> g.todo \ {i}, done |-> g.done \cup {i}, dead |-> g.dead]
    BY <1>1, <1>2 DEF Handled, GroupType
  <2>2. h \in GroupType(n)
    BY <1>1, <2>1 DEF GroupType
  <2>3. WellFormed(h, n)
    BY <1>1, <2>1, <2>2 DEF WellFormed
  <2>4. h # Failed(g, i)
    BY <1>1, <2>1, <2>3 DEF Failed, GroupType, WellFormed
  <2> QED BY <2>1, <2>3, <2>4
<1>3. CASE h = Failed(g, i)
  <2>1. h = [cursor |-> g.cursor, pel |-> g.pel, claimed |-> g.claimed,
             todo |-> g.todo \ {i}, done |-> g.done, dead |-> g.dead]
    BY <1>1, <1>3 DEF Failed, GroupType
  <2>2. h \in GroupType(n)
    BY <1>1, <2>1 DEF GroupType
  <2>3. WellFormed(h, n)
    BY <1>1, <2>1, <2>2 DEF WellFormed
  <2> QED BY <2>1, <2>3
<1> QED BY <1>2, <1>3

LEMMA AbandonedFacts ==
    ASSUME NEW n \in Nat, NEW g, WellFormed(g, n),
           NEW h, h = Abandoned(g)
    PROVE  /\ WellFormed(h, n) /\ h.cursor = g.cursor /\ h.pel = g.pel
           /\ h.todo = {} /\ h.done = {} /\ h.dead = g.dead
<1>1. g \in GroupType(n)
  BY DEF WellFormed
<1>2. h = [cursor |-> g.cursor, pel |-> g.pel, claimed |-> g.claimed,
           todo |-> {}, done |-> {}, dead |-> g.dead]
  BY <1>1 DEF Abandoned, GroupType
<1>3. h \in GroupType(n)
  BY <1>1, <1>2 DEF GroupType
<1>4. WellFormed(h, n)
  BY <1>1, <1>2, <1>3 DEF WellFormed
<1> QED BY <1>2, <1>4

\* Everything a service does to its group.
Moves(g, h, n, batch) ==
    \/ h = g \/ h = Abandoned(g) \/ h \in Consumed(g, n, batch)
    \/ \E i \in g.todo : h = Handled(g, i) \/ h \in Raised(g, i)

\* Whatever was delivered before is pending afterwards, was done or is dead;
\* whatever is done now was done before or has just been handled.
LEMMA MovesFacts ==
    ASSUME NEW n \in Nat, NEW g, WellFormed(g, n), NEW batch \in Nat \ {0},
           NEW h, Moves(g, h, n, batch)
    PROVE  /\ WellFormed(h, n) /\ g.cursor <= h.cursor /\ g.dead \subseteq h.dead
           /\ \A i \in 1 .. h.cursor :
                  \/ i \in h.pel \/ i \in h.dead
                  \/ i \in 1 .. g.cursor /\ i \notin g.pel \ g.done
           /\ \A i \in h.done : i \in g.done \/ (i \in g.todo /\ h = Handled(g, i))
<1>1. g.cursor \in Nat /\ \A i \in 1 .. g.cursor : i \in g.pel \/ i \notin g.pel \ g.done
  BY DEF WellFormed, GroupType
<1>2. CASE h = g
  BY <1>1, <1>2
<1>3. CASE h = Abandoned(g)
  <2>1. /\ WellFormed(h, n) /\ h.cursor = g.cursor /\ h.pel = g.pel /\ h.done = {}
        /\ h.dead = g.dead
    BY <1>3, AbandonedFacts
  <2> QED BY <1>1, <2>1
<1>4. CASE h \in Consumed(g, n, batch)
  <2>1. /\ WellFormed(h, n) /\ g.cursor <= h.cursor /\ h.done = {}
        /\ g.dead \subseteq h.dead
        /\ \A i \in 1 .. h.cursor :
               \/ i \in h.pel \/ i \in h.dead
               \/ i \in 1 .. g.cursor /\ i \notin g.pel \ g.done
    BY <1>4, ConsumedFacts
  <2> QED BY <2>1
<1>5. CASE \E i \in g.todo : h = Handled(g, i) \/ h = Failed(g, i)
  <2> PICK i \in g.todo : h = Handled(g, i) \/ h = Failed(g, i)
    BY <1>5
  <2>1. /\ WellFormed(h, n) /\ h.cursor = g.cursor /\ h.pel = g.pel
        /\ h.done \subseteq g.done \cup {i} /\ h.dead = g.dead
        /\ h = Failed(g, i) => h.done = g.done
    BY HandlerEndFacts
  <2> QED BY <1>1, <2>1
<1>6. CASE \E i \in g.todo : h = GivenUp(g, i)
  <2> PICK i \in g.todo : h = GivenUp(g, i)
    BY <1>6
  <2>1. i \in g.pel \ g.done
    BY DEF WellFormed
  <2>2. /\ WellFormed(h, n) /\ h.cursor = g.cursor
        /\ h.pel = g.pel \ {i} /\ h.done = g.done /\ h.dead = g.dead \cup {i}
    BY <2>1, GivenUpFacts
  <2> QED BY <1>1, <2>2
<1> QED BY <1>2, <1>3, <1>4, <1>5, <1>6 DEF Moves, Raised
=============================================================================
