---------------------------- MODULE ConsumerGroup ----------------------------
(***************************************************************************)
(* One consumer group of a stream with one consumer, seen from a service:  *)
(* operators over a record that other modules keep as a variable.          *)
(* BusConsumer has the whole protocol with several consumers, backoff and  *)
(* trimming; a service model needs a cursor, the pending list, the batch   *)
(* in hand and the messages given up on.  Deliveries are not counted: a    *)
(* delivery that fails, or that its consumer did not survive, may be the   *)
(* last of max_delivery_attempts or not, so what holds here holds for      *)
(* every number of attempts.  A message is its position in the stream.     *)
(***************************************************************************)
EXTENDS Integers

\* cursor: last message delivered; pel: delivered and not acknowledged;
\* claimed: delivered again by a claim; todo and done: the batch in hand, split
\* into what is still to be handled and what will be acknowledged; dead: given up
\* on, acknowledged and moved to the dead-letter stream.
EmptyGroup ==
    [cursor |-> 0, pel |-> {}, claimed |-> {}, todo |-> {}, done |-> {}, dead |-> {}]

GroupType(n) ==
    [cursor : 0 .. n, pel : SUBSET (1 .. n), claimed : SUBSET (1 .. n),
     todo : SUBSET (1 .. n), done : SUBSET (1 .. n), dead : SUBSET (1 .. n)]

\* Between two batches.
AtRest(g) == g.todo = {} /\ g.done = {}

\* Nothing to deliver of a stream of length n and nothing to acknowledge.
Settled(g, n) == g.cursor = n /\ g.pel = {} /\ AtRest(g)

\* The message in hand: a batch is handled oldest first.
InHand(g, i) == i \in g.todo /\ \A j \in g.todo : i <= j

\* Faulty variant for mutation runs: the batch runs past the end of the stream.
DeliveredPastEnd(g, n, batch) ==
    LET new == g.cursor + 1 .. g.cursor + batch
    IN  [g EXCEPT !.cursor = @ + batch, !.pel = @ \cup new, !.todo = new]

\* xreadgroup ">": at most batch messages past the cursor of a stream of length n.
Delivered(g, n, batch) ==
    LET last == IF g.cursor + batch <= n THEN g.cursor + batch ELSE n
        new  == g.cursor + 1 .. last
    IN  [g EXCEPT !.cursor = last, !.pel = @ \cup new, !.todo = new]

\* claim_pending may take S: messages idle for long enough.  Of those never
\* claimed, the ones delivered first have been idle longest.
Claimable(g, S) ==
    /\ S # {} /\ S \subseteq g.pel
    /\ \A i \in S \ g.claimed, j \in g.pel \ g.claimed : j < i => j \in S

Claims(g, S) == [g EXCEPT !.claimed = @ \cup S, !.todo = S]

\* Faulty variant for mutation runs: a handler that raised counts as done.
RaisedDone(g, i) == {[g EXCEPT !.todo = @ \ {i}, !.done = @ \cup {i}]}

\* The handler returned for i.
Handled(g, i) == [g EXCEPT !.todo = @ \ {i}, !.done = @ \cup {i}]

\* Out of attempts: i goes to the dead-letter stream and is acknowledged.
GivenUp(g, i) ==
    [g EXCEPT !.pel = @ \ {i}, !.todo = @ \ {i}, !.dead = @ \cup {i}]

\* The handler raised for i: i stays pending, or this was its last attempt.
Failed(g, i) == [g EXCEPT !.todo = @ \ {i}]
Raised(g, i) == {Failed(g, i), GivenUp(g, i)}

\* The acknowledgement at the end of a batch.
Acknowledged(g) == [g EXCEPT !.pel = @ \ g.done, !.done = {}]

\* What the loop acts on, without the history of messages that are settled.
Current(g) == [g EXCEPT !.claimed = @ \cap g.pel, !.dead = {}]

\* The consumer is gone in the middle of its batch.
Abandoned(g) == [g EXCEPT !.todo = {}, !.done = {}]

\* Faulty variant for mutation runs: pending messages are never looked for.
ConsumedNewOnly(g, n, batch) ==
    IF AtRest(g)
    THEN IF g.cursor < n THEN {Delivered(g, n, batch)} ELSE {}
    ELSE IF g.todo = {} THEN {Acknowledged(g)} ELSE {}

\* What the consume loop can make of a group between two handler calls: it reads,
\* claims, gives up on a pending message, or acknowledges the batch it is through
\* with.
Consumed(g, n, batch) ==
    IF AtRest(g)
    THEN {Claims(g, S) : S \in {S \in SUBSET g.pel : Claimable(g, S)}}
            \cup {GivenUp(g, i) : i \in g.pel}
            \cup (IF g.cursor < n THEN {Delivered(g, n, batch)} ELSE {})
    ELSE IF g.todo = {} THEN {Acknowledged(g)} ELSE {}
=============================================================================
