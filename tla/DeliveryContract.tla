--------------------------- MODULE DeliveryContract ---------------------------
(***************************************************************************)
(* What fincept-bus promises a service about one stream and one consumer   *)
(* group, with the pending list, the claims and the batches left out: a    *)
(* message runs through the handler any number of times, before and after  *)
(* it is settled, and is settled only once a run completed or it was       *)
(* parked on the dead-letter stream; what the stream no longer retains is  *)
(* dropped.  Services are written against this contract; BusConsumer is    *)
(* shown to implement it.                                                  *)
(***************************************************************************)
EXTENDS Integers

CONSTANTS MaxMsgs,      \* bound: messages ever offered
          Retention     \* messages the stream retains at least

Ids == 1 .. MaxMsgs

VARIABLES
    offered,   \* number of messages published
    dropped,   \* messages the stream trimmed
    runs,      \* completed handler runs of each message
    parked,    \* messages on the dead-letter stream
    settled    \* messages acknowledged to the group

vars == <<offered, dropped, runs, parked, settled>>

Init ==
    /\ offered = 0 /\ dropped = {} /\ parked = {} /\ settled = {}
    /\ runs = [m \in Ids |-> 0]

\* A message is appended; the stream may shed its oldest ones beyond Retention.
Offer ==
    /\ offered < MaxMsgs
    /\ offered' = offered + 1
    /\ \E n \in 0 .. MaxMsgs :
          /\ n = 0 \/ n <= offered' - Retention
          /\ dropped' = dropped \cup 1 .. n
    /\ UNCHANGED <<runs, parked, settled>>

\* A handler run completes: at least once, so also for a settled message.
Run(m) ==
    /\ m <= offered
    /\ runs' = [runs EXCEPT ![m] = @ + 1]
    /\ UNCHANGED <<offered, dropped, parked, settled>>

\* The message is given up on.
Park(m) ==
    /\ m <= offered
    /\ parked' = parked \cup {m}
    /\ UNCHANGED <<offered, dropped, runs, settled>>

\* A set of messages is acknowledged: each was handled or parked.
Settle(S) ==
    /\ \A m \in S : m <= offered /\ (runs[m] > 0 \/ m \in parked)
    /\ settled' = settled \cup S
    /\ UNCHANGED <<offered, dropped, runs, parked>>

Next ==
    \/ Offer
    \/ \E m \in Ids : Run(m) \/ Park(m)
    \/ \E S \in SUBSET Ids : Settle(S)

SafetySpec == Init /\ [][Next]_vars
=============================================================================
