----------------------------- MODULE BusConsumer -----------------------------
(***************************************************************************)
(* The Redis-streams consumer of fincept-bus: one stream, one consumer     *)
(* group, several consumers of it (libs/fincept-bus/.../consumer.py), and  *)
(* the producer that appends to it (producer.py).                          *)
(*                                                                         *)
(* Every await of the loop is a step of its own, so two consumers          *)
(* interleave between the scan of the pending list, each dead-letter       *)
(* write, its acknowledgement, the claim, each handler call and the batch  *)
(* acknowledgement.  A message is its position in the stream.  Abstracted: *)
(* the payload, the consumer name in the pending list (the code never      *)
(* reads it), and the other streams one consumer may read, which share     *)
(* nothing with this one but the loop that visits them in turn.            *)
(***************************************************************************)
EXTENDS Integers, FiniteSets

CONSTANTS
    Consumers,       \* the names passed to consume()
    MaxMsgs,         \* bound: messages ever published
    Batch,           \* batch, the COUNT of XPENDING and XREADGROUP
    MaxAttempts,     \* max_delivery_attempts
    ClaimIdle,       \* claim_idle_ms, in ticks
    BackoffMax,      \* BACKOFF_MAX_MS, in ticks
    Retention,       \* RETENTION[stream]
    Poison,          \* messages that deserialize() rejects
    Faulty,          \* messages whose handler may raise
    Slow,            \* messages whose handler may outlast handler_timeout_ms
    Stoppable,       \* consumers whose stop_event may be set
    MaxCrashes,      \* bound: crashes, and Redis errors outside a try block
    MaxXaddFaults,   \* bound: failed XADDs to the dead-letter stream
    MaxFaults        \* bound: other Redis errors the code swallows

ASSUME BusAssumption ==
    /\ MaxMsgs \in Nat \ {0}
    /\ Batch \in Nat \ {0}
    /\ MaxAttempts \in Nat \ {0}
    /\ ClaimIdle \in Nat \ {0}
    /\ BackoffMax \in Nat /\ ClaimIdle <= BackoffMax
    /\ Retention \in Nat \ {0}
    /\ MaxCrashes \in Nat /\ MaxXaddFaults \in Nat /\ MaxFaults \in Nat

Ids == 1 .. MaxMsgs

VARIABLES
    published,   \* id of the newest message of the stream
    first,       \* id of the oldest one the stream still retains
    cursor,      \* last id the group delivered (what ">" continues from)
    pending,     \* the group's pending entries list (PEL)
    count,       \* times_delivered of each message (kept after the ack)
    idle,        \* time_since_delivered of each pending message
    acked,       \* history: messages an XACK took off the pending list
    dlq,         \* number of entries of each message on the DLQ stream
    handled,     \* history: completed handler runs of each message
    pc,          \* where each consumer's loop is
    mode,        \* what filled todo: "claim" or "read"
    doomed,      \* messages the scan found out of attempts
    todo,        \* messages to claim, then messages still to handle
    acks,        \* ack_ids of the current batch
    stop,        \* stop_event of each consumer
    crashes, xaddFaults, faults   \* the bounds' counters

stream   == <<published, first>>
group    == <<cursor, pending, count, idle, acked>>
effects  == <<dlq, handled>>
loop     == <<pc, mode, doomed, todo, acks>>
budget   == <<crashes, xaddFaults, faults>>
vars     == <<stream, group, effects, loop, stop, budget>>

Phases == {"top", "doom", "doomAck", "xclaim", "handle", "count",
           "lastAdd", "lastAck", "read", "ended", "dead", "stopped"}

Init ==
    /\ published = 0 /\ first = 1 /\ cursor = 0
    /\ pending = {} /\ acked = {}
    /\ count = [m \in Ids |-> 0] /\ idle = [m \in Ids |-> 0]
    /\ dlq = [m \in Ids |-> 0] /\ handled = [m \in Ids |-> 0]
    /\ pc = [c \in Consumers |-> "top"]
    /\ mode = [c \in Consumers |-> "read"]
    /\ doomed = [c \in Consumers |-> {}]
    /\ todo = [c \in Consumers |-> {}]
    /\ acks = [c \in Consumers |-> {}]
    /\ stop = [c \in Consumers |-> FALSE]
    /\ crashes = 0 /\ xaddFaults = 0 /\ faults = 0

-----------------------------------------------------------------------------
Larger(a, b)  == IF a >= b THEN a ELSE b
Smaller(a, b) == IF a <= b THEN a ELSE b

\* The n smallest ids of S: what a Redis range with COUNT n returns.
Lowest(S, n) == {m \in S : Cardinality({k \in S : k <= m}) <= n}

\* Batches are lists in id order: the loops take the least id first.
IsNext(m, S) == m \in S /\ \A k \in S : m <= k

\* Idle time a message needs before it is claimed, after n deliveries.
BackoffIdle(base, n) ==
    IF n <= 1 THEN base ELSE Smaller(base * 2 ^ (n - 1), BackoffMax)

\* _get_delivery_count: 1 when the message left the pending list.
DeliveryCount(m) == IF m \in pending THEN count[m] ELSE 1

Goto(c, p) == pc' = [pc EXCEPT ![c] = p]

\* The loop is over: an exception left consume() and its task has "ended",
\* while the process goes on waiting for its own stop event, or the process
\* is "dead".  The consumer's local state is gone and the pending list keeps
\* what was not acknowledged.
Leave(c, p) ==
    /\ Goto(c, p)
    /\ doomed' = [doomed EXCEPT ![c] = {}]
    /\ todo' = [todo EXCEPT ![c] = {}]
    /\ acks' = [acks EXCEPT ![c] = {}]
    /\ UNCHANGED mode

\* XACK of a set of ids; ids that are not pending are ignored.
Xack(S) ==
    /\ pending' = pending \ S
    /\ acked' = acked \cup (S \cap pending)
    /\ UNCHANGED <<cursor, count, idle>>

-----------------------------------------------------------------------------
\* Faulty variant of Publish: trims past the message it appends.
TrimTooFar ==
    /\ published < MaxMsgs
    /\ published' = published + 1
    /\ first' \in first .. Larger(first, published - Retention + 4)
    /\ UNCHANGED <<group, effects, loop, stop, budget>>

\* Producer.publish: append, and trim to at least Retention entries
\* (approximate MAXLEN: Redis may keep more).
Publish ==
    /\ published < MaxMsgs
    /\ published' = published + 1
    /\ first' \in first .. Larger(first, published - Retention + 2)
    /\ UNCHANGED <<group, effects, loop, stop, budget>>

\* Time passes for every pending message (capped at BackoffMax, beyond
\* which every threshold has been reached).
Tick ==
    /\ \E m \in pending : idle[m] < BackoffMax
    /\ idle' = [m \in Ids |-> IF m \in pending /\ idle[m] < BackoffMax
                                THEN idle[m] + 1 ELSE idle[m]]
    /\ UNCHANGED <<stream, cursor, pending, count, acked, effects, loop, stop,
                   budget>>

\* Faulty variants of Scan: dead letters one attempt early; ignores the
\* backoff; never gives up on a message.
ScanGivesUpEarly(c) ==
    LET seen == Lowest(pending, Batch) IN
    /\ pc[c] = "top"
    /\ ~stop[c]
    /\ doomed' = [doomed EXCEPT ![c] = {m \in seen : count[m] + 1 >= MaxAttempts}]
    /\ todo' = [todo EXCEPT ![c] = {}]
    /\ Goto(c, "doom")
    /\ UNCHANGED <<stream, group, effects, mode, acks, stop, budget>>

ScanWithoutBackoff(c) ==
    LET seen == Lowest(pending, Batch) IN
    /\ pc[c] = "top"
    /\ ~stop[c]
    /\ doomed' = [doomed EXCEPT ![c] = {m \in seen : count[m] >= MaxAttempts}]
    /\ todo' = [todo EXCEPT ![c] =
                  {m \in seen : count[m] < MaxAttempts /\ idle[m] >= ClaimIdle}]
    /\ Goto(c, "doom")
    /\ UNCHANGED <<stream, group, effects, mode, acks, stop, budget>>

ScanNeverGivesUp(c) ==
    LET seen == Lowest(pending, Batch) IN
    /\ pc[c] = "top"
    /\ ~stop[c]
    /\ todo' = [todo EXCEPT ![c] =
                  {m \in seen : /\ count[m] < MaxAttempts
                                /\ idle[m] >= BackoffIdle(ClaimIdle, count[m])}]
    /\ Goto(c, "doom")
    /\ UNCHANGED <<stream, group, effects, mode, doomed, acks, stop, budget>>

\* consume -> _claim_stale -> claim_pending: read the pending list, sort it
\* into messages out of attempts and messages idle for long enough.
Scan(c) ==
    LET seen == Lowest(pending, Batch) IN
    /\ pc[c] = "top"
    /\ ~stop[c]
    /\ doomed' = [doomed EXCEPT ![c] = {m \in seen : count[m] >= MaxAttempts}]
    /\ todo' = [todo EXCEPT ![c] =
                  {m \in seen : /\ count[m] < MaxAttempts
                                /\ idle[m] >= BackoffIdle(ClaimIdle, count[m])}]
    /\ Goto(c, "doom")
    /\ UNCHANGED <<stream, group, effects, mode, acks, stop, budget>>

\* _move_to_dlq for a message the scan found out of attempts: the XADD, which
\* may fail (the error is logged and the message left alone).
DoomAdd(c) ==
    /\ pc[c] = "doom"
    /\ \E m \in doomed[c] :
          /\ IsNext(m, doomed[c])
          /\ \/ /\ dlq' = [dlq EXCEPT ![m] = @ + 1]
                /\ Goto(c, "doomAck")
                /\ UNCHANGED <<doomed, xaddFaults>>
             \/ /\ xaddFaults < MaxXaddFaults
                /\ xaddFaults' = xaddFaults + 1
                /\ doomed' = [doomed EXCEPT ![c] = @ \ {m}]
                /\ UNCHANGED <<dlq, pc>>
    /\ UNCHANGED <<stream, group, handled, mode, todo, acks, stop,
                   crashes, faults>>

\* Faulty variant of DoomAck: the dead-lettered message is not acknowledged.
DoomNoAck(c) ==
    /\ pc[c] = "doomAck"
    /\ \E m \in doomed[c] :
          /\ IsNext(m, doomed[c])
          /\ doomed' = [doomed EXCEPT ![c] = @ \ {m}]
    /\ Goto(c, "doom")
    /\ UNCHANGED <<stream, group, effects, mode, todo, acks, stop, budget>>

\* ... and the XACK that follows it, whose failure is swallowed too.
DoomAck(c) ==
    /\ pc[c] = "doomAck"
    /\ \E m \in doomed[c] :
          /\ IsNext(m, doomed[c])
          /\ doomed' = [doomed EXCEPT ![c] = @ \ {m}]
          /\ \/ Xack({m}) /\ UNCHANGED faults
             \/ /\ faults < MaxFaults
                /\ faults' = faults + 1
                /\ UNCHANGED group
    /\ Goto(c, "doom")
    /\ UNCHANGED <<stream, effects, mode, todo, acks, stop, crashes, xaddFaults>>

\* The scan's dead letters are done; claim_pending returns when it has
\* nothing to claim.
DoomDone(c) ==
    /\ pc[c] = "doom"
    /\ doomed[c] = {}
    /\ Goto(c, IF todo[c] = {} THEN "read" ELSE "xclaim")
    /\ UNCHANGED <<stream, group, effects, mode, doomed, todo, acks, stop, budget>>

\* XCLAIM: takes the ids that are still pending and idle for ClaimIdle (not
\* for the backoff the scan applied), counts a delivery and resets the idle
\* time; ids the stream no longer holds leave the pending list.
XClaim(c) ==
    LET ripe == {m \in todo[c] \cap pending : idle[m] >= ClaimIdle}
        got  == {m \in ripe : m >= first}
    IN
    /\ pc[c] = "xclaim"
    /\ pending' = pending \ (ripe \ got)
    /\ count' = [m \in Ids |-> IF m \in got THEN count[m] + 1 ELSE count[m]]
    /\ idle' = [m \in Ids |-> IF m \in got THEN 0 ELSE idle[m]]
    /\ todo' = [todo EXCEPT ![c] = got]
    /\ mode' = [mode EXCEPT ![c] = "claim"]
    /\ Goto(c, "handle")
    /\ UNCHANGED <<stream, cursor, acked, effects, doomed, acks, stop, budget>>

\* Faulty variant of Read: reads with NOACK, so a message is acknowledged by
\* its delivery.
ReadNoAck(c) ==
    LET fresh == Lowest({m \in Ids : m > cursor /\ m >= first /\ m <= published},
                        Batch)
    IN
    /\ pc[c] = "read"
    /\ ~stop[c]
    /\ IF fresh = {}
       THEN Goto(c, "top") /\ UNCHANGED <<group, mode, todo>>
       ELSE /\ \E last \in fresh : /\ \A m \in fresh : m <= last
                                   /\ cursor' = last
            /\ acked' = acked \cup fresh
            /\ todo' = [todo EXCEPT ![c] = fresh]
            /\ mode' = [mode EXCEPT ![c] = "read"]
            /\ Goto(c, "handle")
            /\ UNCHANGED <<pending, count, idle>>
    /\ UNCHANGED <<stream, effects, doomed, acks, stop, budget>>

\* XREADGROUP ">": the next undelivered messages; an empty answer (the block
\* timed out) goes back to the top of the loop.
Read(c) ==
    LET fresh == Lowest({m \in Ids : m > cursor /\ m >= first /\ m <= published},
                        Batch)
    IN
    /\ pc[c] = "read"
    /\ ~stop[c]
    /\ IF fresh = {}
       THEN /\ Goto(c, "top")
            /\ UNCHANGED <<group, mode, todo>>
       ELSE /\ \E last \in fresh : /\ \A m \in fresh : m <= last
                                   /\ cursor' = last
            /\ pending' = pending \cup fresh
            /\ count' = [m \in Ids |-> IF m \in fresh THEN 1 ELSE count[m]]
            /\ idle' = [m \in Ids |-> IF m \in fresh THEN 0 ELSE idle[m]]
            /\ todo' = [todo EXCEPT ![c] = fresh]
            /\ mode' = [mode EXCEPT ![c] = "read"]
            /\ Goto(c, "handle")
            /\ UNCHANGED acked
    /\ UNCHANGED <<stream, effects, doomed, acks, stop, budget>>

-----------------------------------------------------------------------------
\* _handle_message.  The message in hand is the least of todo[c]; while pc is
\* "handle" its handler is running.

\* The handler returned in time: the caller will acknowledge the message.
HandleOk(c) ==
    /\ pc[c] = "handle"
    /\ \E m \in todo[c] \ Poison :
          /\ IsNext(m, todo[c])
          /\ handled' = [handled EXCEPT ![m] = @ + 1]
          /\ todo' = [todo EXCEPT ![c] = @ \ {m}]
          /\ acks' = [acks EXCEPT ![c] = @ \cup {m}]
    /\ UNCHANGED <<stream, group, dlq, pc, mode, doomed, stop, budget>>

\* The handler returned, but too late: TimeoutError leaves consume().
HandleLate(c) ==
    /\ pc[c] = "handle"
    /\ \E m \in (todo[c] \cap Slow) \ Poison :
          /\ IsNext(m, todo[c])
          /\ handled' = [handled EXCEPT ![m] = @ + 1]
    /\ Leave(c, "ended")
    /\ UNCHANGED <<stream, group, dlq, stop, budget>>

\* deserialize() is outside the try block: its error leaves consume().
HandlePoison(c) ==
    /\ pc[c] = "handle"
    /\ \E m \in todo[c] \cap Poison : IsNext(m, todo[c])
    /\ Leave(c, "ended")
    /\ UNCHANGED <<stream, group, effects, stop, budget>>

\* The handler raised.
HandleRaise(c) ==
    /\ pc[c] = "handle"
    /\ \E m \in (todo[c] \cap Faulty) \ Poison : IsNext(m, todo[c])
    /\ Goto(c, "count")
    /\ UNCHANGED <<stream, group, effects, mode, doomed, todo, acks, stop, budget>>

\* Faulty variant of CountDeliveries: a failed message is reported handled, so
\* the batch acknowledgement takes it off the pending list.
AckFailures(c) ==
    /\ pc[c] = "count"
    /\ \E m \in todo[c] :
          /\ IsNext(m, todo[c])
          /\ todo' = [todo EXCEPT ![c] = @ \ {m}]
          /\ acks' = [acks EXCEPT ![c] = @ \cup {m}]
    /\ Goto(c, "handle")
    /\ UNCHANGED <<stream, group, effects, mode, doomed, stop, budget>>

\* _get_delivery_count decides between a retry (the message is dropped from
\* the batch) and the dead-letter stream; a Redis error reads as one delivery.
CountDeliveries(c) ==
    /\ pc[c] = "count"
    /\ \E m \in todo[c], failed \in BOOLEAN :
          /\ IsNext(m, todo[c])
          /\ failed => faults < MaxFaults
          /\ faults' = IF failed THEN faults + 1 ELSE faults
          /\ IF (IF failed THEN 1 ELSE DeliveryCount(m)) >= MaxAttempts
             THEN Goto(c, "lastAdd") /\ UNCHANGED todo
             ELSE Goto(c, "handle") /\ todo' = [todo EXCEPT ![c] = @ \ {m}]
    /\ UNCHANGED <<stream, group, effects, mode, doomed, acks, stop, crashes,
                   xaddFaults>>

\* The end of a message that went through _move_to_dlq here: the caller is
\* told it was handled, whatever _move_to_dlq did, and will acknowledge it.
ReturnTrue(c, m) ==
    /\ todo' = [todo EXCEPT ![c] = @ \ {m}]
    /\ acks' = [acks EXCEPT ![c] = @ \cup {m}]
    /\ Goto(c, "handle")

\* _move_to_dlq after the last attempt: the XADD and its swallowed failure.
LastAdd(c) ==
    /\ pc[c] = "lastAdd"
    /\ \E m \in todo[c] :
          /\ IsNext(m, todo[c])
          /\ \/ /\ dlq' = [dlq EXCEPT ![m] = @ + 1]
                /\ Goto(c, "lastAck")
                /\ UNCHANGED <<todo, acks, xaddFaults>>
             \/ /\ xaddFaults < MaxXaddFaults
                /\ xaddFaults' = xaddFaults + 1
                /\ ReturnTrue(c, m)
                /\ UNCHANGED dlq
    /\ UNCHANGED <<stream, group, handled, mode, doomed, stop, crashes,
                   faults>>

\* ... and its XACK.
LastAck(c) ==
    /\ pc[c] = "lastAck"
    /\ \E m \in todo[c] :
          /\ IsNext(m, todo[c])
          /\ \/ Xack({m}) /\ UNCHANGED faults
             \/ faults < MaxFaults /\ faults' = faults + 1 /\ UNCHANGED group
          /\ ReturnTrue(c, m)
    /\ UNCHANGED <<stream, effects, mode, doomed, stop, crashes, xaddFaults>>

\* The batch is through: one XACK for everything handled, then on to the read
\* (after a claim) or to the top of the loop (after a read).
AckBatch(c) ==
    /\ pc[c] = "handle"
    /\ todo[c] = {}
    /\ Xack(acks[c])
    /\ acks' = [acks EXCEPT ![c] = {}]
    /\ Goto(c, IF mode[c] = "claim" THEN "read" ELSE "top")
    /\ UNCHANGED <<stream, effects, mode, doomed, todo, stop, budget>>

-----------------------------------------------------------------------------
\* stop_event is set; the loop looks at it before a claim and before a read.
Stop(c) ==
    /\ c \in Stoppable /\ ~stop[c]
    /\ stop' = [stop EXCEPT ![c] = TRUE]
    /\ UNCHANGED <<stream, group, effects, loop, budget>>

\* Faulty variant of Exit: leaves in the middle of a batch.
ExitMidBatch(c) ==
    /\ pc[c] \in {"top", "read", "handle"} /\ stop[c]
    /\ Goto(c, "stopped")
    /\ UNCHANGED <<stream, group, effects, mode, doomed, todo, acks, stop, budget>>

Exit(c) ==
    /\ pc[c] \in {"top", "read"} /\ stop[c]
    /\ Goto(c, "stopped")
    /\ UNCHANGED <<stream, group, effects, mode, doomed, todo, acks, stop, budget>>

\* A Redis call outside every try block raises: XPENDING, the XRANGE of
\* _move_to_dlq, XCLAIM, XREADGROUP, or the XACK of a batch (todo is empty).
\* A claim or a read whose reply is lost has filled the batch all the same.
LoopError(c) ==
    /\ crashes < MaxCrashes
    /\ \/ pc[c] \in {"top", "xclaim", "read", "lastAdd"}
       \/ pc[c] = "doom" /\ doomed[c] # {}
       \/ pc[c] = "handle" /\ (todo[c] = {} \/ acks[c] = {})
    /\ crashes' = crashes + 1
    /\ Leave(c, "ended")
    /\ UNCHANGED <<stream, group, effects, stop, xaddFaults, faults>>

\* The process dies, at any point of the loop.
Crash(c) ==
    /\ crashes < MaxCrashes
    /\ pc[c] \notin {"dead", "stopped"}
    /\ crashes' = crashes + 1
    /\ Leave(c, "dead")
    /\ UNCHANGED <<stream, group, effects, stop, xaddFaults, faults>>

\* The service is started again, after its process died or by hand when only
\* its consumer task had ended, and calls consume() with a fresh stop event:
\* ensure_group finds the group in place (BUSYGROUP) and keeps its cursor and
\* pending list.
Restart(c) ==
    /\ pc[c] \in {"dead", "ended"}
    /\ Goto(c, "top")
    /\ stop' = [stop EXCEPT ![c] = FALSE]
    /\ UNCHANGED <<stream, group, effects, mode, doomed, todo, acks, budget>>

LoopStep(c) ==
    \/ Scan(c) \/ DoomAdd(c) \/ DoomAck(c) \/ DoomDone(c) \/ XClaim(c)
    \/ Read(c) \/ HandleOk(c) \/ HandleLate(c) \/ HandlePoison(c)
    \/ HandleRaise(c) \/ CountDeliveries(c) \/ LastAdd(c) \/ LastAck(c)
    \/ AckBatch(c) \/ Exit(c)

Next ==
    \/ Publish
    \/ Tick
    \/ \E c \in Consumers : LoopStep(c) \/ Stop(c) \/ LoopError(c) \/ Crash(c)
                            \/ Restart(c)

Spec == Init /\ [][Next]_vars

\* The event loop keeps scheduling a live consumer, time passes, and a dead
\* process is restarted by its supervisor.  Nothing restarts a consumer whose
\* task ended in a process that is still up.
FairSpec ==
    /\ Spec
    /\ WF_vars(Tick)
    /\ \A c \in Consumers :
          WF_vars(LoopStep(c)) /\ WF_vars(pc[c] = "dead" /\ Restart(c))

-----------------------------------------------------------------------------
\* Type invariant.
TypeOK ==
    /\ published \in 0 .. MaxMsgs /\ first \in 1 .. MaxMsgs + 1
    /\ cursor \in 0 .. MaxMsgs
    /\ pending \subseteq Ids /\ acked \subseteq Ids
    /\ count \in [Ids -> Nat] /\ idle \in [Ids -> Nat]
    /\ dlq \in [Ids -> Nat] /\ handled \in [Ids -> Nat]
    /\ pc \in [Consumers -> Phases]
    /\ mode \in [Consumers -> {"claim", "read"}]
    /\ doomed \in [Consumers -> SUBSET Ids]
    /\ todo \in [Consumers -> SUBSET Ids]
    /\ acks \in [Consumers -> SUBSET Ids]
    /\ stop \in [Consumers -> BOOLEAN]
    /\ crashes \in Nat /\ xaddFaults \in Nat /\ faults \in Nat

\* No silent loss.  Every message the group has delivered is still pending,
\* was handled to completion, or is on the dead-letter stream, unless the
\* stream's own retention trimmed it ("If the DLQ move fails, the message
\* stays in the PEL", _move_to_dlq).
NoSilentLoss ==
    \A m \in 1 .. cursor :
        m \in pending \/ handled[m] > 0 \/ dlq[m] > 0 \/ m < first

\* A message reaches the dead-letter stream only after max_delivery_attempts
\* deliveries, on both paths that write there.
DlqAfterAllAttempts ==
    \A m \in Ids : dlq[m] > 0 => count[m] >= MaxAttempts

\* One consumer writes a message to the dead-letter stream once, plus once
\* for every swallowed XACK error or crash between the XADD and the XACK.
DlqEntriesBounded ==
    \A m \in Ids : dlq[m] <= 1 + faults + crashes

\* Exponential backoff ("messages that have failed multiple times are only
\* re-claimed after a longer idle period"): the delivery count of a message
\* grows only after the idle time that its count calls for.
BackoffHonoured ==
    [][\A m \in Ids : count[m] > 0 /\ count'[m] > count[m] =>
           idle[m] >= BackoffIdle(ClaimIdle, count[m])]_vars

\* Graceful shutdown: a consumer that left on its stop_event, at whatever point
\* of its loop the event was set, has nothing in hand: every message it handled
\* was acknowledged and none it claimed or read was left without a run.
StopLeavesNothingInHand ==
    \A c \in Consumers : pc[c] = "stopped" => todo[c] = {} /\ acks[c] = {}

-----------------------------------------------------------------------------
\* The consumer implements the delivery contract of the services.
Contract == INSTANCE DeliveryContract WITH
    offered <- published, dropped <- 1 .. first - 1, runs <- handled,
    parked <- {m \in Ids : dlq[m] > 0}, settled <- acked

\* Refinement: every step of the loop is a step the contract allows, and no
\* message is acknowledged before it was handled or dead lettered.
ImplementsContract == Contract!SafetySpec

\* Every published message is eventually acknowledged with a completed run or
\* an entry of the dead-letter stream, or is trimmed, whatever its handler does
\* and whichever process dies, provided no consumer stays ended: a late handler,
\* a payload that cannot be read or a Redis error of the loop ends the task for
\* good unless someone restarts the service.  A failed dead-letter write may
\* leave an acknowledged message with neither.
EverySettled ==
    (\A c \in Consumers : []<>(pc[c] # "ended")) =>
        \A m \in Ids : published >= m ~>
            \/ m \in acked /\ (handled[m] > 0 \/ dlq[m] > 0 \/ xaddFaults > 0)
            \/ m < first
=============================================================================
