-------------------------- MODULE BusConsumerProofs --------------------------
(***************************************************************************)
(* What the consumer of fincept-bus guarantees for every number of         *)
(* consumers, messages, attempts, crashes and Redis errors: its types, no  *)
(* dead letter before all attempts, no loss, a stop between batches and    *)
(* the delivery contract; and, of a consumer alone in its group, a bound   *)
(* on dead letters and the backoff.                                        *)
(***************************************************************************)
EXTENDS BusConsumer, FiniteSetTheorems, TLAPS

\* A Redis range with COUNT returns no message without the ones before it.
LEMMA LowestDownClosed ==
    ASSUME NEW S \in SUBSET Ids, NEW n \in Nat,
           NEW b \in Lowest(S, n), NEW a \in S, a <= b
    PROVE  a \in Lowest(S, n)
<1> DEFINE Upto(x) == {k \in S : k <= x}
<1>0. MaxMsgs \in Nat
    BY BusAssumption
<1>1. IsFiniteSet(Ids)
    BY <1>0, FS_Interval DEF Ids
<1>2. IsFiniteSet(S)
    BY <1>1, FS_Subset
<1>3. Upto(b) \subseteq S
    OBVIOUS
<1>4. IsFiniteSet(Upto(b))
    BY <1>2, <1>3, FS_Subset
<1>5. Upto(a) \subseteq Upto(b)
    <2>1. S \subseteq Int /\ a \in Int /\ b \in Int
        BY <1>0 DEF Lowest, Ids
    <2>2. \A k \in Int : k <= a => k <= b
        BY <2>1
    <2> QED
        BY <2>1, <2>2
<1>6. Cardinality(Upto(a)) <= Cardinality(Upto(b)) /\ IsFiniteSet(Upto(a))
    BY <1>4, <1>5, FS_Subset
<1>7. Cardinality(Upto(b)) <= n
    BY DEF Lowest
<1>8. Cardinality(Upto(a)) \in Nat /\ Cardinality(Upto(b)) \in Nat
    BY <1>4, <1>6, FS_CardinalityType
<1>9. Cardinality(Upto(a)) <= n
    BY <1>6, <1>7, <1>8
<1> QED
    BY <1>9 DEF Lowest

\* Each step of the consumer, of the producer and of time keeps the types.
LEMMA TypeStep == TypeOK /\ [Next]_vars => TypeOK'
<1> SUFFICES ASSUME TypeOK, [Next]_vars PROVE TypeOK'
    OBVIOUS
<1> USE DEF TypeOK, stream, group, effects, loop, budget, Phases, Goto, Leave
<1>1. CASE UNCHANGED vars
    BY <1>1 DEF vars
<1>2. CASE Publish
    BY <1>2, BusAssumption DEF Publish, Larger
<1>3. CASE Tick
    BY <1>3 DEF Tick
<1>4. ASSUME NEW c \in Consumers, Scan(c) PROVE TypeOK'
    BY <1>4 DEF Scan, Lowest
<1>5. ASSUME NEW c \in Consumers, DoomAdd(c) PROVE TypeOK'
    BY <1>5 DEF DoomAdd
<1>6. ASSUME NEW c \in Consumers, DoomAck(c) PROVE TypeOK'
    BY <1>6 DEF DoomAck, Xack
<1>7. ASSUME NEW c \in Consumers, DoomDone(c) PROVE TypeOK'
    BY <1>7 DEF DoomDone
<1>8. ASSUME NEW c \in Consumers, XClaim(c) PROVE TypeOK'
    BY <1>8 DEF XClaim
<1>9. ASSUME NEW c \in Consumers, Read(c) PROVE TypeOK'
    <2> DEFINE fresh == Lowest({m \in Ids : m > cursor /\ m >= first
                                            /\ m <= published}, Batch)
    <2>1. fresh \subseteq Ids
        BY DEF Lowest
    <2>2. CASE fresh = {}
        BY <1>9, <2>2 DEF Read
    <2>3. CASE fresh # {}
        <3> HIDE DEF fresh
        <3>1. /\ \E last \in fresh : cursor' = last
              /\ pending' = pending \cup fresh
              /\ count' = [m \in Ids |-> IF m \in fresh THEN 1 ELSE count[m]]
              /\ idle' = [m \in Ids |-> IF m \in fresh THEN 0 ELSE idle[m]]
              /\ todo' = [todo EXCEPT ![c] = fresh]
              /\ mode' = [mode EXCEPT ![c] = "read"]
              /\ pc' = [pc EXCEPT ![c] = "handle"]
              /\ UNCHANGED <<stream, effects, doomed, acks, stop, budget, acked>>
            BY <1>9, <2>3 DEF Read, fresh
        <3>2. cursor' \in 0 .. MaxMsgs
            BY <2>1, <3>1, BusAssumption DEF Ids
        <3> QED
            BY <2>1, <3>1, <3>2
    <2> QED
        BY <2>2, <2>3
<1>10. ASSUME NEW c \in Consumers, HandleOk(c) PROVE TypeOK'
    BY <1>10 DEF HandleOk
<1>11. ASSUME NEW c \in Consumers, HandleLate(c) PROVE TypeOK'
    BY <1>11 DEF HandleLate
<1>12. ASSUME NEW c \in Consumers, HandlePoison(c) PROVE TypeOK'
    BY <1>12 DEF HandlePoison
<1>13. ASSUME NEW c \in Consumers, HandleRaise(c) PROVE TypeOK'
    BY <1>13 DEF HandleRaise
<1>14. ASSUME NEW c \in Consumers, CountDeliveries(c) PROVE TypeOK'
    BY <1>14 DEF CountDeliveries
<1>15. ASSUME NEW c \in Consumers, LastAdd(c) PROVE TypeOK'
    BY <1>15 DEF LastAdd, ReturnTrue
<1>16. ASSUME NEW c \in Consumers, LastAck(c) PROVE TypeOK'
    BY <1>16 DEF LastAck, ReturnTrue, Xack
<1>17. ASSUME NEW c \in Consumers, AckBatch(c) PROVE TypeOK'
    BY <1>17 DEF AckBatch, Xack
<1>18. ASSUME NEW c \in Consumers, Stop(c) \/ Exit(c) PROVE TypeOK'
    BY <1>18 DEF Stop, Exit
<1>19. ASSUME NEW c \in Consumers, LoopError(c) \/ Crash(c) \/ Restart(c) PROVE TypeOK'
    <2>1. CASE LoopError(c)
        BY <2>1 DEF LoopError
    <2>2. CASE Crash(c)
        BY <2>2 DEF Crash
    <2>3. CASE Restart(c)
        BY <2>3 DEF Restart
    <2> QED
        BY <1>19, <2>1, <2>2, <2>3
<1> QED
    BY <1>1, <1>2, <1>3, <1>4, <1>5, <1>6, <1>7, <1>8, <1>9, <1>10, <1>11,
       <1>12, <1>13, <1>14, <1>15, <1>16, <1>17, <1>18, <1>19
    DEF Next, LoopStep

\* The initial state has the types.
LEMMA TypeInit == Init => TypeOK
    BY BusAssumption DEF Init, TypeOK, Phases, Ids

\* Type correctness of the consumer loop, for every value of the constants.
THEOREM TypeCorrect == Spec => []TypeOK
    BY TypeInit, TypeStep, PTL DEF Spec

-----------------------------------------------------------------------------
\* One step of consumer c, whichever it is.
ConsumerStep(c) == LoopStep(c) \/ Stop(c) \/ LoopError(c) \/ Crash(c) \/ Restart(c)

\* What a read delivers: something new, no further than the newest message.
LEMMA ReadDelivers ==
    ASSUME TypeOK, NEW c \in Consumers, Read(c), pc'[c] = "handle"
    PROVE  \E fresh \in SUBSET Ids :
              /\ \A m \in fresh : m > cursor /\ m <= cursor'
              /\ \A m \in Ids : m > cursor /\ m <= cursor' => m \in fresh \/ m < first
              /\ cursor' \in Ids /\ cursor' > cursor
              /\ pending' = pending \cup fresh
              /\ count' = [m \in Ids |-> IF m \in fresh THEN 1 ELSE count[m]]
              /\ todo' = [todo EXCEPT ![c] = fresh]
              /\ pc' = [pc EXCEPT ![c] = "handle"]
              /\ UNCHANGED <<effects, doomed, acks, acked, first, budget>>
<1> DEFINE new == {m \in Ids : m > cursor /\ m >= first /\ m <= published}
           fresh == Lowest(new, Batch)
<1>1. fresh \subseteq new /\ new \in SUBSET Ids
    BY DEF Lowest
<1>2. \A a \in new, b \in fresh : a <= b => a \in fresh
    BY <1>1, LowestDownClosed, BusAssumption
<1>3. fresh # {}
    BY DEF Read, Goto, TypeOK
<1>4. MaxMsgs \in Nat /\ cursor \in Int /\ first \in Int /\ published \in Int
    BY BusAssumption DEF TypeOK
<1> HIDE DEF fresh
<1>5. /\ \E last \in fresh : cursor' = last /\ \A m \in fresh : m <= last
      /\ pending' = pending \cup fresh
      /\ count' = [m \in Ids |-> IF m \in fresh THEN 1 ELSE count[m]]
      /\ todo' = [todo EXCEPT ![c] = fresh]
      /\ pc' = [pc EXCEPT ![c] = "handle"]
      /\ UNCHANGED <<effects, doomed, acks, acked, first, budget>>
    BY <1>3 DEF Read, Goto, fresh, stream, effects, budget
<1>6. /\ cursor' \in Ids /\ cursor' > cursor
      /\ \A m \in fresh : m > cursor /\ m <= cursor'
    BY <1>1, <1>5
<1>7. ASSUME NEW m \in Ids, m > cursor, m <= cursor' PROVE m \in fresh \/ m < first
    <2>1. PICK last \in fresh : cursor' = last
        BY <1>5
    <2>2. m \in Int /\ last \in new /\ last \in Int /\ m <= last
        BY <1>1, <1>4, <1>7, <2>1 DEF Ids
    <2>3. CASE m >= first
        <3>1. m \in new
            BY <1>4, <1>7, <2>2, <2>3
        <3> QED
            BY <1>2, <2>2, <3>1
    <2> QED
        BY <1>4, <2>2, <2>3
<1>8. fresh \in SUBSET Ids
    BY <1>1
<1> QED
    BY <1>5, <1>6, <1>7, <1>8

\* A read that delivers nothing changes nothing but the place in the loop.
LEMMA ReadNothing ==
    ASSUME TypeOK, NEW c \in Consumers, Read(c), pc'[c] # "handle"
    PROVE  /\ pc' = [pc EXCEPT ![c] = "top"]
           /\ UNCHANGED <<stream, group, effects, mode, doomed, todo, acks, budget>>
    BY DEF Read, Goto, TypeOK

\* The loop state of a consumer is its own: no other consumer touches it.
Own(d) == <<pc[d], doomed[d], todo[d], acks[d]>>

LEMMA OthersUntouched ==
    ASSUME TypeOK, NEW c \in Consumers, ConsumerStep(c),
           NEW d \in Consumers, d # c
    PROVE  UNCHANGED Own(d)
<1> USE DEF TypeOK, Own, Goto, Leave, loop
<1>1. ASSUME Scan(c) PROVE UNCHANGED Own(d)
    BY <1>1 DEF Scan, Lowest
<1>2. ASSUME DoomAdd(c) PROVE UNCHANGED Own(d)
    BY <1>2 DEF DoomAdd
<1>3. ASSUME DoomAck(c) PROVE UNCHANGED Own(d)
    BY <1>3 DEF DoomAck, Xack
<1>4. ASSUME DoomDone(c) PROVE UNCHANGED Own(d)
    BY <1>4 DEF DoomDone
<1>5. ASSUME XClaim(c) PROVE UNCHANGED Own(d)
    BY <1>5 DEF XClaim
<1>6. ASSUME Read(c) PROVE UNCHANGED Own(d)
    BY <1>6 DEF Read
<1>7. ASSUME HandleOk(c) PROVE UNCHANGED Own(d)
    BY <1>7 DEF HandleOk
<1>8. ASSUME HandleLate(c) PROVE UNCHANGED Own(d)
    BY <1>8 DEF HandleLate
<1>9. ASSUME HandlePoison(c) PROVE UNCHANGED Own(d)
    BY <1>9 DEF HandlePoison
<1>10. ASSUME HandleRaise(c) PROVE UNCHANGED Own(d)
    BY <1>10 DEF HandleRaise
<1>11. ASSUME CountDeliveries(c) PROVE UNCHANGED Own(d)
    BY <1>11 DEF CountDeliveries
<1>12. ASSUME LastAdd(c) PROVE UNCHANGED Own(d)
    BY <1>12 DEF LastAdd, ReturnTrue
<1>13. ASSUME LastAck(c) PROVE UNCHANGED Own(d)
    BY <1>13 DEF LastAck, ReturnTrue, Xack
<1>14. ASSUME AckBatch(c) PROVE UNCHANGED Own(d)
    BY <1>14 DEF AckBatch, Xack
<1>15. ASSUME Exit(c) PROVE UNCHANGED Own(d)
    BY <1>15 DEF Exit
<1>16. ASSUME Stop(c) PROVE UNCHANGED Own(d)
    BY <1>16 DEF Stop
<1>17. ASSUME LoopError(c) \/ Crash(c) PROVE UNCHANGED Own(d)
    BY <1>17 DEF LoopError, Crash
<1>18. ASSUME Restart(c) PROVE UNCHANGED Own(d)
    BY <1>18 DEF Restart
<1> QED
    BY <1>1, <1>2, <1>3, <1>4, <1>5, <1>6, <1>7, <1>8, <1>9,
       <1>10, <1>11, <1>12, <1>13, <1>14, <1>15, <1>16, <1>17, <1>18 DEF ConsumerStep, LoopStep

\* The cursor only moves on, and the delivery count of what it passed never
\* goes down.
CountsGrow ==
    cursor' >= cursor /\ \A m \in Ids : m <= cursor => count'[m] >= count[m]

LEMMA CountsGrowStep ==
    ASSUME TypeOK, NEW c \in Consumers, ConsumerStep(c)
    PROVE  CountsGrow
<1> USE BusAssumption DEF TypeOK, CountsGrow, Goto, group, Ids
<1>1. ASSUME Scan(c) PROVE CountsGrow
    BY <1>1 DEF Scan
<1>2. ASSUME DoomAdd(c) PROVE CountsGrow
    BY <1>2 DEF DoomAdd
<1>3. ASSUME DoomAck(c) PROVE CountsGrow
    <2>1. count' = count /\ cursor' = cursor
        BY <1>3 DEF DoomAck, Xack
    <2> QED
        BY <2>1
<1>4. ASSUME DoomDone(c) PROVE CountsGrow
    BY <1>4 DEF DoomDone
<1>5. ASSUME XClaim(c) PROVE CountsGrow
    BY <1>5 DEF XClaim
<1>6. ASSUME Read(c) PROVE CountsGrow
    <2>1. CASE pc'[c] = "handle"
        <3>1. PICK fresh \in SUBSET Ids :
                 /\ \A m \in fresh : m > cursor
                 /\ cursor' \in Ids /\ cursor' > cursor
                 /\ count' = [m \in Ids |-> IF m \in fresh THEN 1 ELSE count[m]]
            BY <1>6, <2>1, ReadDelivers
        <3>2. ASSUME NEW m \in Ids, m <= cursor PROVE count'[m] = count[m]
            <4>1. m \notin fresh
                BY <3>1, <3>2
            <4> QED
                BY <3>1, <4>1
        <3> QED
            BY <3>1, <3>2
    <2>2. CASE pc'[c] # "handle"
        <3>1. UNCHANGED <<cursor, count>>
            BY <1>6, <2>2, ReadNothing DEF group
        <3> QED
            BY <3>1
    <2> QED
        BY <2>1, <2>2
<1>7. ASSUME HandleOk(c) PROVE CountsGrow
    BY <1>7 DEF HandleOk
<1>8. ASSUME HandleLate(c) PROVE CountsGrow
    BY <1>8 DEF HandleLate
<1>9. ASSUME HandlePoison(c) PROVE CountsGrow
    BY <1>9 DEF HandlePoison
<1>10. ASSUME HandleRaise(c) PROVE CountsGrow
    BY <1>10 DEF HandleRaise
<1>11. ASSUME CountDeliveries(c) PROVE CountsGrow
    BY <1>11 DEF CountDeliveries
<1>12. ASSUME LastAdd(c) PROVE CountsGrow
    BY <1>12 DEF LastAdd
<1>13. ASSUME LastAck(c) PROVE CountsGrow
    <2>1. count' = count /\ cursor' = cursor
        BY <1>13 DEF LastAck, Xack
    <2> QED
        BY <2>1
<1>14. ASSUME AckBatch(c) PROVE CountsGrow
    BY <1>14 DEF AckBatch, Xack
<1>15. ASSUME Exit(c) PROVE CountsGrow
    BY <1>15 DEF Exit
<1>16. ASSUME Stop(c) PROVE CountsGrow
    BY <1>16 DEF Stop
<1>17. ASSUME LoopError(c) \/ Crash(c) PROVE CountsGrow
    <2>1. UNCHANGED group
        BY <1>17 DEF LoopError, Crash
    <2> QED
        BY <2>1 DEF group
<1>18. ASSUME Restart(c) PROVE CountsGrow
    BY <1>18 DEF Restart
<1> QED
    BY <1>1, <1>2, <1>3, <1>4, <1>5, <1>6, <1>7, <1>8, <1>9,
       <1>10, <1>11, <1>12, <1>13, <1>14, <1>15, <1>16, <1>17, <1>18 DEF ConsumerStep, LoopStep

-----------------------------------------------------------------------------
\* Whatever is pending or dead lettered was delivered, and a dead letter was
\* delivered max_delivery_attempts times.
SharedOK ==
    /\ \A m \in pending : m <= cursor /\ count[m] >= 1
    /\ \A m \in Ids : dlq[m] > 0 => m <= cursor /\ count[m] >= MaxAttempts

\* What consumer c has in hand was delivered, what it is about to dead letter
\* as often as it takes.
InHandOK(c) ==
    /\ \A m \in todo[c] : m <= cursor /\ count[m] >= 1
    /\ \A m \in doomed[c] : m <= cursor /\ count[m] >= MaxAttempts
    /\ pc[c] = "lastAdd" =>
          \A m \in todo[c] : IsNext(m, todo[c]) => count[m] >= MaxAttempts

\* The inductive invariant behind DlqAfterAllAttempts.
DlqInv == TypeOK /\ SharedOK /\ \A c \in Consumers : InHandOK(c)

\* The invariant of a consumer that does not move survives any step.
LEMMA InHandFrame ==
    ASSUME TypeOK, TypeOK', CountsGrow, NEW d \in Consumers, UNCHANGED Own(d), InHandOK(d)
    PROVE  InHandOK(d)'
<1>0. MaxAttempts \in Nat /\ MaxMsgs \in Nat
    BY BusAssumption
<1>1. \A m \in todo[d] \cup doomed[d] :
         /\ m \in Ids /\ m \in Int
         /\ count[m] \in Nat /\ count'[m] \in Nat
         /\ m <= cursor' /\ count'[m] >= count[m]
    BY <1>0 DEF TypeOK, CountsGrow, InHandOK, Ids
<1>2. UNCHANGED <<pc[d], todo[d], doomed[d]>>
    BY DEF Own
<1> QED
    BY <1>0, <1>1, <1>2 DEF InHandOK, IsNext

\* The consumer that moves keeps its own invariant.
LEMMA InHandStep ==
    ASSUME DlqInv, TypeOK', NEW c \in Consumers, ConsumerStep(c)
    PROVE  InHandOK(c)'
<1>0. MaxAttempts \in Nat /\ MaxAttempts >= 1 /\ MaxMsgs \in Nat
    BY BusAssumption
<1>a. \A m, n \in Ids : m <= n /\ n <= m => m = n
    BY <1>0 DEF Ids
<1>b. \A S \in SUBSET Ids, m, n \in Ids : IsNext(m, S) /\ IsNext(n, S) => m = n
    BY <1>a DEF IsNext
<1> USE <1>0 DEF DlqInv, TypeOK, SharedOK, InHandOK, Goto, Leave, group
<1>1. ASSUME Scan(c) PROVE InHandOK(c)'
    BY <1>1 DEF Scan, Lowest
<1>2. ASSUME DoomAdd(c) PROVE InHandOK(c)'
    BY <1>2 DEF DoomAdd
<1>3. ASSUME DoomAck(c) PROVE InHandOK(c)'
    BY <1>3 DEF DoomAck, Xack
<1>4. ASSUME DoomDone(c) PROVE InHandOK(c)'
    BY <1>4 DEF DoomDone
<1>5. ASSUME XClaim(c) PROVE InHandOK(c)'
    <2>1. \A m \in todo'[c] : m \in todo[c] /\ count'[m] >= count[m]
        BY <1>5 DEF XClaim
    <2>2. \A m \in Ids : count'[m] >= count[m] /\ count'[m] \in Nat
        BY <1>5 DEF XClaim
    <2>3. UNCHANGED <<cursor, doomed>> /\ pc'[c] = "handle"
        BY <1>5 DEF XClaim
    <2>4. \A m \in todo'[c] : m <= cursor' /\ count'[m] >= 1
        BY <2>1, <2>2, <2>3
    <2>5. \A m \in doomed'[c] : m <= cursor' /\ count'[m] >= MaxAttempts
        BY <2>2, <2>3
    <2> QED
        BY <2>3, <2>4, <2>5
<1>6. ASSUME Read(c) PROVE InHandOK(c)'
    <2>1. CASE pc'[c] = "handle"
        <3>1. PICK fresh \in SUBSET Ids :
                 /\ \A m \in fresh : m > cursor /\ m <= cursor'
                 /\ cursor' \in Ids /\ cursor' > cursor
                 /\ count' = [m \in Ids |-> IF m \in fresh THEN 1 ELSE count[m]]
                 /\ todo' = [todo EXCEPT ![c] = fresh]
                 /\ pc' = [pc EXCEPT ![c] = "handle"]
                 /\ doomed' = doomed
            BY <1>6, <2>1, ReadDelivers
        <3>2. ASSUME NEW m \in doomed[c] PROVE m <= cursor' /\ count'[m] >= MaxAttempts
            <4>1. m \in Ids /\ m \in Int /\ cursor \in Int /\ cursor' \in Int
                BY <3>1 DEF Ids
            <4>2. m <= cursor /\ count[m] >= MaxAttempts
                BY <3>2
            <4>3. m \notin fresh
                BY <3>1, <4>1, <4>2
            <4>4. count'[m] = count[m]
                BY <3>1, <4>1, <4>3
            <4> QED
                BY <3>1, <4>1, <4>2, <4>4
        <3>3. \A m \in todo'[c] : m <= cursor' /\ count'[m] >= 1
            <4>1. todo'[c] = fresh
                BY <3>1
            <4>2. \A m \in fresh : m <= cursor' /\ count'[m] = 1
                BY <3>1
            <4> QED
                BY <4>1, <4>2
        <3>4. doomed'[c] = doomed[c] /\ pc'[c] # "lastAdd"
            BY <3>1, <2>1
        <3>5. \A m \in doomed'[c] : m <= cursor' /\ count'[m] >= MaxAttempts
            BY <3>2, <3>4
        <3> QED
            BY <3>3, <3>4, <3>5
    <2>2. CASE pc'[c] # "handle"
        <3>1. UNCHANGED <<cursor, count, todo, doomed>> /\ pc'[c] = "top"
            BY <1>6, <2>2, ReadNothing DEF stream, group, effects
        <3> QED
            BY <3>1
    <2> QED
        BY <2>1, <2>2
<1>7. ASSUME HandleOk(c) PROVE InHandOK(c)'
    BY <1>7 DEF HandleOk
<1>8. ASSUME HandleLate(c) PROVE InHandOK(c)'
    BY <1>8 DEF HandleLate
<1>9. ASSUME HandlePoison(c) PROVE InHandOK(c)'
    BY <1>9 DEF HandlePoison
<1>10. ASSUME HandleRaise(c) PROVE InHandOK(c)'
    BY <1>10 DEF HandleRaise
<1>11. ASSUME CountDeliveries(c) PROVE InHandOK(c)'
    <2>1. PICK m \in todo[c], failed \in BOOLEAN :
             /\ IsNext(m, todo[c])
             /\ IF (IF failed THEN 1 ELSE DeliveryCount(m)) >= MaxAttempts
                THEN pc' = [pc EXCEPT ![c] = "lastAdd"] /\ UNCHANGED todo
                ELSE /\ pc' = [pc EXCEPT ![c] = "handle"]
                     /\ todo' = [todo EXCEPT ![c] = @ \ {m}]
        BY <1>11 DEF CountDeliveries
    <2>2. UNCHANGED <<cursor, count, doomed>>
        BY <1>11 DEF CountDeliveries
    <2>3. CASE pc'[c] = "lastAdd"
        <3>1. (IF failed THEN 1 ELSE DeliveryCount(m)) >= MaxAttempts /\ UNCHANGED todo
            BY <2>1, <2>3
        <3>2. count[m] \in Nat /\ count[m] >= 1 /\ m \in Ids
            OBVIOUS
        <3>3. count[m] >= MaxAttempts
            BY <3>1, <3>2 DEF DeliveryCount
        <3>4. \A n \in todo[c] : IsNext(n, todo[c]) => n = m
            BY <1>b, <2>1, <3>2
        <3> QED
            BY <2>2, <3>1, <3>3, <3>4
    <2>4. CASE pc'[c] # "lastAdd"
        BY <2>1, <2>2, <2>4
    <2> QED
        BY <2>3, <2>4
<1>12. ASSUME LastAdd(c) PROVE InHandOK(c)'
    BY <1>12 DEF LastAdd, ReturnTrue
<1>13. ASSUME LastAck(c) PROVE InHandOK(c)'
    BY <1>13 DEF LastAck, ReturnTrue, Xack
<1>14. ASSUME AckBatch(c) PROVE InHandOK(c)'
    BY <1>14 DEF AckBatch, Xack
<1>15. ASSUME Exit(c) PROVE InHandOK(c)'
    BY <1>15 DEF Exit
<1>16. ASSUME Stop(c) PROVE InHandOK(c)'
    BY <1>16 DEF Stop, loop
<1>17. ASSUME LoopError(c) \/ Crash(c) PROVE InHandOK(c)'
    BY <1>17 DEF LoopError, Crash
<1>18. ASSUME Restart(c) PROVE InHandOK(c)'
    BY <1>18 DEF Restart
<1> QED
    BY <1>1, <1>2, <1>3, <1>4, <1>5, <1>6, <1>7, <1>8, <1>9,
       <1>10, <1>11, <1>12, <1>13, <1>14, <1>15, <1>16, <1>17, <1>18
    DEF ConsumerStep, LoopStep

\* Deliveries, claims, acknowledgements and dead letters keep the shared part.
LEMMA SharedStep ==
    ASSUME DlqInv, NEW c \in Consumers, ConsumerStep(c)
    PROVE  SharedOK'
<1>0. MaxAttempts \in Nat /\ MaxAttempts >= 1 /\ MaxMsgs \in Nat
    BY BusAssumption
<1> USE <1>0 DEF DlqInv, TypeOK, SharedOK, InHandOK, Goto, Leave, group, effects
<1>1. ASSUME Scan(c) PROVE SharedOK'
    BY <1>1 DEF Scan
<1>2. ASSUME DoomAdd(c) PROVE SharedOK'
    <2>1. PICK m \in doomed[c] : dlq' = dlq \/ dlq' = [dlq EXCEPT ![m] = @ + 1]
        BY <1>2 DEF DoomAdd
    <2>2. UNCHANGED <<pending, cursor, count>>
        BY <1>2 DEF DoomAdd
    <2>3. m \in Ids /\ m <= cursor /\ count[m] >= MaxAttempts
        OBVIOUS
    <2> QED
        BY <2>1, <2>2, <2>3
<1>3. ASSUME DoomAck(c) PROVE SharedOK'
    BY <1>3 DEF DoomAck, Xack
<1>4. ASSUME DoomDone(c) PROVE SharedOK'
    BY <1>4 DEF DoomDone
<1>5. ASSUME XClaim(c) PROVE SharedOK'
    <2>1. \A m \in Ids : count'[m] \in Nat /\ count'[m] >= count[m]
        BY <1>5 DEF XClaim
    <2>2. pending' \subseteq pending /\ UNCHANGED <<cursor, dlq>>
        BY <1>5 DEF XClaim
    <2> QED
        BY <2>1, <2>2
<1>6. ASSUME Read(c) PROVE SharedOK'
    <2>1. CASE pc'[c] = "handle"
        <3>1. PICK fresh \in SUBSET Ids :
                 /\ \A m \in fresh : m > cursor /\ m <= cursor'
                 /\ cursor' \in Ids /\ cursor' > cursor
                 /\ pending' = pending \cup fresh
                 /\ count' = [m \in Ids |-> IF m \in fresh THEN 1 ELSE count[m]]
                 /\ UNCHANGED effects
            BY <1>6, <2>1, ReadDelivers
        <3>2. cursor \in Int /\ cursor' \in Int /\ UNCHANGED dlq
            BY <3>1 DEF Ids, effects
        <3>3. ASSUME NEW m \in Ids, m <= cursor PROVE m <= cursor' /\ count'[m] = count[m]
            <4>1. m \notin fresh /\ m \in Int
                BY <3>1, <3>2, <3>3 DEF Ids
            <4> QED
                BY <3>1, <3>2, <3>3, <4>1
        <3>4. \A m \in fresh : m <= cursor' /\ count'[m] = 1
            BY <3>1
        <3>5. \A m \in pending' : m <= cursor' /\ count'[m] >= 1
            BY <3>1, <3>3, <3>4
        <3>6. \A m \in Ids : dlq'[m] > 0 => m <= cursor' /\ count'[m] >= MaxAttempts
            BY <3>2, <3>3
        <3> QED
            BY <3>5, <3>6
    <2>2. CASE pc'[c] # "handle"
        <3>1. UNCHANGED <<cursor, count, pending, dlq>>
            BY <1>6, <2>2, ReadNothing DEF stream, group, effects
        <3> QED
            BY <3>1
    <2> QED
        BY <2>1, <2>2
<1>7. ASSUME HandleOk(c) PROVE SharedOK'
    BY <1>7 DEF HandleOk
<1>8. ASSUME HandleLate(c) PROVE SharedOK'
    BY <1>8 DEF HandleLate
<1>9. ASSUME HandlePoison(c) PROVE SharedOK'
    BY <1>9 DEF HandlePoison
<1>10. ASSUME HandleRaise(c) PROVE SharedOK'
    BY <1>10 DEF HandleRaise
<1>11. ASSUME CountDeliveries(c) PROVE SharedOK'
    BY <1>11 DEF CountDeliveries
<1>12. ASSUME LastAdd(c) PROVE SharedOK'
    <2>1. PICK m \in todo[c] : /\ IsNext(m, todo[c])
                               /\ dlq' = dlq \/ dlq' = [dlq EXCEPT ![m] = @ + 1]
        BY <1>12 DEF LastAdd
    <2>2. UNCHANGED <<pending, cursor, count>> /\ pc[c] = "lastAdd"
        BY <1>12 DEF LastAdd
    <2>3. m \in Ids /\ m <= cursor /\ count[m] >= MaxAttempts
        BY <2>1, <2>2
    <2> QED
        BY <2>1, <2>2, <2>3
<1>13. ASSUME LastAck(c) PROVE SharedOK'
    BY <1>13 DEF LastAck, Xack
<1>14. ASSUME AckBatch(c) PROVE SharedOK'
    BY <1>14 DEF AckBatch, Xack
<1>15. ASSUME Exit(c) PROVE SharedOK'
    BY <1>15 DEF Exit
<1>16. ASSUME Stop(c) PROVE SharedOK'
    BY <1>16 DEF Stop
<1>17. ASSUME LoopError(c) \/ Crash(c) PROVE SharedOK'
    BY <1>17 DEF LoopError, Crash
<1>18. ASSUME Restart(c) PROVE SharedOK'
    BY <1>18 DEF Restart
<1> QED
    BY <1>1, <1>2, <1>3, <1>4, <1>5, <1>6, <1>7, <1>8, <1>9,
       <1>10, <1>11, <1>12, <1>13, <1>14, <1>15, <1>16, <1>17, <1>18
    DEF ConsumerStep, LoopStep

\* Producer and clock leave the invariant alone.
LEMMA DlqQuietStep ==
    ASSUME DlqInv, Publish \/ Tick \/ UNCHANGED vars
    PROVE  DlqInv'
<1>1. TypeOK'
    BY TypeStep DEF DlqInv, Next
<1>2. UNCHANGED <<cursor, pending, count, dlq, loop>>
    BY DEF Publish, Tick, vars, group, effects
<1> QED
    BY <1>1, <1>2 DEF DlqInv, SharedOK, InHandOK, IsNext, loop

LEMMA DlqStep == DlqInv /\ [Next]_vars => DlqInv'
<1> SUFFICES ASSUME DlqInv, [Next]_vars PROVE DlqInv'
    OBVIOUS
<1>1. TypeOK /\ TypeOK'
    BY TypeStep DEF DlqInv
<1>2. ASSUME NEW c \in Consumers, ConsumerStep(c) PROVE DlqInv'
    <2>1. SharedOK'
        BY <1>2, SharedStep
    <2>2. InHandOK(c)'
        BY <1>1, <1>2, InHandStep
    <2>3. CountsGrow
        BY <1>1, <1>2, CountsGrowStep
    <2>4. ASSUME NEW d \in Consumers, d # c PROVE InHandOK(d)'
        <3>1. UNCHANGED Own(d)
            BY <1>1, <1>2, <2>4, OthersUntouched
        <3>2. InHandOK(d)
            BY DEF DlqInv
        <3> QED
            BY <1>1, <2>3, <3>1, <3>2, InHandFrame
    <2> QED
        BY <1>1, <2>1, <2>2, <2>4 DEF DlqInv
<1>3. CASE Publish \/ Tick \/ UNCHANGED vars
    BY <1>3, DlqQuietStep
<1> QED
    BY <1>2, <1>3 DEF Next, ConsumerStep

LEMMA DlqInit == Init => DlqInv
<1>1. Init => SharedOK /\ \A c \in Consumers : InHandOK(c)
    BY DEF Init, SharedOK, InHandOK, Ids
<1> QED
    BY <1>1, TypeInit DEF DlqInv

\* A message reaches the dead-letter stream only after max_delivery_attempts
\* deliveries, however consumers interleave, crash or lose Redis calls.
THEOREM DeadLetterAfterAllAttempts == Spec => []DlqAfterAllAttempts
<1>1. DlqInv => DlqAfterAllAttempts
    BY DEF DlqInv, SharedOK, DlqAfterAllAttempts
<1> QED
    BY <1>1, DlqInit, DlqStep, PTL DEF Spec

-----------------------------------------------------------------------------
\* A message that was handled to completion or is on the dead-letter stream.
Accounted(m) == handled[m] > 0 \/ dlq[m] > 0

\* Consumer c acknowledges only what is accounted for.
AcksOK(c) ==
    /\ \A m \in acks[c] : Accounted(m)
    /\ pc[c] = "doomAck" => \A m \in doomed[c] : IsNext(m, doomed[c]) => dlq[m] > 0
    /\ pc[c] = "lastAck" => \A m \in todo[c] : IsNext(m, todo[c]) => dlq[m] > 0

\* The inductive invariant behind NoSilentLoss, when no XADD to the dead-letter
\* stream fails.
LossInv ==
    TypeOK /\ xaddFaults = 0 /\ NoSilentLoss /\ \A c \in Consumers : AcksOK(c)

\* Handler runs and dead letters are never undone.
EffectsGrow ==
    \A m \in Ids : handled'[m] >= handled[m] /\ dlq'[m] >= dlq[m]

LEMMA EffectsGrowStep ==
    ASSUME TypeOK, NEW c \in Consumers, ConsumerStep(c)
    PROVE  EffectsGrow
<1> USE DEF TypeOK, EffectsGrow, effects
<1>1. ASSUME Scan(c) PROVE EffectsGrow
    BY <1>1 DEF Scan
<1>2. ASSUME DoomAdd(c) PROVE EffectsGrow
    BY <1>2 DEF DoomAdd
<1>3. ASSUME DoomAck(c) PROVE EffectsGrow
    BY <1>3 DEF DoomAck
<1>4. ASSUME DoomDone(c) PROVE EffectsGrow
    BY <1>4 DEF DoomDone
<1>5. ASSUME XClaim(c) PROVE EffectsGrow
    BY <1>5 DEF XClaim
<1>6. ASSUME Read(c) PROVE EffectsGrow
    BY <1>6 DEF Read
<1>7. ASSUME HandleOk(c) PROVE EffectsGrow
    BY <1>7 DEF HandleOk
<1>8. ASSUME HandleLate(c) PROVE EffectsGrow
    BY <1>8 DEF HandleLate
<1>9. ASSUME HandlePoison(c) PROVE EffectsGrow
    BY <1>9 DEF HandlePoison
<1>10. ASSUME HandleRaise(c) PROVE EffectsGrow
    BY <1>10 DEF HandleRaise
<1>11. ASSUME CountDeliveries(c) PROVE EffectsGrow
    BY <1>11 DEF CountDeliveries
<1>12. ASSUME LastAdd(c) PROVE EffectsGrow
    BY <1>12 DEF LastAdd
<1>13. ASSUME LastAck(c) PROVE EffectsGrow
    BY <1>13 DEF LastAck
<1>14. ASSUME AckBatch(c) PROVE EffectsGrow
    BY <1>14 DEF AckBatch
<1>15. ASSUME Exit(c) PROVE EffectsGrow
    BY <1>15 DEF Exit
<1>16. ASSUME Stop(c) PROVE EffectsGrow
    BY <1>16 DEF Stop
<1>17. ASSUME LoopError(c) \/ Crash(c) PROVE EffectsGrow
    BY <1>17 DEF LoopError, Crash
<1>18. ASSUME Restart(c) PROVE EffectsGrow
    BY <1>18 DEF Restart
<1> QED
    BY <1>1, <1>2, <1>3, <1>4, <1>5, <1>6, <1>7, <1>8, <1>9,
       <1>10, <1>11, <1>12, <1>13, <1>14, <1>15, <1>16, <1>17, <1>18
    DEF ConsumerStep, LoopStep

\* What a consumer that does not move is about to acknowledge stays accounted
\* for.
LEMMA AcksFrame ==
    ASSUME TypeOK, TypeOK', EffectsGrow, NEW d \in Consumers, UNCHANGED Own(d), AcksOK(d)
    PROVE  AcksOK(d)'
<1>1. UNCHANGED <<pc[d], todo[d], doomed[d], acks[d]>>
    BY DEF Own
<1>2. \A m \in Ids : /\ dlq[m] > 0 => dlq'[m] > 0
                     /\ handled[m] > 0 => handled'[m] > 0
    BY DEF TypeOK, EffectsGrow
<1>3. todo[d] \subseteq Ids /\ doomed[d] \subseteq Ids /\ acks[d] \subseteq Ids
    BY DEF TypeOK
<1> QED
    BY <1>1, <1>2, <1>3 DEF AcksOK, Accounted, IsNext

\* The consumer that moves acknowledges only what is accounted for: this is
\* where a failed dead-letter write would break the invariant.
LEMMA AcksStep ==
    ASSUME MaxXaddFaults = 0, LossInv, TypeOK', NEW c \in Consumers, ConsumerStep(c)
    PROVE  AcksOK(c)'
<1>0. MaxMsgs \in Nat
    BY BusAssumption
<1>b. \A S \in SUBSET Ids, m, n \in Ids : IsNext(m, S) /\ IsNext(n, S) => m = n
    BY <1>0 DEF IsNext, Ids
<1>c. \A m \in Ids : dlq[m] \in Nat /\ handled[m] \in Nat
    BY DEF LossInv, TypeOK
<1> USE <1>0 DEF LossInv, TypeOK, AcksOK, Accounted, Goto, Leave, effects, budget
<1>1. ASSUME Scan(c) PROVE AcksOK(c)'
    BY <1>1 DEF Scan
<1>2. ASSUME DoomAdd(c) PROVE AcksOK(c)'
    <2>1. PICK m \in doomed[c] :
             /\ IsNext(m, doomed[c])
             /\ dlq' = [dlq EXCEPT ![m] = @ + 1]
             /\ pc' = [pc EXCEPT ![c] = "doomAck"]
        BY <1>2 DEF DoomAdd
    <2>2. UNCHANGED <<doomed, todo, acks, handled>>
        BY <1>2 DEF DoomAdd
    <2>3. m \in Ids /\ dlq'[m] > 0 /\ \A n \in Ids : dlq'[n] >= dlq[n]
        BY <1>c, <2>1
    <2>4. \A n \in doomed[c] : IsNext(n, doomed[c]) => n = m
        BY <1>b, <2>1, <2>3
    <2>5. \A n \in acks[c] : n \in Ids /\ (handled'[n] > 0 \/ dlq'[n] > 0)
        BY <1>c, <2>2, <2>3
    <2> QED
        BY <2>1, <2>2, <2>3, <2>4, <2>5
<1>3. ASSUME DoomAck(c) PROVE AcksOK(c)'
    BY <1>3 DEF DoomAck
<1>4. ASSUME DoomDone(c) PROVE AcksOK(c)'
    BY <1>4 DEF DoomDone
<1>5. ASSUME XClaim(c) PROVE AcksOK(c)'
    BY <1>5 DEF XClaim
<1>6. ASSUME Read(c) PROVE AcksOK(c)'
    <2>1. UNCHANGED <<dlq, handled, acks>> /\ pc'[c] \in {"top", "handle"}
        BY <1>6 DEF Read
    <2> QED
        BY <2>1
<1>7. ASSUME HandleOk(c) PROVE AcksOK(c)'
    <2>1. PICK m \in todo[c] : /\ handled' = [handled EXCEPT ![m] = @ + 1]
                               /\ acks' = [acks EXCEPT ![c] = @ \cup {m}]
        BY <1>7 DEF HandleOk
    <2>2. UNCHANGED <<dlq, pc>> /\ pc[c] = "handle"
        BY <1>7 DEF HandleOk
    <2>3. m \in Ids /\ handled'[m] > 0 /\ \A n \in Ids : handled'[n] >= handled[n]
        BY <1>c, <2>1
    <2>4. \A n \in acks[c] : n \in Ids /\ (handled'[n] > 0 \/ dlq'[n] > 0)
        BY <1>c, <2>2, <2>3
    <2> QED
        BY <2>1, <2>2, <2>3, <2>4
<1>8. ASSUME HandleLate(c) PROVE AcksOK(c)'
    BY <1>8 DEF HandleLate
<1>9. ASSUME HandlePoison(c) PROVE AcksOK(c)'
    BY <1>9 DEF HandlePoison
<1>10. ASSUME HandleRaise(c) PROVE AcksOK(c)'
    BY <1>10 DEF HandleRaise
<1>11. ASSUME CountDeliveries(c) PROVE AcksOK(c)'
    BY <1>11 DEF CountDeliveries
<1>12. ASSUME LastAdd(c) PROVE AcksOK(c)'
    <2>1. PICK m \in todo[c] :
             /\ IsNext(m, todo[c])
             /\ dlq' = [dlq EXCEPT ![m] = @ + 1]
             /\ pc' = [pc EXCEPT ![c] = "lastAck"]
        BY <1>12 DEF LastAdd
    <2>2. UNCHANGED <<doomed, todo, acks, handled>>
        BY <1>12 DEF LastAdd
    <2>3. m \in Ids /\ dlq'[m] > 0 /\ \A n \in Ids : dlq'[n] >= dlq[n]
        BY <1>c, <2>1
    <2>4. \A n \in todo[c] : IsNext(n, todo[c]) => n = m
        BY <1>b, <2>1, <2>3
    <2>5. \A n \in acks[c] : n \in Ids /\ (handled'[n] > 0 \/ dlq'[n] > 0)
        BY <1>c, <2>2, <2>3
    <2> QED
        BY <2>1, <2>2, <2>3, <2>4, <2>5
<1>13. ASSUME LastAck(c) PROVE AcksOK(c)'
    <2>1. PICK m \in todo[c] : /\ IsNext(m, todo[c])
                               /\ acks' = [acks EXCEPT ![c] = @ \cup {m}]
                               /\ pc' = [pc EXCEPT ![c] = "handle"]
        BY <1>13 DEF LastAck, ReturnTrue
    <2>2. UNCHANGED <<dlq, handled>> /\ pc[c] = "lastAck"
        BY <1>13 DEF LastAck
    <2>3. dlq[m] > 0
        BY <2>1, <2>2
    <2> QED
        BY <2>1, <2>2, <2>3
<1>14. ASSUME AckBatch(c) PROVE AcksOK(c)'
    BY <1>14 DEF AckBatch
<1>15. ASSUME Exit(c) PROVE AcksOK(c)'
    BY <1>15 DEF Exit
<1>16. ASSUME Stop(c) PROVE AcksOK(c)'
    BY <1>16 DEF Stop, loop
<1>17. ASSUME LoopError(c) \/ Crash(c) PROVE AcksOK(c)'
    BY <1>17 DEF LoopError, Crash
<1>18. ASSUME Restart(c) PROVE AcksOK(c)'
    BY <1>18 DEF Restart
<1> QED
    BY <1>1, <1>2, <1>3, <1>4, <1>5, <1>6, <1>7, <1>8, <1>9,
       <1>10, <1>11, <1>12, <1>13, <1>14, <1>15, <1>16, <1>17, <1>18
    DEF ConsumerStep, LoopStep

\* No step of a consumer loses a message.
LEMMA LossStep ==
    ASSUME LossInv, NEW c \in Consumers, ConsumerStep(c)
    PROVE  NoSilentLoss'
<1>0. MaxMsgs \in Nat /\ 1 .. cursor \subseteq Ids
    BY BusAssumption DEF LossInv, TypeOK, Ids
<1>c. \A m \in Ids : dlq[m] \in Nat /\ handled[m] \in Nat
    BY DEF LossInv, TypeOK
<1>d. \A m \in Ids : /\ dlq[m] > 0 => dlq'[m] > 0
                     /\ handled[m] > 0 => handled'[m] > 0
    <2>1. EffectsGrow /\ TypeOK'
        BY EffectsGrowStep, TypeStep DEF LossInv, Next, ConsumerStep
    <2> QED
        BY <1>c, <2>1 DEF EffectsGrow, TypeOK
<1> USE <1>0 DEF LossInv, TypeOK, AcksOK, Accounted, NoSilentLoss, Goto, Leave, stream,
        group, effects
<1>1. ASSUME Scan(c) PROVE NoSilentLoss'
    BY <1>1 DEF Scan
<1>2. ASSUME DoomAdd(c) PROVE NoSilentLoss'
    <2>1. UNCHANGED <<pending, cursor, first>>
        BY <1>2 DEF DoomAdd
    <2> QED
        BY <1>d, <2>1
<1>3. ASSUME DoomAck(c) PROVE NoSilentLoss'
    <2>1. PICK m \in doomed[c] :
             IsNext(m, doomed[c]) /\ pending' \in {pending, pending \ {m}}
        BY <1>3 DEF DoomAck, Xack
    <2>2. UNCHANGED <<dlq, handled, cursor, first>> /\ pc[c] = "doomAck"
        BY <1>3 DEF DoomAck, Xack
    <2>3. dlq[m] > 0
        <3>1. \A n \in doomed[c] : IsNext(n, doomed[c]) => dlq[n] > 0
            BY <2>2
        <3> QED
            BY <2>1, <3>1
    <2>4. \A n \in pending : n \in pending' \/ dlq'[n] > 0
        BY <2>1, <2>2, <2>3
    <2> QED
        BY <2>2, <2>4
<1>4. ASSUME DoomDone(c) PROVE NoSilentLoss'
    BY <1>4 DEF DoomDone
<1>5. ASSUME XClaim(c) PROVE NoSilentLoss'
    <2>1. \A m \in pending : m \in pending' \/ m < first
        <3>1. \A m \in pending : m \in Int /\ first \in Int
            BY DEF Ids
        <3> QED
            BY <1>5, <3>1 DEF XClaim
    <2>2. UNCHANGED <<dlq, handled, cursor, first>>
        BY <1>5 DEF XClaim
    <2> QED
        BY <2>1, <2>2
<1>6. ASSUME Read(c) PROVE NoSilentLoss'
    <2>1. CASE pc'[c] = "handle"
        <3>1. PICK fresh \in SUBSET Ids :
                 /\ \A m \in Ids : m > cursor /\ m <= cursor' => m \in fresh \/ m < first
                 /\ cursor' \in Ids
                 /\ pending' = pending \cup fresh
                 /\ UNCHANGED <<effects, first>>
            BY <1>6, <2>1, ReadDelivers
        <3>2. ASSUME NEW m \in 1 .. cursor'
              PROVE  m \in pending' \/ handled'[m] > 0 \/ dlq'[m] > 0 \/ m < first'
            <4>1. m \in Ids /\ m \in Int /\ cursor \in Int
                BY <3>1 DEF Ids
            <4>2. CASE m <= cursor
                <5>1. m \in 1 .. cursor
                    BY <4>1, <4>2 DEF Ids
                <5> QED
                    BY <3>1, <5>1
            <4>3. CASE m > cursor
                BY <3>1, <3>2, <4>1, <4>3
            <4> QED
                BY <4>1, <4>2, <4>3
        <3> QED
            BY <3>2
    <2>2. CASE pc'[c] # "handle"
        <3>1. UNCHANGED <<cursor, pending, dlq, handled, first>>
            BY <1>6, <2>2, ReadNothing DEF stream, group, effects
        <3> QED
            BY <3>1
    <2> QED
        BY <2>1, <2>2
<1>7. ASSUME HandleOk(c) PROVE NoSilentLoss'
    <2>1. UNCHANGED <<pending, cursor, first>>
        BY <1>7 DEF HandleOk
    <2> QED
        BY <1>d, <2>1
<1>8. ASSUME HandleLate(c) PROVE NoSilentLoss'
    <2>1. UNCHANGED <<pending, cursor, first>>
        BY <1>8 DEF HandleLate
    <2> QED
        BY <1>d, <2>1
<1>9. ASSUME HandlePoison(c) PROVE NoSilentLoss'
    BY <1>9 DEF HandlePoison
<1>10. ASSUME HandleRaise(c) PROVE NoSilentLoss'
    BY <1>10 DEF HandleRaise
<1>11. ASSUME CountDeliveries(c) PROVE NoSilentLoss'
    BY <1>11 DEF CountDeliveries
<1>12. ASSUME LastAdd(c) PROVE NoSilentLoss'
    <2>1. UNCHANGED <<pending, cursor, first>>
        BY <1>12 DEF LastAdd
    <2> QED
        BY <1>d, <2>1
<1>13. ASSUME LastAck(c) PROVE NoSilentLoss'
    <2>1. PICK m \in todo[c] :
             IsNext(m, todo[c]) /\ pending' \in {pending, pending \ {m}}
        BY <1>13 DEF LastAck, Xack
    <2>2. UNCHANGED <<dlq, handled, cursor, first>> /\ pc[c] = "lastAck"
        BY <1>13 DEF LastAck, Xack
    <2>3. dlq[m] > 0
        <3>1. \A n \in todo[c] : IsNext(n, todo[c]) => dlq[n] > 0
            BY <2>2
        <3> QED
            BY <2>1, <3>1
    <2>4. \A n \in pending : n \in pending' \/ dlq'[n] > 0
        BY <2>1, <2>2, <2>3
    <2> QED
        BY <2>2, <2>4
<1>14. ASSUME AckBatch(c) PROVE NoSilentLoss'
    <2>1. UNCHANGED <<dlq, handled, cursor, first>> /\ pending' = pending \ acks[c]
        BY <1>14 DEF AckBatch, Xack
    <2>2. \A m \in acks[c] : handled[m] > 0 \/ dlq[m] > 0
        OBVIOUS
    <2> QED
        BY <2>1, <2>2
<1>15. ASSUME Exit(c) PROVE NoSilentLoss'
    BY <1>15 DEF Exit
<1>16. ASSUME Stop(c) PROVE NoSilentLoss'
    BY <1>16 DEF Stop
<1>17. ASSUME LoopError(c) \/ Crash(c) PROVE NoSilentLoss'
    BY <1>17 DEF LoopError, Crash
<1>18. ASSUME Restart(c) PROVE NoSilentLoss'
    BY <1>18 DEF Restart
<1> QED
    BY <1>1, <1>2, <1>3, <1>4, <1>5, <1>6, <1>7, <1>8, <1>9,
       <1>10, <1>11, <1>12, <1>13, <1>14, <1>15, <1>16, <1>17, <1>18
    DEF ConsumerStep, LoopStep

\* Trimming and time lose nothing that was not trimmed.
LEMMA LossQuietStep ==
    ASSUME LossInv, Publish \/ Tick \/ UNCHANGED vars
    PROVE  LossInv'
<1>1. TypeOK'
    BY TypeStep DEF LossInv, Next
<1>2. UNCHANGED <<cursor, pending, effects, loop, budget>>
    BY DEF Publish, Tick, vars, group
<1>3. first' >= first /\ first \in Int /\ first' \in Int
    BY BusAssumption DEF LossInv, TypeOK, Publish, Tick, vars, stream, Larger
<1>4. 1 .. cursor \subseteq Int
    OBVIOUS
<1>5. NoSilentLoss'
    BY <1>2, <1>3, <1>4 DEF LossInv, NoSilentLoss, effects
<1>6. \A c \in Consumers : AcksOK(c)'
    BY <1>2 DEF LossInv, AcksOK, Accounted, IsNext, effects, loop
<1> QED
    BY <1>1, <1>2, <1>5, <1>6 DEF LossInv, budget

LEMMA LossInit == Init => LossInv
<1>1. Init => xaddFaults = 0 /\ NoSilentLoss /\ \A c \in Consumers : AcksOK(c)
    BY DEF Init, NoSilentLoss, AcksOK
<1> QED
    BY <1>1, TypeInit DEF LossInv

LEMMA LossInvStep ==
    ASSUME MaxXaddFaults = 0
    PROVE  LossInv /\ [Next]_vars => LossInv'
<1> SUFFICES ASSUME LossInv, [Next]_vars PROVE LossInv'
    OBVIOUS
<1>1. TypeOK /\ TypeOK'
    BY TypeStep DEF LossInv
<1>2. ASSUME NEW c \in Consumers, ConsumerStep(c) PROVE LossInv'
    <2>1. NoSilentLoss'
        BY <1>2, LossStep
    <2>2. AcksOK(c)'
        BY <1>1, <1>2, AcksStep
    <2>3. EffectsGrow
        BY <1>1, <1>2, EffectsGrowStep
    <2>4. ASSUME NEW d \in Consumers, d # c PROVE AcksOK(d)'
        <3>1. UNCHANGED Own(d)
            BY <1>1, <1>2, <2>4, OthersUntouched
        <3>2. AcksOK(d)
            BY DEF LossInv
        <3> QED
            BY <1>1, <2>3, <3>1, <3>2, AcksFrame
    <2>5. xaddFaults' = 0
        BY <1>2 DEF LossInv, ConsumerStep, LoopStep, budget, Scan, DoomAdd, DoomAck,
           DoomDone, XClaim, Read, HandleOk, HandleLate, HandlePoison, HandleRaise,
           CountDeliveries, LastAdd, LastAck, AckBatch, Exit, Stop, LoopError, Crash, Restart
    <2> QED
        BY <1>1, <2>1, <2>2, <2>4, <2>5 DEF LossInv
<1>3. CASE Publish \/ Tick \/ UNCHANGED vars
    BY <1>3, LossQuietStep
<1> QED
    BY <1>2, <1>3 DEF Next, ConsumerStep

\* When the dead-letter writes succeed no message is ever lost, however many
\* consumers crash, race for claims or fail to acknowledge.
THEOREM NoMessageLost == MaxXaddFaults = 0 => (Spec => []NoSilentLoss)
<1> SUFFICES ASSUME MaxXaddFaults = 0 PROVE Spec => []NoSilentLoss
    OBVIOUS
<1>1. LossInv => NoSilentLoss
    BY DEF LossInv
<1> QED
    BY <1>1, LossInit, LossInvStep, PTL DEF Spec
-----------------------------------------------------------------------------
(* What a consumer has in hand, by its place in the loop *)

\* Only a scan leaves dead letters to write, only a batch messages to handle and
\* acknowledge: between two rounds, and outside the loop, nothing is in hand.
LocalOK(c) ==
    /\ pc[c] \in {"top", "read", "ended", "dead", "stopped"} => todo[c] = {}
    /\ pc[c] \in {"top", "doom", "doomAck", "xclaim", "read", "ended", "dead",
                   "stopped"} => acks[c] = {}
    /\ pc[c] \notin {"doom", "doomAck"} => doomed[c] = {}

LEMMA LocalStep ==
    ASSUME TypeOK, NEW c \in Consumers, LocalOK(c), ConsumerStep(c)
    PROVE  LocalOK(c)'
<1> USE DEF TypeOK, LocalOK, Goto, Leave, loop
<1>1. ASSUME Scan(c) PROVE LocalOK(c)'
    BY <1>1 DEF Scan
<1>2. ASSUME DoomAdd(c) PROVE LocalOK(c)'
    BY <1>2 DEF DoomAdd
<1>3. ASSUME DoomAck(c) PROVE LocalOK(c)'
    BY <1>3 DEF DoomAck
<1>4. ASSUME DoomDone(c) PROVE LocalOK(c)'
    BY <1>4 DEF DoomDone
<1>5. ASSUME XClaim(c) PROVE LocalOK(c)'
    BY <1>5 DEF XClaim
<1>6. ASSUME Read(c) PROVE LocalOK(c)'
    <2>1. /\ pc[c] = "read" /\ acks' = acks /\ doomed' = doomed
          /\ \/ pc'[c] = "top" /\ todo' = todo
             \/ pc'[c] = "handle"
        BY <1>6 DEF Read
    <2> QED
        BY <2>1
<1>7. ASSUME HandleOk(c) PROVE LocalOK(c)'
    BY <1>7 DEF HandleOk
<1>8. ASSUME HandleLate(c) PROVE LocalOK(c)'
    BY <1>8 DEF HandleLate
<1>9. ASSUME HandlePoison(c) PROVE LocalOK(c)'
    BY <1>9 DEF HandlePoison
<1>10. ASSUME HandleRaise(c) PROVE LocalOK(c)'
    BY <1>10 DEF HandleRaise
<1>11. ASSUME CountDeliveries(c) PROVE LocalOK(c)'
    BY <1>11 DEF CountDeliveries
<1>12. ASSUME LastAdd(c) PROVE LocalOK(c)'
    BY <1>12 DEF LastAdd, ReturnTrue
<1>13. ASSUME LastAck(c) PROVE LocalOK(c)'
    BY <1>13 DEF LastAck, ReturnTrue
<1>14. ASSUME AckBatch(c) PROVE LocalOK(c)'
    BY <1>14 DEF AckBatch
<1>15. ASSUME Exit(c) PROVE LocalOK(c)'
    BY <1>15 DEF Exit
<1>16. ASSUME Stop(c) PROVE LocalOK(c)'
    BY <1>16 DEF Stop
<1>17. ASSUME LoopError(c) \/ Crash(c) PROVE LocalOK(c)'
    BY <1>17 DEF LoopError, Crash
<1>18. ASSUME Restart(c) PROVE LocalOK(c)'
    BY <1>18 DEF Restart
<1> QED
    BY <1>1, <1>2, <1>3, <1>4, <1>5, <1>6, <1>7, <1>8, <1>9,
       <1>10, <1>11, <1>12, <1>13, <1>14, <1>15, <1>16, <1>17, <1>18
    DEF ConsumerStep, LoopStep

LEMMA LocalInvariance == Spec => [](TypeOK /\ \A c \in Consumers : LocalOK(c))
<1> DEFINE I == TypeOK /\ \A c \in Consumers : LocalOK(c)
<1>1. Init => I
    BY TypeInit DEF Init, LocalOK
<1>2. I /\ [Next]_vars => I'
    <2> SUFFICES ASSUME I, [Next]_vars PROVE I'
        OBVIOUS
    <2>1. TypeOK'
        BY TypeStep
    <2>2. ASSUME NEW c \in Consumers, ConsumerStep(c), NEW d \in Consumers
          PROVE  LocalOK(d)'
        <3>1. CASE d = c
            BY <2>2, <3>1, LocalStep
        <3>2. CASE d # c
            <4>1. UNCHANGED Own(d)
                BY <2>2, <3>2, OthersUntouched
            <4> QED
                BY <4>1 DEF Own, LocalOK
        <3> QED
            BY <3>1, <3>2
    <2>3. CASE Publish \/ Tick \/ UNCHANGED vars
        <3>1. UNCHANGED loop
            BY <2>3 DEF Publish, Tick, vars
        <3> QED
            BY <2>1, <3>1 DEF LocalOK, loop
    <2> QED
        BY <2>1, <2>2, <2>3 DEF Next, ConsumerStep
<1> QED
    BY <1>1, <1>2, PTL DEF Spec

\* A consumer that left on its stop event has acknowledged all it handled and holds
\* nothing it claimed or read.
THEOREM GracefulStop == Spec => []StopLeavesNothingInHand
<1>1. (TypeOK /\ \A c \in Consumers : LocalOK(c)) => StopLeavesNothingInHand
    BY DEF LocalOK, StopLeavesNothingInHand
<1> QED
    BY <1>1, LocalInvariance, PTL

-----------------------------------------------------------------------------
(* The delivery contract *)

\* The inductive invariant behind ImplementsContract: what is delivered was published,
\* and what is acknowledged is accounted for.
ContractInv == DlqInv /\ LossInv /\ cursor <= published

\* The group delivers nothing beyond the newest message.
LEMMA CursorStep ==
    ASSUME TypeOK, cursor <= published, [Next]_vars
    PROVE  cursor' <= published'
<1>1. CASE Publish
    <2>1. cursor' = cursor /\ published' = published + 1
        BY <1>1 DEF Publish, group
    <2> QED
        BY <2>1 DEF TypeOK
<1>2. CASE Tick \/ UNCHANGED vars
    BY <1>2 DEF Tick, vars, stream, group
<1>3. ASSUME NEW c \in Consumers, Read(c) PROVE cursor' <= published'
    <2> DEFINE fresh == Lowest({m \in Ids : m > cursor /\ m >= first
                                            /\ m <= published}, Batch)
    <2>1. \A m \in fresh : m <= published
        BY DEF Lowest
    <2> HIDE DEF fresh
    <2>2. published' = published /\ (cursor' = cursor \/ \E last \in fresh : cursor' = last)
        BY <1>3 DEF Read, fresh, stream, group
    <2> QED
        BY <2>1, <2>2
<1>4. ASSUME NEW c \in Consumers, ~Read(c),
             LoopStep(c) \/ Stop(c) \/ LoopError(c) \/ Crash(c) \/ Restart(c)
      PROVE  UNCHANGED <<cursor, published>>
    BY <1>4 DEF LoopStep, stream, group, Scan, DoomAdd, DoomAck, DoomDone, XClaim,
       HandleOk, HandleLate, HandlePoison, HandleRaise, CountDeliveries, LastAdd, LastAck,
       AckBatch, Exit, Stop, LoopError, Crash, Restart, Xack
<1> QED
    BY <1>1, <1>2, <1>3, <1>4 DEF Next, LoopStep

\* A step that publishes, runs, parks and acknowledges nothing is a stutter of the
\* contract.
LEMMA ContractStutter ==
    ASSUME UNCHANGED <<stream, dlq, handled, acked>>
    PROVE  UNCHANGED Contract!vars
    BY DEF Contract!vars, stream

\* A trim that moves the oldest id on drops a prefix that ends before the retention.
LEMMA TrimmedPrefix ==
    ASSUME NEW N \in Nat, NEW p \in 0 .. N, p < N, NEW k \in Nat \ {0},
           NEW old \in 1 .. N + 1, NEW new \in Int, old <= new,
           new = old \/ new <= p - k + 2
    PROVE  \E n \in 0 .. N : /\ n = 0 \/ n <= (p + 1) - k
                             /\ 1 .. new - 1 = (1 .. old - 1) \cup 1 .. n
<1>1. CASE new = old
    <2>1. 1 .. new - 1 = (1 .. old - 1) \cup 1 .. 0
        BY <1>1
    <2> QED
        BY <2>1
<1>2. CASE new <= p - k + 2
    <2>1. new - 1 \in 0 .. N /\ new - 1 <= (p + 1) - k
        BY <1>2
    <2>2. 1 .. new - 1 = (1 .. old - 1) \cup 1 .. new - 1
        OBVIOUS
    <2> QED
        BY <2>1, <2>2
<1> QED
    BY <1>1, <1>2

\* Publishing is an offer: what it trims lies beyond the retention.
LEMMA ContractOffer ==
    ASSUME TypeOK, Publish
    PROVE  Contract!Offer
<1>1. /\ published \in 0 .. MaxMsgs /\ published < MaxMsgs /\ published' = published + 1
      /\ first \in 1 .. MaxMsgs + 1
      /\ first' \in first .. Larger(first, published - Retention + 2)
      /\ UNCHANGED <<dlq, handled, acked>>
      /\ MaxMsgs \in Nat /\ Retention \in Nat \ {0}
    BY BusAssumption DEF TypeOK, Publish, group, effects
<1>2. /\ first \in Int /\ first' \in Int /\ published \in Int /\ 1 <= first /\ first <= first'
      /\ first' = first \/ first' <= published - Retention + 2
    <2>1. first' <= Larger(first, published - Retention + 2)
        BY <1>1 DEF Larger
    <2> QED
        BY <1>1, <2>1 DEF Larger
<1>3. PICK n \in 0 .. MaxMsgs : /\ n = 0 \/ n <= published' - Retention
                                /\ 1 .. first' - 1 = (1 .. first - 1) \cup 1 .. n
    BY <1>1, <1>2, TrimmedPrefix
<1> QED
    BY <1>1, <1>3 DEF Contract!Offer

\* A completed handler run is a run of a published message.
LEMMA ContractRun ==
    ASSUME ContractInv, NEW c \in Consumers, HandleOk(c) \/ HandleLate(c)
    PROVE  \E m \in Ids : Contract!Run(m)
<1>1. PICK m \in todo[c] : handled' = [handled EXCEPT ![m] = @ + 1]
    BY DEF HandleOk, HandleLate
<1>2. UNCHANGED <<stream, dlq, acked>>
    BY DEF HandleOk, HandleLate, group
<1>3. /\ m <= cursor /\ cursor <= published /\ m \in Ids
      /\ m \in Int /\ cursor \in Int /\ published \in Int
    BY DEF ContractInv, DlqInv, InHandOK, TypeOK, Ids
<1>4. m <= published
    BY <1>3
<1> QED
    BY <1>1, <1>2, <1>3, <1>4 DEF Contract!Run, stream

\* A write to the dead-letter stream parks a published message.
LEMMA ContractPark ==
    ASSUME ContractInv, NEW c \in Consumers, DoomAdd(c) \/ LastAdd(c)
    PROVE  (\E m \in Ids : Contract!Park(m)) \/ UNCHANGED Contract!vars
<1>1. PICK m \in doomed[c] \cup todo[c] :
         dlq' = dlq \/ dlq' = [dlq EXCEPT ![m] = @ + 1]
    BY DEF DoomAdd, LastAdd
<1>2. UNCHANGED <<stream, handled, acked>>
    BY DEF DoomAdd, LastAdd, group
<1>3. /\ m <= cursor /\ cursor <= published /\ m \in Ids
      /\ m \in Int /\ cursor \in Int /\ published \in Int
    BY DEF ContractInv, DlqInv, InHandOK, TypeOK, Ids
<1>4. m <= published
    BY <1>3
<1>5. CASE dlq' = [dlq EXCEPT ![m] = @ + 1]
    <2>1. \A k \in Ids : dlq'[k] = IF k = m THEN dlq[k] + 1 ELSE dlq[k]
        BY <1>5 DEF ContractInv, DlqInv, TypeOK
    <2>2. dlq[m] \in Nat
        BY <1>3 DEF ContractInv, DlqInv, TypeOK
    <2>3. {k \in Ids : dlq'[k] > 0} = {k \in Ids : dlq[k] > 0} \cup {m}
        BY <1>3, <2>1, <2>2
    <2> QED
        BY <1>2, <1>3, <1>4, <2>3 DEF Contract!Park, stream
<1>6. CASE dlq' = dlq
    BY <1>2, <1>6, ContractStutter
<1> QED
    BY <1>1, <1>5, <1>6

\* An acknowledgement settles what was handled or dead lettered.
LEMMA ContractSettle ==
    ASSUME ContractInv, NEW S \in SUBSET Ids, \A m \in S : Accounted(m),
           acked' = acked \cup (S \cap pending), UNCHANGED <<stream, dlq, handled>>
    PROVE  \E T \in SUBSET Ids : Contract!Settle(T)
<1>1. \A m \in pending : /\ m <= cursor /\ cursor <= published
                         /\ m \in Ids /\ m \in Int /\ cursor \in Int /\ published \in Int
    BY DEF ContractInv, DlqInv, SharedOK, TypeOK, Ids
<1>2. \A m \in S \cap pending :
         m <= published /\ (handled[m] > 0 \/ m \in {k \in Ids : dlq[k] > 0})
    BY <1>1 DEF Accounted
<1>3. Contract!Settle(S \cap pending)
    BY <1>2 DEF Contract!Settle, stream
<1> QED
    BY <1>3

\* The three acknowledgements of the loop.
LEMMA ContractAck ==
    ASSUME ContractInv, NEW c \in Consumers, DoomAck(c) \/ LastAck(c) \/ AckBatch(c)
    PROVE  (\E T \in SUBSET Ids : Contract!Settle(T)) \/ UNCHANGED Contract!vars
<1>1. UNCHANGED <<stream, dlq, handled>>
    BY DEF DoomAck, LastAck, AckBatch, effects
<1>2. /\ todo[c] \subseteq Ids /\ doomed[c] \subseteq Ids /\ acks[c] \subseteq Ids
      /\ AcksOK(c)
    BY DEF ContractInv, LossInv, TypeOK
<1>3. ASSUME DoomAck(c) PROVE \/ UNCHANGED acked
                              \/ \E S \in SUBSET Ids : /\ \A m \in S : Accounted(m)
                                                       /\ acked' = acked \cup (S \cap pending)
    <2>1. PICK m \in doomed[c] : IsNext(m, doomed[c]) /\ (Xack({m}) \/ UNCHANGED group)
        BY <1>3 DEF DoomAck
    <2>2. dlq[m] > 0
        BY <1>2, <1>3, <2>1 DEF AcksOK, DoomAck
    <2> QED
        BY <1>2, <2>1, <2>2 DEF Xack, Accounted, group
<1>4. ASSUME LastAck(c) PROVE \/ UNCHANGED acked
                              \/ \E S \in SUBSET Ids : /\ \A m \in S : Accounted(m)
                                                       /\ acked' = acked \cup (S \cap pending)
    <2>1. PICK m \in todo[c] : IsNext(m, todo[c]) /\ (Xack({m}) \/ UNCHANGED group)
        BY <1>4 DEF LastAck
    <2>2. dlq[m] > 0
        BY <1>2, <1>4, <2>1 DEF AcksOK, LastAck
    <2> QED
        BY <1>2, <2>1, <2>2 DEF Xack, Accounted, group
<1>5. ASSUME AckBatch(c) PROVE \E S \in SUBSET Ids : /\ \A m \in S : Accounted(m)
                                                     /\ acked' = acked \cup (S \cap pending)
    BY <1>2, <1>5 DEF AckBatch, Xack, AcksOK
<1> QED
    BY <1>1, <1>3, <1>4, <1>5, ContractSettle, ContractStutter

\* Every step of producer, clock and consumers is a step of the contract.
LEMMA ContractStep ==
    ASSUME ContractInv, [Next]_vars
    PROVE  [Contract!Next]_(Contract!vars)
<1>1. CASE Publish
    BY <1>1, ContractOffer DEF ContractInv, DlqInv, Contract!Next
<1>2. CASE Tick \/ UNCHANGED vars
    <2>1. UNCHANGED <<stream, dlq, handled, acked>>
        BY <1>2 DEF Tick, vars, group, effects
    <2> QED
        BY <2>1, ContractStutter
<1>3. ASSUME NEW c \in Consumers, HandleOk(c) \/ HandleLate(c)
      PROVE  [Contract!Next]_(Contract!vars)
    BY <1>3, ContractRun DEF Contract!Next, Contract!Ids, Ids
<1>4. ASSUME NEW c \in Consumers, DoomAdd(c) \/ LastAdd(c)
      PROVE  [Contract!Next]_(Contract!vars)
    BY <1>4, ContractPark DEF Contract!Next, Contract!Ids, Ids
<1>5. ASSUME NEW c \in Consumers, DoomAck(c) \/ LastAck(c) \/ AckBatch(c)
      PROVE  [Contract!Next]_(Contract!vars)
    BY <1>5, ContractAck DEF Contract!Next, Contract!Ids, Ids
<1>6. ASSUME NEW c \in Consumers, Read(c) PROVE [Contract!Next]_(Contract!vars)
    <2>1. UNCHANGED <<stream, dlq, handled, acked>>
        BY <1>6 DEF Read, group, effects
    <2> QED
        BY <2>1, ContractStutter
<1>7. ASSUME NEW c \in Consumers,
             \/ Scan(c) \/ DoomDone(c) \/ XClaim(c) \/ HandlePoison(c) \/ HandleRaise(c)
             \/ CountDeliveries(c) \/ Exit(c) \/ Stop(c) \/ LoopError(c) \/ Crash(c) \/ Restart(c)
      PROVE  [Contract!Next]_(Contract!vars)
    <2>1. UNCHANGED <<stream, dlq, handled, acked>>
        BY <1>7 DEF Scan, DoomDone, XClaim, HandlePoison, HandleRaise, CountDeliveries,
           Exit, Stop, LoopError, Crash, Restart, group, effects
    <2> QED
        BY <2>1, ContractStutter
<1> QED
    BY <1>1, <1>2, <1>3, <1>4, <1>5, <1>6, <1>7 DEF Next, LoopStep

\* When the dead-letter writes succeed, the consumer implements the delivery contract:
\* handler runs and dead letters are of published messages, a message is acknowledged
\* only once it was handled or dead lettered, and trimming respects the retention.
THEOREM ConsumerImplementsContract == MaxXaddFaults = 0 => (Spec => ImplementsContract)
<1> SUFFICES ASSUME MaxXaddFaults = 0 PROVE Spec => ImplementsContract
    OBVIOUS
<1>1. Init => ContractInv /\ Contract!Init
    <2> SUFFICES ASSUME Init PROVE ContractInv /\ Contract!Init
        OBVIOUS
    <2>1. DlqInv /\ LossInv
        BY DlqInit, LossInit
    <2>2. cursor <= published
        BY DEF Init
    <2>3. (1 .. first - 1) = {} /\ {m \in Ids : dlq[m] > 0} = {}
        BY DEF Init
    <2>4. Contract!Init
        BY <2>3 DEF Init, Contract!Init, Contract!Ids, Ids
    <2> QED
        BY <2>1, <2>2, <2>4 DEF ContractInv
<1>2. ContractInv /\ [Next]_vars => ContractInv'
    BY DlqStep, LossInvStep, CursorStep DEF ContractInv, DlqInv
<1>3. ContractInv /\ [Next]_vars => [Contract!Next]_(Contract!vars)
    BY ContractStep
<1> QED
    BY <1>1, <1>2, <1>3, PTL DEF Spec, ImplementsContract, Contract!SafetySpec
-----------------------------------------------------------------------------
(* A single consumer *)

Alone == \A c, d \in Consumers : c = d

\* What the consumer has in hand is pending; what the scan gave up on is not also
\* to be claimed.
HoldsPending(c) ==
    doomed[c] \cup todo[c] \subseteq pending /\ doomed[c] \cap todo[c] = {}

\* What the scan chose to claim has been idle for its backoff.
RipeOK(c) ==
    pc[c] \in {"doom", "doomAck", "xclaim"} =>
        \A m \in todo[c] : idle[m] >= BackoffIdle(ClaimIdle, count[m])

\* The message is on the dead-letter stream and its acknowledgement comes next.
Between(m) ==
    \E c \in Consumers : \/ pc[c] = "doomAck" /\ IsNext(m, doomed[c])
                         \/ pc[c] = "lastAck" /\ IsNext(m, todo[c])

\* Only an entry whose acknowledgement went through, or comes next, is not yet paid
\* for by a failure.
EntriesOK(m) ==
    \/ dlq[m] <= faults + crashes
    \/ dlq[m] = faults + crashes + 1 /\ (m \notin pending \/ Between(m))

\* The inductive invariant behind DlqEntriesBounded and BackoffHonoured.
SoloInv ==
    /\ DlqInv
    /\ \A c \in Consumers : LocalOK(c) /\ HoldsPending(c) /\ RipeOK(c)
    /\ \A m \in Ids : EntriesOK(m)

LEMMA HoldsStep ==
    ASSUME TypeOK, NEW c \in Consumers, LocalOK(c), HoldsPending(c), ConsumerStep(c)
    PROVE  HoldsPending(c)'
<1> USE BusAssumption DEF TypeOK, LocalOK, HoldsPending, Goto, Leave, loop, group
<1>1. ASSUME Scan(c) PROVE HoldsPending(c)'
    <2>1. \A m \in pending : count[m] \in Int /\ MaxAttempts \in Int
        OBVIOUS
    <2> QED
        BY <1>1, <2>1 DEF Scan, Lowest
<1>2. ASSUME DoomAdd(c) PROVE HoldsPending(c)'
    BY <1>2 DEF DoomAdd
<1>3. ASSUME DoomAck(c) PROVE HoldsPending(c)'
    BY <1>3 DEF DoomAck, Xack
<1>4. ASSUME DoomDone(c) PROVE HoldsPending(c)'
    BY <1>4 DEF DoomDone
<1>5. ASSUME XClaim(c) PROVE HoldsPending(c)'
    BY <1>5 DEF XClaim
<1>6. ASSUME Read(c) PROVE HoldsPending(c)'
    <2>1. CASE pc'[c] = "handle"
        BY <1>6, <2>1, ReadDelivers DEF Read
    <2>2. CASE pc'[c] # "handle"
        BY <1>6, <2>2, ReadNothing
    <2> QED
        BY <2>1, <2>2
<1>7. ASSUME HandleOk(c) PROVE HoldsPending(c)'
    BY <1>7 DEF HandleOk
<1>8. ASSUME HandleLate(c) PROVE HoldsPending(c)'
    BY <1>8 DEF HandleLate
<1>9. ASSUME HandlePoison(c) PROVE HoldsPending(c)'
    BY <1>9 DEF HandlePoison
<1>10. ASSUME HandleRaise(c) PROVE HoldsPending(c)'
    BY <1>10 DEF HandleRaise
<1>11. ASSUME CountDeliveries(c) PROVE HoldsPending(c)'
    BY <1>11 DEF CountDeliveries
<1>12. ASSUME LastAdd(c) PROVE HoldsPending(c)'
    BY <1>12 DEF LastAdd, ReturnTrue
<1>13. ASSUME LastAck(c) PROVE HoldsPending(c)'
    BY <1>13 DEF LastAck, ReturnTrue, Xack
<1>14. ASSUME AckBatch(c) PROVE HoldsPending(c)'
    BY <1>14 DEF AckBatch, Xack
<1>15. ASSUME Exit(c) PROVE HoldsPending(c)'
    BY <1>15 DEF Exit
<1>16. ASSUME Stop(c) PROVE HoldsPending(c)'
    BY <1>16 DEF Stop
<1>17. ASSUME LoopError(c) \/ Crash(c) PROVE HoldsPending(c)'
    BY <1>17 DEF LoopError, Crash
<1>18. ASSUME Restart(c) PROVE HoldsPending(c)'
    BY <1>18 DEF Restart
<1> QED
    BY <1>1, <1>2, <1>3, <1>4, <1>5, <1>6, <1>7, <1>8, <1>9,
       <1>10, <1>11, <1>12, <1>13, <1>14, <1>15, <1>16, <1>17, <1>18
    DEF ConsumerStep, LoopStep

LEMMA RipeStep ==
    ASSUME TypeOK, NEW c \in Consumers, LocalOK(c), RipeOK(c), ConsumerStep(c)
    PROVE  RipeOK(c)'
<1> USE DEF TypeOK, LocalOK, RipeOK, Goto, Leave, loop, group
<1>1. ASSUME Scan(c) PROVE RipeOK(c)'
    BY <1>1 DEF Scan, Lowest
<1>2. ASSUME DoomAdd(c) PROVE RipeOK(c)'
    BY <1>2 DEF DoomAdd
<1>3. ASSUME DoomAck(c) PROVE RipeOK(c)'
    BY <1>3 DEF DoomAck, Xack
<1>4. ASSUME DoomDone(c) PROVE RipeOK(c)'
    BY <1>4 DEF DoomDone
<1>5. ASSUME XClaim(c) PROVE RipeOK(c)'
    BY <1>5 DEF XClaim
<1>6. ASSUME Read(c) PROVE RipeOK(c)'
    <2>1. pc'[c] \in {"top", "handle"}
        BY <1>6 DEF Read
    <2> QED
        BY <2>1
<1>7. ASSUME HandleOk(c) PROVE RipeOK(c)'
    BY <1>7 DEF HandleOk
<1>8. ASSUME HandleLate(c) PROVE RipeOK(c)'
    BY <1>8 DEF HandleLate
<1>9. ASSUME HandlePoison(c) PROVE RipeOK(c)'
    BY <1>9 DEF HandlePoison
<1>10. ASSUME HandleRaise(c) PROVE RipeOK(c)'
    BY <1>10 DEF HandleRaise
<1>11. ASSUME CountDeliveries(c) PROVE RipeOK(c)'
    BY <1>11 DEF CountDeliveries
<1>12. ASSUME LastAdd(c) PROVE RipeOK(c)'
    BY <1>12 DEF LastAdd, ReturnTrue
<1>13. ASSUME LastAck(c) PROVE RipeOK(c)'
    BY <1>13 DEF LastAck, ReturnTrue, Xack
<1>14. ASSUME AckBatch(c) PROVE RipeOK(c)'
    BY <1>14 DEF AckBatch, Xack
<1>15. ASSUME Exit(c) PROVE RipeOK(c)'
    BY <1>15 DEF Exit
<1>16. ASSUME Stop(c) PROVE RipeOK(c)'
    BY <1>16 DEF Stop
<1>17. ASSUME LoopError(c) \/ Crash(c) PROVE RipeOK(c)'
    BY <1>17 DEF LoopError, Crash
<1>18. ASSUME Restart(c) PROVE RipeOK(c)'
    BY <1>18 DEF Restart
<1> QED
    BY <1>1, <1>2, <1>3, <1>4, <1>5, <1>6, <1>7, <1>8, <1>9,
       <1>10, <1>11, <1>12, <1>13, <1>14, <1>15, <1>16, <1>17, <1>18
    DEF ConsumerStep, LoopStep

\* An acknowledgement that goes through pays for the entry; so does a failure.
LEMMA EntriesKept ==
    ASSUME TypeOK, TypeOK', NEW m \in Ids, EntriesOK(m),
           dlq'[m] = dlq[m],
           faults' \in {faults, faults + 1}, crashes' \in {crashes, crashes + 1},
           dlq[m] > 0 /\ m \notin pending => m \notin pending',
           Between(m) => \/ faults' = faults + 1 \/ crashes' = crashes + 1
                         \/ m \notin pending'
    PROVE  EntriesOK(m)'
<1>1. faults \in Nat /\ crashes \in Nat /\ dlq[m] \in Nat
    BY DEF TypeOK
<1>2. dlq[m] <= faults + crashes + 1
    BY <1>1 DEF EntriesOK
<1>3. CASE faults' = faults + 1 /\ crashes' \in {crashes, crashes + 1}
    <2>1. CASE crashes' = crashes
        BY <1>1, <1>2, <1>3, <2>1 DEF EntriesOK
    <2>2. CASE crashes' = crashes + 1
        BY <1>1, <1>2, <1>3, <2>2 DEF EntriesOK
    <2> QED
        BY <1>3, <2>1, <2>2
<1>4. CASE faults' = faults /\ crashes' = crashes + 1
    BY <1>1, <1>2, <1>4 DEF EntriesOK
<1>5. CASE faults' = faults /\ crashes' = crashes
    <2>1. ~(dlq[m] <= faults + crashes) => m \notin pending'
        <3>1. CASE m \notin pending
            BY <1>1, <3>1
        <3>2. CASE Between(m)
            BY <1>1, <1>5, <3>2
        <3> QED
            BY <3>1, <3>2 DEF EntriesOK
    <2> QED
        BY <1>1, <1>2, <1>5, <2>1 DEF EntriesOK
<1> QED
    BY <1>3, <1>4, <1>5

\* A dead letter is written for a message in hand that is not paid for before.
LEMMA EntriesAdded ==
    ASSUME SoloInv, TypeOK', Alone, NEW c \in Consumers, NEW k \in Ids, NEW m \in Ids,
           dlq' = [dlq EXCEPT ![k] = @ + 1], UNCHANGED <<pending, faults, crashes>>,
           pc[c] \notin {"doomAck", "lastAck"}, k \in pending, Between(k)'
    PROVE  EntriesOK(m)'
<1>1. /\ faults \in Nat /\ crashes \in Nat /\ \A n \in Ids : dlq[n] \in Nat
      /\ EntriesOK(m) /\ dlq \in [Ids -> Nat]
    BY DEF SoloInv, DlqInv, TypeOK
<1>2. ~Between(m)
    BY DEF Alone, Between
<1>3. CASE m = k
    <2>1. dlq[m] <= faults + crashes
        BY <1>1, <1>2, <1>3 DEF EntriesOK
    <2>2. dlq'[m] = dlq[m] + 1
        BY <1>1, <1>3
    <2> QED
        BY <1>1, <1>3, <2>1, <2>2 DEF EntriesOK
<1>4. CASE m # k
    <2>1. dlq'[m] = dlq[m]
        BY <1>1, <1>4
    <2> QED
        BY <1>1, <1>2, <2>1 DEF EntriesOK
<1> QED
    BY <1>3, <1>4

LEMMA EntriesStep ==
    ASSUME SoloInv, TypeOK', Alone, NEW c \in Consumers, ConsumerStep(c), NEW m \in Ids
    PROVE  EntriesOK(m)'
<1>0. /\ TypeOK /\ SharedOK /\ EntriesOK(m) /\ LocalOK(c) /\ HoldsPending(c)
      /\ faults \in Nat /\ crashes \in Nat
      /\ doomed[c] \subseteq Ids /\ todo[c] \subseteq Ids
    BY DEF SoloInv, DlqInv, TypeOK
<1>a. pc[c] \notin {"doomAck", "lastAck"} => ~Between(m)
    BY DEF Alone, Between
<1>b. \A S \in SUBSET Ids, k, n \in Ids : IsNext(k, S) /\ IsNext(n, S) => k = n
    BY BusAssumption DEF IsNext, Ids
<1>1. CASE DoomAdd(c) /\ pc'[c] = "doomAck"
    <2>1. PICK k \in doomed[c] : /\ IsNext(k, doomed[c])
                                 /\ dlq' = [dlq EXCEPT ![k] = @ + 1]
        BY <1>0, <1>1 DEF DoomAdd, TypeOK
    <2>2. UNCHANGED <<pending, faults, crashes>> /\ pc[c] = "doom"
        BY <1>1 DEF DoomAdd, group
    <2>3. doomed' = doomed
        BY <1>1, <1>0 DEF DoomAdd, TypeOK
    <2>4. k \in pending /\ k \in Ids
        BY <1>0 DEF HoldsPending
    <2>5. Between(k)'
        BY <1>1, <2>1, <2>3 DEF Between, IsNext
    <2> QED
        BY <2>1, <2>2, <2>4, <2>5, EntriesAdded
<1>2. CASE LastAdd(c) /\ pc'[c] = "lastAck"
    <2>1. PICK k \in todo[c] : /\ IsNext(k, todo[c])
                               /\ dlq' = [dlq EXCEPT ![k] = @ + 1] /\ todo' = todo
        BY <1>0, <1>2 DEF LastAdd, ReturnTrue, Goto, TypeOK
    <2>2. UNCHANGED <<pending, faults, crashes>> /\ pc[c] = "lastAdd"
        BY <1>2 DEF LastAdd, group
    <2>3. k \in pending /\ k \in Ids
        BY <1>0 DEF HoldsPending
    <2>4. Between(k)'
        BY <1>2, <2>1 DEF Between, IsNext
    <2> QED
        BY <2>1, <2>2, <2>3, <2>4, EntriesAdded
<1>3. CASE \/ DoomAdd(c) /\ pc'[c] # "doomAck"
           \/ LastAdd(c) /\ pc'[c] # "lastAck"
    <2>1. UNCHANGED <<dlq, pending, faults, crashes>> /\ pc[c] \in {"doom", "lastAdd"}
        BY <1>0, <1>3 DEF DoomAdd, LastAdd, ReturnTrue, Goto, group, TypeOK
    <2> QED
        BY <1>0, <1>a, <2>1, EntriesKept
<1>4. CASE DoomAck(c) \/ LastAck(c)
    <2>1. PICK k \in doomed[c] \cup todo[c] :
             /\ (DoomAck(c) /\ IsNext(k, doomed[c])) \/ (LastAck(c) /\ IsNext(k, todo[c]))
             /\ \/ pending' = pending \ {k} /\ faults' = faults
                \/ pending' = pending /\ faults' = faults + 1
        <3>1. CASE DoomAck(c)
            BY <3>1 DEF DoomAck, Xack, group
        <3>2. CASE LastAck(c)
            BY <3>2 DEF LastAck, Xack, group
        <3> QED
            BY <1>4, <3>1, <3>2
    <2>2. dlq' = dlq /\ crashes' = crashes
        BY <1>4 DEF DoomAck, LastAck, effects
    <2>3. ASSUME Between(m) PROVE m = k
        <3>1. \/ DoomAck(c) /\ pc[c] = "doomAck" /\ IsNext(m, doomed[c])
              \/ LastAck(c) /\ pc[c] = "lastAck" /\ IsNext(m, todo[c])
            BY <1>4, <2>3 DEF Between, Alone, DoomAck, LastAck
        <3>2. k \in Ids
            BY <1>0
        <3> QED
            BY <1>0, <1>b, <2>1, <3>1, <3>2 DEF DoomAck, LastAck
    <2> QED
        BY <1>0, <2>1, <2>2, <2>3, EntriesKept
<1>5. CASE LoopError(c) \/ Crash(c)
    <2>1. UNCHANGED <<dlq, pending, faults>> /\ crashes' = crashes + 1
        BY <1>5 DEF LoopError, Crash, group, effects
    <2> QED
        BY <1>0, <2>1, EntriesKept
<1>6. CASE Stop(c)
    <2>1. UNCHANGED <<dlq, pending, faults, crashes, pc, doomed, todo>>
        BY <1>6 DEF Stop, group, effects, loop, budget
    <2> QED
        BY <1>0, <2>1 DEF EntriesOK, Between, IsNext
<1>7. CASE Read(c)
    <2>1. dlq' = dlq /\ faults' = faults /\ crashes' = crashes /\ pc[c] = "read"
        BY <1>7 DEF Read, effects, budget
    <2>2. dlq[m] > 0 /\ m \notin pending => m \notin pending'
        <3>1. CASE pc'[c] = "handle"
            <4>1. PICK fresh \in SUBSET Ids : /\ \A n \in fresh : n > cursor
                                              /\ pending' = pending \cup fresh
                BY <1>0, <1>7, <3>1, ReadDelivers
            <4>2. dlq[m] > 0 => m <= cursor
                BY <1>0 DEF SharedOK
            <4>3. m \in Int /\ cursor \in Int
                BY <1>0 DEF TypeOK, Ids
            <4> QED
                BY <4>1, <4>2, <4>3
        <3>2. CASE pc'[c] # "handle"
            BY <1>0, <1>7, <3>2, ReadNothing DEF group
        <3> QED
            BY <3>1, <3>2
    <2> QED
        BY <1>0, <1>a, <2>1, <2>2, EntriesKept
<1>8. CASE \/ Scan(c) \/ DoomDone(c) \/ XClaim(c) \/ HandleOk(c) \/ HandleLate(c)
           \/ HandlePoison(c) \/ HandleRaise(c) \/ CountDeliveries(c) \/ AckBatch(c)
           \/ Exit(c) \/ Restart(c)
    <2>1. /\ dlq' = dlq /\ crashes' = crashes /\ faults' \in {faults, faults + 1}
          /\ pending' \subseteq pending /\ pc[c] \notin {"doomAck", "lastAck"}
        BY <1>8 DEF Scan, DoomDone, XClaim, HandleOk, HandleLate, HandlePoison,
           HandleRaise, CountDeliveries, AckBatch, Exit, Restart, Xack, group, effects, budget
    <2> QED
        BY <1>0, <1>a, <2>1, EntriesKept
<1> QED
    BY <1>1, <1>2, <1>3, <1>4, <1>5, <1>6, <1>7, <1>8 DEF ConsumerStep, LoopStep

LEMMA BackoffType ==
    ASSUME NEW n \in Nat
    PROVE  BackoffIdle(ClaimIdle, n) \in Int
<1>1. ClaimIdle \in Nat /\ BackoffMax \in Nat
    BY BusAssumption
<1>2. CASE n <= 1
    BY <1>1, <1>2 DEF BackoffIdle
<1>3. CASE ~(n <= 1)
    <2> DEFINE e == n - 1
    <2>1. e \in Nat
        BY <1>3
    <2> HIDE DEF e
    <2>2. 2 ^ e \in Int
        BY <2>1
    <2>3. BackoffIdle(ClaimIdle, n) = Smaller(ClaimIdle * 2 ^ e, BackoffMax)
        BY <1>3 DEF BackoffIdle, e
    <2>4. ClaimIdle * 2 ^ e \in Int
        BY <1>1, <2>2
    <2> QED
        BY <1>1, <2>3, <2>4 DEF Smaller
<1> QED
    BY <1>2, <1>3

LEMMA SoloQuietStep ==
    ASSUME SoloInv, Publish \/ Tick \/ UNCHANGED vars
    PROVE  SoloInv'
<1>1. DlqInv'
    BY DlqQuietStep DEF SoloInv
<1>2. UNCHANGED <<pending, count, dlq, loop, faults, crashes>>
    BY DEF Publish, Tick, vars, group, effects, budget
<1>3. \A m \in Ids : EntriesOK(m)'
    BY <1>2 DEF SoloInv, EntriesOK, Between, IsNext, loop
<1>4. \A c \in Consumers : LocalOK(c)' /\ HoldsPending(c)'
    BY <1>2 DEF SoloInv, LocalOK, HoldsPending, loop
<1>5. \A m \in Ids : idle'[m] >= idle[m] /\ idle[m] \in Nat /\ idle'[m] \in Nat
    BY DEF SoloInv, DlqInv, TypeOK, Publish, Tick, vars, group
<1>6. \A c \in Consumers : RipeOK(c)'
    <2> SUFFICES ASSUME NEW c \in Consumers, pc'[c] \in {"doom", "doomAck", "xclaim"},
                        NEW m \in todo'[c]
                 PROVE  idle'[m] >= BackoffIdle(ClaimIdle, count'[m])
        BY DEF RipeOK
    <2>1. m \in todo[c] /\ pc[c] \in {"doom", "doomAck", "xclaim"} /\ m \in Ids
        BY <1>2 DEF loop, SoloInv, DlqInv, TypeOK
    <2>2. idle[m] >= BackoffIdle(ClaimIdle, count[m])
        BY <2>1 DEF SoloInv, RipeOK
    <2>3. BackoffIdle(ClaimIdle, count[m]) \in Int
        BY <2>1, BackoffType DEF SoloInv, DlqInv, TypeOK
    <2> QED
        BY <1>2, <1>5, <2>1, <2>2, <2>3
<1> QED
    BY <1>1, <1>3, <1>4, <1>6 DEF SoloInv

LEMMA SoloInvariance == Alone => (Spec => []SoloInv)
<1> SUFFICES ASSUME Alone PROVE Spec => []SoloInv
    OBVIOUS
<1>1. Init => SoloInv
    <2> SUFFICES ASSUME Init PROVE SoloInv
        OBVIOUS
    <2>1. DlqInv
        BY DlqInit
    <2>2. \A c \in Consumers : LocalOK(c) /\ HoldsPending(c) /\ RipeOK(c)
        BY DEF Init, LocalOK, HoldsPending, RipeOK
    <2>3. \A m \in Ids : EntriesOK(m)
        BY DEF Init, EntriesOK
    <2> QED
        BY <2>1, <2>2, <2>3 DEF SoloInv
<1>2. SoloInv /\ [Next]_vars => SoloInv'
    <2> SUFFICES ASSUME SoloInv, [Next]_vars PROVE SoloInv'
        OBVIOUS
    <2>1. DlqInv'
        BY DlqStep DEF SoloInv
    <2>2. TypeOK /\ TypeOK'
        BY <2>1 DEF SoloInv, DlqInv
    <2>3. ASSUME NEW c \in Consumers, ConsumerStep(c) PROVE SoloInv'
        <3>1. LocalOK(c)' /\ HoldsPending(c)' /\ RipeOK(c)'
            BY <2>2, <2>3, LocalStep, HoldsStep, RipeStep DEF SoloInv
        <3>2. \A d \in Consumers : d = c
            BY DEF Alone
        <3>3. \A m \in Ids : EntriesOK(m)'
            BY <2>2, <2>3, EntriesStep
        <3> QED
            BY <2>1, <3>1, <3>2, <3>3 DEF SoloInv
    <2>4. CASE Publish \/ Tick \/ UNCHANGED vars
        BY <2>4, SoloQuietStep
    <2> QED
        BY <2>3, <2>4 DEF Next, ConsumerStep
<1> QED
    BY <1>1, <1>2, PTL DEF Spec

\* A single consumer writes a message to the dead-letter stream once, plus at most once
\* for every crash and every failed acknowledgement between the two calls.
THEOREM SoloDeadLettersOnce == Alone => (Spec => []DlqEntriesBounded)
<1> SUFFICES ASSUME Alone PROVE Spec => []DlqEntriesBounded
    OBVIOUS
<1>1. SoloInv => DlqEntriesBounded
    <2> SUFFICES ASSUME SoloInv, NEW m \in Ids PROVE dlq[m] <= 1 + faults + crashes
        BY DEF DlqEntriesBounded
    <2>1. faults \in Nat /\ crashes \in Nat /\ dlq[m] \in Nat
        BY DEF SoloInv, DlqInv, TypeOK
    <2> QED
        BY <2>1 DEF SoloInv, EntriesOK
<1> QED
    BY <1>1, SoloInvariance, PTL

\* With a single consumer a message is claimed again only after the idle time that its
\* delivery count calls for, although XCLAIM itself asks for the base time only.
THEOREM SoloBackoff == Alone => (Spec => BackoffHonoured)
<1> SUFFICES ASSUME Alone PROVE Spec => BackoffHonoured
    OBVIOUS
<1>1. SoloInv /\ [Next]_vars =>
          [\A m \in Ids : count[m] > 0 /\ count'[m] > count[m] =>
              idle[m] >= BackoffIdle(ClaimIdle, count[m])]_vars
    <2> SUFFICES ASSUME SoloInv, [Next]_vars, NEW m \in Ids,
                        count[m] > 0, count'[m] > count[m]
                 PROVE  idle[m] >= BackoffIdle(ClaimIdle, count[m])
        OBVIOUS
    <2>0. TypeOK /\ count[m] \in Nat
        BY DEF SoloInv, DlqInv, TypeOK
    <2>1. ASSUME NEW c \in Consumers, XClaim(c)
          PROVE  idle[m] >= BackoffIdle(ClaimIdle, count[m])
        <3>1. m \in todo[c] /\ pc[c] = "xclaim"
            BY <2>0, <2>1 DEF XClaim
        <3> QED
            BY <3>1 DEF SoloInv, RipeOK
    <2>2. ASSUME NEW c \in Consumers, Read(c) PROVE FALSE
        <3>1. CASE pc'[c] = "handle"
            <4>1. count'[m] \in {1, count[m]}
                BY <2>0, <2>2, <3>1, ReadDelivers
            <4> QED
                BY <2>0, <4>1
        <3>2. CASE pc'[c] # "handle"
            BY <2>0, <2>2, <3>2, ReadNothing DEF group
        <3> QED
            BY <3>1, <3>2
    <2>3. CASE count' = count
        BY <2>0, <2>3
    <2>4. \/ count' = count
          \/ \E c \in Consumers : XClaim(c) \/ Read(c)
        BY DEF Next, LoopStep, vars, group, Publish, Tick, Scan, DoomAdd, DoomAck, DoomDone,
           HandleOk, HandleLate, HandlePoison, HandleRaise, CountDeliveries, LastAdd,
           LastAck, AckBatch, Exit, Stop, LoopError, Crash, Restart, Xack
    <2> QED
        BY <2>1, <2>2, <2>3, <2>4
<1> QED
    BY <1>1, SoloInvariance, PTL DEF Spec, BackoffHonoured
=============================================================================
