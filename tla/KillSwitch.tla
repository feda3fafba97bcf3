------------------------------ MODULE KillSwitch ------------------------------
(***************************************************************************)
(* The kill switch: operators trip and clear it through the API, which     *)
(* appends an alert to events.alerts and then writes the state key the     *)
(* dashboard reads (api/routes/control.py); the alert consumer of the OMS  *)
(* applies each alert to a flag in memory and writes the same key          *)
(* (risk/state.py); the flag is what check_intent reads for every intent.  *)
(*                                                                         *)
(* An alert is an index of alerts, the stream.  The stream itself is the   *)
(* one consumer group of fincept-bus, here with one consumer: a cursor, a  *)
(* pending set, a batch that is acknowledged when its last message was     *)
(* handled.  Deliveries are not counted: any alert delivered again may be  *)
(* given up on.  Left out: trimming and failed dead-letter writes          *)
(* (BusConsumer has them) and alerts with another code, which apply        *)
(* ignores.                                                                *)
(***************************************************************************)
EXTENDS Integers, Sequences, FiniteSets

CONSTANTS
    MaxAlerts,         \* bound: requests operators make
    MaxConcurrent,     \* requests the API serves at the same time
    Batch,             \* messages one XREADGROUP returns at most
    MaxCrashes,        \* bound: OMS crashes
    MaxApiFaults,      \* bound: requests that fail after the alert is out
    MaxOmsFaults       \* bound: times the alert consumer's task ends, and reads and
                       \* writes of the key by the OMS that fail

ASSUME KillSwitchAssumption ==
    /\ MaxAlerts \in Nat /\ MaxConcurrent \in Nat \ {0} /\ Batch \in Nat \ {0}
    /\ MaxCrashes \in Nat /\ MaxApiFaults \in Nat /\ MaxOmsFaults \in Nat

Ids == 1 .. MaxAlerts
Codes == {"engaged", "cleared"}   \* kill_switch_engaged, kill_switch_cleared

VARIABLES
    alerts,     \* the stream: the code of each alert; whether it is quiet, no
                \* earlier all-clear outstanding when it was published, and
                \* alone, no other request in progress then
    serving,    \* alerts whose request has yet to write the key
    recorded,   \* alerts whose request wrote the key
    key,        \* control:kill_switch:state
    up,         \* the OMS process runs
    listening,  \* its alert consumer task runs
    flag,       \* KillSwitchState._engaged
    cursor,     \* last alert delivered to the group
    pel,        \* alerts delivered and not acknowledged
    claimed,    \* alerts claim_pending found: delivered again, or given up on
    todo,       \* alerts of the batch in hand that are not handled yet
    done,       \* handled alerts of the batch in hand
    applied,    \* history: the alerts ever applied to a flag
    inForce,    \* history: the alerts whose effect the running OMS has seen
    crashes, ends, apiFaults, readFaults, writeFaults

api == <<alerts, serving, recorded, apiFaults>>
consumer == <<cursor, pel, claimed, todo, done>>
vars == <<api, key, up, listening, flag, consumer, applied, inForce,
          crashes, ends, readFaults, writeFaults>>

ApiTypes ==
    /\ alerts \in Seq([code : Codes, quiet : BOOLEAN, alone : BOOLEAN]) /\ Len(alerts) <= MaxAlerts
    /\ serving \subseteq 1 .. Len(alerts)
    /\ recorded \subseteq (1 .. Len(alerts)) \ serving

SwitchTypes ==
    /\ key \in Codes \cup {"missing"}
    /\ up \in BOOLEAN /\ listening \in BOOLEAN /\ flag \in BOOLEAN

ConsumerTypes ==
    /\ cursor \in 0 .. Len(alerts)
    /\ pel \subseteq 1 .. cursor /\ claimed \subseteq 1 .. cursor
    /\ todo \subseteq pel /\ done \subseteq pel
    /\ applied \subseteq 1 .. cursor /\ inForce \subseteq 1 .. Len(alerts)

FaultTypes ==
    /\ crashes \in 0 .. MaxCrashes /\ apiFaults \in 0 .. MaxApiFaults
    /\ ends \in 0 .. MaxOmsFaults
    /\ readFaults \in Nat /\ writeFaults \in Nat
    /\ readFaults + writeFaults <= MaxOmsFaults

TypeOK == ApiTypes /\ SwitchTypes /\ ConsumerTypes /\ FaultTypes

Init ==
    /\ alerts = <<>> /\ serving = {} /\ recorded = {} /\ key = "missing"
    /\ up = FALSE /\ listening = FALSE /\ flag = FALSE
    /\ cursor = 0 /\ pel = {} /\ claimed = {} /\ todo = {} /\ done = {}
    /\ applied = {} /\ inForce = {}
    /\ crashes = 0 /\ ends = 0 /\ apiFaults = 0 /\ readFaults = 0 /\ writeFaults = 0

Engaged(i) == alerts[i].code = "engaged"
Cleared(i) == alerts[i].code = "cleared"

\* Alerts that are not settled: unread, pending or with a request in progress.
Outstanding == (cursor + 1 .. Len(alerts)) \cup pel \cup serving

\* Something may still fail in the OMS.
OmsFault == ends + readFaults + writeFaults < MaxOmsFaults

-----------------------------------------------------------------------------
(* The API *)

\* trip_kill_switch and clear_kill_switch, first half: the alert is published.
EmitAlert(code) ==
    /\ Len(alerts) < MaxAlerts
    /\ Cardinality(serving) < MaxConcurrent
    /\ alerts' = Append(alerts,
                    [code |-> code, quiet |-> \A i \in Outstanding : ~Cleared(i),
                     alone |-> serving = {}])
    /\ serving' = serving \cup {Len(alerts')}
    /\ UNCHANGED <<recorded, key, up, listening, flag, consumer, applied, inForce,
                   crashes, ends, apiFaults, readFaults, writeFaults>>

\* Second half: the state key is written, whatever it holds by now.
RecordState(i) ==
    /\ i \in serving
    /\ key' = alerts[i].code
    /\ serving' = serving \ {i}
    /\ recorded' = recorded \cup {i}
    /\ UNCHANGED <<alerts, up, listening, flag, consumer, applied, inForce,
                   crashes, ends, apiFaults, readFaults, writeFaults>>

\* The write fails or the API goes down before it: the operator sees an error.
RequestFails(i) ==
    /\ i \in serving /\ apiFaults < MaxApiFaults
    /\ serving' = serving \ {i}
    /\ apiFaults' = apiFaults + 1
    /\ UNCHANGED <<alerts, recorded, key, up, listening, flag, consumer, applied,
                   inForce, crashes, ends, readFaults, writeFaults>>

-----------------------------------------------------------------------------
(* The OMS *)

\* Faulty variant for mutation runs: the switch lives in memory only.
StartDisengaged ==
    /\ ~up
    /\ up' = TRUE /\ listening' = TRUE /\ flag' = FALSE
    /\ inForce' = recorded
    /\ UNCHANGED <<api, key, consumer, applied, crashes, ends, readFaults, writeFaults>>

\* A process starts: KillSwitchState reads the key, then the consumers run.  A
\* failed read engages the switch, a missing key leaves it off.
Start ==
    /\ ~up
    /\ up' = TRUE /\ listening' = TRUE
    /\ \/ flag' = (key = "engaged") /\ UNCHANGED readFaults
       \/ OmsFault /\ readFaults' = readFaults + 1 /\ flag' = TRUE
    /\ inForce' = recorded
    /\ UNCHANGED <<api, key, consumer, applied, crashes, ends, writeFaults>>

Crash ==
    /\ up /\ crashes < MaxCrashes
    /\ crashes' = crashes + 1
    /\ up' = FALSE /\ listening' = FALSE /\ flag' = FALSE
    /\ todo' = {} /\ done' = {} /\ inForce' = {}
    /\ UNCHANGED <<api, key, cursor, pel, claimed, applied, ends, readFaults,
                   writeFaults>>

Idle == up /\ listening /\ todo = {} /\ done = {}

\* claim_pending: pending alerts whose backoff has passed are handled again.  Of
\* those never claimed, the ones delivered first have been idle longest.
ClaimStale ==
    /\ Idle
    /\ \E S \in (SUBSET pel) \ {{}} :
          /\ \A i \in S \ claimed, j \in pel \ claimed : j < i => j \in S
          /\ todo' = S
          /\ claimed' = claimed \cup S
    /\ UNCHANGED <<api, key, up, listening, flag, cursor, pel, done, applied, inForce,
                   crashes, ends, readFaults, writeFaults>>

\* claim_pending: a pending alert whose delivery was its last attempt (its process
\* died or its acknowledgement failed) goes to the dead-letter stream and is acknowledged.
GiveUp ==
    /\ Idle
    /\ \E i \in pel : pel' = pel \ {i} /\ claimed' = claimed \cup {i}
    /\ UNCHANGED <<api, key, up, listening, flag, cursor, todo, done, applied, inForce,
                   crashes, ends, readFaults, writeFaults>>

\* Faulty variant for mutation runs: the batch runs past the end of the stream.
ReadTooFar ==
    /\ Idle /\ cursor < Len(alerts)
    /\ cursor' = cursor + Batch
    /\ todo' = cursor + 1 .. cursor'
    /\ pel' = pel \cup todo'
    /\ UNCHANGED <<api, key, up, listening, flag, claimed, done, applied, inForce,
                   crashes, ends, readFaults, writeFaults>>

\* Faulty variant for mutation runs: read with NOACK, nothing becomes pending.
ReadNoAck ==
    /\ Idle /\ cursor < Len(alerts)
    /\ cursor' = IF cursor + Batch <= Len(alerts) THEN cursor + Batch ELSE Len(alerts)
    /\ todo' = cursor + 1 .. cursor'
    /\ UNCHANGED <<api, key, up, listening, flag, pel, claimed, done, applied, inForce,
                   crashes, ends, readFaults, writeFaults>>

\* xreadgroup: the next alerts, in stream order.
Read ==
    /\ Idle /\ cursor < Len(alerts)
    /\ cursor' = IF cursor + Batch <= Len(alerts) THEN cursor + Batch ELSE Len(alerts)
    /\ todo' = cursor + 1 .. cursor'
    /\ pel' = pel \cup todo'
    /\ UNCHANGED <<api, key, up, listening, flag, claimed, done, applied, inForce,
                   crashes, ends, readFaults, writeFaults>>

\* Faulty variant for mutation runs: a batch is handled in no particular order.
AnyOfBatch(i) == i \in todo

\* The messages of a batch are handled one after the other, oldest first.
Oldest(i) == i \in todo /\ \A j \in todo : i <= j

\* Faulty variant for mutation runs: the key is left to the API.
ApplyInMemory(i) ==
    /\ flag' = Engaged(i)
    /\ applied' = applied \cup {i} /\ inForce' = inForce \cup {i}
    /\ UNCHANGED <<key, writeFaults>>

\* KillSwitchState.apply: set the flag and write the key; a failed write is
\* logged and forgotten.
Apply(i) ==
    /\ flag' = Engaged(i)
    /\ \/ key' = alerts[i].code /\ UNCHANGED writeFaults
       \/ OmsFault /\ writeFaults' = writeFaults + 1 /\ UNCHANGED key
    /\ applied' = applied \cup {i}
    /\ inForce' = inForce \cup {i}

Handle ==
    /\ up /\ listening
    /\ \E i \in todo :
          /\ Oldest(i)
          /\ Apply(i)
          /\ todo' = todo \ {i}
          /\ done' = done \cup {i}
    /\ UNCHANGED <<api, up, listening, cursor, pel, claimed, crashes, ends, readFaults>>

\* The apply blocks on its write for longer than the handler timeout: the alert
\* is in force, but the TimeoutError ends the consumer task.  The process goes
\* on: it waits for its stop event only.
HandleTooSlow ==
    /\ up /\ listening /\ OmsFault
    /\ ends' = ends + 1
    /\ \E i \in todo : Oldest(i) /\ Apply(i)
    /\ listening' = FALSE
    /\ todo' = {} /\ done' = {}
    /\ UNCHANGED <<api, up, cursor, pel, claimed, crashes, readFaults>>

\* The batch is acknowledged after its last message.
Ack ==
    /\ up /\ listening /\ todo = {} /\ done # {}
    /\ pel' = pel \ done
    /\ done' = {}
    /\ UNCHANGED <<api, key, up, listening, flag, cursor, claimed, todo, applied, inForce,
                   crashes, ends, readFaults, writeFaults>>

\* A Redis call of the consumer itself fails, which ends its task too: the scan or
\* the claim of pending alerts, the read, whose reply may be lost after the batch was
\* delivered, or the acknowledgement.  The OMS stays up and deaf to later alerts.
LoopError ==
    /\ up /\ listening /\ OmsFault
    /\ todo = {} \/ done = {}
    /\ ends' = ends + 1
    /\ listening' = FALSE
    /\ todo' = {} /\ done' = {}
    /\ UNCHANGED <<api, key, up, flag, cursor, pel, claimed, applied, inForce, crashes,
                   readFaults, writeFaults>>

OmsStep == ClaimStale \/ GiveUp \/ Read \/ Handle \/ Ack

Next ==
    \/ \E code \in Codes : EmitAlert(code)
    \/ \E i \in serving : RecordState(i) \/ RequestFails(i)
    \/ Start
    \/ Crash
    \/ OmsStep
    \/ HandleTooSlow
    \/ LoopError

Spec == Init /\ [][Next]_vars

\* A request in progress is served, a process that died is started again and the
\* consumer task runs while it has not ended.  Nothing starts an ended task again
\* while its process is up.
FairSpec ==
    /\ Spec
    /\ \A i \in Ids : WF_vars(i \in serving /\ RecordState(i))
    /\ WF_vars(Start)
    /\ WF_vars(OmsStep)

-----------------------------------------------------------------------------
(* Properties *)

\* Whoever is concerned, trading is possible while the OMS runs disengaged.
TradingAllowed == up /\ ~flag

NoClearAfter(i) == \A j \in i + 1 .. Len(alerts) : ~Cleared(j)

\* A trip whose request succeeded holds until an all-clear is published: the key
\* shows it and, once the OMS applied it or started after it, no intent passes.
\* Crashes, failed reads and writes and a second operator do not undo it, as
\* long as no earlier all-clear was still outstanding when it was published.
TripHolds ==
    \A i \in recorded :
        Engaged(i) /\ alerts[i].quiet /\ NoClearAfter(i) =>
            /\ key = "engaged"
            /\ i \in inForce => ~TradingAllowed

\* A step that lets trading resume, and the answer of a later all-clear than
\* every trip applied so far.
Resumes == up /\ flag /\ up' /\ ~flag'
LaterClearApplied ==
    \E i \in applied' : Cleared(i) /\ \A j \in applied : Engaged(j) => j < i

\* risk/state.py: when engaged, every intent is rejected until an operator
\* publishes the all-clear, so a later one than the trips already applied.
EngagedUntilCleared == [][Resumes => LaterClearApplied]_vars

\* The same as long as no alert is delivered twice: batches, two operators who
\* write the key in any order, failed writes and restarts do not disengage.
EngagedWhileDeliveredOnce ==
    [][Resumes /\ claimed = {} => LaterClearApplied]_vars

\* risk/state.py: the dashboard (the key) and the OMS (the flag) see the same
\* state, whenever no alert or request is in progress: when every request was
\* served alone, no alert was delivered twice and the OMS reads and writes the
\* key, also after a request that failed half-way, a crash and a restart.
DashboardAgrees ==
    /\ up /\ Outstanding = {} /\ claimed = {}
    /\ \A i \in DOMAIN alerts : alerts[i].alone
    /\ readFaults = 0 /\ writeFaults = 0
    => flag = (key = "engaged")

\* Alerts claim_pending acknowledged without their having been applied.
GivenUp == (claimed \ pel) \ applied

\* control.py: the services halt new orders in answer to a trip.  Once the last
\* word of the operators is a trip, with no earlier all-clear outstanding, the OMS
\* stops trading for good, whatever crashes: as long as its alert consumer does not
\* stay ended (a deaf OMS that was trading goes on), the trip is not given up on and
\* the OMS can write the key.
LastTripStands ==
    \A i \in Ids :
        /\ <>[](/\ Len(alerts) = i /\ Engaged(i) /\ alerts[i].quiet
                /\ i \notin GivenUp /\ writeFaults = 0)
        /\ []<>listening
        => <>[]~TradingAllowed
=============================================================================
