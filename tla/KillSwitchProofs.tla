--------------------------- MODULE KillSwitchProofs ---------------------------
(***************************************************************************)
(* Theorems about KillSwitch, for every number of requests, operators,     *)
(* crashes and faults: the types, and the three safety promises of the     *)
(* switch.  None of them is inductive; each part says what it adds.        *)
(*                                                                         *)
(* TripHolds, that a trip accepted while no all-clear was outstanding      *)
(* stays in force until the next one: a redelivered alert overwrites flag  *)
(* and key, so one must know what can still be delivered.  StandingIsQuiet *)
(* says that while such a trip stands, no all-clear is outstanding, so     *)
(* that whatever is applied or recorded next engages; FlagHolds extends    *)
(* the promise to the trips whose request has not finished.                *)
(*                                                                         *)
(* EngagedWhileDeliveredOnce, that only a later all-clear disengages:      *)
(* HandledInOrder says that what is in hand comes after all that was       *)
(* applied, until the first claim.                                         *)
(*                                                                         *)
(* DashboardAgrees, that key and flag say the same when nothing is in      *)
(* progress: LastWord and Agreeing say what is left to apply when they     *)
(* differ meanwhile.                                                       *)
(***************************************************************************)
EXTENDS KillSwitch, SequenceTheorems, TLAPS

Standing(i) == Engaged(i) /\ alerts[i].quiet /\ NoClearAfter(i)

StandingIsQuiet ==
    \A i \in 1 .. Len(alerts) : Standing(i) => \A j \in Outstanding : ~Cleared(j)

KeyHolds == \A i \in recorded : Standing(i) => key = "engaged"

FlagHolds == \A i \in inForce : Standing(i) /\ up => flag

IInv == TypeOK /\ StandingIsQuiet /\ KeyHolds /\ FlagHolds

\* Everything the consumer or a request may still act on is outstanding.
LEMMA TodoOutstanding ==
    ASSUME ApiTypes, ConsumerTypes
    PROVE  /\ Len(alerts) \in Nat
           /\ todo \subseteq Outstanding
           /\ serving \subseteq Outstanding
           /\ Outstanding \subseteq 1 .. Len(alerts)
<1>1. Len(alerts) \in Nat
  BY DEF ApiTypes
<1>2. /\ cursor \in 0 .. Len(alerts)
      /\ pel \subseteq 1 .. cursor
      /\ todo \subseteq pel
      /\ serving \subseteq 1 .. Len(alerts)
  BY DEF ApiTypes, ConsumerTypes
<1>3. todo \subseteq Outstanding /\ serving \subseteq Outstanding
  BY <1>2 DEF Outstanding
<1>4. (cursor + 1) .. Len(alerts) \subseteq 1 .. Len(alerts)
  BY <1>1, <1>2
<1>5. pel \subseteq 1 .. Len(alerts)
  BY <1>1, <1>2
<1> QED BY <1>1, <1>2, <1>3, <1>4, <1>5 DEF Outstanding

\* A stream that grows by one keeps its indices and gains a fresh one.
LEMMA IntervalGrows ==
    ASSUME NEW n \in Nat, NEW S \in SUBSET (1 .. n)
    PROVE  S \cup {n + 1} \subseteq 1 .. n + 1 /\ n + 1 \notin S
  OBVIOUS

\* An alert in the stream carries one of the two codes.
LEMMA CodeOfAlert ==
    ASSUME ApiTypes, NEW i \in 1 .. Len(alerts)
    PROVE  alerts[i].code \in Codes /\ alerts[i].quiet \in BOOLEAN
<1>1. alerts \in Seq([code : Codes, quiet : BOOLEAN, alone : BOOLEAN])
  BY DEF ApiTypes
<1>2. alerts[i] \in [code : Codes, quiet : BOOLEAN, alone : BOOLEAN]
  BY <1>1, ElementOfSeq
<1> QED BY <1>2

\* Publishing appends one alert and changes no other.
LEMMA EmitAppends ==
    ASSUME ApiTypes, NEW code \in Codes, EmitAlert(code)
    PROVE  /\ alerts' \in Seq([code : Codes, quiet : BOOLEAN, alone : BOOLEAN])
           /\ Len(alerts') = Len(alerts) + 1
           /\ \A i \in 1 .. Len(alerts) : alerts'[i] = alerts[i]
           /\ alerts'[Len(alerts')].code = code
           /\ alerts'[Len(alerts')].quiet = \A i \in Outstanding : ~Cleared(i)
<1> DEFINE a == [code |-> code, quiet |-> \A i \in Outstanding : ~Cleared(i),
                alone |-> serving = {}]
<1>1. a \in [code : Codes, quiet : BOOLEAN, alone : BOOLEAN]
  OBVIOUS
<1>2. alerts' = Append(alerts, a)
  BY DEF EmitAlert
<1>3. alerts \in Seq([code : Codes, quiet : BOOLEAN, alone : BOOLEAN])
  BY DEF ApiTypes
<1>4. a.code = code /\ a.quiet = \A i \in Outstanding : ~Cleared(i)
  OBVIOUS
<1> HIDE DEF a
<1>5. /\ alerts' \in Seq([code : Codes, quiet : BOOLEAN, alone : BOOLEAN])
      /\ Len(alerts') = Len(alerts) + 1
      /\ \A i \in 1 .. Len(alerts) : alerts'[i] = alerts[i]
      /\ alerts'[Len(alerts')] = a
  BY <1>1, <1>2, <1>3
<1> QED BY <1>4, <1>5

\* The stream and the requests keep their types.
LEMMA ApiTypesStep ==
    ASSUME TypeOK, [Next]_vars
    PROVE  ApiTypes'
<1>1. Len(alerts) \in Nat /\ ApiTypes
  BY DEF TypeOK, ApiTypes
<1>2. CASE \E code \in Codes : EmitAlert(code)
  <2> PICK code \in Codes : EmitAlert(code)
    BY <1>2
  <2>1. /\ alerts' \in Seq([code : Codes, quiet : BOOLEAN, alone : BOOLEAN])
        /\ Len(alerts') = Len(alerts) + 1
    BY <1>1, EmitAppends
  <2>2. /\ Len(alerts) < MaxAlerts
        /\ serving' = serving \cup {Len(alerts')}
        /\ recorded' = recorded
    BY DEF EmitAlert
  <2>3. Len(alerts') \in Nat /\ Len(alerts') <= MaxAlerts
    BY <1>1, <2>1, <2>2, KillSwitchAssumption
  <2>4. /\ serving \subseteq 1 .. Len(alerts)
        /\ recorded \subseteq 1 .. Len(alerts)
        /\ recorded \cap serving = {}
    BY <1>1 DEF ApiTypes
  <2>5. serving' \subseteq 1 .. Len(alerts')
    BY <1>1, <2>1, <2>2, <2>4, IntervalGrows
  <2>6. recorded' \subseteq 1 .. Len(alerts') /\ Len(alerts') \notin recorded
    BY <1>1, <2>1, <2>2, <2>4, IntervalGrows
  <2>7. recorded' \cap serving' = {}
    BY <2>2, <2>4, <2>6
  <2> QED BY <2>1, <2>3, <2>5, <2>6, <2>7 DEF ApiTypes
<1>3. CASE \E i \in serving : RecordState(i) \/ RequestFails(i)
  <2> PICK i \in serving : RecordState(i) \/ RequestFails(i)
    BY <1>3
  <2>1. /\ alerts' = alerts
        /\ serving' = serving \ {i}
        /\ recorded' = recorded \/ recorded' = recorded \cup {i}
    BY DEF RecordState, RequestFails
  <2>2. recorded' \subseteq (1 .. Len(alerts)) \ serving'
    BY <1>1, <2>1 DEF ApiTypes
  <2> QED BY <1>1, <2>1, <2>2 DEF ApiTypes
<1>4. CASE Start \/ Crash \/ OmsStep \/ HandleTooSlow \/ LoopError \/ UNCHANGED vars
  <2>1. UNCHANGED <<alerts, serving, recorded>>
    BY <1>4 DEF Start, Crash, OmsStep, ClaimStale, GiveUp, Read, Handle, Ack,
                HandleTooSlow, LoopError, vars, api
  <2> QED BY <1>1, <2>1 DEF ApiTypes
<1> QED BY <1>2, <1>3, <1>4 DEF Next

\* So do the key, the process and its flag.
LEMMA SwitchTypesStep ==
    ASSUME TypeOK, [Next]_vars
    PROVE  SwitchTypes'
<1>1. ApiTypes /\ SwitchTypes /\ ConsumerTypes
  BY DEF TypeOK
<1>2. CASE \E i \in serving : RecordState(i)
  <2> PICK i \in serving : RecordState(i)
    BY <1>2
  <2>1. i \in 1 .. Len(alerts)
    BY <1>1 DEF ApiTypes
  <2> QED BY <1>1, <2>1, CodeOfAlert DEF RecordState, SwitchTypes
<1>3. CASE Start
  <2>1. flag' \in BOOLEAN
    BY <1>3 DEF Start
  <2> QED BY <1>1, <1>3, <2>1 DEF Start, SwitchTypes
<1>4. CASE Crash
  BY <1>1, <1>4 DEF Crash, SwitchTypes
<1>5. CASE Handle \/ HandleTooSlow
  <2> PICK i \in todo : Apply(i)
    BY <1>5 DEF Handle, HandleTooSlow
  <2>1. i \in 1 .. Len(alerts)
    BY <1>1, TodoOutstanding
  <2>2. key' \in Codes \cup {"missing"}
    BY <1>1, <2>1, CodeOfAlert DEF Apply, SwitchTypes
  <2>3. flag' \in BOOLEAN
    BY DEF Apply, Engaged
  <2>4. up' \in BOOLEAN /\ listening' \in BOOLEAN
    BY <1>1, <1>5 DEF Handle, HandleTooSlow, SwitchTypes
  <2> QED BY <2>2, <2>3, <2>4 DEF SwitchTypes
<1>6. CASE UNCHANGED <<key, up, listening, flag>>
  BY <1>1, <1>6 DEF SwitchTypes
<1>7. CASE (\E code \in Codes : EmitAlert(code)) \/ (\E i \in serving : RequestFails(i))
           \/ ClaimStale \/ GiveUp \/ Read \/ Ack \/ UNCHANGED vars
  BY <1>6, <1>7 DEF EmitAlert, RequestFails, ClaimStale, GiveUp, Read, Ack, vars
<1>8. CASE LoopError
  BY <1>1, <1>8 DEF LoopError, SwitchTypes
<1> QED BY <1>2, <1>3, <1>4, <1>5, <1>7, <1>8 DEF Next, OmsStep

\* So do the consumer and the two histories.
LEMMA ConsumerTypesStep ==
    ASSUME TypeOK, [Next]_vars
    PROVE  ConsumerTypes'
<1>1. ApiTypes /\ ConsumerTypes /\ Len(alerts) \in Nat
  BY DEF TypeOK, ApiTypes
<1>2. CASE \E code \in Codes : EmitAlert(code)
  <2> PICK code \in Codes : EmitAlert(code)
    BY <1>2
  <2>1. Len(alerts') = Len(alerts) + 1
    BY <1>1, EmitAppends
  <2>2. UNCHANGED <<consumer, applied, inForce>>
    BY DEF EmitAlert
  <2> QED BY <1>1, <2>1, <2>2 DEF ConsumerTypes, consumer
<1>3. CASE Read
  <2>1. /\ cursor' \in cursor .. Len(alerts)
        /\ todo' = cursor + 1 .. cursor'
        /\ pel' = pel \cup todo'
    BY <1>1, <1>3, KillSwitchAssumption DEF Read, ConsumerTypes
  <2>2. UNCHANGED <<alerts, claimed, done, applied, inForce>>
    BY <1>3 DEF Read, api
  <2>3. cursor \in 0 .. Len(alerts) /\ pel \subseteq 1 .. cursor
    BY <1>1 DEF ConsumerTypes
  <2>4. cursor' \in 0 .. Len(alerts) /\ cursor <= cursor'
    BY <1>1, <2>1, <2>3
  <2>5. (1 .. cursor) \subseteq (1 .. cursor')
    BY <1>1, <2>3, <2>4
  <2>6. pel' \subseteq 1 .. cursor' /\ todo' \subseteq pel'
    BY <1>1, <2>1, <2>3, <2>4, <2>5
  <2>7. /\ done' \subseteq pel'
        /\ claimed' \subseteq 1 .. cursor'
        /\ applied' \subseteq 1 .. cursor'
    BY <1>1, <2>1, <2>2, <2>5 DEF ConsumerTypes
  <2> QED BY <1>1, <2>2, <2>4, <2>6, <2>7 DEF ConsumerTypes
<1>4. CASE Handle \/ HandleTooSlow
  <2> PICK i \in todo : /\ applied' = applied \cup {i}
                        /\ inForce' = inForce \cup {i}
                        /\ todo' \subseteq todo
                        /\ done' \subseteq done \cup {i}
    BY <1>4 DEF Handle, HandleTooSlow, Apply
  <2>1. UNCHANGED <<alerts, cursor, pel, claimed>>
    BY <1>4 DEF Handle, HandleTooSlow, api
  <2>2. i \in pel /\ i \in 1 .. cursor /\ i \in 1 .. Len(alerts)
    BY <1>1 DEF ConsumerTypes
  <2> QED BY <1>1, <2>1, <2>2 DEF ConsumerTypes
<1>5. CASE ClaimStale
  <2> PICK S \in SUBSET pel : todo' = S /\ claimed' = claimed \cup S
    BY <1>5 DEF ClaimStale
  <2>1. UNCHANGED <<alerts, cursor, pel, done, applied, inForce>>
    BY <1>5 DEF ClaimStale, api
  <2> QED BY <1>1, <2>1 DEF ConsumerTypes
<1>6. CASE Ack
  BY <1>1, <1>6 DEF Ack, api, ConsumerTypes
<1>10. CASE GiveUp
  <2>1. /\ pel' \subseteq pel /\ todo' = {} /\ done' = {}
        /\ claimed' \subseteq claimed \cup pel
        /\ UNCHANGED <<alerts, cursor, applied, inForce>>
    BY <1>10 DEF GiveUp, Idle, api
  <2> QED BY <1>1, <2>1 DEF ConsumerTypes
<1>11. CASE LoopError
  <2>1. /\ todo' = {} /\ done' = {}
        /\ UNCHANGED <<alerts, cursor, pel, claimed, applied, inForce>>
    BY <1>11 DEF LoopError, api
  <2> QED BY <1>1, <2>1 DEF ConsumerTypes
<1>7. CASE Start
  <2>1. inForce' = recorded /\ UNCHANGED <<alerts, consumer, applied>>
    BY <1>7 DEF Start, api
  <2> QED BY <1>1, <2>1 DEF ApiTypes, ConsumerTypes, consumer
<1>8. CASE Crash
  <2>1. /\ todo' = {} /\ done' = {} /\ inForce' = {}
        /\ UNCHANGED <<alerts, cursor, pel, claimed, applied>>
    BY <1>8 DEF Crash, api
  <2> QED BY <1>1, <2>1 DEF ConsumerTypes
<1>9. CASE (\E i \in serving : RecordState(i) \/ RequestFails(i)) \/ UNCHANGED vars
  <2>1. UNCHANGED <<alerts, consumer, applied, inForce>>
    BY <1>9 DEF RecordState, RequestFails, vars, api
  <2> QED BY <1>1, <2>1 DEF ConsumerTypes, consumer
<1> QED BY <1>2, <1>3, <1>4, <1>5, <1>6, <1>7, <1>8, <1>9, <1>10, <1>11
        DEF Next, OmsStep

\* The faults stay within their bounds.
LEMMA FaultTypesStep ==
    ASSUME FaultTypes, [Next]_vars
    PROVE  FaultTypes'
<1> USE KillSwitchAssumption DEF FaultTypes, OmsFault
<1>1. CASE \E code \in Codes : EmitAlert(code)
  BY <1>1 DEF EmitAlert
<1>2. CASE \E i \in serving : RecordState(i)
  BY <1>2 DEF RecordState
<1>3. CASE \E i \in serving : RequestFails(i)
  BY <1>3 DEF RequestFails
<1>4. CASE Start
  BY <1>4 DEF Start, api
<1>5. CASE Crash
  BY <1>5 DEF Crash, api
<1>6. CASE ClaimStale \/ GiveUp \/ Read \/ Ack
  BY <1>6 DEF ClaimStale, GiveUp, Read, Ack, api
<1>10. CASE LoopError
  BY <1>10 DEF LoopError, api
<1>7. CASE Handle
  BY <1>7 DEF Handle, Apply, api
<1>8. CASE HandleTooSlow
  BY <1>8 DEF HandleTooSlow, Apply, api
<1>9. CASE UNCHANGED vars
  BY <1>9 DEF vars, api
<1> QED BY <1>1, <1>2, <1>3, <1>4, <1>5, <1>6, <1>7, <1>8, <1>9, <1>10
        DEF Next, OmsStep

LEMMA TypeInit == Init => TypeOK
<1> SUFFICES ASSUME Init PROVE TypeOK
  OBVIOUS
<1> USE KillSwitchAssumption DEF Init
<1>1. ApiTypes
  BY DEF ApiTypes
<1>2. SwitchTypes
  BY DEF SwitchTypes
<1>3. ConsumerTypes
  BY DEF ConsumerTypes
<1>4. FaultTypes
  BY DEF FaultTypes
<1> QED BY <1>1, <1>2, <1>3, <1>4 DEF TypeOK

LEMMA TypeStep == TypeOK /\ [Next]_vars => TypeOK'
<1> SUFFICES ASSUME TypeOK, [Next]_vars PROVE TypeOK'
  OBVIOUS
<1>1. FaultTypes BY DEF TypeOK
<1> QED BY <1>1, ApiTypesStep, SwitchTypesStep, ConsumerTypesStep, FaultTypesStep
        DEF TypeOK

\* Every variable of the kill switch keeps its type.
THEOREM TypeCorrect == Spec => []TypeOK
  BY TypeInit, TypeStep, PTL DEF Spec

-----------------------------------------------------------------------------
(* The step preserves the invariant *)

\* A trip that stands after a step other than publishing stood before it.
LEMMA StandingStays ==
    ASSUME ApiTypes, alerts' = alerts
    PROVE  /\ \A i : Standing(i)' <=> Standing(i)
           /\ \A i : Cleared(i)' <=> Cleared(i)
  BY DEF Standing, Engaged, Cleared, NoClearAfter

\* A new alert is either a standing trip itself or leaves the older ones standing.
LEMMA EmitStanding ==
    ASSUME IInv, NEW code \in Codes, EmitAlert(code),
           NEW i \in 1 .. Len(alerts), Standing(i)'
    PROVE  Standing(i) /\ code # "cleared"
<1>1. ApiTypes /\ Len(alerts) \in Nat
  BY DEF IInv, TypeOK, ApiTypes
<1>2. /\ Len(alerts') = Len(alerts) + 1
      /\ \A j \in 1 .. Len(alerts) : alerts'[j] = alerts[j]
      /\ alerts'[Len(alerts')].code = code
  BY <1>1, EmitAppends
<1>3. alerts'[i].code = "engaged" /\ alerts'[i].quiet
  BY DEF Standing, Engaged
<1>4. \A j \in i + 1 .. Len(alerts') : alerts'[j].code # "cleared"
  BY DEF Standing, NoClearAfter, Cleared
<1>5. Len(alerts') \in i + 1 .. Len(alerts')
  BY <1>1, <1>2
<1>6. code # "cleared"
  BY <1>2, <1>4, <1>5
<1>7. \A j \in i + 1 .. Len(alerts) :
          j \in 1 .. Len(alerts) /\ j \in i + 1 .. Len(alerts')
  BY <1>1, <1>2
<1>8. NoClearAfter(i)
  BY <1>2, <1>4, <1>7 DEF NoClearAfter, Cleared
<1> QED BY <1>2, <1>3, <1>6, <1>8 DEF Standing, Engaged

\* Outside EmitAlert nothing becomes outstanding.
LEMMA OutstandingShrinks ==
    ASSUME TypeOK, [Next]_vars, alerts' = alerts
    PROVE  Outstanding' \subseteq Outstanding
<1>1. Len(alerts) \in Nat /\ cursor \in 0 .. Len(alerts)
  BY DEF TypeOK, ApiTypes, ConsumerTypes
<1>2. CASE \E code \in Codes : EmitAlert(code)
  <2> PICK code \in Codes : EmitAlert(code)
    BY <1>2
  <2>1. Len(alerts') = Len(alerts) + 1
    BY EmitAppends DEF TypeOK
  <2> QED BY <1>1, <2>1
<1>3. CASE Read
  <2>1. /\ cursor' \in cursor .. Len(alerts)
        /\ todo' = cursor + 1 .. cursor'
        /\ pel' = pel \cup todo'
        /\ serving' = serving
    BY <1>1, <1>3, KillSwitchAssumption DEF Read, api
  <2>2. /\ cursor' + 1 .. Len(alerts) \subseteq cursor + 1 .. Len(alerts)
        /\ todo' \subseteq cursor + 1 .. Len(alerts)
    BY <1>1, <2>1
  <2> QED BY <2>1, <2>2 DEF Outstanding
<1>4. CASE (\E i \in serving : RecordState(i) \/ RequestFails(i)) \/ Start \/ Crash
           \/ ClaimStale \/ GiveUp \/ Handle \/ HandleTooSlow \/ LoopError \/ Ack
           \/ UNCHANGED vars
  <2>1. cursor' = cursor /\ pel' \subseteq pel /\ serving' \subseteq serving
    BY <1>4 DEF RecordState, RequestFails, Start, Crash, ClaimStale, GiveUp, Handle,
                HandleTooSlow, LoopError, Ack, vars, api, consumer
  <2> QED BY <2>1 DEF Outstanding
<1> QED BY <1>2, <1>3, <1>4 DEF Next, OmsStep

\* While a quiet trip stands, no all-clear becomes outstanding.
LEMMA QuietStep ==
    ASSUME IInv, [Next]_vars
    PROVE  StandingIsQuiet'
<1>1. TypeOK /\ ApiTypes /\ ConsumerTypes /\ Len(alerts) \in Nat
  BY DEF IInv, TypeOK, ApiTypes
<1>2. CASE \E code \in Codes : EmitAlert(code)
  <2> PICK code \in Codes : EmitAlert(code)
    BY <1>2
  <2>1. /\ Len(alerts') = Len(alerts) + 1
        /\ \A j \in 1 .. Len(alerts) : alerts'[j] = alerts[j]
        /\ alerts'[Len(alerts')].code = code
        /\ alerts'[Len(alerts')].quiet = \A j \in Outstanding : ~Cleared(j)
    BY <1>1, EmitAppends
  <2>2. Outstanding' \subseteq Outstanding \cup {Len(alerts')}
    <3>1. /\ serving' = serving \cup {Len(alerts')}
          /\ cursor' = cursor /\ pel' = pel
      BY DEF EmitAlert, consumer
    <3>2. cursor \in Nat
      BY <1>1 DEF ConsumerTypes
    <3>3. cursor + 1 .. Len(alerts') \subseteq (cursor + 1 .. Len(alerts)) \cup {Len(alerts')}
      BY <1>1, <2>1, <3>2
    <3> QED BY <3>1, <3>3 DEF Outstanding
  <2>3. SUFFICES ASSUME NEW i \in 1 .. Len(alerts'), Standing(i)',
                        NEW j \in Outstanding'
                 PROVE  ~Cleared(j)'
    BY DEF StandingIsQuiet
  <2>4. (\A k \in Outstanding : ~Cleared(k)) /\ code # "cleared"
    <3>1. CASE i = Len(alerts')
      BY <2>1, <2>3, <3>1 DEF Standing, Engaged
    <3>2. CASE i \in 1 .. Len(alerts)
      BY <2>3, <3>2, EmitStanding DEF IInv, StandingIsQuiet
    <3> QED BY <1>1, <2>1, <3>1, <3>2
  <2>5. CASE j = Len(alerts')
    BY <2>1, <2>4, <2>5 DEF Cleared
  <2>6. CASE j \in Outstanding
    <3>1. j \in 1 .. Len(alerts)
      BY <1>1, <2>6, TodoOutstanding
    <3> QED BY <2>1, <2>4, <2>6, <3>1 DEF Cleared
  <2> QED BY <2>2, <2>3, <2>5, <2>6
<1>3. CASE alerts' = alerts
  BY <1>1, <1>3, StandingStays, OutstandingShrinks DEF IInv, StandingIsQuiet
<1>4. (\E code \in Codes : EmitAlert(code)) \/ alerts' = alerts
  BY DEF Next, OmsStep, RecordState, RequestFails, Start, Crash, ClaimStale, GiveUp,
         Read, Handle, HandleTooSlow, LoopError, Ack, vars, api
<1> QED BY <1>2, <1>3, <1>4

\* While a quiet trip stands, whatever is applied or recorded next engages.
LEMMA NextWordEngages ==
    ASSUME IInv, NEW i \in 1 .. Len(alerts), Standing(i), NEW j \in Outstanding
    PROVE  Engaged(j)
<1>1. j \in 1 .. Len(alerts) /\ ~Cleared(j)
  BY TodoOutstanding DEF IInv, TypeOK, StandingIsQuiet
<1> QED BY <1>1, CodeOfAlert DEF IInv, TypeOK, Codes, Cleared, Engaged

\* The key: only another trip can overwrite the one that stands.
LEMMA KeyStep ==
    ASSUME IInv, [Next]_vars
    PROVE  KeyHolds'
<1>1. TypeOK /\ ApiTypes /\ ConsumerTypes
  BY DEF IInv, TypeOK
<1>2. CASE \E code \in Codes : EmitAlert(code)
  <2> PICK code \in Codes : EmitAlert(code)
    BY <1>2
  <2>1. recorded' = recorded /\ key' = key
    BY DEF EmitAlert
  <2>2. recorded \subseteq 1 .. Len(alerts)
    BY <1>1 DEF ApiTypes
  <2> QED BY <2>1, <2>2, EmitStanding DEF IInv, KeyHolds
<1>3. CASE \E i \in serving : RecordState(i)
  <2> PICK j \in serving : RecordState(j)
    BY <1>3
  <2>1. alerts' = alerts /\ key' = alerts[j].code /\ recorded' = recorded \cup {j}
    BY DEF RecordState
  <2>2. SUFFICES ASSUME NEW i \in recorded', Standing(i)'
                 PROVE  key' = "engaged"
    BY DEF KeyHolds
  <2>3. Standing(i) /\ i \in 1 .. Len(alerts)
    BY <1>1, <2>1, <2>2, StandingStays DEF ApiTypes
  <2>4. Engaged(j)
    BY <1>1, <2>3, NextWordEngages, TodoOutstanding
  <2> QED BY <2>1, <2>4 DEF Engaged
<1>4. CASE Handle \/ HandleTooSlow
  <2> PICK j \in todo : Apply(j)
    BY <1>4 DEF Handle, HandleTooSlow
  <2>1. alerts' = alerts /\ recorded' = recorded
    BY <1>4 DEF Handle, HandleTooSlow, api
  <2>2. SUFFICES ASSUME NEW i \in recorded, Standing(i)
                 PROVE  key' = "engaged"
    BY <1>1, <2>1, StandingStays DEF KeyHolds
  <2>3. Engaged(j)
    BY <1>1, <2>2, NextWordEngages, TodoOutstanding DEF ApiTypes
  <2>4. key = "engaged"
    BY <2>2 DEF IInv, KeyHolds
  <2> QED BY <2>3, <2>4 DEF Apply, Engaged
<1>5. CASE (\E i \in serving : RequestFails(i)) \/ Start \/ Crash \/ ClaimStale
           \/ GiveUp \/ Read \/ Ack \/ LoopError \/ UNCHANGED vars
  <2>1. UNCHANGED <<alerts, recorded, key>>
    BY <1>5 DEF RequestFails, Start, Crash, ClaimStale, GiveUp, Read, Ack, LoopError,
                vars, api
  <2> QED BY <1>1, <2>1, StandingStays DEF IInv, KeyHolds
<1> QED BY <1>2, <1>3, <1>4, <1>5 DEF Next, OmsStep

\* The flag: a standing trip the running process knows of keeps it engaged.
LEMMA FlagStep ==
    ASSUME IInv, [Next]_vars
    PROVE  FlagHolds'
<1>1. TypeOK /\ ApiTypes /\ ConsumerTypes /\ inForce \subseteq 1 .. Len(alerts)
  BY DEF IInv, TypeOK, ConsumerTypes
<1>2. CASE \E code \in Codes : EmitAlert(code)
  <2> PICK code \in Codes : EmitAlert(code)
    BY <1>2
  <2>1. UNCHANGED <<up, flag, inForce>>
    BY DEF EmitAlert
  <2> QED BY <1>1, <2>1, EmitStanding DEF IInv, FlagHolds
<1>3. CASE Start
  <2>1. /\ alerts' = alerts /\ inForce' = recorded
        /\ flag' = (key = "engaged") \/ flag' = TRUE
    BY <1>3 DEF Start, api
  <2> QED BY <1>1, <2>1, StandingStays DEF IInv, KeyHolds, FlagHolds
<1>4. CASE Crash
  BY <1>4 DEF Crash, FlagHolds
<1>5. CASE Handle \/ HandleTooSlow
  <2> PICK j \in todo : Apply(j)
    BY <1>5 DEF Handle, HandleTooSlow
  <2>1. alerts' = alerts /\ flag' = Engaged(j) /\ inForce' = inForce \cup {j}
    BY <1>5 DEF Handle, HandleTooSlow, Apply, api
  <2>2. SUFFICES ASSUME NEW i \in inForce', Standing(i)
                 PROVE  flag'
    BY <1>1, <2>1, StandingStays DEF FlagHolds
  <2>3. i \in 1 .. Len(alerts)
    BY <1>1, <2>1, TodoOutstanding
  <2>4. Engaged(j)
    BY <1>1, <2>2, <2>3, NextWordEngages, TodoOutstanding
  <2> QED BY <2>1, <2>4
<1>6. CASE (\E i \in serving : RecordState(i) \/ RequestFails(i)) \/ ClaimStale
           \/ GiveUp \/ Read \/ Ack \/ LoopError \/ UNCHANGED vars
  <2>1. UNCHANGED <<alerts, up, flag, inForce>>
    BY <1>6 DEF RecordState, RequestFails, ClaimStale, GiveUp, Read, Ack, LoopError,
                vars, api
  <2> QED BY <1>1, <2>1, StandingStays DEF IInv, FlagHolds
<1> QED BY <1>2, <1>3, <1>4, <1>5, <1>6 DEF Next, OmsStep

LEMMA InvInit == Init => IInv
<1> SUFFICES ASSUME Init PROVE IInv
  OBVIOUS
<1>1. Len(alerts) = 0
  BY DEF Init
<1>2. StandingIsQuiet
  BY <1>1 DEF StandingIsQuiet
<1>3. KeyHolds /\ FlagHolds
  BY DEF Init, KeyHolds, FlagHolds
<1> QED BY <1>2, <1>3, TypeInit DEF IInv

LEMMA InvStep == IInv /\ [Next]_vars => IInv'
<1> SUFFICES ASSUME IInv, [Next]_vars PROVE IInv'
  OBVIOUS
<1>1. TypeOK'
  BY TypeStep DEF IInv
<1> QED BY <1>1, QuietStep, KeyStep, FlagStep DEF IInv

\* A trip whose request succeeded, published while no all-clear was outstanding,
\* stays in force until the next all-clear is published: whatever number of
\* operators, crashes, redeliveries and failed reads or writes.
THEOREM TripStaysInForce == Spec => []TripHolds
<1>1. IInv => TripHolds
  BY DEF IInv, KeyHolds, FlagHolds, TripHolds, Standing, TradingAllowed
<1> QED BY <1>1, InvInit, InvStep, PTL DEF Spec
-----------------------------------------------------------------------------
(* While no alert is delivered twice *)

\* Handled in stream order: what was applied comes before what is in hand, and what
\* left the pending list, or is about to, was applied (given up on only after a claim).
HandledInOrder ==
    /\ claimed = {} => \A j \in applied, i \in todo : j < i
    /\ claimed = {} => (1 .. cursor) \ pel \subseteq applied
    /\ done \subseteq applied

OInv == TypeOK /\ HandledInOrder

\* A claim takes at least one alert.
LEMMA ClaimTakes ==
    ASSUME ClaimStale
    PROVE  claimed' # {}
<1>1. PICK S \in (SUBSET pel) \ {{}} : claimed' = claimed \cup S
  BY DEF ClaimStale
<1>2. S # {}
  OBVIOUS
<1> QED BY <1>1, <1>2

\* What a step does to the histories of the consumer.
LEMMA OrderStep ==
    ASSUME OInv, [Next]_vars
    PROVE  HandledInOrder'
<1>1. /\ ApiTypes /\ ConsumerTypes /\ HandledInOrder /\ Len(alerts) \in Nat
      /\ cursor \in 0 .. Len(alerts)
  BY DEF OInv, TypeOK, ApiTypes, ConsumerTypes
<1>2. CASE ClaimStale
  <2>2. claimed' # {}
    BY <1>2, ClaimTakes
  <2>3. UNCHANGED <<cursor, pel, done, applied>>
    BY <1>2 DEF ClaimStale
  <2> QED BY <1>1, <2>2, <2>3 DEF HandledInOrder
<1>3. CASE Read
  <2>1. /\ cursor' \in cursor .. Len(alerts)
        /\ todo' = cursor + 1 .. cursor'
        /\ pel' = pel \cup todo'
        /\ UNCHANGED <<claimed, done, applied>>
    BY <1>1, <1>3, KillSwitchAssumption DEF Read
  <2>2. applied \subseteq 1 .. cursor
    BY <1>1 DEF ConsumerTypes
  <2>3. \A j \in applied, i \in todo' : j < i
    BY <1>1, <2>1, <2>2
  <2>4. (1 .. cursor') \ pel' \subseteq (1 .. cursor) \ pel
    BY <1>1, <2>1
  <2> QED BY <1>1, <2>1, <2>3, <2>4 DEF HandledInOrder
<1>4. CASE Handle
  <2>1. PICK i \in todo : /\ Oldest(i)
                          /\ applied' = applied \cup {i}
                          /\ todo' = todo \ {i}
                          /\ done' = done \cup {i}
    BY <1>4 DEF Handle, Apply
  <2>2. UNCHANGED <<cursor, pel, claimed>>
    BY <1>4 DEF Handle
  <2>3. todo \subseteq Nat
    BY <1>1 DEF ConsumerTypes
  <2>4. \A k \in todo' : i < k
    BY <2>1, <2>3 DEF Oldest
  <2>5. claimed = {} => \A j \in applied', k \in todo' : j < k
    BY <1>1, <2>1, <2>4 DEF HandledInOrder
  <2> QED BY <1>1, <2>1, <2>2, <2>5 DEF HandledInOrder
<1>5. CASE HandleTooSlow
  <2>1. /\ applied \subseteq applied' /\ todo' = {} /\ done' = {}
        /\ UNCHANGED <<cursor, pel, claimed>>
    BY <1>5 DEF HandleTooSlow, Apply
  <2> QED BY <1>1, <2>1 DEF HandledInOrder
<1>6. CASE Ack
  <2>1. pel' = pel \ done /\ done' = {} /\ UNCHANGED <<cursor, claimed, todo, applied>>
    BY <1>6 DEF Ack
  <2> QED BY <1>1, <2>1 DEF HandledInOrder
<1>7. CASE Crash
  <2>1. todo' = {} /\ done' = {} /\ UNCHANGED <<cursor, pel, claimed, applied>>
    BY <1>7 DEF Crash
  <2> QED BY <1>1, <2>1 DEF HandledInOrder
<1>9. CASE GiveUp
  <2>1. claimed' # {} /\ UNCHANGED <<cursor, done, applied>>
    BY <1>9 DEF GiveUp
  <2> QED BY <1>1, <2>1 DEF HandledInOrder
<1>10. CASE LoopError
  <2>1. todo' = {} /\ done' = {} /\ UNCHANGED <<cursor, pel, claimed, applied>>
    BY <1>10 DEF LoopError
  <2> QED BY <1>1, <2>1 DEF HandledInOrder
<1>8. CASE \/ \E code \in Codes : EmitAlert(code)
           \/ \E i \in serving : RecordState(i) \/ RequestFails(i)
           \/ Start \/ UNCHANGED vars
  <2>1. UNCHANGED <<consumer, applied>>
    BY <1>8 DEF EmitAlert, RecordState, RequestFails, Start, vars
  <2> QED BY <1>1, <2>1 DEF HandledInOrder, consumer
<1> QED BY <1>2, <1>3, <1>4, <1>5, <1>6, <1>7, <1>8, <1>9, <1>10 DEF Next, OmsStep

LEMMA OrderInvariance == Spec => []OInv
<1>1. Init => OInv
  <2> SUFFICES ASSUME Init PROVE OInv
    OBVIOUS
  <2>1. HandledInOrder
    BY DEF Init, HandledInOrder
  <2> QED BY <2>1, TypeInit DEF OInv
<1>2. OInv /\ [Next]_vars => OInv'
  BY OrderStep, TypeStep DEF OInv
<1> QED BY <1>1, <1>2, PTL DEF Spec

\* Trading resumes only when an all-clear is applied.
LEMMA ResumingApplies ==
    ASSUME TypeOK, [Next]_vars, Resumes
    PROVE  \E i \in todo : Oldest(i) /\ ~Engaged(i) /\ applied' = applied \cup {i}
<1>1. CASE Handle \/ HandleTooSlow
  BY <1>1 DEF Handle, HandleTooSlow, Apply, Resumes
<1>2. CASE Start \/ Crash
  BY <1>2 DEF Start, Crash, Resumes
<1>3. CASE \/ \E code \in Codes : EmitAlert(code)
           \/ \E i \in serving : RecordState(i) \/ RequestFails(i)
           \/ ClaimStale \/ GiveUp \/ Read \/ Ack \/ LoopError \/ UNCHANGED vars
  BY <1>3 DEF EmitAlert, RecordState, RequestFails, ClaimStale, GiveUp, Read, Ack,
              LoopError, vars, Resumes
<1> QED BY <1>1, <1>2, <1>3 DEF Next, OmsStep

\* As long as no alert is delivered twice, a running OMS that is engaged resumes
\* trading only by applying an all-clear later than every trip it ever applied.
THEOREM OnlyLaterClearDisengages == Spec => EngagedWhileDeliveredOnce
<1>1. OInv /\ [Next]_vars => [Resumes /\ claimed = {} => LaterClearApplied]_vars
  <2> SUFFICES ASSUME OInv, [Next]_vars, Resumes, claimed = {}
               PROVE  LaterClearApplied
    OBVIOUS
  <2>1. TypeOK /\ ApiTypes /\ ConsumerTypes /\ HandledInOrder
    BY DEF OInv, TypeOK
  <2>2. PICK i \in todo : Oldest(i) /\ ~Engaged(i) /\ applied' = applied \cup {i}
    BY <2>1, ResumingApplies
  <2>3. i \in 1 .. Len(alerts)
    BY <2>1, TodoOutstanding
  <2>4. Cleared(i)
    BY <2>1, <2>2, <2>3, CodeOfAlert DEF Codes, Engaged, Cleared
  <2>5. \A j \in applied : j < i
    BY <2>1 DEF HandledInOrder
  <2> QED BY <2>2, <2>4, <2>5 DEF LaterClearApplied
<1> QED BY <1>1, OrderInvariance, PTL DEF Spec, EngagedWhileDeliveredOnce

-----------------------------------------------------------------------------
(* Key and flag *)

\* Requests are served one at a time, no alert is delivered twice, and the OMS
\* reads and writes the key.
Undisturbed ==
    /\ claimed = {} /\ readFaults = 0 /\ writeFaults = 0
    /\ \A i \in DOMAIN alerts : alerts[i].alone

\* Only the last request may be in progress; once its alert is applied nothing is in
\* hand and the key shows it.
LastWord ==
    /\ serving \subseteq {Len(alerts)}
    /\ Len(alerts) \in applied => todo = {} /\ key = alerts[Len(alerts)].code

\* Key and flag agree, or there are alerts still to apply, or alerts the consumer
\* dropped when it ended.
Agreeing ==
    \/ flag = (key = "engaged")
    \/ cursor < Len(alerts)
    \/ todo # {}
    \/ pel # todo \cup done

DInv == OInv /\ (Undisturbed => LastWord /\ (up => Agreeing))

\* Once disturbed, disturbed for good.
LEMMA StaysDisturbed ==
    ASSUME TypeOK, [Next]_vars, Undisturbed'
    PROVE  Undisturbed
<1>1. /\ claimed \subseteq claimed'
      /\ readFaults' = 0 => readFaults = 0
      /\ writeFaults' = 0 => writeFaults = 0
  <2> USE DEF TypeOK, FaultTypes
  <2>1. CASE \E code \in Codes : EmitAlert(code)
    BY <2>1 DEF EmitAlert, consumer
  <2>2. CASE \E i \in serving : RecordState(i) \/ RequestFails(i)
    BY <2>2 DEF RecordState, RequestFails, consumer
  <2>3. CASE Start
    BY <2>3 DEF Start, consumer
  <2>4. CASE Crash
    BY <2>4 DEF Crash
  <2>5. CASE ClaimStale \/ GiveUp \/ Read \/ Ack \/ LoopError
    BY <2>5 DEF ClaimStale, GiveUp, Read, Ack, LoopError
  <2>6. CASE Handle \/ HandleTooSlow
    BY <2>6 DEF Handle, HandleTooSlow, Apply
  <2>7. CASE UNCHANGED vars
    BY <2>7 DEF vars, consumer
  <2> QED BY <2>1, <2>2, <2>3, <2>4, <2>5, <2>6, <2>7 DEF Next, OmsStep
<1>2. \A i \in DOMAIN alerts : i \in DOMAIN alerts' /\ alerts'[i] = alerts[i]
  <2>1. CASE \E code \in Codes : EmitAlert(code)
    <3>1. /\ ApiTypes /\ Len(alerts) \in Nat
      BY DEF TypeOK, ApiTypes
    <3>2. /\ alerts' \in Seq([code : Codes, quiet : BOOLEAN, alone : BOOLEAN])
          /\ Len(alerts') = Len(alerts) + 1
          /\ \A i \in 1 .. Len(alerts) : alerts'[i] = alerts[i]
      BY <2>1, <3>1, EmitAppends
    <3>3. DOMAIN alerts = 1 .. Len(alerts) /\ DOMAIN alerts' = 1 .. Len(alerts')
      BY <3>1, <3>2 DEF ApiTypes
    <3> QED BY <3>1, <3>2, <3>3
  <2>2. CASE alerts' = alerts
    BY <2>2
  <2> QED BY <2>1, <2>2 DEF Next, OmsStep, RecordState, RequestFails, Start, Crash,
             ClaimStale, GiveUp, Read, Handle, HandleTooSlow, LoopError, Ack, vars, api
<1> QED BY <1>1, <1>2 DEF Undisturbed

\* A new alert published alone is the only one in progress and not applied yet.
LEMMA EmitAlone ==
    ASSUME OInv, NEW code \in Codes, EmitAlert(code), Undisturbed'
    PROVE  LastWord' /\ Agreeing'
<1>1. /\ ApiTypes /\ ConsumerTypes /\ Len(alerts) \in Nat
      /\ cursor \in 0 .. Len(alerts) /\ applied \subseteq 1 .. cursor
  BY DEF OInv, TypeOK, ApiTypes, ConsumerTypes
<1>2. /\ Len(alerts') = Len(alerts) + 1
      /\ alerts' = Append(alerts, [code |-> code, quiet |-> \A i \in Outstanding : ~Cleared(i),
                                   alone |-> serving = {}])
      /\ serving' = serving \cup {Len(alerts')}
      /\ cursor' = cursor /\ applied' = applied
  BY <1>1, EmitAppends DEF EmitAlert, consumer
<1>3. alerts'[Len(alerts')].alone = (serving = {}) /\ Len(alerts') \in DOMAIN alerts'
  BY <1>1, <1>2 DEF ApiTypes
<1>4. serving = {}
  BY <1>3 DEF Undisturbed
<1>5. Len(alerts') \notin applied /\ cursor < Len(alerts')
  BY <1>1, <1>2
<1> QED BY <1>2, <1>4, <1>5 DEF LastWord, Agreeing

\* An alert that is not applied yet is unread, in hand or dropped.
LEMMA StillToApply ==
    ASSUME OInv, claimed = {}, NEW i \in 1 .. Len(alerts), i \notin applied
    PROVE  cursor < Len(alerts) \/ todo # {} \/ pel # todo \cup done
<1>1. /\ HandledInOrder /\ Len(alerts) \in Nat /\ cursor \in 0 .. Len(alerts)
  BY DEF OInv, TypeOK, ApiTypes, ConsumerTypes
<1>2. CASE i \in 1 .. cursor
  <2>1. i \in pel /\ i \notin done
    BY <1>1, <1>2 DEF HandledInOrder
  <2> QED BY <2>1
<1>3. CASE i > cursor
  BY <1>1, <1>3
<1> QED BY <1>1, <1>2, <1>3

\* The last word is recorded: the consumer still has it to apply or has applied it.
LEMMA RecordAgrees ==
    ASSUME DInv, Undisturbed, NEW n \in serving, RecordState(n)
    PROVE  LastWord' /\ (up' => Agreeing')
<1>1. /\ OInv /\ LastWord /\ (up => Agreeing)
      /\ serving \subseteq 1 .. Len(alerts)
  BY DEF DInv, OInv, TypeOK, ApiTypes
<1>2. n = Len(alerts) /\ n \in 1 .. Len(alerts)
  BY <1>1 DEF LastWord
<1>3. /\ key' = alerts[n].code /\ serving' = serving \ {n}
      /\ UNCHANGED <<alerts, up, flag, consumer, applied>>
  BY DEF RecordState
<1>4. LastWord'
  BY <1>1, <1>2, <1>3 DEF LastWord, consumer
<1>5. CASE n \in applied
  <2>1. key' = key
    BY <1>1, <1>2, <1>3, <1>5 DEF LastWord
  <2> QED BY <1>1, <1>3, <1>4, <2>1 DEF Agreeing, consumer
<1>6. CASE n \notin applied
  <2>1. cursor < Len(alerts) \/ todo # {} \/ pel # todo \cup done
    BY <1>1, <1>2, <1>6, StillToApply DEF Undisturbed
  <2> QED BY <1>3, <1>4, <2>1 DEF Agreeing, consumer
<1> QED BY <1>5, <1>6

\* The consumer applies the oldest alert of its batch to flag and key alike.
LEMMA ApplyAgrees ==
    ASSUME DInv, Undisturbed, Undisturbed', Handle \/ HandleTooSlow
    PROVE  LastWord' /\ Agreeing'
<1>1. /\ OInv /\ LastWord /\ HandledInOrder /\ Len(alerts) \in Nat
      /\ cursor \in 0 .. Len(alerts) /\ todo \subseteq pel /\ pel \subseteq 1 .. cursor
      /\ writeFaults \in Nat
  BY KillSwitchAssumption DEF DInv, OInv, TypeOK, ApiTypes, ConsumerTypes, FaultTypes
<1>2. PICK i \in todo : /\ Oldest(i) /\ Apply(i)
                        /\ \/ todo' = todo \ {i}
                           \/ todo' = {}
    BY DEF Handle, HandleTooSlow
<1>3. /\ UNCHANGED <<alerts, serving, cursor, pel>>
      /\ applied' = applied \cup {i} /\ flag' = Engaged(i)
    BY <1>2 DEF Handle, HandleTooSlow, Apply, api
<1>4. key' = alerts[i].code
  <2>1. writeFaults = 0 /\ writeFaults' = 0
    BY DEF Undisturbed
  <2> QED BY <1>2, <2>1 DEF Apply
<1>5. Agreeing'
  BY <1>3, <1>4 DEF Agreeing, Engaged
<1>6. ASSUME Len(alerts) \in applied'
      PROVE  todo' = {} /\ key' = alerts[Len(alerts)].code
  <2>1. i = Len(alerts)
    <3>1. Len(alerts) \notin applied
      BY <1>1, <1>2 DEF LastWord
    <3> QED BY <1>3, <1>6, <3>1
  <2>2. \A j \in todo : j = i
    BY <1>1, <1>2, <2>1 DEF Oldest
  <2> QED BY <1>2, <1>4, <2>1, <2>2
<1>7. serving' \subseteq {Len(alerts')}
  BY <1>1, <1>3 DEF LastWord
<1> QED BY <1>3, <1>5, <1>6, <1>7 DEF LastWord

\* The step: key and flag stay together, or the consumer has work left.
LEMMA AgreeStep ==
    ASSUME DInv, [Next]_vars, Undisturbed'
    PROVE  LastWord' /\ (up' => Agreeing')
<1>1. /\ OInv /\ TypeOK /\ ConsumerTypes /\ Len(alerts) \in Nat
      /\ cursor \in 0 .. Len(alerts) /\ applied \subseteq 1 .. cursor
  BY DEF DInv, OInv, TypeOK, ApiTypes, ConsumerTypes
<1>2. Undisturbed
  BY <1>1, StaysDisturbed
<1>3. LastWord /\ (up => Agreeing)
  BY <1>2 DEF DInv
<1>4. CASE \E code \in Codes : EmitAlert(code)
  BY <1>1, <1>4, EmitAlone
<1>5. CASE \E i \in serving : RecordState(i)
  BY <1>2, <1>5, RecordAgrees
<1>6. CASE \E i \in serving : RequestFails(i)
  <2>1. /\ serving' \subseteq serving
        /\ UNCHANGED <<alerts, key, up, flag, consumer, applied>>
    BY <1>6 DEF RequestFails
  <2> QED BY <1>3, <2>1 DEF LastWord, Agreeing, consumer
<1>7. CASE Start
  <2>1. UNCHANGED <<alerts, serving, key, consumer, applied>>
    BY <1>7 DEF Start, api
  <2>2. readFaults = 0 /\ readFaults' = 0
    BY <1>2 DEF Undisturbed
  <2>3. flag' = (key = "engaged")
    BY <1>7, <2>2 DEF Start
  <2> QED BY <1>3, <2>1, <2>3 DEF LastWord, Agreeing, consumer
<1>8. CASE Crash
  <2>1. up' = FALSE /\ todo' = {} /\ UNCHANGED <<alerts, serving, key, applied>>
    BY <1>8 DEF Crash, api
  <2> QED BY <1>3, <2>1 DEF LastWord
<1>9. CASE ClaimStale
  BY <1>9, ClaimTakes DEF Undisturbed
<1>10. CASE Read
  <2>1. /\ todo' = cursor + 1 .. cursor' /\ cursor < cursor' /\ cursor' \in Nat
        /\ cursor < Len(alerts)
        /\ UNCHANGED <<alerts, serving, key, applied>>
    BY <1>1, <1>10, KillSwitchAssumption DEF Read, api
  <2>2. cursor + 1 \in todo'
    BY <1>1, <2>1
  <2>3. Len(alerts) \notin applied
    BY <1>1, <2>1
  <2> QED BY <1>3, <2>1, <2>2, <2>3 DEF LastWord, Agreeing
<1>11. CASE Handle \/ HandleTooSlow
  BY <1>2, <1>11, ApplyAgrees
<1>12. CASE Ack
  <2>1. /\ todo = {} /\ done # {} /\ pel' = pel \ done /\ done' = {} /\ todo' = {}
        /\ UNCHANGED <<alerts, serving, key, up, flag, cursor, applied>>
    BY <1>12 DEF Ack, api
  <2>2. done \subseteq pel
    BY <1>1 DEF ConsumerTypes
  <2>3. LastWord'
    BY <1>3, <2>1 DEF LastWord
  <2>4. pel # todo \cup done => pel' # todo' \cup done'
    BY <2>1, <2>2
  <2> QED BY <1>3, <2>1, <2>3, <2>4 DEF Agreeing
<1>13. CASE UNCHANGED vars
  BY <1>3, <1>13 DEF LastWord, Agreeing, vars, api, consumer
<1>14. CASE GiveUp
  <2>1. claimed' # {}
    BY <1>14 DEF GiveUp
  <2> QED BY <1>2, <2>1 DEF Undisturbed
<1>15. CASE LoopError
  <2>1. /\ todo' = {} /\ done' = {}
        /\ UNCHANGED <<alerts, serving, key, up, flag, cursor, pel, applied>>
    BY <1>15 DEF LoopError, api
  <2>2. todo \subseteq pel /\ done \subseteq pel
    BY <1>1 DEF ConsumerTypes
  <2>3. LastWord'
    BY <1>3, <2>1 DEF LastWord
  <2>4. todo # {} \/ pel # todo \cup done => pel' # todo' \cup done'
    BY <2>1, <2>2
  <2> QED BY <1>3, <2>1, <2>3, <2>4 DEF Agreeing
<1> QED BY <1>4, <1>5, <1>6, <1>7, <1>8, <1>9, <1>10, <1>11, <1>12, <1>13, <1>14, <1>15
        DEF Next, OmsStep

\* With every request served alone, no alert delivered twice and no failed read or
\* write of the key by the OMS, the dashboard and the OMS agree whenever nothing is in
\* progress: also after crashes, restarts and requests that failed half-way.
THEOREM DashboardAndFlagAgree == Spec => []DashboardAgrees
<1>1. Init => DInv
  <2> SUFFICES ASSUME Init PROVE DInv
    OBVIOUS
  <2>1. OInv
    BY TypeInit DEF Init, OInv, HandledInOrder
  <2>2. LastWord /\ (up => Agreeing)
    BY DEF Init, LastWord
  <2> QED BY <2>1, <2>2 DEF DInv
<1>2. DInv /\ [Next]_vars => DInv'
  BY AgreeStep, OrderStep, TypeStep DEF DInv, OInv
<1>3. DInv => DashboardAgrees
  <2> SUFFICES ASSUME DInv, up, Outstanding = {}, Undisturbed
               PROVE  flag = (key = "engaged")
    BY DEF DashboardAgrees, Undisturbed
  <2>1. /\ Agreeing /\ Len(alerts) \in Nat /\ cursor \in 0 .. Len(alerts)
        /\ todo \subseteq pel /\ done \subseteq pel
    BY DEF DInv, OInv, TypeOK, ApiTypes, ConsumerTypes
  <2>2. pel = {} /\ (cursor + 1 .. Len(alerts)) = {}
    BY DEF Outstanding
  <2>3. ~(cursor < Len(alerts))
    BY <2>1, <2>2
  <2> QED BY <2>1, <2>2, <2>3 DEF Agreeing
<1> QED BY <1>1, <1>2, <1>3, PTL DEF Spec
=============================================================================
