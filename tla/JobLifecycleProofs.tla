------------------------- MODULE JobLifecycleProofs -------------------------
(***************************************************************************)
(* Proofs about JobLifecycle for every set of jobs and all bounds: the     *)
(* type invariant, that a job takes effect once, that memory holds what    *)
(* the files say unless two threads wrote at once, and that what the       *)
(* stores say of a job agrees with its effects.                            *)
(***************************************************************************)
EXTENDS JobLifecycle, SequenceTheorems, TLAPS

RunIds == 0 .. Len(runs)

\* The runs anyone mentions are runs RunPod started.
RunsExist ==
    /\ \A j \in Jobs : /\ job[j].run \in RunIds /\ jobFile[j].run \in RunIds
                       /\ inbox[j].run \in RunIds /\ inboxFile[j].run \in RunIds
                       /\ payload[j] \in RunIds
    /\ \A a \in Threads : thread[a].run \in RunIds /\ write[a].record.run \in RunIds
    /\ \A q \in queue : q[2] \in RunIds \ {NoRun}

\* A thread that writes is at work.
WritersWork ==
    \A a \in Threads : write[a] # NoWrite =>
        thread[a].at \notin {"rest", "ask", "receive", "read", "effect", "mark", "reject"}

\* A record of the inbox, wherever it is, names a result.
Named(record) == record.status # "none" /\ record.run # NoRun
InboxNamed ==
    /\ \A j \in Jobs : /\ inbox[j] = NoRecord \/ Named(inbox[j])
                       /\ inboxFile[j] = NoRecord \/ Named(inboxFile[j])
    /\ \A a \in Threads : write[a].to = "inbox" => Named(write[a].record)

\* A thread at work on a callback has a result, and the inbox knows it as soon as it
\* has set its record.
AtWork ==
    \A a \in Threads :
        /\ thread[a].at \in {"receive", "read", "effect"} => thread[a].run # NoRun
        /\ thread[a].at \in {"process", "read", "effect", "mark", "reject"} =>
               inbox[thread[a].job] # NoRecord \/ write[a].to = "inbox"

\* Every create_job call that is not over yet may add a run.
Dispatching == {"claim", "announce", "call"}
Due(a) == IF thread[a].at \in Dispatching THEN 1 ELSE 0
RunsBounded ==
    /\ Len(runs) + Due("loop") + Due("shadow") <= creates
    /\ thread["poller"].at \notin Dispatching /\ thread["sweeper"].at \notin Dispatching

TInv == TypeOK /\ RunsBounded /\ RunsExist /\ WritersWork /\ InboxNamed /\ AtWork

-----------------------------------------------------------------------------
(* The steps *)

ThreadRecords == [at : Places, job : Jobs \cup {NoJob}, run : Runs \cup {NoRun}]
WriteRecords ==
    [to : {"none"}, record : {NoRecord}] \cup [to : {"job"}, record : JobRecords]
        \cup [to : {"inbox"}, record : InboxRecords]

\* A thread goes to a place, alone or with its call over.
Stands(a, place) ==
    thread' = [thread EXCEPT ![a] = [at |-> place, job |-> thread[a].job, run |-> thread[a].run]]
Rests(a) ==
    \E place \in {"rest", "ask"} :
        thread' = [thread EXCEPT ![a] = [at |-> place, job |-> NoJob, run |-> NoRun]]

LEMMA GoesFacts ==
    ASSUME TypeOK, NEW a \in Threads, NEW place, thread' = Goes(a, place)
    PROVE  Stands(a, place)
<1>1. thread[a] \in ThreadRecords
  BY DEF TypeOK, ThreadTypes, ThreadRecords
<1>2. thread' = [thread EXCEPT ![a] = [thread[a] EXCEPT !.at = place]]
  BY DEF Goes
<1>3. [thread[a] EXCEPT !.at = place] =
          [at |-> place, job |-> thread[a].job, run |-> thread[a].run]
  BY <1>1 DEF ThreadRecords
<1> QED BY <1>2, <1>3 DEF Stands

LEMMA DoneFacts ==
    ASSUME NEW a \in Threads, thread' = Done(a)
    PROVE  Rests(a)
<1>1. [Idle EXCEPT !.at = "ask"] = [at |-> "ask", job |-> NoJob, run |-> NoRun]
  BY DEF Idle
<1> QED BY <1>1 DEF Done, Rests, Idle

\* Places a thread goes to when it has written a status of its job, or will only
\* write such.
JobPlaces == {"announce", "call", "end", "validate", "complete", "tidy", "fail",
              "running", "requeue", "failjob", "claim"}

\* A record a thread writes is the one of its place, and so is where it goes.
Fits(a, record, place) ==
    /\ record.status # "none"
    /\ record.status = "COMPLETED" => thread[a].at = "complete"
    /\ record.status = "PROCESSED" => thread[a].at = "mark"
    /\ record.status = "REJECTED" => thread[a].at = "reject"
    /\ place = "validate" => thread[a].at = "mark"
    /\ place = "complete" => thread[a].at = "validate"

\* A status update of the outbox.
JobLog(a, record, place) ==
    /\ thread[a].at \in JobPlaces /\ write[a] = NoWrite /\ Fits(a, record, place)
    /\ record \in JobRecords /\ record.run \in {job[thread[a].job].run, thread[a].run}
    /\ write' = [write EXCEPT ![a] = [to |-> "job", record |-> record]]
    /\ jobFile' = [jobFile EXCEPT ![thread[a].job] = record]
    /\ torn' \in {torn, torn \cup {thread[a].job}}
    /\ HalfDone(a, "job", thread[a].job) => thread[a].job \in torn'
    /\ Stands(a, place) /\ place \in JobPlaces
    /\ place \in Dispatching => thread[a].at \in Dispatching
    /\ UNCHANGED <<job, inboxes, fresh, queue, runs, silent, effects, parts, raced, bounds>>

LEMMA UpdatesFacts ==
    ASSUME TypeOK, NEW a \in Threads, NEW from \in JobPlaces, NEW status,
           status \in {"QUEUED", "DISPATCHING", "DISPATCHED", "RUNNING", "VALIDATING",
                       "COMPLETED", "FAILED"},
           NEW place \in JobPlaces, place \in Dispatching => from \in Dispatching,
           status = "COMPLETED" => from = "complete",
           place # "validate", place = "complete" => from = "validate",
           Updates(a, from, status, NoRun, place)
               \/ Updates(a, from, status, thread[a].run, place)
    PROVE  \E record \in JobRecords : JobLog(a, record, place)
<1>1. /\ thread[a].at = from /\ write[a] = NoWrite /\ thread[a].job \in Jobs
      /\ thread[a].run \in Runs \cup {NoRun}
  BY DEF Updates, At, TypeOK, ThreadTypes, JobPlaces
<1>2. \E run \in {job[thread[a].job].run, thread[a].run} :
          /\ Logs(a, "job", [status |-> status, run |-> run])
          /\ thread' = Goes(a, place)
          /\ UNCHANGED <<job, inbox, payload, fresh, queue, runs, silent, effects, parts, raced, bounds>>
  BY DEF Updates, outcome
<1>3. PICK run \in {job[thread[a].job].run, thread[a].run} :
          /\ Logs(a, "job", [status |-> status, run |-> run])
          /\ thread' = Goes(a, place)
          /\ UNCHANGED <<job, inbox, payload, fresh, queue, runs, silent, effects, parts, raced, bounds>>
  BY <1>2
<1> DEFINE record == [status |-> status, run |-> run]
<1>4. job[thread[a].job].run \in Runs \cup {NoRun}
  BY <1>1 DEF TypeOK, StoreTypes, JobRecords
<1>5. record \in JobRecords /\ record.run = run /\ Fits(a, record, place)
  BY <1>1, <1>3, <1>4 DEF JobRecords, Fits
<1>6. Stands(a, place)
  BY <1>3, GoesFacts
<1>7. /\ write' = [write EXCEPT ![a] = [to |-> "job", record |-> record]]
      /\ jobFile' = [jobFile EXCEPT ![thread[a].job] = record]
      /\ torn' \in {torn, torn \cup {thread[a].job}} /\ inboxFile' = inboxFile
      /\ HalfDone(a, "job", thread[a].job) => thread[a].job \in torn'
  BY <1>3 DEF Logs
<1> HIDE DEF record
<1>8. JobLog(a, record, place)
  BY <1>1, <1>3, <1>5, <1>6, <1>7 DEF JobLog, inboxes
<1> QED BY <1>5, <1>8

\* A verdict of the inbox.
InboxLog(a, record, place) ==
    /\ write[a] = NoWrite
    /\ record \in InboxRecords /\ Fits(a, record, place)
    /\ write' = [write EXCEPT ![a] = [to |-> "inbox", record |-> record]]
    /\ inboxFile' = [inboxFile EXCEPT ![thread[a].job] = record]
    /\ torn' \in {torn, torn \cup {thread[a].job}}
    /\ HalfDone(a, "inbox", thread[a].job) => thread[a].job \in torn'
    /\ Stands(a, place)
    /\ UNCHANGED <<outbox, inbox, payload, fresh, queue, runs, silent, effects, parts, bounds>>

LEMMA MarksFacts ==
    ASSUME TypeOK, NEW a \in Threads, Mark(a) \/ Reject(a)
    PROVE  /\ thread[a].at \in {"mark", "reject"} /\ raced' = raced
           /\ \E record \in InboxRecords, place \in {"validate", "failjob"} :
                  /\ InboxLog(a, record, place)
                  /\ record.run = inbox[thread[a].job].run
<1>1. \E from \in {"mark", "reject"}, status \in {"PROCESSED", "REJECTED"},
         place \in {"validate", "failjob"} :
             /\ Marks(a, from, status, place)
             /\ <<from, status, place>> \in {<<"mark", "PROCESSED", "validate">>,
                                            <<"reject", "REJECTED", "failjob">>}
  BY DEF Mark, Reject
<1>2. PICK from \in {"mark", "reject"}, status \in {"PROCESSED", "REJECTED"},
           place \in {"validate", "failjob"} :
             /\ Marks(a, from, status, place)
             /\ <<from, status, place>> \in {<<"mark", "PROCESSED", "validate">>,
                                            <<"reject", "REJECTED", "failjob">>}
  BY <1>1
<1> DEFINE record == [status |-> status, run |-> inbox[thread[a].job].run]
<1>3. /\ thread[a].at = from /\ write[a] = NoWrite /\ thread[a].job \in Jobs
      /\ Logs(a, "inbox", record) /\ thread' = Goes(a, place) /\ raced' = raced
      /\ UNCHANGED <<job, inbox, payload, fresh, queue, runs, silent, effects, parts, bounds>>
  BY <1>2 DEF Marks, At, TypeOK, ThreadTypes, outcome
<1>4. inbox[thread[a].job].run \in Runs \cup {NoRun}
  BY <1>3 DEF TypeOK, StoreTypes, InboxRecords
<1>5. record \in InboxRecords /\ record.run = inbox[thread[a].job].run
  BY <1>4 DEF InboxRecords
<1>9. Fits(a, record, place)
  BY <1>2, <1>3 DEF Fits
<1>6. Stands(a, place)
  BY <1>3, GoesFacts
<1>7. /\ write' = [write EXCEPT ![a] = [to |-> "inbox", record |-> record]]
      /\ inboxFile' = [inboxFile EXCEPT ![thread[a].job] = record]
      /\ torn' \in {torn, torn \cup {thread[a].job}} /\ jobFile' = jobFile
      /\ HalfDone(a, "inbox", thread[a].job) => thread[a].job \in torn'
  BY <1>3 DEF Logs
<1> HIDE DEF record
<1>8. InboxLog(a, record, place)
  BY <1>3, <1>5, <1>6, <1>7, <1>9 DEF InboxLog, outbox
<1> QED BY <1>3, <1>5, <1>8

\* The first result of a job, or the same again.
LEMMA ReceiveFacts ==
    ASSUME TypeOK, NEW a \in Threads, Receive(a)
    PROVE  /\ thread[a].at = "receive" /\ write[a] = NoWrite /\ thread[a].job \in Jobs
           /\ \/ Rests(a) /\ UNCHANGED <<outbox, inboxes, fresh, write, queue, runs, silent,
                                         history, bounds>>
              \/ \E record \in InboxRecords :
                     /\ InboxLog(a, record, "process") /\ record.run = thread[a].run
                     /\ inbox[thread[a].job] = NoRecord
                     /\ raced' = IF HalfDone(a, "inbox", thread[a].job)
                                 THEN raced \cup {thread[a].job} ELSE raced
              \/ \E record \in InboxRecords :
                     /\ InboxLog(a, record, "end") /\ record.run = thread[a].run
                     /\ inbox[thread[a].job] # NoRecord
                     /\ inbox[thread[a].job].run = thread[a].run
                     /\ raced' = raced
<1> DEFINE j == thread[a].job
           status == IF inbox[j] = NoRecord THEN "RECEIVED" ELSE "DUPLICATE"
           place == IF inbox[j] = NoRecord THEN "process" ELSE "end"
           record == [status |-> status, run |-> thread[a].run]
<1>1. thread[a].at = "receive" /\ write[a] = NoWrite /\ j \in Jobs
  BY DEF Receive, At, TypeOK, ThreadTypes
<1>2. CASE inbox[j] # NoRecord /\ inbox[j].run # thread[a].run
  <2>1. /\ thread' = Done(a)
        /\ UNCHANGED <<outbox, inboxes, fresh, write, queue, runs, silent, history, bounds>>
    BY <1>2 DEF Receive, outbox, inboxes, history, outcome
  <2> QED BY <1>1, <2>1, DoneFacts
<1>3. CASE ~(inbox[j] # NoRecord /\ inbox[j].run # thread[a].run)
  <2>1. /\ Logs(a, "inbox", record) /\ thread' = Goes(a, place)
        /\ raced' = IF inbox[j] = NoRecord /\ HalfDone(a, "inbox", j)
                    THEN raced \cup {j} ELSE raced
        /\ UNCHANGED <<job, inbox, payload, fresh, queue, runs, silent, effects, parts, bounds>>
    BY <1>3 DEF Receive, outcome
  <2>2. thread[a].run \in Runs \cup {NoRun}
    BY DEF TypeOK, ThreadTypes
  <2>3. record \in InboxRecords /\ record.run = thread[a].run /\ Fits(a, record, place)
    BY <2>2 DEF InboxRecords, Fits
  <2>4. Stands(a, place)
    BY <2>1, GoesFacts
  <2>5. /\ write' = [write EXCEPT ![a] = [to |-> "inbox", record |-> record]]
        /\ inboxFile' = [inboxFile EXCEPT ![j] = record]
        /\ torn' \in {torn, torn \cup {j}} /\ jobFile' = jobFile
        /\ HalfDone(a, "inbox", j) => j \in torn'
    BY <2>1 DEF Logs
  <2> HIDE DEF record, place
  <2>6. InboxLog(a, record, place)
    BY <1>1, <2>1, <2>3, <2>4, <2>5 DEF InboxLog, outbox
  <2>7. CASE inbox[j] = NoRecord
    <3>1. place = "process"
      BY <2>7 DEF place
    <3> QED BY <1>1, <2>1, <2>3, <2>6, <2>7, <3>1
  <2>8. CASE inbox[j] # NoRecord
    <3>1. place = "end"
      BY <2>8 DEF place
    <3> QED BY <1>1, <1>3, <2>1, <2>3, <2>6, <2>8, <3>1
  <2> QED BY <2>7, <2>8
<1> QED BY <1>2, <1>3

\* A thread moves on without touching a store.
Jump(a, place) ==
    /\ Stands(a, place) /\ write[a] = NoWrite
    /\ UNCHANGED <<outbox, inboxes, fresh, write, queue, runs, silent, history, bounds>>

LEMMA UpdateFacts ==
    ASSUME TypeOK, NEW a \in Threads,
           Claim(a) \/ Announce(a) \/ MarkRunning(a) \/ Requeue(a) \/ Fail(a)
               \/ Validate(a) \/ Complete(a)
    PROVE  \E record \in JobRecords, place \in JobPlaces : JobLog(a, record, place)
<1>1. CASE Claim(a)
  BY <1>1, UpdatesFacts DEF Claim, JobPlaces, Dispatching
<1>2. CASE Announce(a)
  BY <1>2, UpdatesFacts DEF Announce, JobPlaces, Dispatching
<1>3. CASE MarkRunning(a)
  BY <1>3, UpdatesFacts DEF MarkRunning, JobPlaces, Dispatching
<1>4. CASE Requeue(a)
  BY <1>4, UpdatesFacts DEF Requeue, JobPlaces, Dispatching
<1>5. CASE Fail(a)
  BY <1>5, UpdatesFacts DEF Fail, JobPlaces, Dispatching
<1>6. CASE Validate(a)
  BY <1>6, UpdatesFacts DEF Validate, JobPlaces, Dispatching
<1>7. CASE Complete(a)
  BY <1>7, UpdatesFacts DEF Complete, JobPlaces, Dispatching
<1> QED BY <1>1, <1>2, <1>3, <1>4, <1>5, <1>6, <1>7

LEMMA FailJobFacts ==
    ASSUME TypeOK, NEW a \in Threads, FailJob(a)
    PROVE  \/ thread[a].at = "failjob" /\ Jump(a, "tidy")
           \/ \E record \in JobRecords, place \in JobPlaces : JobLog(a, record, place)
<1>1. CASE job[thread[a].job].status = "FAILED"
  BY <1>1, GoesFacts DEF FailJob, At, Jump
<1>2. CASE job[thread[a].job].status # "FAILED"
  <2>1. Updates(a, "failjob", "FAILED", NoRun, "tidy")
    BY <1>2 DEF FailJob
  <2> QED BY <2>1, UpdatesFacts DEF JobPlaces, Dispatching
<1> QED BY <1>1, <1>2

\* The callback moves on: it is processed, its payload read, its effect made.
ProcessMove(a) ==
    /\ thread[a].at \in {"process", "read", "effect"} /\ write[a] = NoWrite
    /\ thread[a].job \in Jobs
    /\ \/ Stands(a, "tidy") /\ effects' = effects
       \/ /\ thread[a].at = "process" /\ effects' = effects
          /\ thread' = [thread EXCEPT ![a] = [at |-> "read", job |-> thread[a].job,
                                              run |-> inbox[thread[a].job].run]]
       \/ thread[a].at = "read" /\ Stands(a, "effect") /\ effects' = effects
       \/ Stands(a, "reject") /\ effects' = effects
       \/ /\ thread[a].at = "effect" /\ Stands(a, "mark")
          /\ effects' = [effects EXCEPT ![thread[a].job] = Append(@, thread[a].run)]
    /\ parts' \in {parts, [parts EXCEPT ![thread[a].job] = @ \ {thread[a].run}]}
    /\ UNCHANGED <<outbox, inboxes, fresh, write, queue, runs, silent, raced, torn, bounds>>

LEMMA ProcessFacts ==
    ASSUME TypeOK, NEW a \in Threads, Process(a) \/ ReadPayload(a) \/ Effect(a)
    PROVE  ProcessMove(a)
<1>1. /\ thread[a].at \in {"process", "read", "effect"} /\ write[a] = NoWrite
      /\ thread[a].job \in Jobs
  BY DEF Process, ReadPayload, Effect, At, TypeOK, ThreadTypes
<1>2. CASE Process(a)
  <2>1. /\ thread[a].at = "process"
        /\ \/ thread' = Goes(a, "tidy")
           \/ thread' = [thread EXCEPT ![a] = [at |-> "read", job |-> thread[a].job,
                                               run |-> inbox[thread[a].job].run]]
        /\ UNCHANGED <<outbox, inboxes, fresh, write, queue, runs, silent, history, bounds>>
    BY <1>2 DEF Process, At
  <2> QED BY <1>1, <2>1, GoesFacts DEF ProcessMove, history, outcome
<1>3. CASE ReadPayload(a)
  <2>1. /\ thread[a].at = "read" /\ \E place \in {"effect", "reject"} : thread' = Goes(a, place)
        /\ UNCHANGED <<outbox, inboxes, fresh, write, queue, runs, silent, history, bounds>>
    BY <1>3 DEF ReadPayload, At
  <2> QED BY <1>1, <2>1, GoesFacts DEF ProcessMove, history, outcome
<1>4. CASE Effect(a)
  <2>1. /\ thread[a].at = "effect"
        /\ \/ /\ effects' = [effects EXCEPT ![thread[a].job] = Append(@, thread[a].run)]
              /\ thread' = Goes(a, "mark")
           \/ thread' = Goes(a, "reject") /\ UNCHANGED effects
        /\ parts' \in {parts, [parts EXCEPT ![thread[a].job] = @ \ {thread[a].run}]}
        /\ UNCHANGED <<outbox, inboxes, fresh, write, queue, runs, silent, raced, torn, bounds>>
    BY <1>4 DEF Effect, At, outcome
  <2> QED BY <1>1, <2>1, GoesFacts DEF ProcessMove
<1> QED BY <1>2, <1>3, <1>4

\* A run ends, or its result grows old.
Turns(r) == RunEnds(r) \/ Expire(r)

\* A part of a batch is stored, or nothing happens.
NoMove ==
    UNCHANGED <<outbox, inboxes, fresh, threads, runs, silent, effects, raced, torn, bounds>>

\* Everything but the steps that have an action of their own in the proofs.
LEMMA Steps ==
    ASSUME TypeOK, [Next]_vars
    PROVE  \/ \E a \in Threads, record \in JobRecords, place \in JobPlaces :
                  JobLog(a, record, place)
           \/ \E a \in Threads : \/ thread[a].at = "failjob" /\ Jump(a, "tidy")
                                 \/ Mark(a) \/ Reject(a) \/ Receive(a) \/ ProcessMove(a)
                                 \/ SetRecord(a) \/ Call(a) \/ Tidy(a) \/ Abort(a)
           \/ \E a \in {"loop", "shadow"}, j \in Jobs : CreateJob(a, j)
           \/ Poll \/ (\E q \in queue : Ask(q[1], q[2]))
           \/ (\E j \in Jobs : Sweep(j) \/ Falter(j))
           \/ (\E r \in DOMAIN runs : Deliver(r) \/ Turns(r))
           \/ Crash \/ NoMove
<1>1. ASSUME NEW a \in Threads, Dispatch(a) \/ Callback(a)
      PROVE  \/ \E record \in JobRecords, place \in JobPlaces : JobLog(a, record, place)
             \/ thread[a].at = "failjob" /\ Jump(a, "tidy")
             \/ Mark(a) \/ Reject(a) \/ Receive(a) \/ ProcessMove(a) \/ Call(a) \/ Tidy(a)
             \/ StorePart(a)
  BY <1>1, UpdateFacts, FailJobFacts, ProcessFacts DEF Dispatch, Callback
<1>2. \A a \in Threads : StorePart(a) => NoMove
  BY DEF StorePart, NoMove
<1>3. UNCHANGED vars => NoMove
  BY DEF vars, NoMove, history, outcome
<1> QED BY <1>1, <1>2, <1>3 DEF Next, ThreadStep, Turns

-----------------------------------------------------------------------------
(* Types of the stores *)

LEMMA WriteFacts ==
    ASSUME TypeOK, NEW a \in Threads
    PROVE  /\ write[a] \in WriteRecords
           /\ write[a].to \in {"none", "job", "inbox"}
           /\ write[a].to = "job" => write[a].record \in JobRecords
           /\ write[a].to = "inbox" => write[a].record \in InboxRecords
           /\ write[a].to = "none" <=> write[a] = NoWrite
<1>1. write[a] \in WriteRecords
  BY DEF TypeOK, ThreadTypes, WriteRecords
<1>2. CASE write[a] \in [to : {"none"}, record : {NoRecord}]
  <2>1. write[a] = [to |-> "none", record |-> NoRecord]
    BY <1>2
  <2> QED BY <1>1, <2>1 DEF NoWrite
<1>3. CASE write[a] \in [to : {"job"}, record : JobRecords]
  <2>1. write[a].to = "job" /\ write[a].record \in JobRecords
    BY <1>3
  <2> QED BY <1>1, <2>1 DEF NoWrite
<1>4. CASE write[a] \in [to : {"inbox"}, record : InboxRecords]
  <2>1. write[a].to = "inbox" /\ write[a].record \in InboxRecords
    BY <1>4
  <2> QED BY <1>1, <2>1 DEF NoWrite
<1> QED BY <1>1, <1>2, <1>3, <1>4 DEF WriteRecords

\* A record is set in the store it was written for.
LEMMA SetFacts ==
    ASSUME TypeOK, NEW a \in Threads, SetRecord(a)
    PROVE  /\ write' = [write EXCEPT ![a] = NoWrite] /\ write[a] # NoWrite
           /\ Rests(a) \/ thread' = thread
           /\ \/ /\ write[a].to = "job" /\ write[a].record \in JobRecords /\ inbox' = inbox
                 /\ job' = [job EXCEPT ![thread[a].job] = write[a].record]
              \/ /\ write[a].to = "inbox" /\ write[a].record \in InboxRecords /\ job' = job
                 /\ inbox' = [inbox EXCEPT ![thread[a].job] = write[a].record]
           /\ UNCHANGED <<jobFile, inboxFile, payload, fresh, queue, runs, silent, history,
                          bounds>>
<1>1. /\ write[a] # NoWrite /\ write' = [write EXCEPT ![a] = NoWrite]
      /\ thread' = Done(a) \/ thread' = thread
      /\ IF write[a].to = "job"
         THEN job' = [job EXCEPT ![thread[a].job] = write[a].record] /\ inbox' = inbox
         ELSE inbox' = [inbox EXCEPT ![thread[a].job] = write[a].record] /\ job' = job
      /\ UNCHANGED <<jobFile, inboxFile, payload, fresh, queue, runs, silent, history, bounds>>
  BY DEF SetRecord
<1> QED BY <1>1, WriteFacts, DoneFacts

RunRecords == [job : Jobs, state : {"running", "good", "bad", "failed"}, late : BOOLEAN]

LEMMA RunsFacts ==
    ASSUME TypeOK
    PROVE  /\ runs \in Seq(RunRecords) /\ DOMAIN runs = 1 .. Len(runs)
           /\ Len(runs) \in Nat /\ Len(runs) <= creates /\ creates <= MaxCreates
           /\ \A r \in DOMAIN runs : runs[r] \in RunRecords /\ runs[r].job \in Jobs
           /\ DOMAIN runs \subseteq Runs /\ DOMAIN runs = RunIds \ {NoRun}
           /\ RunIds \subseteq Runs \cup {NoRun} /\ NoRun \notin Runs
<1>1. /\ runs \in Seq(RunRecords) /\ Len(runs) \in Nat /\ DOMAIN runs = 1 .. Len(runs)
      /\ Len(runs) <= creates /\ creates <= MaxCreates /\ MaxCreates \in Nat /\ creates \in Nat
  BY JobLifecycleAssumption DEF TypeOK, WorldTypes, RunRecords
<1>2. \A r \in DOMAIN runs : runs[r] \in RunRecords
  BY <1>1, ElementOfSeq
<1>3. \A r \in DOMAIN runs : runs[r].job \in Jobs
  BY <1>2 DEF RunRecords
<1> QED BY <1>1, <1>2, <1>3 DEF RunIds, Runs, NoRun

LEMMA StoreTypesStep ==
    ASSUME TInv, [Next]_vars
    PROVE  StoreTypes'
<1>1. TypeOK /\ StoreTypes /\ RunsExist /\ ThreadTypes /\ WorldTypes
  BY DEF TInv, TypeOK
<1>2. DOMAIN runs \subseteq Runs
  BY <1>1, RunsFacts
<1>3. \A r \in DOMAIN runs : runs[r].job \in Jobs
  BY <1>1, RunsFacts
<1> USE <1>1 DEF StoreTypes
<1>4. ASSUME NEW a \in Threads, NEW record \in JobRecords, NEW place \in JobPlaces,
             JobLog(a, record, place)
      PROVE  StoreTypes'
  BY <1>4 DEF JobLog, inboxes
<1>5. ASSUME NEW a \in Threads, Mark(a) \/ Reject(a) \/ Receive(a)
      PROVE  StoreTypes'
  <2>1. \/ UNCHANGED <<job, jobFile, inbox, inboxFile, payload, fresh>>
        \/ \E record \in InboxRecords, place \in Places : InboxLog(a, record, place)
    BY <1>5, MarksFacts, ReceiveFacts DEF Places, outbox, inboxes
  <2> QED BY <2>1 DEF InboxLog, outbox
<1>6. ASSUME NEW a \in Threads,
             Jump(a, "tidy") \/ ProcessMove(a) \/ Call(a) \/ Tidy(a) \/ Abort(a)
      PROVE  StoreTypes'
  BY <1>6 DEF Jump, ProcessMove, Call, Tidy, Abort, outbox, inboxes
<1>7. ASSUME NEW a \in Threads, SetRecord(a)
      PROVE  StoreTypes'
  BY <1>7, SetFacts
<1>8. ASSUME NEW a \in {"loop", "shadow"}, NEW j \in Jobs, CreateJob(a, j)
      PROVE  StoreTypes'
  <2>1. /\ UNCHANGED <<job, inbox, inboxFile, payload>>
        /\ fresh' \in {fresh, fresh \cup {j}}
        /\ jobFile' \in {jobFile,
                         [jobFile EXCEPT ![j] = [status |-> "QUEUED", run |-> NoRun]]}
    BY <1>8 DEF CreateJob, inboxes
  <2>2. [status |-> "QUEUED", run |-> NoRun] \in JobRecords
    BY DEF JobRecords
  <2> QED BY <2>1, <2>2
<1>9. ASSUME NEW a \in Threads, NEW r \in Runs, runs[r].job \in Jobs, TakesUp(a, r)
      PROVE  payload' \in [Jobs -> Runs \cup {NoRun}]
  BY <1>9 DEF TakesUp
<1>10. ASSUME NEW q \in queue, Ask(q[1], q[2])
       PROVE  StoreTypes'
  <2>1. q[2] \in DOMAIN runs /\ q[2] \in Runs
    BY <1>2, RunsFacts DEF RunsExist
  <2>2. /\ UNCHANGED <<job, jobFile, inbox, inboxFile, fresh>>
        /\ payload' = payload \/ TakesUp("poller", q[2])
    BY <1>10 DEF Ask, outbox
  <2>3. "poller" \in Threads
    BY DEF Threads
  <2> QED BY <1>3, <1>9, <2>1, <2>2, <2>3
<1>11. ASSUME NEW r \in DOMAIN runs, Deliver(r) \/ Turns(r)
       PROVE  StoreTypes'
  <2>1. /\ UNCHANGED <<job, jobFile, inbox, inboxFile, fresh>>
        /\ payload' = payload \/ TakesUp("loop", r)
    BY <1>11 DEF Deliver, Turns, RunEnds, Expire, Finish, outbox, inboxes
  <2>2. "loop" \in Threads /\ r \in Runs
    BY <1>2 DEF Threads
  <2> QED BY <1>3, <1>9, <2>1, <2>2
<1>12. CASE Crash
  BY <1>12 DEF Crash
<1>13. CASE Poll \/ (\E j \in Jobs : Sweep(j) \/ Falter(j)) \/ NoMove
  BY <1>13 DEF Poll, Sweep, Falter, NoMove, outbox, inboxes
<1> QED BY <1>4, <1>5, <1>6, <1>7, <1>8, <1>10, <1>11, <1>12, <1>13, Steps

-----------------------------------------------------------------------------
(* Types of the threads *)

\* Where the proofs about threads begin: a thread gets a new record.
LEMMA ThreadSet ==
    ASSUME TypeOK, NEW a \in Threads, NEW r \in ThreadRecords,
           r.at \notin {"rest", "ask"} => r.job \in Jobs,
           thread' = [thread EXCEPT ![a] = r]
    PROVE  /\ thread' \in [Threads -> ThreadRecords]
           /\ \A b \in Threads : thread'[b].at \notin {"rest", "ask"} => thread'[b].job \in Jobs
           /\ thread'[a] = r /\ \A b \in Threads \ {a} : thread'[b] = thread[b]
  BY DEF TypeOK, ThreadTypes, ThreadRecords

LEMMA StandsFacts ==
    ASSUME TypeOK, NEW a \in Threads, NEW place \in Places \ {"rest", "ask"},
           thread[a].job \in Jobs, Stands(a, place)
    PROVE  /\ thread' \in [Threads -> ThreadRecords]
           /\ \A b \in Threads : thread'[b].at \notin {"rest", "ask"} => thread'[b].job \in Jobs
           /\ thread'[a].at = place /\ thread'[a].job = thread[a].job
           /\ thread'[a].run = thread[a].run
           /\ \A b \in Threads \ {a} : thread'[b] = thread[b]
<1> DEFINE r == [at |-> place, job |-> thread[a].job, run |-> thread[a].run]
<1>1. r \in ThreadRecords /\ r.at = place /\ r.job = thread[a].job /\ r.run = thread[a].run
  BY DEF TypeOK, ThreadTypes, ThreadRecords
<1>2. thread' = [thread EXCEPT ![a] = r]
  BY DEF Stands
<1> HIDE DEF r
<1> QED BY <1>1, <1>2, ThreadSet

LEMMA RestsFacts ==
    ASSUME TypeOK, NEW a \in Threads, Rests(a)
    PROVE  /\ thread' \in [Threads -> ThreadRecords]
           /\ \A b \in Threads : thread'[b].at \notin {"rest", "ask"} => thread'[b].job \in Jobs
           /\ thread'[a].at \in {"rest", "ask"} /\ thread'[a].run = NoRun
           /\ \A b \in Threads \ {a} : thread'[b] = thread[b]
<1>1. PICK place \in {"rest", "ask"} :
          thread' = [thread EXCEPT ![a] = [at |-> place, job |-> NoJob, run |-> NoRun]]
  BY DEF Rests
<1> DEFINE r == [at |-> place, job |-> NoJob, run |-> NoRun]
<1>2. r \in ThreadRecords /\ r.at = place /\ r.run = NoRun
  BY DEF ThreadRecords, Places
<1>3. thread' = [thread EXCEPT ![a] = r]
  BY <1>1
<1> HIDE DEF r
<1> QED BY <1>1, <1>2, <1>3, ThreadSet

\* A thread takes up another job or run.
Takes(a, place, j, run) ==
    thread' = [thread EXCEPT ![a] = [at |-> place, job |-> j, run |-> run]]

LEMMA TakesFacts ==
    ASSUME TypeOK, NEW a \in Threads, NEW place \in Places, NEW j \in Jobs,
           NEW run \in Runs \cup {NoRun}, Takes(a, place, j, run)
    PROVE  /\ thread' \in [Threads -> ThreadRecords]
           /\ \A b \in Threads : thread'[b].at \notin {"rest", "ask"} => thread'[b].job \in Jobs
           /\ thread'[a].at = place /\ thread'[a].job = j /\ thread'[a].run = run
           /\ \A b \in Threads \ {a} : thread'[b] = thread[b]
<1> DEFINE r == [at |-> place, job |-> j, run |-> run]
<1>1. r \in ThreadRecords /\ r.at = place /\ r.job = j /\ r.run = run
  BY DEF ThreadRecords
<1>2. thread' = [thread EXCEPT ![a] = r]
  BY DEF Takes
<1> HIDE DEF r
<1> QED BY <1>1, <1>2, ThreadSet

\* No step moves two threads, and each moves in one of these ways.
LEMMA ThreadMoves ==
    ASSUME TInv, [Next]_vars
    PROVE  \/ thread' = thread \/ Crash
           \/ \E a \in Threads :
                  \/ Rests(a)
                  \/ thread[a].job \in Jobs /\ \E place \in Places \ {"rest", "ask"} : Stands(a, place)
                  \/ \E place \in Places \ {"rest", "ask"}, j \in Jobs, run \in RunIds :
                         Takes(a, place, j, run)
                  \/ Call(a)
<1> DEFINE Goal(a) ==
               \/ Rests(a)
               \/ thread[a].job \in Jobs /\ \E place \in Places \ {"rest", "ask"} : Stands(a, place)
               \/ \E place \in Places \ {"rest", "ask"}, j \in Jobs, run \in RunIds :
                      Takes(a, place, j, run)
               \/ Call(a)
<1>1. TypeOK /\ ThreadTypes /\ RunsExist /\ WritersWork /\ AtWork
  BY DEF TInv, TypeOK
<1>2. \A a \in Threads : thread[a].at \notin {"rest", "ask"} => thread[a].job \in Jobs
  BY <1>1 DEF ThreadTypes
<1>3. NoRun \in RunIds /\ DOMAIN runs \subseteq RunIds /\ \A r \in DOMAIN runs : runs[r].job \in Jobs
  BY <1>1, RunsFacts DEF RunIds, NoRun
<1>4. ASSUME NEW a \in Threads, NEW record \in JobRecords, NEW place \in JobPlaces,
             JobLog(a, record, place)
      PROVE  Goal(a)
  <2>1. thread[a].job \in Jobs /\ place \in Places \ {"rest", "ask"} /\ Stands(a, place)
    BY <1>2, <1>4 DEF JobLog, JobPlaces, Places
  <2> QED BY <2>1
<1>5. ASSUME NEW a \in Threads, Mark(a) \/ Reject(a)
      PROVE  Goal(a)
  <2>1. thread[a].job \in Jobs /\ \E place \in {"validate", "failjob"} : Stands(a, place)
    BY <1>1, <1>2, <1>5, MarksFacts DEF InboxLog
  <2> QED BY <2>1 DEF Places
<1>6. ASSUME NEW a \in Threads, Receive(a)
      PROVE  Goal(a)
  <2>1. \/ Rests(a)
        \/ thread[a].job \in Jobs /\ \E place \in {"process", "end"} : Stands(a, place)
    BY <1>1, <1>6, ReceiveFacts DEF InboxLog
  <2> QED BY <2>1 DEF Places
<1>7. ASSUME NEW a \in Threads, thread[a].at = "failjob" /\ Jump(a, "tidy")
      PROVE  Goal(a)
  BY <1>2, <1>7 DEF Jump, Places
<1>8. ASSUME NEW a \in Threads, ProcessMove(a)
      PROVE  Goal(a)
  <2>1. /\ thread[a].job \in Jobs
        /\ \/ \E place \in {"tidy", "effect", "reject", "mark"} : Stands(a, place)
           \/ Takes(a, "read", thread[a].job, inbox[thread[a].job].run)
    BY <1>8 DEF ProcessMove, Takes
  <2>2. inbox[thread[a].job].run \in RunIds
    BY <1>1, <2>1 DEF RunsExist
  <2> QED BY <2>1, <2>2 DEF Places
<1>9. ASSUME NEW a \in Threads, SetRecord(a)
      PROVE  thread' = thread \/ Goal(a)
  BY <1>1, <1>9, SetFacts
<1>10. ASSUME NEW a \in Threads, Tidy(a) \/ Abort(a)
       PROVE  Goal(a)
  <2>1. thread' = Done(a) \/ thread' = [thread EXCEPT ![a] = Idle]
    BY <1>10 DEF Tidy, Abort
  <2>2. thread' = [thread EXCEPT ![a] = Idle] => Rests(a)
    BY DEF Rests, Idle
  <2> QED BY <2>1, <2>2, DoneFacts
<1>11. ASSUME NEW a \in {"loop", "shadow"}, NEW j \in Jobs, CreateJob(a, j)
       PROVE  a \in Threads /\ Goal(a)
  <2>1. Takes(a, "claim", j, NoRun) /\ a \in Threads
    BY <1>11 DEF CreateJob, Takes, Threads
  <2> QED BY <1>3, <2>1 DEF Places
<1>12. ASSUME Poll
       PROVE  "poller" \in Threads /\ Goal("poller")
  <2>1. "poller" \in Threads
    BY DEF Threads
  <2>2. Stands("poller", "ask") /\ thread["poller"] = Idle
    BY <1>1, <1>12, <2>1, GoesFacts DEF Poll
  <2>3. Rests("poller")
    BY <2>2 DEF Stands, Rests, Idle
  <2> QED BY <2>1, <2>3
<1>13. ASSUME NEW q \in queue, Ask(q[1], q[2])
       PROVE  "poller" \in Threads /\ (thread' = thread \/ Goal("poller"))
  <2>1. "poller" \in Threads /\ q[1] \in Jobs /\ q[2] \in DOMAIN runs
    BY <1>1, RunsFacts DEF Threads, ThreadTypes, RunsExist
  <2>2. \/ thread' = [thread EXCEPT !["poller"] = Idle]
        \/ thread' = [thread EXCEPT !["poller"] = thread["poller"]]
        \/ Takes("poller", "fail", q[1], q[2])
        \/ Takes("poller", "receive", runs[q[2]].job, q[2])
    BY <1>13 DEF Ask, Takes, TakesUp
  <2>3. thread' = [thread EXCEPT !["poller"] = Idle] => Rests("poller")
    BY DEF Rests, Idle
  <2>4. thread' = [thread EXCEPT !["poller"] = thread["poller"]] => thread' = thread
    BY <1>1, <2>1 DEF ThreadTypes
  <2> QED BY <1>3, <2>1, <2>2, <2>3, <2>4 DEF Places
<1>14. ASSUME NEW j \in Jobs, Sweep(j)
       PROVE  "sweeper" \in Threads /\ Goal("sweeper")
  <2>1. Takes("sweeper", "fail", j, NoRun) /\ "sweeper" \in Threads
    BY <1>14 DEF Sweep, Takes, Threads
  <2> QED BY <1>3, <2>1 DEF Places
<1>15. ASSUME NEW r \in DOMAIN runs, Deliver(r)
       PROVE  "loop" \in Threads /\ Goal("loop")
  <2>1. Takes("loop", "receive", runs[r].job, r) /\ "loop" \in Threads
    BY <1>15 DEF Deliver, TakesUp, Takes, Threads
  <2> QED BY <1>3, <2>1 DEF Places
<1>16. ASSUME \/ (\E j \in Jobs : Falter(j)) \/ (\E r \in DOMAIN runs : Turns(r))
              \/ NoMove
       PROVE  thread' = thread
  BY <1>16 DEF Falter, Turns, RunEnds, Expire, Finish, NoMove, threads
<1> HIDE DEF Goal
<1>17. thread' = thread \/ Crash \/ \E a \in Threads : Goal(a)
  <2>1. ASSUME NEW a \in Threads, Call(a) PROVE Goal(a)
    BY <2>1 DEF Goal
  <2>2. \A r \in DOMAIN runs : Deliver(r) => \E a \in Threads : Goal(a)
    BY <1>15
  <2>3. \A j \in Jobs : Sweep(j) => \E a \in Threads : Goal(a)
    BY <1>14
  <2>4. \A q \in queue : Ask(q[1], q[2]) => thread' = thread \/ \E a \in Threads : Goal(a)
    BY <1>13
  <2>5. Poll => \E a \in Threads : Goal(a)
    BY <1>12
  <2>6. \A a \in {"loop", "shadow"}, j \in Jobs :
            CreateJob(a, j) => \E b \in Threads : Goal(b)
    BY <1>11
  <2> QED BY <1>1, <1>4, <1>5, <1>6, <1>7, <1>8, <1>9, <1>10, <1>16,
             <2>1, <2>2, <2>3, <2>4, <2>5, <2>6, Steps
<1> QED BY <1>17 DEF Goal

\* RunPod's list of runs grows only by a call that has one to its credit.
LEMMA CallFacts ==
    ASSUME TypeOK, RunsBounded, NEW a \in Threads, Call(a)
    PROVE  /\ thread[a].at = "call" /\ thread[a].job \in Jobs /\ write[a] = NoWrite
           /\ a \in {"loop", "shadow"} /\ Len(runs) + 1 <= creates
           /\ \/ runs' = runs /\ \E place \in {"requeue", "fail"} : Stands(a, place)
              \/ /\ runs' = Append(runs, [job |-> thread[a].job, state |-> "running", late |-> FALSE])
                 /\ \/ Takes(a, "running", thread[a].job, Len(runs) + 1)
                    \/ \E place \in {"requeue", "fail"} : Stands(a, place)
           /\ UNCHANGED <<outbox, inboxes, fresh, write, queue, silent, history, creates,
                          callbacks>>
<1>1. thread[a].at = "call" /\ write[a] = NoWrite
  BY DEF Call, At
<1>2. thread[a].job \in Jobs /\ Len(runs) \in Nat /\ creates \in Nat
  BY <1>1, RunsFacts, JobLifecycleAssumption DEF TypeOK, ThreadTypes, WorldTypes
<1>3. a \in {"loop", "shadow"}
  BY <1>1 DEF RunsBounded, Dispatching, Threads
<1>4. Len(runs) + 1 <= creates
  <2>1. Due(a) = 1 /\ Due("loop") \in {0, 1} /\ Due("shadow") \in {0, 1}
    BY <1>1 DEF Due, Dispatching
  <2> QED BY <1>2, <1>3, <2>1 DEF RunsBounded
<1>5. \/ /\ runs' = runs /\ \E place \in {"requeue", "fail"} : thread' = Goes(a, place)
      \/ /\ runs' = Append(runs, [job |-> thread[a].job, state |-> "running", late |-> FALSE])
         /\ \/ Takes(a, "running", thread[a].job, Len(runs) + 1)
            \/ \E place \in {"requeue", "fail"} : thread' = Goes(a, place)
  BY DEF Call, Takes
<1>6. UNCHANGED <<outbox, inboxes, fresh, write, queue, silent, history, creates, callbacks>>
  BY DEF Call
<1> QED BY <1>1, <1>2, <1>3, <1>4, <1>5, <1>6, GoesFacts

LEMMA TurnFacts ==
    ASSUME TypeOK, NEW r \in DOMAIN runs, Turns(r)
    PROVE  \E record \in RunRecords :
               record.job = runs[r].job /\ runs' = [runs EXCEPT ![r] = record]
<1>1. runs[r] \in RunRecords
  BY RunsFacts
<1>2. CASE RunEnds(r)
  <2>1. PICK state \in {"good", "bad", "failed"} : runs' = [runs EXCEPT ![r].state = state]
    BY <1>2 DEF RunEnds, Finish
  <2> DEFINE record == [runs[r] EXCEPT !.state = state]
  <2>2. record \in RunRecords /\ record.job = runs[r].job
    BY <1>1 DEF RunRecords
  <2>3. runs' = [runs EXCEPT ![r] = record]
    BY <2>1
  <2> QED BY <2>2, <2>3
<1>3. CASE Expire(r)
  <2> DEFINE record == [runs[r] EXCEPT !.late = TRUE]
  <2>1. record \in RunRecords /\ record.job = runs[r].job
    BY <1>1 DEF RunRecords
  <2>2. runs' = [runs EXCEPT ![r] = record]
    BY <1>3 DEF Expire
  <2> QED BY <2>1, <2>2
<1> QED BY <1>2, <1>3 DEF Turns

LEMMA RunsStep ==
    ASSUME TInv, [Next]_vars
    PROVE  /\ runs' \in Seq(RunRecords) /\ Len(runs) <= Len(runs')
           /\ RunIds \subseteq RunIds'
           /\ runs' = runs \/ (\E a \in Threads : Call(a) /\ Len(runs') = Len(runs) + 1)
                           \/ (Len(runs') = Len(runs) /\ \E r \in DOMAIN runs : Turns(r))
<1>1. /\ TypeOK /\ runs \in Seq(RunRecords) /\ Len(runs) \in Nat /\ RunsBounded
      /\ DOMAIN runs = 1 .. Len(runs)
  BY RunsFacts DEF TInv
<1>2. CASE runs' = runs
  BY <1>1, <1>2 DEF RunIds
<1>3. ASSUME NEW a \in Threads, Call(a), runs' # runs
      PROVE  runs' \in Seq(RunRecords) /\ Len(runs') = Len(runs) + 1
  <2>1. /\ runs' = Append(runs, [job |-> thread[a].job, state |-> "running", late |-> FALSE])
        /\ thread[a].job \in Jobs
    BY <1>1, <1>3, CallFacts
  <2>2. [job |-> thread[a].job, state |-> "running", late |-> FALSE] \in RunRecords
    BY <2>1 DEF RunRecords
  <2> QED BY <1>1, <2>1, <2>2
<1>4. ASSUME NEW r \in DOMAIN runs, Turns(r)
      PROVE  runs' \in Seq(RunRecords) /\ Len(runs') = Len(runs)
  <2>1. PICK record \in RunRecords : runs' = [runs EXCEPT ![r] = record]
    BY <1>1, <1>4, TurnFacts
  <2> QED BY <1>1, <2>1
<1>5. ASSUME runs' # runs
      PROVE  (\E a \in Threads : Call(a)) \/ \E r \in DOMAIN runs : Turns(r)
  <2>1. \A a \in Threads : (\/ Mark(a) \/ Reject(a) \/ Receive(a) \/ ProcessMove(a)
                            \/ Tidy(a) \/ Abort(a) \/ Jump(a, "tidy")) => runs' = runs
    BY <1>1, MarksFacts, ReceiveFacts DEF InboxLog, ProcessMove, Tidy, Abort, Jump
  <2>2. \A a \in Threads : SetRecord(a) => runs' = runs
    BY <1>1, SetFacts
  <2>3. \A a \in Threads, record \in JobRecords, place \in JobPlaces :
            JobLog(a, record, place) => runs' = runs
    BY DEF JobLog
  <2>4. (\E a \in {"loop", "shadow"}, j \in Jobs : CreateJob(a, j)) => runs' = runs
    BY DEF CreateJob
  <2>5. ASSUME \/ Poll \/ (\E q \in queue : Ask(q[1], q[2]))
               \/ (\E j \in Jobs : Sweep(j) \/ Falter(j)) \/ (\E r \in DOMAIN runs : Deliver(r))
               \/ Crash \/ NoMove
        PROVE  runs' = runs
    BY <2>5 DEF Poll, Ask, Sweep, Falter, Deliver, Crash, NoMove
  <2> QED BY <1>1, <1>5, <2>1, <2>2, <2>3, <2>4, <2>5, Steps
<1>6. ASSUME runs' # runs
      PROVE  /\ runs' \in Seq(RunRecords) /\ Len(runs) <= Len(runs')
             /\ \/ \E a \in Threads : Call(a) /\ Len(runs') = Len(runs) + 1
                \/ Len(runs') = Len(runs) /\ \E r \in DOMAIN runs : Turns(r)
  BY <1>1, <1>3, <1>4, <1>5, <1>6
<1>7. Len(runs) <= Len(runs') /\ Len(runs') \in Nat => RunIds \subseteq RunIds'
  BY <1>1 DEF RunIds
<1> QED BY <1>1, <1>2, <1>6, <1>7

LEMMA ThreadsTyped ==
    ASSUME TInv, [Next]_vars
    PROVE  /\ thread' \in [Threads -> ThreadRecords]
           /\ \A b \in Threads : thread'[b].at \notin {"rest", "ask"} => thread'[b].job \in Jobs
           /\ \A b \in Threads : thread'[b].run \in RunIds'
<1>1. /\ TypeOK /\ ThreadTypes /\ RunIds \subseteq RunIds' /\ RunIds \subseteq Runs \cup {NoRun}
      /\ NoRun \in RunIds /\ NoRun \in RunIds'
      /\ \A b \in Threads : thread[b].run \in RunIds
  BY RunsStep, RunsFacts DEF TInv, TypeOK, RunsExist, RunIds, NoRun
<1>2. CASE thread' = thread
  BY <1>1, <1>2 DEF ThreadTypes, ThreadRecords
<1>3. CASE Crash
  <2>1. thread' = [a \in Threads |-> Idle] /\ Idle \in ThreadRecords
    BY <1>3 DEF Crash, Idle, ThreadRecords, Places
  <2>2. Idle.at = "rest" /\ Idle.run = NoRun
    BY DEF Idle
  <2> QED BY <1>1, <2>1, <2>2
<1>4. ASSUME NEW a \in Threads, Rests(a)
      PROVE  /\ thread' \in [Threads -> ThreadRecords]
             /\ \A b \in Threads : thread'[b].at \notin {"rest", "ask"} => thread'[b].job \in Jobs
             /\ \A b \in Threads : thread'[b].run \in RunIds'
  BY <1>1, <1>4, RestsFacts
<1>5. ASSUME NEW a \in Threads, thread[a].job \in Jobs,
             NEW place \in Places \ {"rest", "ask"}, Stands(a, place)
      PROVE  /\ thread' \in [Threads -> ThreadRecords]
             /\ \A b \in Threads : thread'[b].at \notin {"rest", "ask"} => thread'[b].job \in Jobs
             /\ \A b \in Threads : thread'[b].run \in RunIds'
  BY <1>1, <1>5, StandsFacts
<1>6. ASSUME NEW a \in Threads, NEW place \in Places \ {"rest", "ask"}, NEW j \in Jobs,
             NEW run \in Runs \cup {NoRun}, run \in RunIds', Takes(a, place, j, run)
      PROVE  /\ thread' \in [Threads -> ThreadRecords]
             /\ \A b \in Threads : thread'[b].at \notin {"rest", "ask"} => thread'[b].job \in Jobs
             /\ \A b \in Threads : thread'[b].run \in RunIds'
  BY <1>1, <1>6, TakesFacts
<1>7. ASSUME NEW a \in Threads, Call(a)
      PROVE  /\ thread' \in [Threads -> ThreadRecords]
             /\ \A b \in Threads : thread'[b].at \notin {"rest", "ask"} => thread'[b].job \in Jobs
             /\ \A b \in Threads : thread'[b].run \in RunIds'
  <2>1. /\ thread[a].job \in Jobs /\ Len(runs) + 1 <= creates /\ creates <= MaxCreates
        /\ \/ \E place \in {"requeue", "fail"} : Stands(a, place)
           \/ /\ Takes(a, "running", thread[a].job, Len(runs) + 1)
              /\ runs' = Append(runs, [job |-> thread[a].job, state |-> "running", late |-> FALSE])
    BY <1>1, <1>7, CallFacts, RunsFacts DEF TInv
  <2>2. Len(runs) \in Nat /\ creates \in Nat /\ MaxCreates \in Nat /\ runs \in Seq(RunRecords)
    BY <1>1, RunsFacts, JobLifecycleAssumption DEF TypeOK, WorldTypes
  <2>3. CASE \E place \in {"requeue", "fail"} : Stands(a, place)
    BY <1>5, <2>1, <2>3 DEF Places
  <2>4. CASE /\ Takes(a, "running", thread[a].job, Len(runs) + 1)
             /\ runs' = Append(runs, [job |-> thread[a].job, state |-> "running", late |-> FALSE])
    <3>1. PICK j \in Jobs : j = thread[a].job
      BY <2>1
    <3>2. PICK run \in Runs : run = Len(runs) + 1
      BY <2>1, <2>2 DEF Runs
    <3>3. run \in RunIds' /\ run \in Runs \cup {NoRun}
      <4>1. Len(runs') = Len(runs) + 1
        BY <2>2, <2>4
      <4> QED BY <2>2, <3>2, <4>1 DEF RunIds
    <3>4. Takes(a, "running", j, run) /\ "running" \in Places \ {"rest", "ask"}
      BY <2>4, <3>1, <3>2 DEF Places
    <3> QED BY <1>6, <3>3, <3>4
  <2> QED BY <2>1, <2>3, <2>4
<1> QED BY <1>1, <1>2, <1>3, <1>4, <1>5, <1>6, <1>7, ThreadMoves

\* What one step does to the records on their way to memory.
WriteChanges ==
    \/ write' = write
    \/ write' = [a \in Threads |-> NoWrite]
    \/ \E a \in Threads : write[a] # NoWrite /\ write' = [write EXCEPT ![a] = NoWrite]
    \/ \E a \in Threads, record \in JobRecords :
           /\ thread[a].at # "receive" /\ record.run \in RunIds
           /\ write' = [write EXCEPT ![a] = [to |-> "job", record |-> record]]
    \/ \E a \in Threads, record \in InboxRecords :
           /\ Named(record) /\ record.run \in RunIds
           /\ write' = [write EXCEPT ![a] = [to |-> "inbox", record |-> record]]

LEMMA WriteStep ==
    ASSUME TInv, [Next]_vars
    PROVE  WriteChanges
<1>1. TypeOK /\ RunsExist /\ ThreadTypes /\ InboxNamed /\ AtWork
  BY DEF TInv, TypeOK
<1>2. ASSUME NEW a \in Threads, NEW record \in JobRecords, NEW place \in JobPlaces,
             JobLog(a, record, place)
      PROVE  WriteChanges
  <2>1. thread[a].job \in Jobs /\ thread[a].at # "receive"
    BY <1>1, <1>2 DEF JobLog, JobPlaces, ThreadTypes
  <2>2. record.run \in RunIds
    BY <1>1, <1>2, <2>1 DEF JobLog, RunsExist
  <2> QED BY <1>2, <2>1, <2>2 DEF JobLog, WriteChanges
<1>3. ASSUME NEW a \in Threads, Mark(a) \/ Reject(a)
      PROVE  WriteChanges
  <2>1. PICK record \in InboxRecords, place \in {"validate", "failjob"} :
            /\ InboxLog(a, record, place) /\ record.run = inbox[thread[a].job].run
    BY <1>1, <1>3, MarksFacts
  <2>2. thread[a].at \in {"mark", "reject"} /\ write[a] = NoWrite
    BY <1>1, <1>3, <2>1, MarksFacts DEF InboxLog
  <2>3. thread[a].job \in Jobs
    BY <1>1, <2>2 DEF ThreadTypes
  <2>4. inbox[thread[a].job] # NoRecord
    BY <1>1, <2>2 DEF AtWork, NoWrite
  <2>5. Named(record) /\ record.run \in RunIds
    BY <1>1, <2>1, <2>3, <2>4 DEF InboxNamed, InboxLog, Fits, Named, RunsExist
  <2> QED BY <2>1, <2>5 DEF InboxLog, WriteChanges
<1>4. ASSUME NEW a \in Threads, Receive(a)
      PROVE  WriteChanges
  <2>1. thread[a].run # NoRun /\ thread[a].run \in RunIds
    BY <1>1, <1>4, ReceiveFacts DEF AtWork, RunsExist
  <2>2. \/ write' = write
        \/ \E record \in InboxRecords :
               /\ record.run = thread[a].run /\ record.status # "none"
               /\ write' = [write EXCEPT ![a] = [to |-> "inbox", record |-> record]]
    BY <1>1, <1>4, ReceiveFacts DEF InboxLog, Fits
  <2> QED BY <2>1, <2>2 DEF WriteChanges, Named
<1>5. ASSUME NEW a \in Threads, SetRecord(a)
      PROVE  WriteChanges
  BY <1>1, <1>5, SetFacts DEF WriteChanges
<1>6. ASSUME NEW a \in {"loop", "shadow"}, NEW j \in Jobs, CreateJob(a, j)
      PROVE  WriteChanges
  <2> DEFINE record == [status |-> "QUEUED", run |-> NoRun]
  <2>1. /\ thread[a].at # "receive" /\ a \in Threads
        /\ \/ write' = write
           \/ write' = [write EXCEPT ![a] = [to |-> "job", record |-> jobFile'[j]]]
                /\ jobFile' = [jobFile EXCEPT ![j] = record]
    BY <1>6 DEF CreateJob, Idle, Threads
  <2>2. record \in JobRecords /\ record.run = NoRun /\ NoRun \in RunIds
    BY <1>1, RunsFacts DEF JobRecords, RunIds, NoRun
  <2>3. jobFile' = [jobFile EXCEPT ![j] = record] => jobFile'[j] = record
    BY <1>1 DEF TypeOK, StoreTypes
  <2> HIDE DEF record
  <2> QED BY <2>1, <2>2, <2>3 DEF WriteChanges
<1>7. ASSUME NEW a \in Threads, \/ ProcessMove(a) \/ Call(a) \/ Tidy(a) \/ Abort(a)
                                \/ Jump(a, "tidy")
      PROVE  write' = write
  BY <1>7 DEF ProcessMove, Call, Tidy, Abort, Jump
<1>8. ASSUME \/ Poll \/ (\E q \in queue : Ask(q[1], q[2]))
             \/ (\E j \in Jobs : Sweep(j) \/ Falter(j))
             \/ (\E r \in DOMAIN runs : Deliver(r) \/ Turns(r)) \/ NoMove
      PROVE  write' = write
  BY <1>8 DEF Poll, Ask, Sweep, Falter, Deliver, Turns, RunEnds, Expire, Finish, NoMove, threads
<1>9. CASE Crash
  BY <1>9 DEF Crash, WriteChanges
<1>10. CASE write' = write
  BY <1>10 DEF WriteChanges
<1> QED BY <1>1, <1>2, <1>3, <1>4, <1>5, <1>6, <1>7, <1>8, <1>9, <1>10, Steps

LEMMA WritesTyped ==
    ASSUME TInv, [Next]_vars
    PROVE  /\ write' \in [Threads -> WriteRecords]
           /\ \A b \in Threads : write'[b].record.run \in RunIds'
           /\ \A b \in Threads : write'[b].to = "inbox" => Named(write'[b].record)
<1>1. /\ write \in [Threads -> WriteRecords] /\ RunIds \subseteq RunIds' /\ NoRun \in RunIds
      /\ \A b \in Threads : write[b].record.run \in RunIds
      /\ \A b \in Threads : write[b].to = "inbox" => Named(write[b].record)
  BY RunsStep, RunsFacts DEF TInv, TypeOK, ThreadTypes, WriteRecords, RunsExist, InboxNamed,
     RunIds, NoRun
<1>2. NoWrite \in WriteRecords /\ NoWrite.to = "none" /\ NoWrite.record.run = NoRun
  BY DEF NoWrite, NoRecord, WriteRecords
<1>3. ASSUME NEW a \in Threads, NEW w \in WriteRecords, w.record.run \in RunIds,
             w.to = "inbox" => Named(w.record), write' = [write EXCEPT ![a] = w]
      PROVE  /\ write' \in [Threads -> WriteRecords]
             /\ \A b \in Threads : write'[b].record.run \in RunIds'
             /\ \A b \in Threads : write'[b].to = "inbox" => Named(write'[b].record)
  BY <1>1, <1>3
<1>4. \A record \in JobRecords :
          LET w == [to |-> "job", record |-> record]
          IN  w \in WriteRecords /\ w.record = record /\ w.to = "job"
  BY DEF WriteRecords
<1>5. \A record \in InboxRecords :
          LET w == [to |-> "inbox", record |-> record]
          IN  w \in WriteRecords /\ w.record = record /\ w.to = "inbox"
  BY DEF WriteRecords
<1>6. CASE write' = write
  BY <1>1, <1>6
<1>7. CASE write' = [a \in Threads |-> NoWrite]
  BY <1>1, <1>2, <1>7
<1>8. CASE \E a \in Threads : write' = [write EXCEPT ![a] = NoWrite]
  BY <1>1, <1>2, <1>3, <1>8
<1>9. CASE \E a \in Threads, record \in JobRecords :
               /\ record.run \in RunIds
               /\ write' = [write EXCEPT ![a] = [to |-> "job", record |-> record]]
  BY <1>3, <1>4, <1>9
<1>10. CASE \E a \in Threads, record \in InboxRecords :
                /\ Named(record) /\ record.run \in RunIds
                /\ write' = [write EXCEPT ![a] = [to |-> "inbox", record |-> record]]
  BY <1>3, <1>5, <1>10
<1> QED BY <1>6, <1>7, <1>8, <1>9, <1>10, WriteStep DEF WriteChanges

\* The queue shrinks, until the next poll fills it.
LEMMA QueueStep ==
    ASSUME TypeOK, [Next]_vars
    PROVE  queue' \subseteq queue \/ Poll
<1>1. \A a \in Threads, record \in JobRecords, place \in JobPlaces :
          JobLog(a, record, place) => queue' = queue
  BY DEF JobLog
<1>2. \A a \in Threads : (\/ Mark(a) \/ Reject(a) \/ Receive(a) \/ ProcessMove(a) \/ Call(a)
                          \/ Tidy(a) \/ Jump(a, "tidy")) => queue' = queue
  BY MarksFacts, ReceiveFacts DEF InboxLog, ProcessMove, Call, Tidy, Jump
<1>3. \A a \in Threads : SetRecord(a) \/ Abort(a) => queue' \subseteq queue
  BY SetFacts DEF Abort
<1>4. (\E a \in {"loop", "shadow"}, j \in Jobs : CreateJob(a, j)) => queue' = queue
  BY DEF CreateJob
<1>5. ASSUME \/ (\E q \in queue : Ask(q[1], q[2])) \/ (\E j \in Jobs : Sweep(j) \/ Falter(j))
             \/ (\E r \in DOMAIN runs : Deliver(r) \/ Turns(r)) \/ Crash \/ NoMove
      PROVE  queue' \subseteq queue
  BY <1>5 DEF Ask, Sweep, Falter, Deliver, Turns, RunEnds, Expire, Finish, Crash, NoMove, threads
<1> QED BY <1>1, <1>2, <1>3, <1>4, <1>5, Steps

LEMMA QueueTyped ==
    ASSUME TInv, [Next]_vars
    PROVE  queue' \subseteq Jobs \X Runs /\ \A q \in queue' : q[2] \in RunIds' \ {NoRun}
<1>1. /\ queue \subseteq Jobs \X Runs /\ \A q \in queue : q[2] \in RunIds \ {NoRun}
      /\ RunIds \subseteq RunIds' /\ TypeOK /\ RunsExist
  BY RunsStep DEF TInv, TypeOK, ThreadTypes, RunsExist
<1>2. CASE queue' \subseteq queue
  BY <1>1, <1>2
<1>3. CASE Poll
  <2>1. queue' = {<<j, job[j].run>> : j \in {j \in Jobs : job[j].status = "RUNNING"
                                                           /\ job[j].run # NoRun}}
    BY <1>3 DEF Poll
  <2>2. \A j \in Jobs : job[j].run # NoRun => job[j].run \in Runs /\ job[j].run \in RunIds
    BY <1>1, RunsFacts DEF RunsExist
  <2> QED BY <1>1, <2>1, <2>2
<1> QED BY <1>1, <1>2, <1>3, QueueStep

LEMMA ThreadTypesStep ==
    ASSUME TInv, [Next]_vars
    PROVE  ThreadTypes'
  BY ThreadsTyped, WritesTyped, QueueTyped DEF ThreadTypes, ThreadRecords, WriteRecords

-----------------------------------------------------------------------------
(* The runs *)

\* A call spends the credit of the create_job call it belongs to.
LEMMA RunsBoundedStep ==
    ASSUME TInv, [Next]_vars
    PROVE  RunsBounded' /\ creates' \in 0 .. MaxCreates
<1>1. /\ TypeOK /\ RunsBounded /\ Len(runs) \in Nat /\ creates \in 0 .. MaxCreates
      /\ MaxCreates \in Nat /\ runs \in Seq(RunRecords)
      /\ "loop" \in Threads /\ "shadow" \in Threads /\ "poller" \in Threads
      /\ "sweeper" \in Threads /\ ThreadTypes
  BY RunsFacts, JobLifecycleAssumption DEF TInv, TypeOK, WorldTypes, Threads
<1>2. \A a \in Threads : Due(a) \in {0, 1} /\ Due(a)' \in {0, 1}
  BY DEF Due
<1>3. ASSUME NEW a \in {"loop", "shadow"}, NEW j \in Jobs, CreateJob(a, j)
      PROVE  RunsBounded' /\ creates' \in 0 .. MaxCreates
  <2>1. /\ creates < MaxCreates /\ creates' = creates + 1 /\ Takes(a, "claim", j, NoRun)
        /\ runs' = runs /\ thread[a] = Idle
    BY <1>3 DEF CreateJob, Takes
  <2>2. a \in Threads /\ \A b \in Threads \ {a} : thread'[b] = thread[b]
    BY <1>1, <2>1 DEF ThreadTypes, Takes, Threads
  <2>3. Due(a) = 0 /\ \A b \in Threads \ {a} : Due(b)' = Due(b)
    <3>1. thread[a].at = "rest"
      BY <2>1 DEF Idle
    <3>2. Due(a) = 0
      BY <3>1 DEF Due, Dispatching
    <3> QED BY <2>2, <3>2 DEF Due
  <2>4. /\ thread'["poller"] = thread["poller"] /\ thread'["sweeper"] = thread["sweeper"]
    BY <1>1, <2>2
  <2>5. Len(runs') + Due("loop")' + Due("shadow")' <= creates'
    <3>1. CASE a = "loop"
      <4>1. Due("shadow")' = Due("shadow")
        BY <1>1, <2>3, <3>1
      <4> QED BY <1>1, <1>2, <2>1, <2>3, <3>1, <4>1 DEF RunsBounded
    <3>2. CASE a = "shadow"
      <4>1. Due("loop")' = Due("loop")
        BY <1>1, <2>3, <3>2
      <4> QED BY <1>1, <1>2, <2>1, <2>3, <3>2, <4>1 DEF RunsBounded
    <3> QED BY <3>1, <3>2
  <2> QED BY <1>1, <2>1, <2>4, <2>5 DEF RunsBounded
<1>4. ASSUME NEW a \in Threads, Call(a)
      PROVE  RunsBounded' /\ creates' \in 0 .. MaxCreates
  <2>1. /\ thread[a].at = "call" /\ thread[a].job \in Jobs /\ a \in {"loop", "shadow"}
        /\ creates' = creates /\ Len(runs') \in {Len(runs), Len(runs) + 1}
    <3>1. /\ thread[a].at = "call" /\ thread[a].job \in Jobs /\ a \in {"loop", "shadow"}
          /\ creates' = creates
      BY <1>1, <1>4, CallFacts
    <3>2. \/ runs' = runs
          \/ runs' = Append(runs, [job |-> thread[a].job, state |-> "running", late |-> FALSE])
      BY <1>1, <1>4, CallFacts
    <3>3. [job |-> thread[a].job, state |-> "running", late |-> FALSE] \in RunRecords
      BY <3>1 DEF RunRecords
    <3>4. Len(runs') \in {Len(runs), Len(runs) + 1}
      BY <1>1, <3>2, <3>3
    <3> QED BY <3>1, <3>4
  <2>2. /\ thread'[a].at \in {"requeue", "fail", "running"}
        /\ \A b \in Threads \ {a} : thread'[b] = thread[b]
    <3>1. \/ \E place \in {"requeue", "fail"} : Stands(a, place)
          \/ Takes(a, "running", thread[a].job, Len(runs) + 1)
      BY <1>1, <1>4, CallFacts
    <3> QED BY <1>1, <3>1 DEF Stands, Takes, ThreadTypes
  <2>3. Due(a) = 1 /\ Due(a)' = 0 /\ \A b \in Threads \ {a} : Due(b)' = Due(b)
    BY <2>1, <2>2 DEF Due, Dispatching
  <2>4. thread'["poller"] = thread["poller"] /\ thread'["sweeper"] = thread["sweeper"]
    BY <1>1, <2>1, <2>2
  <2>5. Len(runs') + Due("loop")' + Due("shadow")' <= creates'
    <3>1. CASE a = "loop"
      <4>1. Due("shadow")' = Due("shadow")
        BY <1>1, <2>3, <3>1
      <4> QED BY <1>1, <1>2, <2>1, <2>3, <3>1, <4>1 DEF RunsBounded
    <3>2. CASE a = "shadow"
      <4>1. Due("loop")' = Due("loop")
        BY <1>1, <2>3, <3>2
      <4> QED BY <1>1, <1>2, <2>1, <2>3, <3>2, <4>1 DEF RunsBounded
    <3> QED BY <2>1, <3>1, <3>2
  <2> QED BY <1>1, <2>1, <2>4, <2>5 DEF RunsBounded
<1>5. ASSUME \A a \in Threads : thread'[a].at \in Dispatching => thread[a].at \in Dispatching,
             Len(runs') = Len(runs), creates' = creates
      PROVE  RunsBounded' /\ creates' \in 0 .. MaxCreates
  <2>1. \A a \in Threads : Due(a)' \in {0, Due(a)}
    BY <1>5 DEF Due
  <2> QED BY <1>1, <1>2, <1>5, <2>1 DEF RunsBounded
<1>6. ASSUME ~\E a \in {"loop", "shadow"}, j \in Jobs : CreateJob(a, j),
             ~\E a \in Threads : Call(a)
      PROVE  creates' = creates /\ Len(runs') = Len(runs)
  <2>1. creates' = creates
    <3>1. \A a \in Threads, record \in JobRecords, place \in JobPlaces :
              JobLog(a, record, place) => creates' = creates
      BY DEF JobLog, bounds
    <3>2. \A a \in Threads : (\/ Mark(a) \/ Reject(a) \/ Receive(a) \/ ProcessMove(a)
                              \/ Tidy(a) \/ Abort(a) \/ Jump(a, "tidy")) => creates' = creates
      BY <1>1, MarksFacts, ReceiveFacts DEF InboxLog, ProcessMove, Tidy, Abort, Jump, bounds
    <3>3. \A a \in Threads : SetRecord(a) => creates' = creates
      BY <1>1, SetFacts DEF bounds
    <3>4. ASSUME \/ Poll \/ (\E q \in queue : Ask(q[1], q[2]))
                 \/ (\E j \in Jobs : Sweep(j) \/ Falter(j))
                 \/ (\E r \in DOMAIN runs : Deliver(r) \/ Turns(r)) \/ Crash \/ NoMove
          PROVE  creates' = creates
      BY <3>4 DEF Poll, Ask, Sweep, Falter, Deliver, Turns, RunEnds, Expire, Finish, Crash, NoMove, bounds
    <3> QED BY <1>1, <1>6, <3>1, <3>2, <3>3, <3>4, Steps
  <2> QED BY <1>6, <2>1, RunsStep
<1>7. ASSUME ~\E a \in {"loop", "shadow"}, j \in Jobs : CreateJob(a, j),
             ~\E a \in Threads : Call(a)
      PROVE  \A a \in Threads : thread'[a].at \in Dispatching => thread[a].at \in Dispatching
  <2> DEFINE Goal == \A a \in Threads :
                         thread'[a].at \in Dispatching => thread[a].at \in Dispatching
  <2> SUFFICES Goal
    OBVIOUS
  <2>1. ASSUME NEW a \in Threads, Rests(a) PROVE Goal
    BY <1>1, <2>1, RestsFacts DEF Dispatching
  <2>2. ASSUME NEW a \in Threads, NEW place, place \in Dispatching => thread[a].at \in Dispatching,
               Stands(a, place)
        PROVE  Goal
    BY <1>1, <2>2 DEF Stands, ThreadTypes
  <2>3. ASSUME NEW a \in Threads, NEW place \in Places \ Dispatching, NEW j, NEW run,
               Takes(a, place, j, run)
        PROVE  Goal
    BY <1>1, <2>3 DEF Takes, ThreadTypes
  <2>4. CASE thread' = thread
    BY <2>4
  <2>5. CASE Crash
    <3>1. \A a \in Threads : thread'[a].at = "rest"
      BY <2>5 DEF Crash, Idle
    <3> QED BY <3>1 DEF Dispatching
  <2>6. ASSUME NEW a \in Threads, NEW record \in JobRecords, NEW place \in JobPlaces,
               JobLog(a, record, place)
        PROVE  Goal
    BY <2>2, <2>6 DEF JobLog
  <2>7. ASSUME NEW a \in Threads, Mark(a) \/ Reject(a)
        PROVE  Goal
    <3>1. \E place \in {"validate", "failjob"} : Stands(a, place)
      BY <1>1, <2>7, MarksFacts DEF InboxLog
    <3> QED BY <2>2, <3>1 DEF Dispatching
  <2>8. ASSUME NEW a \in Threads, Receive(a)
        PROVE  Goal
    <3>1. Rests(a) \/ \E place \in {"process", "end"} : Stands(a, place)
      BY <1>1, <2>8, ReceiveFacts DEF InboxLog
    <3> QED BY <2>1, <2>2, <3>1 DEF Dispatching
  <2>9. ASSUME NEW a \in Threads, ProcessMove(a) \/ Jump(a, "tidy")
        PROVE  Goal
    <3>1. \/ \E place \in {"tidy", "effect", "reject", "mark"} : Stands(a, place)
          \/ Takes(a, "read", thread[a].job, inbox[thread[a].job].run)
      BY <2>9 DEF ProcessMove, Jump, Takes
    <3>2. "read" \in Places \ Dispatching
      BY DEF Places, Dispatching
    <3>3. CASE Takes(a, "read", thread[a].job, inbox[thread[a].job].run)
      <4>1. PICK j, run : Takes(a, "read", j, run)
        BY <3>3
      <4> QED BY <2>3, <3>2, <4>1
    <3> QED BY <2>2, <3>1, <3>3 DEF Dispatching
  <2>10. ASSUME NEW a \in Threads, SetRecord(a) \/ Tidy(a) \/ Abort(a)
         PROVE  Goal
    <3>1. \/ thread' = thread \/ thread' = Done(a)
          \/ thread' = [thread EXCEPT ![a] = Idle]
      BY <2>10 DEF SetRecord, Tidy, Abort
    <3>2. thread' = [thread EXCEPT ![a] = Idle] => Rests(a)
      BY DEF Rests, Idle
    <3> QED BY <2>1, <2>4, <3>1, <3>2, DoneFacts
  <2>11. ASSUME Poll
         PROVE  Goal
    BY <1>1, <2>2, <2>11, GoesFacts DEF Poll, Dispatching
  <2>12. ASSUME NEW q \in queue, Ask(q[1], q[2])
         PROVE  Goal
    <3>1. \/ thread' = [thread EXCEPT !["poller"] = Idle]
          \/ thread' = [thread EXCEPT !["poller"] = thread["poller"]]
          \/ \E place \in {"fail", "receive"}, j \in {q[1], runs[q[2]].job} :
                 Takes("poller", place, j, q[2])
      BY <2>12 DEF Ask, Takes, TakesUp
    <3>2. thread' = [thread EXCEPT !["poller"] = Idle] => Rests("poller")
      BY DEF Rests, Idle
    <3>3. thread' = [thread EXCEPT !["poller"] = thread["poller"]] => thread' = thread
      BY <1>1 DEF ThreadTypes
    <3>4. {"fail", "receive"} \subseteq Places \ Dispatching
      BY DEF Places, Dispatching
    <3> QED BY <1>1, <2>1, <2>3, <2>4, <3>1, <3>2, <3>3, <3>4
  <2>13. ASSUME (\E j \in Jobs : Sweep(j)) \/ (\E r \in DOMAIN runs : Deliver(r))
         PROVE  Goal
    <3>1. \E a \in Threads, place \in {"fail", "receive"} : \E j, run : Takes(a, place, j, run)
      BY <1>1, <2>13 DEF Sweep, Deliver, TakesUp, Takes
    <3>2. {"fail", "receive"} \subseteq Places \ Dispatching
      BY DEF Places, Dispatching
    <3> QED BY <2>3, <3>1, <3>2
  <2>14. ASSUME \/ (\E j \in Jobs : Falter(j)) \/ (\E r \in DOMAIN runs : Turns(r))
                \/ NoMove
         PROVE  thread' = thread
    BY <2>14 DEF Falter, Turns, RunEnds, Expire, Finish, NoMove, threads
  <2> HIDE DEF Goal
  <2> QED BY <1>1, <1>7, <2>4, <2>5, <2>6, <2>7, <2>8, <2>9, <2>10, <2>11, <2>12, <2>13, <2>14,
             Steps
<1> QED BY <1>3, <1>4, <1>5, <1>6, <1>7

LEMMA CountersStep ==
    ASSUME TInv, [Next]_vars
    PROVE  callbacks' \in 0 .. MaxCallbacks /\ failures' \in 0 .. MaxFailures
<1>1. /\ TypeOK /\ callbacks \in 0 .. MaxCallbacks /\ failures \in 0 .. MaxFailures
      /\ MaxCallbacks \in Nat /\ MaxFailures \in Nat
  BY JobLifecycleAssumption DEF TInv, TypeOK, WorldTypes
<1>2. /\ callbacks' = callbacks \/ (callbacks < MaxCallbacks /\ callbacks' = callbacks + 1)
      /\ failures' = failures \/ (failures < MaxFailures /\ failures' = failures + 1)
  <2> DEFINE Goal ==
          /\ callbacks' = callbacks \/ (callbacks < MaxCallbacks /\ callbacks' = callbacks + 1)
          /\ failures' = failures \/ (failures < MaxFailures /\ failures' = failures + 1)
  <2>1. \A a \in Threads, record \in JobRecords, place \in JobPlaces :
            JobLog(a, record, place) => Goal
    BY DEF JobLog, bounds
  <2>2. \A a \in Threads : (\/ Mark(a) \/ Reject(a) \/ Receive(a)) => Goal
    BY <1>1, MarksFacts, ReceiveFacts DEF InboxLog, bounds
  <2>3. \A a \in Threads : (\/ ProcessMove(a) \/ Tidy(a) \/ Abort(a) \/ Jump(a, "tidy")
                            \/ Call(a)) => Goal
    BY DEF ProcessMove, Tidy, Abort, Jump, Call, Failure, bounds
  <2>4. \A a \in Threads : SetRecord(a) => Goal
    BY <1>1, SetFacts DEF bounds
  <2>5. ASSUME \/ Poll \/ (\E q \in queue : Ask(q[1], q[2]))
               \/ (\E j \in Jobs : Sweep(j) \/ Falter(j))
               \/ (\E r \in DOMAIN runs : Deliver(r) \/ Turns(r)) \/ Crash \/ NoMove
               \/ (\E a \in {"loop", "shadow"}, j \in Jobs : CreateJob(a, j))
        PROVE  Goal
    BY <2>5 DEF Poll, Ask, Sweep, Falter, Deliver, Turns, RunEnds, Expire, Finish, Crash, CreateJob, Failure,
       NoMove, bounds
  <2> HIDE DEF Goal
  <2>6. Goal
    BY <1>1, <2>1, <2>2, <2>3, <2>4, <2>5, Steps
  <2> QED BY <2>6 DEF Goal
<1> QED BY <1>1, <1>2

LEMMA HistoryStep ==
    ASSUME TInv, [Next]_vars
    PROVE  /\ raced' \subseteq Jobs /\ raced \subseteq raced'
           /\ torn' \subseteq Jobs /\ silent' \subseteq Jobs
<1>1. /\ TypeOK /\ ThreadTypes /\ raced \subseteq Jobs /\ torn \subseteq Jobs /\ silent \subseteq Jobs
      /\ \A r \in DOMAIN runs : runs[r].job \in Jobs
  BY RunsFacts DEF TInv, TypeOK, WorldTypes
<1> DEFINE Goal == /\ raced' \subseteq Jobs /\ raced \subseteq raced'
                   /\ torn' \subseteq Jobs /\ silent' \subseteq Jobs
<1>2. ASSUME NEW a \in Threads, NEW record \in JobRecords, NEW place \in JobPlaces,
             JobLog(a, record, place)
      PROVE  Goal
  <2>1. thread[a].job \in Jobs
    BY <1>1, <1>2 DEF JobLog, JobPlaces, ThreadTypes
  <2> QED BY <1>1, <1>2, <2>1 DEF JobLog
<1>3. ASSUME NEW a \in Threads, Mark(a) \/ Reject(a) \/ Receive(a)
      PROVE  Goal
  <2>1. thread[a].job \in Jobs
    BY <1>1, <1>3, MarksFacts, ReceiveFacts DEF ThreadTypes
  <2>2. /\ raced' \in {raced, raced \cup {thread[a].job}}
        /\ torn' \in {torn, torn \cup {thread[a].job}} /\ silent' = silent
    BY <1>1, <1>3, MarksFacts, ReceiveFacts DEF InboxLog, history, outcome
  <2> QED BY <1>1, <2>1, <2>2
<1>4. ASSUME NEW a \in Threads, \/ ProcessMove(a) \/ Tidy(a) \/ Abort(a) \/ Jump(a, "tidy")
                                \/ Call(a)
      PROVE  Goal
  BY <1>1, <1>4 DEF ProcessMove, Tidy, Abort, Jump, Call, history, outcome
<1>5. ASSUME NEW a \in Threads, SetRecord(a)
      PROVE  Goal
  BY <1>1, <1>5, SetFacts DEF history, outcome
<1>6. ASSUME \/ Poll \/ (\E q \in queue : Ask(q[1], q[2])) \/ (\E j \in Jobs : Sweep(j))
             \/ (\E r \in DOMAIN runs : Deliver(r)) \/ Crash \/ NoMove
             \/ (\E a \in {"loop", "shadow"}, j \in Jobs : CreateJob(a, j))
      PROVE  UNCHANGED <<raced, torn, silent>>
  BY <1>6 DEF Poll, Ask, Sweep, Deliver, Crash, CreateJob, NoMove, history, outcome
<1>7. ASSUME (\E j \in Jobs : Falter(j)) \/ (\E r \in DOMAIN runs : Turns(r))
      PROVE  Goal
  BY <1>1, <1>7 DEF Falter, Turns, RunEnds, Expire, Finish, history, outcome
<1>8. CASE UNCHANGED <<raced, torn, silent>>
  BY <1>1, <1>8
<1> HIDE DEF Goal
<1>9. UNCHANGED <<raced, torn, silent>> => Goal
  BY <1>1 DEF Goal
<1>10. Goal
  BY <1>1, <1>2, <1>3, <1>4, <1>5, <1>6, <1>7, <1>9, Steps
<1> QED BY <1>10 DEF Goal

\* Effects are only added, by a thread that has read what it is about to do.
EffectChanges ==
    \/ effects' = effects
    \/ \E a \in Threads :
           /\ thread[a].at = "effect" /\ write[a] = NoWrite /\ thread[a].job \in Jobs
           /\ thread[a].run \in Runs
           /\ effects' = [effects EXCEPT ![thread[a].job] = Append(@, thread[a].run)]
           /\ ProcessMove(a) /\ Stands(a, "mark")

LEMMA EffectsStep ==
    ASSUME TInv, [Next]_vars
    PROVE  EffectChanges
<1>1. /\ TypeOK /\ ThreadTypes /\ AtWork /\ RunsExist
      /\ RunIds \subseteq Runs \cup {NoRun}
  BY RunsFacts DEF TInv, TypeOK
<1>2. \A a \in Threads, record \in JobRecords, place \in JobPlaces :
          JobLog(a, record, place) => effects' = effects
  BY DEF JobLog
<1>3. \A a \in Threads : (\/ Mark(a) \/ Reject(a) \/ Receive(a)) => effects' = effects
  BY <1>1, MarksFacts, ReceiveFacts DEF InboxLog, history, outcome
<1>4. \A a \in Threads : (\/ Tidy(a) \/ Abort(a) \/ Jump(a, "tidy") \/ Call(a))
          => effects' = effects
  BY DEF Tidy, Abort, Jump, Call, history, outcome
<1>5. \A a \in Threads : SetRecord(a) => effects' = effects
  BY <1>1, SetFacts DEF history, outcome
<1>6. ASSUME \/ Poll \/ (\E q \in queue : Ask(q[1], q[2]))
             \/ (\E j \in Jobs : Sweep(j) \/ Falter(j))
             \/ (\E r \in DOMAIN runs : Deliver(r) \/ Turns(r)) \/ Crash \/ NoMove
             \/ (\E a \in {"loop", "shadow"}, j \in Jobs : CreateJob(a, j))
      PROVE  effects' = effects
  BY <1>6 DEF Poll, Ask, Sweep, Falter, Deliver, Turns, RunEnds, Expire, Finish, Crash, CreateJob, NoMove, history, outcome
<1>7. ASSUME NEW a \in Threads, ProcessMove(a)
      PROVE  EffectChanges
  <2>1. CASE effects' = effects
    BY <2>1 DEF EffectChanges
  <2>2. CASE /\ thread[a].at = "effect" /\ Stands(a, "mark")
             /\ effects' = [effects EXCEPT ![thread[a].job] = Append(@, thread[a].run)]
    <3>1. write[a] = NoWrite /\ thread[a].job \in Jobs
      BY <1>7 DEF ProcessMove
    <3>2. thread[a].run \in Runs
      BY <1>1, <2>2 DEF AtWork, RunsExist
    <3> QED BY <1>7, <2>2, <3>1, <3>2 DEF EffectChanges
  <2> QED BY <1>7, <2>1, <2>2 DEF ProcessMove
<1> QED BY <1>1, <1>2, <1>3, <1>4, <1>5, <1>6, <1>7, Steps DEF EffectChanges

\* A part is stored by a thread that is about to do the rest, which takes it away.
LEMMA PartsStep ==
    ASSUME [Next]_vars
    PROVE  \/ parts' = parts
           \/ \E a \in Threads :
                  \/ StorePart(a)
                  \/ parts' = [parts EXCEPT ![thread[a].job] = @ \ {thread[a].run}]
<1>1. \A a \in Threads : Dispatch(a) => parts' = parts
  BY DEF Dispatch, Claim, Announce, Call, MarkRunning, Requeue, Fail, Updates, history, outcome
<1>2. \A a \in Threads : (\/ Receive(a) \/ Process(a) \/ ReadPayload(a) \/ Mark(a)
                          \/ Validate(a) \/ Complete(a) \/ Reject(a) \/ FailJob(a)
                          \/ Tidy(a)) => parts' = parts
  BY DEF Receive, Process, ReadPayload, Mark, Marks, Validate, Complete, Reject, FailJob,
         Tidy, Updates, history, outcome
<1>3. \A a \in Threads :
          Effect(a) => \/ parts' = parts
                       \/ parts' = [parts EXCEPT ![thread[a].job] = @ \ {thread[a].run}]
  BY DEF Effect, outcome
<1>4. \A a \in Threads : SetRecord(a) \/ Abort(a) => parts' = parts
  BY DEF SetRecord, Abort, history, outcome
<1>5. ASSUME \/ Poll \/ (\E q \in queue : Ask(q[1], q[2]))
             \/ (\E j \in Jobs : Sweep(j) \/ Falter(j)) \/ Crash \/ UNCHANGED vars
             \/ (\E r \in DOMAIN runs : Deliver(r) \/ RunEnds(r) \/ Expire(r))
             \/ (\E a \in {"loop", "shadow"}, j \in Jobs : CreateJob(a, j))
      PROVE  parts' = parts
  BY <1>5 DEF Poll, Ask, Sweep, Falter, Crash, Deliver, RunEnds, Finish, Expire, CreateJob,
         vars, history, outcome
<1> QED BY <1>1, <1>2, <1>3, <1>4, <1>5 DEF Next, ThreadStep, Callback

LEMMA PartsTyped ==
    ASSUME TInv, [Next]_vars
    PROVE  parts' \in [Jobs -> SUBSET Runs]
<1>1. parts \in [Jobs -> SUBSET Runs]
  BY DEF TInv, TypeOK, WorldTypes
<1>2. ASSUME NEW a \in Threads, StorePart(a)
      PROVE  parts' \in [Jobs -> SUBSET Runs]
  <2>1. thread[a].at = "effect" /\ thread[a].run # NoRun /\ thread[a].run \in RunIds
    BY <1>2 DEF StorePart, At, TInv, AtWork, RunsExist
  <2>2. thread[a].run \in Runs
    BY <2>1, RunsFacts DEF TInv
  <2> QED BY <1>1, <1>2, <2>2 DEF StorePart
<1> QED BY <1>1, <1>2, PartsStep

LEMMA WorldTypesStep ==
    ASSUME TInv, [Next]_vars
    PROVE  WorldTypes'
<1>1. effects \in [Jobs -> Seq(Runs)]
  BY DEF TInv, TypeOK, WorldTypes
<1>2. effects' \in [Jobs -> Seq(Runs)]
  <2>1. CASE effects' = effects
    BY <1>1, <2>1
  <2>2. ASSUME NEW a \in Threads, thread[a].job \in Jobs, thread[a].run \in Runs,
               effects' = [effects EXCEPT ![thread[a].job] = Append(@, thread[a].run)]
        PROVE  effects' \in [Jobs -> Seq(Runs)]
    <3>1. Append(effects[thread[a].job], thread[a].run) \in Seq(Runs)
      BY <1>1, <2>2
    <3> QED BY <1>1, <2>2, <3>1
  <2> QED BY <2>1, <2>2, EffectsStep DEF EffectChanges
<1>3. Len(runs') <= creates'
  <2>1. runs' \in Seq(RunRecords) /\ RunsBounded' /\ creates' \in 0 .. MaxCreates
    BY RunsStep, RunsBoundedStep
  <2>2. Len(runs') \in Nat /\ creates' \in Nat
    BY <2>1, JobLifecycleAssumption
  <2>3. Due("loop")' \in {0, 1} /\ Due("shadow")' \in {0, 1}
    BY DEF Due
  <2> QED BY <2>1, <2>2, <2>3 DEF RunsBounded
<1> QED BY <1>2, <1>3, RunsStep, RunsBoundedStep, CountersStep, HistoryStep, PartsTyped
        DEF WorldTypes, RunRecords

-----------------------------------------------------------------------------
(* The runs the stores name *)

\* What one step does to the stores.
StoreChanges ==
    /\ \/ job' = job \/ job' = jobFile
       \/ \E a \in Threads : job' = [job EXCEPT ![thread[a].job] = write[a].record]
    /\ \/ jobFile' = jobFile
       \/ \E j \in Jobs, record \in JobRecords :
              record.run \in RunIds /\ jobFile' = [jobFile EXCEPT ![j] = record]
    /\ \/ inbox' = inbox \/ inbox' = inboxFile
       \/ \E a \in Threads : /\ write[a].to = "inbox"
                             /\ inbox' = [inbox EXCEPT ![thread[a].job] = write[a].record]
    /\ \/ inboxFile' = inboxFile
       \/ \E j \in Jobs, record \in InboxRecords :
              /\ Named(record) /\ record.run \in RunIds
              /\ inboxFile' = [inboxFile EXCEPT ![j] = record]
    /\ \/ payload' = payload
       \/ \E j \in Jobs, r \in RunIds : payload' = [payload EXCEPT ![j] = r]

LEMMA StoreStep ==
    ASSUME TInv, [Next]_vars
    PROVE  StoreChanges
<1>1. /\ TypeOK /\ RunsExist /\ ThreadTypes /\ StoreTypes /\ InboxNamed /\ AtWork
      /\ NoRun \in RunIds /\ DOMAIN runs \subseteq RunIds
      /\ \A r \in DOMAIN runs : runs[r].job \in Jobs
  BY RunsFacts DEF TInv, TypeOK, RunIds, NoRun
<1>2. ASSUME NEW a \in Threads, NEW record \in JobRecords, NEW place \in JobPlaces,
             JobLog(a, record, place)
      PROVE  StoreChanges
  <2>1. PICK j \in Jobs : j = thread[a].job
    BY <1>1, <1>2 DEF JobLog, JobPlaces, ThreadTypes
  <2>2. record.run \in RunIds /\ jobFile' = [jobFile EXCEPT ![j] = record]
    BY <1>1, <1>2, <2>1 DEF JobLog, RunsExist
  <2> QED BY <1>2, <2>2 DEF JobLog, StoreChanges, inboxes
<1>3. ASSUME NEW a \in Threads, NEW record \in InboxRecords, NEW place,
             InboxLog(a, record, place), thread[a].job \in Jobs, Named(record),
             record.run \in RunIds
      PROVE  StoreChanges
  BY <1>3 DEF InboxLog, StoreChanges, outbox
<1>4. ASSUME NEW a \in Threads, Mark(a) \/ Reject(a)
      PROVE  StoreChanges
  <2>1. PICK record \in InboxRecords, place \in {"validate", "failjob"} :
            /\ InboxLog(a, record, place) /\ record.run = inbox[thread[a].job].run
    BY <1>1, <1>4, MarksFacts
  <2>2. thread[a].at \in {"mark", "reject"} /\ write[a] = NoWrite
    BY <1>1, <1>4, <2>1, MarksFacts DEF InboxLog
  <2>3. thread[a].job \in Jobs
    BY <1>1, <2>2 DEF ThreadTypes
  <2>4. inbox[thread[a].job] # NoRecord
    BY <1>1, <2>2 DEF AtWork, NoWrite
  <2>5. Named(record) /\ record.run \in RunIds
    BY <1>1, <2>1, <2>3, <2>4 DEF InboxNamed, InboxLog, Fits, Named, RunsExist
  <2> QED BY <1>3, <2>1, <2>3, <2>5
<1>5. ASSUME NEW a \in Threads, Receive(a)
      PROVE  StoreChanges
  <2>1. thread[a].run # NoRun /\ thread[a].run \in RunIds /\ thread[a].job \in Jobs
    BY <1>1, <1>5, ReceiveFacts DEF AtWork, RunsExist
  <2>2. CASE UNCHANGED <<outbox, inboxes>>
    BY <2>2 DEF StoreChanges, outbox, inboxes
  <2>3. CASE \E record \in InboxRecords, place \in {"process", "end"} :
                 InboxLog(a, record, place) /\ record.run = thread[a].run
    BY <1>3, <2>1, <2>3 DEF InboxLog, Fits, Named
  <2> QED BY <1>1, <1>5, <2>2, <2>3, ReceiveFacts
<1>6. ASSUME NEW a \in Threads, SetRecord(a)
      PROVE  StoreChanges
  BY <1>1, <1>6, SetFacts DEF StoreChanges
<1>7. ASSUME NEW a \in {"loop", "shadow"}, NEW j \in Jobs, CreateJob(a, j)
      PROVE  StoreChanges
  <2> DEFINE record == [status |-> "QUEUED", run |-> NoRun]
  <2>1. jobFile' \in {jobFile, [jobFile EXCEPT ![j] = record]} /\ UNCHANGED <<job, inboxes>>
    BY <1>7 DEF CreateJob
  <2>2. record \in JobRecords /\ record.run \in RunIds
    BY <1>1 DEF JobRecords
  <2> HIDE DEF record
  <2> QED BY <2>1, <2>2 DEF StoreChanges, inboxes
<1>8. ASSUME NEW a \in Threads, NEW r \in DOMAIN runs, TakesUp(a, r),
             UNCHANGED <<outbox, inbox, inboxFile>>
      PROVE  StoreChanges
  BY <1>1, <1>8 DEF TakesUp, StoreChanges, outbox
<1>9. ASSUME NEW q \in queue, Ask(q[1], q[2])
      PROVE  StoreChanges
  <2>1. q[2] \in DOMAIN runs /\ "poller" \in Threads
    BY <1>1, RunsFacts DEF RunsExist, Threads
  <2>2. CASE payload' = payload
    BY <1>9, <2>2 DEF Ask, StoreChanges, outbox
  <2>3. CASE TakesUp("poller", q[2])
    BY <1>8, <1>9, <2>1, <2>3 DEF Ask
  <2> QED BY <1>9, <2>2, <2>3 DEF Ask
<1>10. ASSUME NEW r \in DOMAIN runs, Deliver(r)
       PROVE  StoreChanges
  BY <1>8, <1>10 DEF Deliver, Threads
<1>11. CASE Crash
  BY <1>11 DEF Crash, StoreChanges
<1>12. CASE UNCHANGED <<outbox, inboxes>>
  BY <1>12 DEF StoreChanges, outbox, inboxes
<1>13. ASSUME \/ Poll \/ (\E j \in Jobs : Sweep(j) \/ Falter(j)) \/ NoMove
              \/ (\E r \in DOMAIN runs : Turns(r))
              \/ (\E a \in Threads : \/ ProcessMove(a) \/ Call(a) \/ Tidy(a) \/ Abort(a)
                                     \/ Jump(a, "tidy"))
       PROVE  UNCHANGED <<outbox, inboxes>>
  BY <1>13 DEF Poll, Sweep, Falter, Turns, RunEnds, Expire, Finish, ProcessMove, Call, Tidy, Abort, Jump, NoMove
<1> QED BY <1>1, <1>2, <1>4, <1>5, <1>6, <1>7, <1>9, <1>10, <1>11, <1>12, <1>13, Steps

LEMMA StoresNamed ==
    ASSUME TInv, [Next]_vars
    PROVE  /\ \A j \in Jobs : /\ job'[j].run \in RunIds' /\ jobFile'[j].run \in RunIds'
                              /\ inbox'[j].run \in RunIds' /\ inboxFile'[j].run \in RunIds'
                              /\ payload'[j] \in RunIds'
           /\ \A j \in Jobs : /\ inbox'[j] = NoRecord \/ Named(inbox'[j])
                              /\ inboxFile'[j] = NoRecord \/ Named(inboxFile'[j])
<1>1. /\ StoreTypes /\ StoreChanges /\ RunIds \subseteq RunIds'
      /\ \A j \in Jobs : /\ job[j].run \in RunIds /\ jobFile[j].run \in RunIds
                         /\ inbox[j].run \in RunIds /\ inboxFile[j].run \in RunIds
                         /\ payload[j] \in RunIds
      /\ \A a \in Threads : write[a].record.run \in RunIds
      /\ \A j \in Jobs : /\ inbox[j] = NoRecord \/ Named(inbox[j])
                         /\ inboxFile[j] = NoRecord \/ Named(inboxFile[j])
      /\ \A a \in Threads : write[a].to = "inbox" => Named(write[a].record)
  BY StoreStep, RunsStep DEF TInv, TypeOK, RunsExist, InboxNamed
<1>2. \A j \in Jobs : job'[j].run \in RunIds'
  BY <1>1 DEF StoreChanges, StoreTypes
<1>3. \A j \in Jobs : jobFile'[j].run \in RunIds'
  BY <1>1 DEF StoreChanges, StoreTypes
<1>4. \A j \in Jobs : inbox'[j].run \in RunIds' /\ (inbox'[j] = NoRecord \/ Named(inbox'[j]))
  BY <1>1 DEF StoreChanges, StoreTypes
<1>5. \A j \in Jobs : /\ inboxFile'[j].run \in RunIds'
                      /\ inboxFile'[j] = NoRecord \/ Named(inboxFile'[j])
  BY <1>1 DEF StoreChanges, StoreTypes
<1>6. \A j \in Jobs : payload'[j] \in RunIds'
  BY <1>1 DEF StoreChanges, StoreTypes
<1> QED BY <1>2, <1>3, <1>4, <1>5, <1>6

-----------------------------------------------------------------------------
(* One thread at a time *)

Alone(a) == \A b \in Threads \ {a} : thread'[b] = thread[b] /\ write'[b] = write[b]
Asleep == {"rest", "ask", "receive", "read", "effect", "mark", "reject"}

\* A step that neither reaches the inbox nor brings a thread closer to an effect.
Quiet(a) ==
    /\ Alone(a) /\ UNCHANGED <<inbox, inboxFile, effects>> /\ raced \subseteq raced'
    /\ write[a].to # "inbox" /\ write'[a].to # "inbox"
    /\ thread'[a] = thread[a]
           \/ thread'[a].at \notin {"process", "read", "effect", "mark", "reject"}
           \/ (thread'[a].at = "reject" /\ thread'[a].job = thread[a].job
                   /\ inbox[thread[a].job] # NoRecord)
    /\ thread'[a] = thread[a] \/ (thread'[a].at = "receive" => thread'[a].run # NoRun)
    /\ write'[a] # NoWrite => thread'[a].at \notin Asleep

Still == UNCHANGED <<thread, write, inbox, inboxFile, effects, raced>>

\* A record is set in the inbox.
SetsInbox(a) ==
    /\ Alone(a) /\ UNCHANGED <<inboxFile, effects, raced>>
    /\ write[a].to = "inbox" /\ write'[a] = NoWrite
    /\ inbox' = [inbox EXCEPT ![thread[a].job] = write[a].record]
    /\ thread'[a] = thread[a] \/ thread'[a].at \in {"rest", "ask"}

LEMMA SetRecordKind ==
    ASSUME TInv, NEW a \in Threads, SetRecord(a)
    PROVE  Quiet(a) \/ SetsInbox(a)
<1>1. TypeOK /\ ThreadTypes /\ WritersWork
  BY DEF TInv, TypeOK
<1>2. /\ write'[a] = NoWrite /\ NoWrite.to = "none"
      /\ \A b \in Threads \ {a} : write'[b] = write[b]
  BY <1>1, SetFacts DEF ThreadTypes, NoWrite
<1>3. /\ \A b \in Threads \ {a} : thread'[b] = thread[b]
      /\ thread'[a] = thread[a] \/ thread'[a].at \in {"rest", "ask"}
  <2>1. CASE Rests(a)
    BY <1>1, <2>1, RestsFacts
  <2>2. CASE thread' = thread
    BY <2>2
  <2> QED BY <1>1, <2>1, <2>2, SetFacts
<1>4. UNCHANGED <<inboxFile, effects, raced>>
  BY <1>1, SetFacts DEF history, outcome
<1>5. CASE write[a].to = "job"
  BY <1>1, <1>2, <1>3, <1>4, <1>5, SetFacts DEF Quiet, Alone
<1>6. CASE write[a].to = "inbox"
  BY <1>1, <1>2, <1>3, <1>4, <1>6, SetFacts DEF SetsInbox, Alone
<1> QED BY <1>1, <1>5, <1>6, SetFacts

\* The thread of a quiet step, given what becomes of its place and its record.
LEMMA QuietKind ==
    ASSUME TInv, NEW a \in Threads, write[a] = NoWrite,
           UNCHANGED <<inbox, inboxFile, effects>>, raced \subseteq raced',
           \/ Rests(a)
           \/ \E place \in Places \ {"rest", "ask", "receive", "process", "read", "effect",
                                     "mark", "reject"} :
                  thread[a].job \in Jobs /\ Stands(a, place)
           \/ thread[a].job \in Jobs /\ Stands(a, "reject") /\ inbox[thread[a].job] # NoRecord
           \/ \E place \in Places \ {"rest", "ask", "process", "read", "effect", "mark",
                                     "reject"}, j \in Jobs, run \in Runs \cup {NoRun} :
                  /\ Takes(a, place, j, run) /\ (place = "receive" => run # NoRun)
           \/ thread' = thread,
           \/ write' = write
           \/ /\ \E record \in JobRecords :
                     write' = [write EXCEPT ![a] = [to |-> "job", record |-> record]]
              /\ \E place \in Places \ Asleep :
                     \/ thread[a].job \in Jobs /\ Stands(a, place)
                     \/ \E j \in Jobs, run \in Runs \cup {NoRun} : Takes(a, place, j, run)
    PROVE  Quiet(a)
<1>1. TypeOK /\ ThreadTypes /\ NoWrite.to = "none"
  BY DEF TInv, TypeOK, NoWrite
<1>2. /\ \A b \in Threads \ {a} : write'[b] = write[b]
      /\ write'[a].to # "inbox"
      /\ write'[a] = NoWrite \/ thread'[a].at \in Places \ Asleep
  <2>1. CASE write' = write
    BY <1>1, <2>1
  <2>2. CASE write' # write
    <3>1. thread'[a].at \in Places \ Asleep
      BY <1>1, <2>2, StandsFacts, TakesFacts DEF Asleep
    <3>2. PICK record \in JobRecords :
              write' = [write EXCEPT ![a] = [to |-> "job", record |-> record]]
      BY <2>2
    <3>3. [to |-> "job", record |-> record].to = "job"
      OBVIOUS
    <3> QED BY <1>1, <3>1, <3>2, <3>3 DEF ThreadTypes
  <2> QED BY <2>1, <2>2
<1>3. \A b \in Threads \ {a} : thread'[b] = thread[b]
  BY <1>1, RestsFacts, StandsFacts, TakesFacts DEF Places
<1>4. \/ thread'[a] = thread[a]
      \/ thread'[a].at \notin {"process", "read", "effect", "mark", "reject"}
      \/ /\ thread'[a].at = "reject" /\ thread'[a].job = thread[a].job
         /\ inbox[thread[a].job] # NoRecord
  BY <1>1, RestsFacts, StandsFacts, TakesFacts DEF Places
<1>5. thread'[a] = thread[a] \/ (thread'[a].at = "receive" => thread'[a].run # NoRun)
  BY <1>1, RestsFacts, StandsFacts, TakesFacts DEF Places
<1> QED BY <1>1, <1>2, <1>3, <1>4, <1>5 DEF Quiet, Alone

\* Every step is one of these.
LEMMA Kinds ==
    ASSUME TInv, [Next]_vars
    PROVE  \/ Still \/ Crash
           \/ \E a \in Threads : \/ Quiet(a) \/ SetsInbox(a) \/ ProcessMove(a) \/ Mark(a)
                                 \/ Reject(a) \/ Receive(a)
<1>1. /\ TypeOK /\ ThreadTypes /\ StoreTypes /\ WritersWork /\ RunsExist /\ RunsBounded
      /\ "loop" \in Threads /\ "poller" \in Threads /\ "sweeper" \in Threads
      /\ "shadow" \in Threads /\ DOMAIN runs \subseteq Runs
      /\ \A r \in DOMAIN runs : r # NoRun /\ runs[r].job \in Jobs
  BY RunsFacts DEF TInv, TypeOK, Threads
<1>2. \A a \in Threads : thread[a] = Idle => write[a] = NoWrite
  BY <1>1 DEF WritersWork, Idle
<1>3. ASSUME NEW a \in Threads, NEW record \in JobRecords, NEW place \in JobPlaces,
             JobLog(a, record, place)
      PROVE  Quiet(a)
  <2>1. /\ thread[a].job \in Jobs /\ Stands(a, place) /\ write[a] = NoWrite
        /\ write' = [write EXCEPT ![a] = [to |-> "job", record |-> record]]
        /\ UNCHANGED <<inbox, inboxFile, effects, raced>>
    BY <1>1, <1>3 DEF JobLog, JobPlaces, ThreadTypes, inboxes, JobLog
  <2>2. inboxFile' = inboxFile
    BY <1>3 DEF JobLog, inboxes
  <2>3. /\ place \in Places \ Asleep
        /\ place \in Places \ {"rest", "ask", "receive", "process", "read", "effect", "mark",
                               "reject"}
    BY DEF JobPlaces, Places, Asleep
  <2> QED BY <2>1, <2>2, <2>3, QuietKind
<1>4. ASSUME NEW a \in Threads, thread[a].at = "failjob", Jump(a, "tidy")
      PROVE  Quiet(a)
  <2>1. /\ thread[a].job \in Jobs /\ Stands(a, "tidy") /\ write[a] = NoWrite
        /\ UNCHANGED <<write, inboxes, history>>
    BY <1>1, <1>4 DEF Jump, ThreadTypes
  <2> QED BY <2>1, QuietKind DEF Places, inboxes, history, outcome
<1>5. ASSUME NEW a \in Threads, Call(a)
      PROVE  Quiet(a)
  <2>1. /\ thread[a].job \in Jobs /\ write[a] = NoWrite /\ UNCHANGED <<write, inboxes, history>>
        /\ \/ \E place \in {"requeue", "fail"} : Stands(a, place)
           \/ Takes(a, "running", thread[a].job, Len(runs) + 1)
        /\ Len(runs) + 1 <= creates
    BY <1>1, <1>5, CallFacts
  <2>2. Len(runs) + 1 \in Runs
    <3>1. Len(runs) \in Nat /\ creates \in Nat /\ MaxCreates \in Nat /\ creates <= MaxCreates
      BY <1>1, RunsFacts, JobLifecycleAssumption DEF TypeOK, WorldTypes
    <3> QED BY <2>1, <3>1 DEF Runs
  <2>3. PICK j \in Jobs, run \in Runs : j = thread[a].job /\ run = Len(runs) + 1
    BY <2>1, <2>2
  <2> QED BY <2>1, <2>3, QuietKind DEF Places, inboxes, history, outcome
<1>6. ASSUME NEW a \in Threads, Tidy(a) \/ Abort(a)
      PROVE  Quiet(a)
  <2>1. /\ write[a] = NoWrite /\ UNCHANGED <<write, inboxes, history>>
        /\ thread' = Done(a) \/ thread' = [thread EXCEPT ![a] = Idle]
    BY <1>6 DEF Tidy, Abort, At
  <2>2. thread' = [thread EXCEPT ![a] = Idle] => Rests(a)
    BY DEF Rests, Idle
  <2> QED BY <2>1, <2>2, DoneFacts, QuietKind DEF inboxes, history, outcome
<1>7. ASSUME NEW a \in {"loop", "shadow"}, NEW j \in Jobs, CreateJob(a, j)
      PROVE  a \in Threads /\ Quiet(a)
  <2> DEFINE record == [status |-> "QUEUED", run |-> NoRun]
  <2>1. /\ a \in Threads /\ write[a] = NoWrite /\ Takes(a, "claim", j, NoRun)
        /\ UNCHANGED <<inboxes, history>>
        /\ \/ write' = write
           \/ write' = [write EXCEPT ![a] = [to |-> "job", record |-> jobFile'[j]]]
                /\ jobFile' = [jobFile EXCEPT ![j] = record]
    BY <1>1, <1>2, <1>7 DEF CreateJob, Takes
  <2>2. record \in JobRecords
    BY DEF JobRecords
  <2>3. jobFile' = [jobFile EXCEPT ![j] = record] => jobFile'[j] = record
    BY <1>1 DEF StoreTypes
  <2> HIDE DEF record
  <2>4. \/ write' = write
        \/ write' = [write EXCEPT ![a] = [to |-> "job", record |-> record]]
    BY <2>1, <2>3
  <2> QED BY <2>1, <2>2, <2>4, QuietKind DEF Places, Asleep, inboxes, history, outcome
<1>8. ASSUME Poll
      PROVE  Quiet("poller")
  <2>1. Stands("poller", "ask") /\ thread["poller"] = Idle /\ UNCHANGED <<write, inboxes, history>>
    BY <1>1, <1>8, GoesFacts DEF Poll
  <2>2. Rests("poller")
    BY <2>1 DEF Stands, Rests, Idle
  <2> QED BY <1>1, <1>2, <2>1, <2>2, QuietKind DEF inboxes, history, outcome
<1>9. ASSUME NEW q \in queue, Ask(q[1], q[2])
      PROVE  Quiet("poller")
  <2>1. q[1] \in Jobs /\ q[2] \in Runs /\ q[2] # NoRun /\ runs[q[2]].job \in Jobs
    BY <1>1, RunsFacts DEF ThreadTypes, RunsExist
  <2>2. /\ write["poller"] = NoWrite /\ UNCHANGED <<write, inbox, inboxFile, history>>
        /\ \/ thread' = [thread EXCEPT !["poller"] = Idle]
           \/ thread' = [thread EXCEPT !["poller"] = thread["poller"]]
           \/ Takes("poller", "fail", q[1], q[2])
           \/ Takes("poller", "receive", runs[q[2]].job, q[2])
    BY <1>9 DEF Ask, At, Takes, TakesUp
  <2>3. thread' = [thread EXCEPT !["poller"] = Idle] => Rests("poller")
    BY DEF Rests, Idle
  <2>4. thread' = [thread EXCEPT !["poller"] = thread["poller"]] => thread' = thread
    BY <1>1 DEF ThreadTypes
  <2> QED BY <1>1, <2>1, <2>2, <2>3, <2>4, QuietKind DEF Places, history, outcome
<1>10. ASSUME NEW j \in Jobs, Sweep(j)
       PROVE  Quiet("sweeper")
  <2>1. /\ Takes("sweeper", "fail", j, NoRun) /\ write["sweeper"] = NoWrite
        /\ UNCHANGED <<write, inboxes, history>>
    BY <1>1, <1>2, <1>10 DEF Sweep, Takes
  <2> QED BY <1>1, <2>1, QuietKind DEF Places, inboxes, history, outcome
<1>11. ASSUME NEW r \in DOMAIN runs, Deliver(r)
       PROVE  Quiet("loop")
  <2>1. /\ Takes("loop", "receive", runs[r].job, r) /\ write["loop"] = NoWrite
        /\ UNCHANGED <<write, inbox, inboxFile, history>>
    BY <1>1, <1>2, <1>11 DEF Deliver, TakesUp, Takes
  <2> QED BY <1>1, <2>1, QuietKind DEF Places, history, outcome
<1>12. ASSUME \/ (\E j \in Jobs : Falter(j)) \/ (\E r \in DOMAIN runs : Turns(r))
              \/ NoMove
       PROVE  Still
  BY <1>12 DEF Falter, Turns, RunEnds, Expire, Finish, Still, NoMove, threads, inboxes, history, outcome
<1>13. ASSUME NEW a \in Threads, SetRecord(a)
       PROVE  Quiet(a) \/ SetsInbox(a)
  BY <1>13, SetRecordKind
<1>14. \A a \in {"loop", "shadow"}, j \in Jobs :
           CreateJob(a, j) => \E b \in Threads : Quiet(b)
  BY <1>7
<1>15. \A q \in queue : Ask(q[1], q[2]) => \E b \in Threads : Quiet(b)
  BY <1>1, <1>9
<1>16. \A j \in Jobs : Sweep(j) => \E b \in Threads : Quiet(b)
  BY <1>1, <1>10
<1>17. \A r \in DOMAIN runs : Deliver(r) => \E b \in Threads : Quiet(b)
  BY <1>1, <1>11
<1>18. Poll => \E b \in Threads : Quiet(b)
  BY <1>1, <1>8
<1> QED BY <1>1, <1>3, <1>4, <1>5, <1>6, <1>12, <1>13, <1>14, <1>15, <1>16, <1>17, <1>18, Steps

\* What a callback step leaves: its own thread and record, the others as they were.
LEMMA CallbackKind ==
    ASSUME TInv, NEW a \in Threads,
           ProcessMove(a) \/ Mark(a) \/ Reject(a) \/ Receive(a)
    PROVE  /\ Alone(a) /\ inbox' = inbox /\ write[a] = NoWrite
           /\ thread'[a].at \in {"rest", "ask"} \/ thread'[a].job = thread[a].job
           /\ \/ write'[a] = NoWrite
              \/ write'[a].to = "inbox" /\ thread'[a].at \in {"process", "end", "validate", "failjob"}
           /\ thread'[a].at \notin {"receive"}
           /\ thread'[a].at \in {"read", "effect"} =>
                  thread'[a].run # NoRun /\ thread[a].at \in {"process", "read"}
           /\ thread'[a].at \in {"process", "read", "effect", "mark", "reject"} =>
                  inbox[thread[a].job] # NoRecord \/ write'[a].to = "inbox"
<1>1. /\ TypeOK /\ ThreadTypes /\ AtWork /\ InboxNamed /\ NoWrite.to = "none"
  BY DEF TInv, TypeOK, NoWrite
<1>2. ASSUME NEW record \in InboxRecords, NEW place \in {"process", "end", "validate", "failjob"},
             InboxLog(a, record, place), thread[a].job \in Jobs
      PROVE  /\ Alone(a) /\ inbox' = inbox /\ write[a] = NoWrite
             /\ thread'[a].job = thread[a].job /\ thread'[a].at = place
             /\ write'[a].to = "inbox"
  <2>1. [to |-> "inbox", record |-> record].to = "inbox"
    OBVIOUS
  <2>2. write'[a].to = "inbox" /\ \A b \in Threads \ {a} : write'[b] = write[b]
    BY <1>1, <1>2, <2>1 DEF InboxLog, ThreadTypes
  <2>3. place \in Places \ {"rest", "ask"}
    BY DEF Places
  <2> QED BY <1>1, <1>2, <2>2, <2>3, StandsFacts DEF InboxLog, Alone
<1>3. CASE ProcessMove(a)
  <2>1. /\ thread[a].at \in {"process", "read", "effect"} /\ write[a] = NoWrite
        /\ thread[a].job \in Jobs /\ write' = write /\ inbox' = inbox
        /\ inbox[thread[a].job] # NoRecord
    BY <1>1, <1>3 DEF ProcessMove, AtWork, inboxes
  <2>2. inbox[thread[a].job].run # NoRun /\ inbox[thread[a].job].run \in Runs \cup {NoRun}
    BY <1>1, <2>1 DEF InboxNamed, Named, TypeOK, StoreTypes, InboxRecords
  <2>3. CASE \E place \in {"tidy", "reject", "mark"} : Stands(a, place)
    BY <1>1, <2>1, <2>3, StandsFacts DEF Places, Alone
  <2>4. CASE thread[a].at = "read" /\ Stands(a, "effect")
    BY <1>1, <2>1, <2>4, StandsFacts DEF Places, Alone, AtWork
  <2>5. CASE /\ thread[a].at = "process"
             /\ thread' = [thread EXCEPT ![a] = [at |-> "read", job |-> thread[a].job,
                                                 run |-> inbox[thread[a].job].run]]
    <3>1. PICK j \in Jobs, run \in Runs \cup {NoRun} :
              j = thread[a].job /\ run = inbox[thread[a].job].run
      BY <2>1, <2>2
    <3>2. Takes(a, "read", j, run)
      BY <2>5, <3>1 DEF Takes
    <3>3. "read" \in Places
      BY DEF Places
    <3>4. /\ thread'[a].at = "read" /\ thread'[a].job = j /\ thread'[a].run = run
          /\ \A b \in Threads \ {a} : thread'[b] = thread[b]
      BY <1>1, <3>2, <3>3, TakesFacts
    <3> QED BY <1>1, <2>1, <2>2, <2>5, <3>1, <3>4 DEF Alone
  <2> QED BY <1>3, <2>3, <2>4, <2>5 DEF ProcessMove
<1>4. CASE Mark(a) \/ Reject(a)
  <2>1. thread[a].at \in {"mark", "reject"}
    BY <1>1, <1>4, MarksFacts
  <2>2. thread[a].job \in Jobs
    BY <1>1, <2>1 DEF ThreadTypes
  <2> QED BY <1>1, <1>2, <1>4, <2>2, MarksFacts
<1>5. CASE Receive(a)
  <2>1. write[a] = NoWrite /\ thread[a].job \in Jobs
    BY <1>1, <1>5, ReceiveFacts
  <2>2. CASE Rests(a) /\ UNCHANGED <<inboxes, write>>
    <3>1. thread'[a].at \in {"rest", "ask"} /\ \A b \in Threads \ {a} : thread'[b] = thread[b]
      BY <1>1, <2>2, RestsFacts
    <3> QED BY <1>1, <2>1, <2>2, <3>1 DEF Alone, inboxes
  <2>3. CASE \E record \in InboxRecords, place \in {"process", "end"} : InboxLog(a, record, place)
    BY <1>2, <2>1, <2>3
  <2> QED BY <1>1, <1>5, <2>2, <2>3, ReceiveFacts
<1> QED BY <1>3, <1>4, <1>5

LEMMA WorkStep ==
    ASSUME TInv, [Next]_vars
    PROVE  WritersWork' /\ AtWork'
<1>1. /\ TypeOK /\ ThreadTypes /\ StoreTypes /\ WritersWork /\ AtWork /\ InboxNamed
      /\ NoWrite.to = "none" /\ Idle.at = "rest"
  BY DEF TInv, TypeOK, NoWrite, Idle
<1> DEFINE W(b) == write[b] # NoWrite => thread[b].at \notin Asleep
           A(b) == /\ thread[b].at \in {"receive", "read", "effect"} => thread[b].run # NoRun
                   /\ thread[b].at \in {"process", "read", "effect", "mark", "reject"} =>
                          inbox[thread[b].job] # NoRecord \/ write[b].to = "inbox"
<1>2. \A b \in Threads : W(b) /\ A(b)
  BY <1>1 DEF WritersWork, AtWork, Asleep
<1>3. CASE Still
  BY <1>2, <1>3 DEF Still, WritersWork, AtWork, Asleep
<1>4. CASE Crash
  BY <1>1, <1>4 DEF Crash, WritersWork, AtWork, Asleep
<1>5. ASSUME NEW a \in Threads, Alone(a),
             \A j \in Jobs : inbox[j] # NoRecord => inbox'[j] # NoRecord,
             W(a)', A(a)'
      PROVE  WritersWork' /\ AtWork'
  <2>1. ASSUME NEW b \in Threads \ {a}
        PROVE  W(b)' /\ A(b)'
    <3>1. thread'[b] = thread[b] /\ write'[b] = write[b] /\ W(b) /\ A(b)
      BY <1>2, <1>5 DEF Alone
    <3>2. thread[b].at \in {"process", "read", "effect", "mark", "reject"} =>
              thread[b].job \in Jobs
      BY <1>1 DEF ThreadTypes
    <3> QED BY <1>5, <3>1, <3>2
  <2>2. \A b \in Threads : W(b)' /\ A(b)'
    BY <1>5, <2>1
  <2> QED BY <2>2 DEF WritersWork, AtWork, Asleep
<1>6. ASSUME NEW a \in Threads, Quiet(a)
      PROVE  WritersWork' /\ AtWork'
  <2>1. W(a)' /\ A(a)'
    BY <1>2, <1>6 DEF Quiet
  <2> HIDE DEF W, A
  <2> QED BY <1>5, <1>6, <2>1 DEF Quiet
<1>7. ASSUME NEW a \in Threads, SetsInbox(a)
      PROVE  WritersWork' /\ AtWork'
  <2>1. /\ Named(write[a].record) /\ thread[a].at \notin {"rest", "ask"}
    BY <1>1, <1>7 DEF SetsInbox, InboxNamed, WritersWork
  <2>2. thread[a].job \in Jobs /\ write[a].record # NoRecord
    BY <1>1, <2>1 DEF ThreadTypes, Named, NoRecord
  <2>3. /\ \A j \in Jobs : inbox[j] # NoRecord => inbox'[j] # NoRecord
        /\ inbox'[thread[a].job] # NoRecord
    BY <1>1, <1>7, <2>2 DEF SetsInbox, StoreTypes
  <2>4. W(a)' /\ A(a)'
    BY <1>2, <1>7, <2>3 DEF SetsInbox
  <2> HIDE DEF W, A
  <2> QED BY <1>5, <1>7, <2>3, <2>4 DEF SetsInbox
<1>8. ASSUME NEW a \in Threads, ProcessMove(a) \/ Mark(a) \/ Reject(a) \/ Receive(a)
      PROVE  WritersWork' /\ AtWork'
  <2>1. Alone(a) /\ inbox' = inbox
    BY <1>8, CallbackKind
  <2>2. W(a)'
    BY <1>1, <1>8, CallbackKind DEF Asleep
  <2>3. A(a)'
    BY <1>1, <1>8, CallbackKind
  <2> HIDE DEF W, A
  <2> QED BY <1>5, <2>1, <2>2, <2>3
<1> QED BY <1>3, <1>4, <1>6, <1>7, <1>8, Kinds

LEMMA InitTInv ==
    ASSUME Init
    PROVE  TInv
<1>1. /\ runs = <<>> /\ Len(runs) = 0 /\ RunIds = {NoRun} /\ creates = 0 /\ queue = {}
  BY DEF Init, RunIds, NoRun
<1>2. /\ thread = [a \in Threads |-> Idle] /\ Idle.at = "rest" /\ Idle.run = NoRun
      /\ Idle \in ThreadRecords
  BY DEF Init, Idle, ThreadRecords, Places
<1>3. /\ write = [a \in Threads |-> NoWrite] /\ NoWrite.to = "none"
      /\ NoWrite.record.run = NoRun /\ NoWrite \in WriteRecords
  BY DEF Init, NoWrite, NoRecord, WriteRecords
<1>4. /\ NoRecord \in JobRecords /\ NoRecord \in InboxRecords /\ NoRecord.run = NoRun
  BY DEF NoRecord, JobRecords, InboxRecords
<1>5. StoreTypes
  BY <1>4 DEF Init, StoreTypes
<1>6. ThreadTypes
  BY <1>1, <1>2, <1>3 DEF ThreadTypes, ThreadRecords, WriteRecords
<1>7. WorldTypes
  BY <1>1, JobLifecycleAssumption DEF Init, WorldTypes
<1>8. RunsBounded
  BY <1>1, <1>2 DEF RunsBounded, Due, Dispatching, Threads
<1>9. RunsExist
  BY <1>1, <1>2, <1>3, <1>4 DEF Init, RunsExist
<1>10. WritersWork /\ AtWork
  BY <1>2, <1>3 DEF WritersWork, AtWork
<1>11. InboxNamed
  BY <1>3 DEF Init, InboxNamed
<1> QED BY <1>5, <1>6, <1>7, <1>8, <1>9, <1>10, <1>11 DEF TInv, TypeOK

LEMMA StepTInv ==
    ASSUME TInv, [Next]_vars
    PROVE  TInv'
<1>1. TypeOK'
  BY StoreTypesStep, ThreadTypesStep, WorldTypesStep DEF TypeOK
<1>2. RunsExist'
  BY StoresNamed, ThreadsTyped, WritesTyped, QueueTyped DEF RunsExist
<1>3. InboxNamed'
  BY StoresNamed, WritesTyped DEF InboxNamed
<1> QED BY <1>1, <1>2, <1>3, RunsBoundedStep, WorkStep DEF TInv

LEMMA Invariance == Spec => []TInv
  BY InitTInv, StepTInv, PTL DEF Spec

\* The type invariant of the job life cycle, for any jobs and bounds.
THEOREM TypeCorrect == Spec => []TypeOK
  BY Invariance, PTL DEF TInv

-----------------------------------------------------------------------------
(* A job takes effect once *)

Working == {"process", "read", "effect"}
Works(a, j) == thread[a].job = j /\ thread[a].at \in Working
OneWorks(j) == \A a, b \in Threads : Works(a, j) /\ Works(b, j) => a = b

\* Of a job whose first callback was never received by two threads at once: what
\* memory and a record on its way say of the callback is what the file says, a result
\* in the file is in memory or on its way there, one thread at most is between
\* receiving the callback and its effect, none once it took effect.
Once(j) ==
    /\ inbox[j] # NoRecord => inbox[j].run = inboxFile[j].run
    /\ \A a \in Threads : write[a].to = "inbox" /\ thread[a].job = j =>
           write[a].record.run = inboxFile[j].run
    /\ inboxFile[j] # NoRecord =>
           inbox[j] # NoRecord \/ \E a \in Threads : write[a].to = "inbox" /\ thread[a].job = j
    /\ \A a \in Threads : thread[a].job = j /\ thread[a].at \in {"read", "effect"} =>
           thread[a].run = inboxFile[j].run
    /\ OneWorks(j)
    /\ effects[j] # <<>> => inboxFile[j] # NoRecord /\ \A a \in Threads : ~Works(a, j)
    /\ Len(effects[j]) <= 1 /\ \A k \in DOMAIN effects[j] : effects[j][k] = inboxFile[j].run

OnceInv == TInv /\ \A j \in Jobs \ raced : Once(j)

\* A callback at work is in the file.
LEMMA KnownAtWork ==
    ASSUME TInv, NEW j \in Jobs, Once(j), NEW a \in Threads, thread[a].job = j,
           thread[a].at \in {"process", "read", "effect", "mark", "reject"}
    PROVE  inboxFile[j] # NoRecord
<1>1. inbox[j] # NoRecord \/ write[a].to = "inbox"
  BY DEF TInv, AtWork
<1>2. CASE inbox[j] # NoRecord
  <2>1. Named(inbox[j]) /\ inbox[j].run = inboxFile[j].run
    BY <1>2 DEF TInv, InboxNamed, Once
  <2> QED BY <2>1 DEF Named, NoRecord
<1>3. CASE write[a].to = "inbox"
  <2>1. Named(write[a].record) /\ write[a].record.run = inboxFile[j].run
    BY <1>3 DEF TInv, InboxNamed, Once
  <2> QED BY <2>1 DEF Named, NoRecord
<1> QED BY <1>1, <1>2, <1>3

\* A step of one thread that leaves what the stores say of j, starts no work on j, and
\* writes nothing else about j.
LEMMA OnceKept ==
    ASSUME TInv, NEW j \in Jobs, Once(j), NEW a \in Threads, Alone(a),
           inbox'[j] = inbox[j], effects'[j] = effects[j],
           inboxFile'[j].run = inboxFile[j].run,
           inboxFile'[j] = NoRecord <=> inboxFile[j] = NoRecord,
           \/ thread'[a].job # j \/ thread'[a].at \notin Working
           \/ /\ thread[a].job = j /\ thread[a].at \in Working
              /\ thread'[a].at \in {"read", "effect"} => thread'[a].run = inboxFile[j].run,
           write'[a].to = "inbox" /\ thread'[a].job = j =>
               write'[a].record.run = inboxFile[j].run,
           write[a].to = "inbox" /\ thread[a].job = j =>
               write'[a].to = "inbox" /\ thread'[a].job = j
    PROVE  Once(j)'
<1>1. \A b \in Threads \ {a} : thread'[b] = thread[b] /\ write'[b] = write[b]
  BY DEF Alone
<1>2. inbox'[j] # NoRecord => inbox'[j].run = inboxFile'[j].run
  BY DEF Once
<1>3. \A b \in Threads : write'[b].to = "inbox" /\ thread'[b].job = j =>
          write'[b].record.run = inboxFile'[j].run
  BY <1>1 DEF Once
<1>4. inboxFile'[j] # NoRecord =>
          inbox'[j] # NoRecord \/ \E b \in Threads : write'[b].to = "inbox" /\ thread'[b].job = j
  BY <1>1 DEF Once
<1>5. \A b \in Threads : thread'[b].job = j /\ thread'[b].at \in {"read", "effect"} =>
          thread'[b].run = inboxFile'[j].run
  BY <1>1 DEF Once, Working
<1>6. \A b \in Threads : Works(b, j)' => Works(b, j)
  BY <1>1 DEF Works
<1>7. OneWorks(j)'
  BY <1>6 DEF Once, OneWorks
<1>8. effects'[j] # <<>> => inboxFile'[j] # NoRecord /\ \A b \in Threads : ~Works(b, j)'
  BY <1>6 DEF Once
<1>9. /\ Len(effects'[j]) <= 1
      /\ \A k \in DOMAIN effects'[j] : effects'[j][k] = inboxFile'[j].run
  BY DEF Once
<1> QED BY <1>2, <1>3, <1>4, <1>5, <1>7, <1>8, <1>9 DEF Once

LEMMA OnceSet ==
    ASSUME TInv, NEW j \in Jobs, Once(j), NEW a \in Threads, SetsInbox(a)
    PROVE  Once(j)'
<1>1. /\ Alone(a) /\ UNCHANGED <<inboxFile, effects>> /\ write'[a] = NoWrite
      /\ write[a].to = "inbox" /\ inbox' = [inbox EXCEPT ![thread[a].job] = write[a].record]
      /\ thread'[a] = thread[a] \/ thread'[a].at \in {"rest", "ask"}
      /\ NoWrite.to = "none" /\ Named(write[a].record) /\ StoreTypes
  BY DEF SetsInbox, NoWrite, TInv, TypeOK, InboxNamed
<1>2. \A b \in Threads \ {a} : thread'[b] = thread[b] /\ write'[b] = write[b]
  BY <1>1 DEF Alone
<1>3. CASE thread[a].job # j
  <2>1. inbox'[j] = inbox[j]
    BY <1>1, <1>3 DEF StoreTypes
  <2>2. \/ thread'[a].job # j \/ thread'[a].at \notin Working
    BY <1>1, <1>3 DEF Working
  <2> QED BY <1>1, <1>3, <2>1, <2>2, OnceKept
<1>4. CASE thread[a].job = j
  <2>1. inbox'[j] = write[a].record /\ write[a].record # NoRecord
    BY <1>1, <1>4 DEF StoreTypes, Named, NoRecord
  <2>2. write[a].record.run = inboxFile[j].run
    BY <1>1, <1>4 DEF Once
  <2>3. \A b \in Threads : write'[b].to = "inbox" /\ thread'[b].job = j =>
            write'[b].record.run = inboxFile'[j].run
    BY <1>1, <1>2 DEF Once
  <2>4. \A b \in Threads : thread'[b].job = j /\ thread'[b].at \in {"read", "effect"} =>
            thread'[b].run = inboxFile'[j].run
    BY <1>1, <1>2 DEF Once
  <2>5. \A b \in Threads : Works(b, j)' => Works(b, j)
    BY <1>1, <1>2 DEF Works, Working
  <2>6. OneWorks(j)'
    BY <2>5 DEF Once, OneWorks
  <2>7. effects'[j] # <<>> => inboxFile'[j] # NoRecord /\ \A b \in Threads : ~Works(b, j)'
    BY <1>1, <2>5 DEF Once
  <2>8. /\ Len(effects'[j]) <= 1
        /\ \A k \in DOMAIN effects'[j] : effects'[j][k] = inboxFile'[j].run
    BY <1>1 DEF Once
  <2> QED BY <1>1, <2>1, <2>2, <2>3, <2>4, <2>6, <2>7, <2>8 DEF Once
<1> QED BY <1>3, <1>4

LEMMA OnceCrash ==
    ASSUME TInv, NEW j \in Jobs, Once(j), Crash
    PROVE  Once(j)'
<1>1. /\ inbox' = inboxFile /\ inboxFile' = inboxFile /\ effects' = effects
      /\ \A a \in Threads : thread'[a].at = "rest" /\ write'[a].to = "none"
  BY DEF Crash, Idle, NoWrite, inboxes, history, outcome
<1>2. /\ \A a \in Threads : ~Works(a, j)' /\ thread'[a].at \notin {"read", "effect"}
      /\ OneWorks(j)'
  BY <1>1 DEF Works, Working, OneWorks
<1>3. /\ Len(effects'[j]) <= 1
      /\ \A k \in DOMAIN effects'[j] : effects'[j][k] = inboxFile'[j].run
      /\ effects'[j] # <<>> => inboxFile'[j] # NoRecord
  BY <1>1 DEF Once
<1> QED BY <1>1, <1>2, <1>3 DEF Once

LEMMA OnceQuiet ==
    ASSUME TInv, NEW j \in Jobs, Once(j), NEW a \in Threads, Quiet(a)
    PROVE  Once(j)'
<1>1. \/ thread'[a].job # j \/ thread'[a].at \notin Working
      \/ /\ thread[a].job = j /\ thread[a].at \in Working
         /\ thread'[a].at \in {"read", "effect"} => thread'[a].run = inboxFile[j].run
  <2>1. CASE thread'[a] = thread[a]
    BY <2>1 DEF Once
  <2>2. CASE thread'[a] # thread[a]
    BY <2>2 DEF Quiet, Working
  <2> QED BY <2>1, <2>2
<1> QED BY <1>1, OnceKept DEF Quiet

\* A record written to the inbox file.
LEMMA InboxLogFacts ==
    ASSUME TInv, NEW a \in Threads, NEW record \in InboxRecords,
           NEW place \in {"process", "end", "validate", "failjob"},
           InboxLog(a, record, place), thread[a].job \in Jobs
    PROVE  /\ inboxFile'[thread[a].job] = record /\ inbox' = inbox /\ effects' = effects
           /\ \A j \in Jobs \ {thread[a].job} : inboxFile'[j] = inboxFile[j]
           /\ write[a].to = "none" /\ write'[a].to = "inbox" /\ write'[a].record = record
           /\ thread'[a].at = place /\ thread'[a].job = thread[a].job
           /\ Alone(a)
<1>1. TypeOK /\ ThreadTypes /\ StoreTypes /\ NoWrite.to = "none"
  BY DEF TInv, TypeOK, NoWrite
<1>2. [to |-> "inbox", record |-> record].to = "inbox"
      /\ [to |-> "inbox", record |-> record].record = record
  OBVIOUS
<1>3. /\ write'[a].to = "inbox" /\ write'[a].record = record
      /\ \A b \in Threads \ {a} : write'[b] = write[b]
  BY <1>1, <1>2 DEF InboxLog, ThreadTypes
<1>4. place \in Places \ {"rest", "ask"}
  BY DEF Places
<1>5. /\ thread'[a].at = place /\ thread'[a].job = thread[a].job
      /\ \A b \in Threads \ {a} : thread'[b] = thread[b]
  BY <1>1, <1>4, StandsFacts DEF InboxLog
<1> QED BY <1>1, <1>3, <1>5 DEF InboxLog, StoreTypes, Alone

\* A record that names the result the file names already.
LEMMA OnceSame ==
    ASSUME TInv, NEW j \in Jobs, Once(j), NEW a \in Threads, NEW record \in InboxRecords,
           NEW place \in {"end", "validate", "failjob"}, InboxLog(a, record, place),
           thread[a].job \in Jobs, inbox[thread[a].job] # NoRecord,
           record.run = inbox[thread[a].job].run
    PROVE  Once(j)'
<1>1. /\ inboxFile'[thread[a].job] = record /\ inbox' = inbox /\ effects' = effects
      /\ \A i \in Jobs \ {thread[a].job} : inboxFile'[i] = inboxFile[i]
      /\ write[a].to = "none" /\ write'[a].to = "inbox" /\ write'[a].record = record
      /\ thread'[a].at = place /\ thread'[a].job = thread[a].job /\ Alone(a)
  BY InboxLogFacts
<1>2. thread'[a].at \notin Working
  BY <1>1 DEF Working
<1>3. CASE thread[a].job # j
  BY <1>1, <1>2, <1>3, OnceKept
<1>4. CASE thread[a].job = j
  <2>1. Named(inbox[j]) /\ inbox[j].run = inboxFile[j].run
    BY <1>4 DEF TInv, InboxNamed, Once
  <2>2. record # NoRecord /\ inboxFile[j] # NoRecord
    BY <1>4, <2>1 DEF Named, NoRecord
  <2> QED BY <1>1, <1>2, <1>4, <2>1, <2>2, OnceKept
<1> QED BY <1>3, <1>4

\* The first result of a job: nobody works on it, nothing of it is in the file.
LEMMA OnceFirst ==
    ASSUME TInv, NEW j \in Jobs, Once(j), NEW a \in Threads, NEW record \in InboxRecords,
           InboxLog(a, record, "process"), thread[a].job \in Jobs,
           inbox[thread[a].job] = NoRecord, record.run # NoRun,
           j = thread[a].job => ~HalfDone(a, "inbox", j)
    PROVE  Once(j)'
<1>1. /\ inboxFile'[thread[a].job] = record /\ inbox' = inbox /\ effects' = effects
      /\ \A i \in Jobs \ {thread[a].job} : inboxFile'[i] = inboxFile[i]
      /\ write[a].to = "none" /\ write'[a].to = "inbox" /\ write'[a].record = record
      /\ thread'[a].at = "process" /\ thread'[a].job = thread[a].job /\ Alone(a)
  BY InboxLogFacts
<1>2. \A b \in Threads \ {a} : thread'[b] = thread[b] /\ write'[b] = write[b]
  BY <1>1 DEF Alone
<1>3. CASE thread[a].job # j
  BY <1>1, <1>3, OnceKept
<1>4. CASE thread[a].job = j
  <2>1. \A b \in Threads : ~(write[b].to = "inbox" /\ thread[b].job = j)
    BY <1>1, <1>4 DEF HalfDone
  <2>2. inboxFile[j] = NoRecord /\ inbox'[j] = NoRecord
    BY <1>1, <1>4, <2>1 DEF Once
  <2>3. \A b \in Threads : ~Works(b, j) /\ ~(thread[b].job = j /\ thread[b].at \in {"read", "effect"})
    BY <2>2, KnownAtWork DEF Works, Working
  <2>4. effects'[j] = <<>>
    BY <1>1, <2>2 DEF Once
  <2>5. \A b \in Threads : Works(b, j)' => b = a
    BY <1>2, <2>3 DEF Works
  <2>6. OneWorks(j)'
    BY <2>5 DEF OneWorks
  <2>7. \A b \in Threads : write'[b].to = "inbox" /\ thread'[b].job = j =>
            write'[b].record.run = inboxFile'[j].run
    BY <1>1, <1>2, <1>4, <2>1
  <2>8. \A b \in Threads : ~(thread'[b].job = j /\ thread'[b].at \in {"read", "effect"})
    BY <1>1, <1>2, <2>3
  <2>9. Len(effects'[j]) <= 1 /\ DOMAIN effects'[j] = {}
    BY <2>4
  <2> QED BY <1>1, <1>4, <2>2, <2>4, <2>6, <2>7, <2>8, <2>9 DEF Once
<1> QED BY <1>3, <1>4

LEMMA OnceReceive ==
    ASSUME TInv, NEW j \in Jobs \ raced', Once(j), NEW a \in Threads, Receive(a)
    PROVE  Once(j)'
<1>1. /\ TypeOK /\ thread[a].at = "receive" /\ write[a] = NoWrite /\ thread[a].job \in Jobs
      /\ thread[a].run # NoRun /\ NoWrite.to = "none"
  BY ReceiveFacts DEF TInv, AtWork, NoWrite
<1>2. CASE Rests(a) /\ UNCHANGED <<inboxes, write, history>>
  <2>1. thread'[a].at \in {"rest", "ask"} /\ \A b \in Threads \ {a} : thread'[b] = thread[b]
    BY <1>1, <1>2, RestsFacts
  <2>2. /\ Alone(a) /\ thread'[a].at \notin Working /\ write'[a].to = "none"
        /\ UNCHANGED <<inbox, inboxFile, effects>>
    BY <1>1, <1>2, <2>1 DEF Alone, Working, inboxes, history, outcome
  <2> QED BY <1>1, <2>2, OnceKept
<1>3. CASE \E record \in InboxRecords :
               /\ InboxLog(a, record, "process") /\ record.run = thread[a].run
               /\ inbox[thread[a].job] = NoRecord
               /\ raced' = IF HalfDone(a, "inbox", thread[a].job)
                           THEN raced \cup {thread[a].job} ELSE raced
  BY <1>1, <1>3, OnceFirst
<1>4. CASE \E record \in InboxRecords :
               /\ InboxLog(a, record, "end") /\ record.run = thread[a].run
               /\ inbox[thread[a].job] # NoRecord
               /\ inbox[thread[a].job].run = thread[a].run
  BY <1>1, <1>4, OnceSame
<1> QED BY <1>1, <1>2, <1>3, <1>4, ReceiveFacts

\* A thread on its way to the effect, and the effect.
LEMMA OnceProcess ==
    ASSUME TInv, NEW j \in Jobs, Once(j), NEW a \in Threads, ProcessMove(a)
    PROVE  Once(j)'
<1>1. /\ TypeOK /\ AtWork /\ thread[a].at \in Working /\ write[a].to = "none"
      /\ thread[a].job \in Jobs /\ write' = write /\ inbox' = inbox /\ inboxFile' = inboxFile
      /\ inbox[thread[a].job] # NoRecord /\ Alone(a) /\ write'[a].to = "none"
      /\ effects \in [Jobs -> Seq(Runs)]
  <2>1. /\ TypeOK /\ AtWork /\ effects \in [Jobs -> Seq(Runs)] /\ NoWrite.to = "none"
    BY DEF TInv, TypeOK, WorldTypes, NoWrite
  <2>2. /\ thread[a].at \in Working /\ write[a] = NoWrite /\ thread[a].job \in Jobs
        /\ write' = write /\ inbox' = inbox /\ inboxFile' = inboxFile
    BY DEF ProcessMove, Working, inboxes
  <2>3. inbox[thread[a].job] # NoRecord
    BY <2>1, <2>2 DEF AtWork, Working
  <2> QED BY <2>1, <2>2, <2>3, CallbackKind
<1>2. thread'[a].at \in {"rest", "ask"} \/ thread'[a].job = thread[a].job
  BY CallbackKind
<1>3. CASE thread[a].job # j
  <2>1. effects'[j] = effects[j]
    BY <1>1, <1>3 DEF ProcessMove
  <2>2. thread'[a].job # j \/ thread'[a].at \notin Working
    BY <1>2, <1>3 DEF Working
  <2> QED BY <1>1, <1>3, <2>1, <2>2, OnceKept
<1>4. CASE thread[a].job = j /\ effects' = effects
  <2>1. thread'[a].at \in {"read", "effect"} => thread'[a].run = inboxFile[j].run
    <3>1. CASE \E place \in {"tidy", "reject", "mark"} : Stands(a, place)
      BY <1>1, <3>1, StandsFacts DEF Places
    <3>2. CASE thread[a].at = "read" /\ Stands(a, "effect")
      <4>1. thread'[a].run = thread[a].run
        BY <1>1, <3>2, StandsFacts DEF Places
      <4> QED BY <1>4, <3>2, <4>1 DEF Once
    <3>3. CASE thread' = [thread EXCEPT ![a] = [at |-> "read", job |-> thread[a].job,
                                                run |-> inbox[thread[a].job].run]]
      <4>1. thread'[a].run = inbox[j].run
        BY <1>1, <1>4, <3>3 DEF TypeOK, ThreadTypes
      <4> QED BY <1>1, <1>4, <4>1 DEF Once
    <3> QED BY <3>1, <3>2, <3>3 DEF ProcessMove
  <2> QED BY <1>1, <1>4, <2>1, OnceKept
<1>5. CASE /\ thread[a].job = j /\ thread[a].at = "effect" /\ Stands(a, "mark")
           /\ effects' = [effects EXCEPT ![thread[a].job] = Append(@, thread[a].run)]
  <2>1. /\ inboxFile[j] # NoRecord /\ effects[j] = <<>> /\ thread[a].run = inboxFile[j].run
    BY <1>1, <1>5, KnownAtWork DEF Once, Works
  <2>2. effects'[j] = <<thread[a].run>>
    BY <1>1, <1>5, <2>1
  <2>3. /\ thread'[a].at = "mark" /\ \A b \in Threads \ {a} : thread'[b] = thread[b]
    BY <1>1, <1>5, StandsFacts DEF Places
  <2>4. \A b \in Threads : ~Works(b, j)'
    <3>1. \A b \in Threads : Works(b, j) => b = a
      BY <1>1, <1>5 DEF Once, OneWorks, Works
    <3> QED BY <2>3, <3>1 DEF Works, Working
  <2>5. /\ Len(effects'[j]) <= 1
        /\ \A k \in DOMAIN effects'[j] : effects'[j][k] = inboxFile'[j].run
    BY <1>1, <2>1, <2>2
  <2>6. OneWorks(j)'
    BY <2>4 DEF OneWorks
  <2>7. \A b \in Threads : thread'[b].job = j /\ thread'[b].at \in {"read", "effect"} =>
            thread'[b].run = inboxFile'[j].run
    BY <1>1, <2>3 DEF Once
  <2>8. \A b \in Threads : write'[b].to = "inbox" /\ thread'[b].job = j =>
            write'[b].record.run = inboxFile'[j].run
    BY <1>1, <2>3 DEF Once
  <2>9. inbox'[j] # NoRecord /\ inbox'[j].run = inboxFile'[j].run
    BY <1>1, <1>5 DEF Once
  <2> QED BY <1>1, <2>1, <2>4, <2>5, <2>6, <2>7, <2>8, <2>9 DEF Once
<1> QED BY <1>3, <1>4, <1>5 DEF ProcessMove

LEMMA StepOnce ==
    ASSUME OnceInv, [Next]_vars
    PROVE  OnceInv'
<1>1. TInv /\ TInv' /\ raced \subseteq raced' /\ raced' \subseteq Jobs
  BY StepTInv, HistoryStep DEF OnceInv
<1>2. ASSUME NEW j \in Jobs \ raced'
      PROVE  Once(j)'
  <2>1. Once(j)
    BY <1>1, <1>2 DEF OnceInv
  <2>2. CASE Still
    BY <2>1, <2>2 DEF Still, Once, OneWorks, Works
  <2>3. CASE Crash
    BY <1>1, <2>1, <2>3, OnceCrash
  <2>4. ASSUME NEW a \in Threads, Mark(a) \/ Reject(a)
        PROVE  Once(j)'
    <3>1. PICK record \in InboxRecords, place \in {"validate", "failjob"} :
              InboxLog(a, record, place) /\ record.run = inbox[thread[a].job].run
      BY <1>1, <2>4, MarksFacts DEF TInv
    <3>2. thread[a].at \in {"mark", "reject"} /\ write[a].to = "none"
      BY <1>1, <2>4, <3>1, MarksFacts DEF TInv, InboxLog, NoWrite
    <3>3. thread[a].job \in Jobs /\ inbox[thread[a].job] # NoRecord
      BY <1>1, <3>2 DEF TInv, AtWork, TypeOK, ThreadTypes
    <3> QED BY <1>1, <2>1, <3>1, <3>3, OnceSame
  <2>5. ASSUME NEW a \in Threads, Quiet(a) \/ SetsInbox(a) \/ ProcessMove(a) \/ Receive(a)
        PROVE  Once(j)'
    BY <1>1, <2>1, <2>5, OnceQuiet, OnceSet, OnceProcess, OnceReceive
  <2> QED BY <1>1, <2>2, <2>3, <2>4, <2>5, Kinds
<1> QED BY <1>1, <1>2 DEF OnceInv

LEMMA InitOnce ==
    ASSUME Init
    PROVE  OnceInv
<1>1. TInv
  BY InitTInv
<1>2. ASSUME NEW j \in Jobs
      PROVE  Once(j)
  <2>1. /\ inbox[j] = NoRecord /\ inboxFile[j] = NoRecord /\ effects[j] = <<>>
        /\ \A a \in Threads : thread[a].at = "rest" /\ write[a].to = "none"
    BY DEF Init, Idle, NoWrite
  <2>2. Len(effects[j]) <= 1 /\ DOMAIN effects[j] = {}
    BY <2>1
  <2> QED BY <2>1, <2>2 DEF Once, OneWorks, Works, Working
<1> QED BY <1>1, <1>2 DEF OnceInv

\* The result the inbox recorded stays the one it recorded.
LEMMA RecordedRunStays ==
    ASSUME TInv, [Next]_vars, NEW j \in Jobs \ raced', Once(j), inboxFile[j] # NoRecord
    PROVE  inboxFile'[j].run = inboxFile[j].run
<1>1. CASE inboxFile' = inboxFile
  BY <1>1
<1>2. \A a \in Threads : Quiet(a) \/ SetsInbox(a) \/ ProcessMove(a) => inboxFile' = inboxFile
  BY DEF Quiet, SetsInbox, ProcessMove, inboxes
<1>3. ASSUME NEW a \in Threads, NEW record \in InboxRecords,
             NEW place \in {"process", "end", "validate", "failjob"},
             InboxLog(a, record, place), thread[a].job \in Jobs,
             inbox[thread[a].job] # NoRecord, record.run = inbox[thread[a].job].run
      PROVE  inboxFile'[j].run = inboxFile[j].run
  BY <1>3, InboxLogFacts DEF Once
<1>4. ASSUME NEW a \in Threads, Mark(a) \/ Reject(a)
      PROVE  inboxFile'[j].run = inboxFile[j].run
  <2>1. PICK record \in InboxRecords, place \in {"validate", "failjob"} :
            InboxLog(a, record, place) /\ record.run = inbox[thread[a].job].run
    BY <1>4, MarksFacts DEF TInv
  <2>2. thread[a].at \in {"mark", "reject"} /\ write[a].to = "none"
    BY <1>4, <2>1, MarksFacts DEF TInv, InboxLog, NoWrite
  <2>3. thread[a].job \in Jobs /\ inbox[thread[a].job] # NoRecord
    BY <2>2 DEF TInv, AtWork, TypeOK, ThreadTypes
  <2> QED BY <1>3, <2>1, <2>3
<1>5. ASSUME NEW a \in Threads, Receive(a)
      PROVE  inboxFile'[j].run = inboxFile[j].run
  <2>1. thread[a].job \in Jobs /\ write[a] = NoWrite /\ TypeOK
    BY <1>5, ReceiveFacts DEF TInv
  <2>2. CASE UNCHANGED inboxes
    BY <1>1, <2>2 DEF inboxes
  <2>3. ASSUME NEW record \in InboxRecords, InboxLog(a, record, "process"),
               inbox[thread[a].job] = NoRecord,
               raced' = IF HalfDone(a, "inbox", thread[a].job)
                        THEN raced \cup {thread[a].job} ELSE raced
        PROVE  inboxFile'[j].run = inboxFile[j].run
    <3>1. CASE thread[a].job # j
      BY <2>1, <2>3, <3>1, InboxLogFacts
    <3>2. CASE thread[a].job = j
      <4>1. ~HalfDone(a, "inbox", j)
        BY <2>3, <3>2
      <4>2. write[a].to # "inbox"
        BY <2>1 DEF NoWrite
      <4> QED BY <2>3, <3>2, <4>1, <4>2 DEF Once, HalfDone
    <3> QED BY <3>1, <3>2
  <2>4. ASSUME NEW record \in InboxRecords, InboxLog(a, record, "end"),
               record.run = thread[a].run, inbox[thread[a].job] # NoRecord,
               inbox[thread[a].job].run = thread[a].run
        PROVE  inboxFile'[j].run = inboxFile[j].run
    BY <1>3, <2>1, <2>4
  <2> QED BY <1>5, <2>1, <2>2, <2>3, <2>4, ReceiveFacts
<1>6. Still \/ Crash => inboxFile' = inboxFile
  BY DEF Still, Crash
<1> QED BY <1>1, <1>2, <1>4, <1>5, <1>6, Kinds

\* What was stored of a job in part is of the result its inbox recorded.
PartOf(j) == \A r \in parts[j] : r = inboxFile[j].run
PartsInv == OnceInv /\ \A j \in Jobs \ raced : PartOf(j)

LEMMA StepParts ==
    ASSUME PartsInv, [Next]_vars
    PROVE  PartsInv'
<1>1. /\ OnceInv' /\ TInv /\ TypeOK /\ raced \subseteq raced' /\ raced' \subseteq Jobs
      /\ parts \in [Jobs -> SUBSET Runs]
  BY StepOnce, HistoryStep DEF PartsInv, OnceInv, TInv, TypeOK, WorldTypes
<1>2. ASSUME NEW j \in Jobs \ raced'
      PROVE  PartOf(j)'
  <2>1. Once(j) /\ PartOf(j)
    BY <1>1, <1>2 DEF PartsInv, OnceInv
  <2>2. ASSUME NEW r \in parts[j]
        PROVE  inboxFile'[j].run = r
    <3>1. r \in Runs /\ r = inboxFile[j].run
      BY <1>1, <2>1, <2>2 DEF PartOf
    <3>2. inboxFile[j] # NoRecord
      BY <3>1, RunsFacts, <1>1 DEF NoRecord
    <3> QED BY <1>1, <2>1, <3>1, <3>2, RecordedRunStays
  <2>3. CASE parts'[j] \subseteq parts[j]
    BY <2>2, <2>3 DEF PartOf
  <2>4. ASSUME NEW a \in Threads, StorePart(a)
        PROVE  PartOf(j)'
    <3>1. /\ thread[a].at = "effect" /\ inboxFile' = inboxFile
          /\ parts' = [parts EXCEPT ![thread[a].job] = @ \cup {thread[a].run}]
      BY <2>4 DEF StorePart, At, inboxes
    <3>2. CASE thread[a].job # j
      BY <1>1, <2>3, <3>1, <3>2
    <3>3. CASE thread[a].job = j
      <4>1. thread[a].run = inboxFile[j].run
        BY <2>1, <3>1, <3>3 DEF Once
      <4> QED BY <1>1, <2>1, <3>1, <3>3, <4>1 DEF PartOf
    <3> QED BY <3>2, <3>3
  <2>5. ASSUME NEW a \in Threads,
               parts' = [parts EXCEPT ![thread[a].job] = @ \ {thread[a].run}]
        PROVE  parts'[j] \subseteq parts[j]
    BY <1>1, <2>5
  <2> QED BY <2>3, <2>4, <2>5, PartsStep
<1> QED BY <1>1, <1>2 DEF PartsInv

\* inbox.py's promise, for any jobs and bounds: through duplicate, late and conflicting
\* callbacks, repeated create_job calls, failed writes and restarts a job takes effect
\* at most once, and what it leaves, all or a part, is of the result its inbox recorded,
\* unless two threads were receiving its first callback at once.
THEOREM TakesEffectOnce == Spec => []EffectOnce
<1>1. PartsInv => EffectOnce
  BY DEF PartsInv, OnceInv, Once, PartOf, EffectOnce
<1>2. Init => PartsInv
  BY InitOnce DEF Init, PartsInv, PartOf
<1>3. PartsInv /\ [Next]_vars => PartsInv'
  BY StepParts
<1> QED BY <1>1, <1>2, <1>3, PTL DEF Spec

-----------------------------------------------------------------------------
(* What is written of a job *)

Resting == {"rest", "ask"}

\* A job anyone works on is in memory, or the call that creates it is about to set it;
\* what is in memory, or on its way there, is in the file; the dispatcher works on jobs
\* it named.
Known ==
    /\ \A j \in Jobs : job[j] # NoRecord => jobFile[j] # NoRecord
    /\ \A a \in Threads : write[a].to = "job" =>
           write[a].record # NoRecord /\ jobFile[thread[a].job] # NoRecord
    /\ \A r \in DOMAIN runs : job[runs[r].job] # NoRecord
    /\ \A q \in queue : job[q[1]] # NoRecord
    /\ \A a \in Threads : thread[a].at \notin Resting =>
           job[thread[a].job] # NoRecord \/ (thread[a].at = "claim" /\ write[a].to = "job")
    /\ thread["shadow"].at \notin Resting => thread["shadow"].job \in fresh

KInv == TInv /\ Known

\* A thread moves on, or takes up another job, and writes nothing.
Fate == {"process", "read", "effect", "mark", "validate", "complete", "reject"}
Passes(a) ==
    /\ Alone(a) /\ write[a] = NoWrite /\ write'[a] = NoWrite
    /\ UNCHANGED <<outbox, inbox, inboxFile, effects, raced, torn>> /\ fresh \subseteq fresh'
    /\ thread'[a].at \notin Resting =>
           job[thread'[a].job] # NoRecord /\ (a = "shadow" => thread'[a].job \in fresh')
    /\ thread'[a] = thread[a] \/ thread'[a].at \notin Fate

\* A thread appends a record of j to a file.
Appends(a, store, j, record) ==
    /\ Alone(a) /\ UNCHANGED <<job, inbox, effects>> /\ fresh \subseteq fresh'
    /\ write[a] = NoWrite /\ write'[a] = [to |-> store, record |-> record]
    /\ \/ store = "job" /\ jobFile' = [jobFile EXCEPT ![j] = record] /\ inboxFile' = inboxFile
       \/ store = "inbox" /\ inboxFile' = [inboxFile EXCEPT ![j] = record] /\ jobFile' = jobFile
    /\ thread'[a].job = j /\ Fits(a, record, thread'[a].at)
    /\ \/ thread[a].job = j /\ thread[a].at \notin Resting
       \/ record.status = "QUEUED" /\ store = "job" /\ thread'[a].at = "claim"
    /\ thread'[a].at \notin {"read", "effect", "mark", "reject"}
    /\ thread'[a].at = "process" => inbox[j] = NoRecord /\ (HalfDone(a, "inbox", j) => j \in raced')
    /\ HalfDone(a, store, j) => j \in torn'
    /\ raced \subseteq raced' /\ torn \subseteq torn'
    /\ a = "shadow" => j \in fresh'

Unmoved == UNCHANGED <<thread, write, outbox, inbox, inboxFile, effects, raced, torn, fresh>>

\* A thread without a record on its way works on a job in memory.
LEMMA KnownThread ==
    ASSUME KInv, NEW a \in Threads, thread[a].at \notin Resting, write[a] = NoWrite
    PROVE  /\ job[thread[a].job] # NoRecord /\ thread[a].job \in Jobs
           /\ a = "shadow" => thread[a].job \in fresh
<1>1. write[a].to # "job"
  BY DEF NoWrite
<1> QED BY <1>1 DEF KInv, Known, TInv, TypeOK, ThreadTypes, Resting

\* The first record of a job is the only one on its way.
LEMMA CreateAlone ==
    ASSUME KInv, NEW a \in {"loop", "shadow"}, NEW j \in Jobs, CreateJob(a, j), job[j] = NoRecord
    PROVE  ~HalfDone(a, "job", j)
<1>1. /\ TypeOK /\ ThreadTypes /\ WritersWork /\ RunsBounded /\ Known
      /\ thread[a] = Idle
  BY DEF KInv, TInv, TypeOK, CreateJob
<1>2. ASSUME NEW b \in Threads \ {a}, write[b].to = "job", thread[b].job = j
      PROVE  FALSE
  <2>1. write[b] # NoWrite
    BY <1>2 DEF NoWrite
  <2>2. thread[b].at = "claim"
    BY <1>1, <1>2, <2>1 DEF Known, WritersWork, Resting
  <2>3. b \in {"loop", "shadow"}
    BY <1>1, <2>2 DEF RunsBounded, Dispatching, Threads
  <2>4. CASE a = "loop"
    <3>1. b = "shadow" /\ j \notin fresh
      BY <1>2, <2>3, <2>4 DEF CreateJob
    <3> QED BY <1>1, <1>2, <2>2, <3>1 DEF Known, Resting
  <2>5. CASE a = "shadow"
    BY <1>2, <2>3, <2>5 DEF CreateJob
  <2> QED BY <2>4, <2>5
<1> QED BY <1>2 DEF HalfDone

LEMMA PassKind ==
    ASSUME KInv, NEW a \in Threads, write[a] = NoWrite, write' = write,
           UNCHANGED <<outbox, inbox, inboxFile, history>>, fresh \subseteq fresh',
           \/ Rests(a)
           \/ \E place \in Places \ (Fate \cup Resting) :
                  \/ thread[a].at \notin Resting /\ Stands(a, place)
                  \/ \E j \in Jobs, run \in Runs \cup {NoRun} :
                         /\ Takes(a, place, j, run) /\ job[j] # NoRecord
                         /\ a = "shadow" => j \in fresh'
           \/ thread' = thread
    PROVE  Passes(a)
<1>1. TypeOK /\ ThreadTypes /\ UNCHANGED <<effects, raced, torn>>
  BY DEF KInv, TInv, TypeOK, history, outcome
<1>2. CASE Rests(a)
  BY <1>1, <1>2, RestsFacts DEF Passes, Alone, Resting, Fate
<1>3. ASSUME NEW place \in Places \ (Fate \cup Resting), thread[a].at \notin Resting,
             Stands(a, place)
      PROVE  Passes(a)
  <2>1. /\ thread'[a].at = place /\ thread'[a].job = thread[a].job
        /\ \A b \in Threads \ {a} : thread'[b] = thread[b]
    BY <1>1, <1>3, KnownThread, StandsFacts DEF Resting
  <2> QED BY <1>1, <1>3, <2>1, KnownThread DEF Passes, Alone
<1>4. ASSUME NEW place \in Places \ (Fate \cup Resting), NEW j \in Jobs,
             NEW run \in Runs \cup {NoRun}, Takes(a, place, j, run), job[j] # NoRecord,
             a = "shadow" => j \in fresh'
      PROVE  Passes(a)
  <2>1. /\ thread'[a].at = place /\ thread'[a].job = j
        /\ \A b \in Threads \ {a} : thread'[b] = thread[b]
    BY <1>1, <1>4, TakesFacts
  <2> QED BY <1>1, <1>4, <2>1 DEF Passes, Alone
<1>5. CASE thread' = thread
  BY <1>1, <1>5, KnownThread DEF Passes, Alone
<1> QED BY <1>2, <1>3, <1>4, <1>5

\* Every step, as the stores see it.
LEMMA WriteKinds ==
    ASSUME KInv, [Next]_vars
    PROVE  \/ Unmoved \/ Crash
           \/ \E a \in Threads :
                  \/ Passes(a) \/ ProcessMove(a) \/ SetRecord(a)
                  \/ \E store \in {"job", "inbox"}, j \in Jobs,
                        record \in JobRecords \cup InboxRecords : Appends(a, store, j, record)
<1> DEFINE Logged(a) == \E store \in {"job", "inbox"}, j \in Jobs,
                           record \in JobRecords \cup InboxRecords : Appends(a, store, j, record)
<1>1. /\ TInv /\ TypeOK /\ ThreadTypes /\ StoreTypes /\ WritersWork /\ RunsBounded /\ Known
      /\ "loop" \in Threads /\ "poller" \in Threads /\ "sweeper" \in Threads
      /\ "shadow" \in Threads /\ DOMAIN runs \subseteq Runs /\ NoRun \notin Runs
      /\ \A r \in DOMAIN runs : runs[r].job \in Jobs
      /\ Idle.at = "rest" /\ NoRecord.status = "none"
  BY RunsFacts DEF KInv, TInv, TypeOK, Threads, Idle, NoRecord
<1>2. \A a \in Threads : thread[a] = Idle => write[a] = NoWrite
  BY <1>1 DEF WritersWork
<1>3. ASSUME NEW a \in Threads, NEW record \in JobRecords, NEW place \in JobPlaces,
             JobLog(a, record, place)
      PROVE  Logged(a)
  <2>1. thread[a].at \notin Resting /\ write[a] = NoWrite
    BY <1>3 DEF JobLog, JobPlaces, Resting
  <2>2. thread[a].job \in Jobs /\ (a = "shadow" => thread[a].job \in fresh)
    BY <2>1, KnownThread
  <2>3. place \in Places \ {"rest", "ask", "read", "effect", "mark", "reject", "process"}
    BY DEF JobPlaces, Places
  <2>4. /\ thread'[a].at = place /\ thread'[a].job = thread[a].job
        /\ \A b \in Threads \ {a} : thread'[b] = thread[b]
    BY <1>1, <1>3, <2>2, <2>3, StandsFacts DEF JobLog
  <2>5. /\ write'[a] = [to |-> "job", record |-> record]
        /\ \A b \in Threads \ {a} : write'[b] = write[b]
    BY <1>1, <1>3 DEF JobLog, ThreadTypes
  <2>6. /\ UNCHANGED <<job, inbox, effects, inboxFile, fresh, raced>> /\ Fits(a, record, place)
        /\ jobFile' = [jobFile EXCEPT ![thread[a].job] = record] /\ torn \subseteq torn'
        /\ HalfDone(a, "job", thread[a].job) => thread[a].job \in torn'
    BY <1>3 DEF JobLog, inboxes
  <2>7. Appends(a, "job", thread[a].job, record)
    BY <2>1, <2>2, <2>3, <2>4, <2>5, <2>6 DEF Appends, Alone
  <2> QED BY <2>2, <2>7
<1>4. ASSUME NEW a \in Threads, NEW record \in InboxRecords,
             NEW place \in {"process", "end", "validate", "failjob"},
             InboxLog(a, record, place), thread[a].at \notin Resting,
             raced \subseteq raced',
             place = "process" =>
                 /\ inbox[thread[a].job] = NoRecord
                 /\ HalfDone(a, "inbox", thread[a].job) => thread[a].job \in raced'
      PROVE  Logged(a)
  <2>1. write[a] = NoWrite
    BY <1>4 DEF InboxLog
  <2>2. thread[a].job \in Jobs /\ (a = "shadow" => thread[a].job \in fresh)
    BY <1>4, <2>1, KnownThread
  <2>3. /\ thread'[a].at = place /\ thread'[a].job = thread[a].job /\ Alone(a)
    BY <1>1, <1>4, <2>2, InboxLogFacts
  <2>4. write'[a] = [to |-> "inbox", record |-> record]
    BY <1>1, <1>4 DEF InboxLog, ThreadTypes
  <2>5. /\ UNCHANGED <<job, inbox, effects, jobFile, fresh>> /\ Fits(a, record, place)
        /\ inboxFile' = [inboxFile EXCEPT ![thread[a].job] = record] /\ torn \subseteq torn'
        /\ HalfDone(a, "inbox", thread[a].job) => thread[a].job \in torn'
    BY <1>4 DEF InboxLog, outbox
  <2>6. Appends(a, "inbox", thread[a].job, record)
    BY <1>4, <2>1, <2>2, <2>3, <2>4, <2>5 DEF Appends
  <2> QED BY <2>2, <2>6
<1>5. ASSUME NEW a \in Threads, Mark(a) \/ Reject(a)
      PROVE  Logged(a)
  <2>1. /\ thread[a].at \notin Resting /\ raced' = raced
        /\ \E record \in InboxRecords, place \in {"validate", "failjob"} :
               InboxLog(a, record, place)
    BY <1>1, <1>5, MarksFacts DEF Resting
  <2> HIDE DEF Logged
  <2> QED BY <1>4, <2>1
<1>6. ASSUME NEW a \in Threads, Receive(a)
      PROVE  Logged(a) \/ Passes(a)
  <2>1. /\ thread[a].at \notin Resting /\ write[a] = NoWrite
    BY <1>1, <1>6, ReceiveFacts DEF Resting
  <2>2. CASE Rests(a) /\ UNCHANGED <<outbox, inboxes, fresh, write, queue, runs, silent, history, bounds>>
    BY <2>1, <2>2, PassKind DEF inboxes
  <2>3. CASE \E record \in InboxRecords :
                 /\ InboxLog(a, record, "process")
                 /\ inbox[thread[a].job] = NoRecord
                 /\ raced' = IF HalfDone(a, "inbox", thread[a].job)
                             THEN raced \cup {thread[a].job} ELSE raced
    <3> HIDE DEF Logged
    <3> QED BY <1>4, <2>1, <2>3
  <2>4. CASE \E record \in InboxRecords : InboxLog(a, record, "end") /\ raced' = raced
    <3> HIDE DEF Logged
    <3> QED BY <1>4, <2>1, <2>4
  <2> HIDE DEF Logged
  <2> QED BY <1>1, <1>6, <2>2, <2>3, <2>4, ReceiveFacts
<1>7. ASSUME NEW a \in Threads, thread[a].at = "failjob", Jump(a, "tidy")
      PROVE  Passes(a)
  BY <1>7, PassKind DEF Jump, Resting, Places, Fate, inboxes
<1>8. ASSUME NEW a \in Threads, Call(a)
      PROVE  Passes(a)
  <2>1. /\ thread[a].at = "call" /\ write[a] = NoWrite
        /\ UNCHANGED <<write, outbox, inboxes, fresh, history>>
        /\ \/ \E place \in {"requeue", "fail"} : Stands(a, place)
           \/ Takes(a, "running", thread[a].job, Len(runs) + 1)
        /\ Len(runs) + 1 <= creates
    BY <1>1, <1>8, CallFacts
  <2>2. Len(runs) + 1 \in Runs
    <3>1. Len(runs) \in Nat /\ creates \in Nat /\ MaxCreates \in Nat /\ creates <= MaxCreates
      BY <1>1, RunsFacts, JobLifecycleAssumption DEF TypeOK, WorldTypes
    <3> QED BY <2>1, <3>1 DEF Runs
  <2>3. /\ job[thread[a].job] # NoRecord /\ thread[a].job \in Jobs
        /\ a = "shadow" => thread[a].job \in fresh
    BY <2>1, KnownThread DEF Resting
  <2>4. PICK j \in Jobs, run \in Runs : j = thread[a].job /\ run = Len(runs) + 1
    BY <2>2, <2>3
  <2> QED BY <2>1, <2>3, <2>4, PassKind DEF Resting, Places, Fate, inboxes
<1>9. ASSUME NEW a \in Threads, Tidy(a) \/ Abort(a)
      PROVE  Passes(a)
  <2>1. /\ write[a] = NoWrite /\ UNCHANGED <<write, outbox, inboxes, fresh, history>>
        /\ thread' = Done(a) \/ thread' = [thread EXCEPT ![a] = Idle]
    BY <1>9 DEF Tidy, Abort, At
  <2>2. thread' = [thread EXCEPT ![a] = Idle] => Rests(a)
    BY DEF Rests, Idle
  <2> QED BY <2>1, <2>2, DoneFacts, PassKind DEF inboxes
<1>10. ASSUME NEW a \in {"loop", "shadow"}, NEW j \in Jobs, CreateJob(a, j)
       PROVE  a \in Threads /\ (Passes(a) \/ Logged(a))
  <2> DEFINE record == [status |-> "QUEUED", run |-> NoRun]
  <2>1. /\ a \in Threads /\ write[a] = NoWrite /\ Takes(a, "claim", j, NoRun)
        /\ UNCHANGED <<job, inboxes, history>> /\ fresh \subseteq fresh'
        /\ a = "shadow" => j \in fresh'
    BY <1>1, <1>2, <1>10 DEF CreateJob, Takes
  <2>2. CASE job[j] # NoRecord
    <3>1. write' = write /\ jobFile' = jobFile
      BY <1>10, <2>2 DEF CreateJob
    <3> QED BY <2>1, <2>2, <3>1, PassKind DEF Resting, Places, Fate, inboxes, outbox
  <2>3. CASE job[j] = NoRecord
    <3>1. jobFile' = [jobFile EXCEPT ![j] = record] /\ jobFile'[j] = record
      BY <1>1, <1>10, <2>3 DEF CreateJob, StoreTypes
    <3>2. write' = [write EXCEPT ![a] = [to |-> "job", record |-> record]]
      BY <1>10, <2>3, <3>1 DEF CreateJob
    <3>3. /\ thread'[a].at = "claim" /\ thread'[a].job = j
          /\ \A b \in Threads \ {a} : thread'[b] = thread[b]
      BY <1>1, <2>1, TakesFacts DEF Places
    <3>4. /\ write'[a] = [to |-> "job", record |-> record]
          /\ \A b \in Threads \ {a} : write'[b] = write[b]
      BY <1>1, <2>1, <3>2 DEF ThreadTypes
    <3>5. Fits(a, record, "claim") /\ record \in JobRecords /\ record.status = "QUEUED"
      BY DEF Fits, JobRecords
    <3>6. ~HalfDone(a, "job", j)
      BY <1>10, <2>3, CreateAlone
    <3> HIDE DEF record
    <3>7. Appends(a, "job", j, record)
      BY <2>1, <3>1, <3>3, <3>4, <3>5, <3>6 DEF Appends, Alone, inboxes, history, outcome
    <3> QED BY <2>1, <3>5, <3>7
  <2> QED BY <2>1, <2>2, <2>3
<1>11. ASSUME Poll
       PROVE  Passes("poller")
  <2>1. Stands("poller", "ask") /\ thread["poller"] = Idle
        /\ UNCHANGED <<write, outbox, inboxes, fresh, history>>
    BY <1>1, <1>11, GoesFacts DEF Poll
  <2>2. Rests("poller")
    BY <2>1 DEF Stands, Rests, Idle
  <2> QED BY <1>1, <1>2, <2>1, <2>2, PassKind DEF inboxes
<1>12. ASSUME NEW q \in queue, Ask(q[1], q[2])
       PROVE  Passes("poller")
  <2>1. q[1] \in Jobs /\ q[2] \in Runs /\ job[q[1]] # NoRecord
    BY <1>1 DEF ThreadTypes, Known
  <2>2. /\ write["poller"] = NoWrite /\ UNCHANGED <<write, outbox, inbox, inboxFile, fresh, history>>
        /\ \/ thread' = [thread EXCEPT !["poller"] = Idle]
           \/ thread' = [thread EXCEPT !["poller"] = thread["poller"]]
           \/ Takes("poller", "fail", q[1], q[2])
           \/ Takes("poller", "receive", runs[q[2]].job, q[2])
    BY <1>12 DEF Ask, At, Takes, TakesUp
  <2>3. q[2] \in DOMAIN runs
    BY <1>1, RunsFacts DEF TInv, RunsExist
  <2>4. runs[q[2]].job \in Jobs /\ job[runs[q[2]].job] # NoRecord
    BY <1>1, <2>3 DEF Known
  <2>5. thread' = [thread EXCEPT !["poller"] = Idle] => Rests("poller")
    BY DEF Rests, Idle
  <2>6. thread' = [thread EXCEPT !["poller"] = thread["poller"]] => thread' = thread
    BY <1>1 DEF ThreadTypes
  <2> QED BY <1>1, <2>1, <2>2, <2>4, <2>5, <2>6, PassKind DEF Places, Fate, Resting
<1>13. ASSUME NEW j \in Jobs, Sweep(j)
       PROVE  Passes("sweeper")
  <2>1. /\ Takes("sweeper", "fail", j, NoRun) /\ write["sweeper"] = NoWrite
        /\ UNCHANGED <<write, outbox, inboxes, fresh, history>> /\ job[j] # NoRecord
    BY <1>1, <1>2, <1>13 DEF Sweep, Takes
  <2> QED BY <1>1, <2>1, PassKind DEF Places, Fate, Resting, inboxes
<1>14. ASSUME NEW r \in DOMAIN runs, Deliver(r)
       PROVE  Passes("loop")
  <2>1. /\ Takes("loop", "receive", runs[r].job, r) /\ write["loop"] = NoWrite
        /\ UNCHANGED <<write, outbox, inbox, inboxFile, fresh, history>>
        /\ job[runs[r].job] # NoRecord
    BY <1>1, <1>2, <1>14 DEF Deliver, TakesUp, Takes, Known
  <2> QED BY <1>1, <2>1, PassKind DEF Places, Fate, Resting
<1>15. ASSUME \/ (\E j \in Jobs : Falter(j)) \/ (\E r \in DOMAIN runs : Turns(r))
              \/ NoMove
       PROVE  Unmoved
  BY <1>15 DEF Falter, Turns, RunEnds, Expire, Finish, Unmoved, NoMove, threads, inboxes, history, outcome
<1> DEFINE Goal == \E a \in Threads : Passes(a) \/ Logged(a)
<1>16. \A a \in {"loop", "shadow"}, j \in Jobs : CreateJob(a, j) => Goal
  <2> HIDE DEF Logged
  <2> QED BY <1>10
<1>17. (\E q \in queue : Ask(q[1], q[2])) \/ Poll => Goal
  BY <1>1, <1>11, <1>12
<1>18. (\E j \in Jobs : Sweep(j)) \/ (\E r \in DOMAIN runs : Deliver(r)) => Goal
  BY <1>1, <1>13, <1>14
<1> HIDE DEF Goal, Logged
<1>19. \/ Unmoved \/ Crash \/ Goal
       \/ \E a \in Threads : Passes(a) \/ ProcessMove(a) \/ SetRecord(a) \/ Logged(a)
  BY <1>1, <1>3, <1>5, <1>6, <1>7, <1>8, <1>9, <1>15, <1>16, <1>17, <1>18, Steps
<1>20. \A a \in Threads : Logged(a) =>
           \E store \in {"job", "inbox"}, j \in Jobs,
              record \in JobRecords \cup InboxRecords : Appends(a, store, j, record)
  BY DEF Logged
<1> QED BY <1>19, <1>20 DEF Goal

\* What is in memory stays there.
LEMMA StaysKnown ==
    ASSUME KInv, [Next]_vars, NEW j \in Jobs, job[j] # NoRecord
    PROVE  job'[j] # NoRecord
<1>1. TypeOK /\ StoreTypes /\ Known
  BY DEF KInv, TInv, TypeOK
<1>2. CASE job' = job
  BY <1>2
<1>3. CASE Crash
  BY <1>1, <1>3 DEF Crash, Known
<1>4. ASSUME NEW a \in Threads, SetRecord(a)
      PROVE  job'[j] # NoRecord
  BY <1>1, <1>4, SetFacts DEF Known, StoreTypes
<1>5. \A a \in Threads : Passes(a) \/ ProcessMove(a) => job' = job
  BY DEF Passes, ProcessMove, outbox
<1>6. \A a \in Threads, store \in {"job", "inbox"}, i \in Jobs,
         record \in JobRecords \cup InboxRecords : Appends(a, store, i, record) => job' = job
  BY DEF Appends
<1>7. Unmoved => job' = job
  BY DEF Unmoved, outbox
<1> QED BY <1>2, <1>3, <1>4, <1>5, <1>6, <1>7, WriteKinds

LEMMA StaysFiled ==
    ASSUME KInv, [Next]_vars, NEW j \in Jobs, jobFile[j] # NoRecord
    PROVE  jobFile'[j] # NoRecord
<1>1. TypeOK /\ StoreTypes /\ NoRecord.status = "none"
  BY DEF KInv, TInv, TypeOK, NoRecord
<1>2. CASE jobFile' = jobFile
  BY <1>2
<1>3. ASSUME NEW a \in Threads, NEW store \in {"job", "inbox"}, NEW i \in Jobs,
             NEW record \in JobRecords \cup InboxRecords, Appends(a, store, i, record)
      PROVE  jobFile'[j] # NoRecord
  <2>1. record # NoRecord
    BY <1>1, <1>3 DEF Appends, Fits
  <2> QED BY <1>1, <1>3, <2>1 DEF Appends, StoreTypes
<1>4. \A a \in Threads : Passes(a) \/ ProcessMove(a) \/ SetRecord(a) => jobFile' = jobFile
  BY <1>1, SetFacts DEF Passes, ProcessMove, outbox
<1>5. Unmoved \/ Crash => jobFile' = jobFile
  BY DEF Unmoved, outbox, Crash
<1> QED BY <1>2, <1>3, <1>4, <1>5, WriteKinds

\* The runs and the queue speak of jobs in memory.
LEMMA KnownRuns ==
    ASSUME KInv, [Next]_vars
    PROVE  /\ \A r \in DOMAIN runs' : job'[runs'[r].job] # NoRecord
           /\ \A q \in queue' : job'[q[1]] # NoRecord
<1>1. /\ TInv /\ TypeOK /\ ThreadTypes /\ Known /\ RunsBounded
      /\ runs \in Seq(RunRecords) /\ DOMAIN runs = 1 .. Len(runs) /\ Len(runs) \in Nat
      /\ \A r \in DOMAIN runs : runs[r] \in RunRecords /\ runs[r].job \in Jobs
  BY RunsFacts DEF KInv, TInv, TypeOK
<1>2. \A r \in DOMAIN runs : job'[runs[r].job] # NoRecord
  BY <1>1, StaysKnown DEF Known
<1>3. \A r \in DOMAIN runs' : job'[runs'[r].job] # NoRecord
  <2>1. CASE runs' = runs
    BY <1>2, <2>1
  <2>2. ASSUME NEW a \in Threads, Call(a), Len(runs') = Len(runs) + 1
        PROVE  \A r \in DOMAIN runs' : job'[runs'[r].job] # NoRecord
    <3>1. /\ thread[a].at = "call" /\ write[a] = NoWrite /\ thread[a].job \in Jobs
          /\ runs' = runs \/ runs' = Append(runs, [job |-> thread[a].job, state |-> "running", late |-> FALSE])
      BY <1>1, <2>2, CallFacts
    <3>2. job[thread[a].job] # NoRecord
      BY <3>1, KnownThread DEF Resting
    <3>3. runs' = Append(runs, [job |-> thread[a].job, state |-> "running", late |-> FALSE])
      BY <1>1, <2>2, <3>1
    <3> DEFINE new == [job |-> thread[a].job, state |-> "running", late |-> FALSE]
    <3>4. new \in RunRecords /\ new.job = thread[a].job
      BY <3>1 DEF RunRecords
    <3> HIDE DEF new
    <3>5. /\ DOMAIN runs' = 1 .. Len(runs) + 1 /\ runs'[Len(runs) + 1] = new
          /\ \A r \in 1 .. Len(runs) : runs'[r] = runs[r]
      BY <1>1, <3>3, <3>4 DEF new
    <3>6. job'[thread[a].job] # NoRecord
      BY <3>1, <3>2, StaysKnown
    <3>7. ASSUME NEW r \in DOMAIN runs'
          PROVE  job'[runs'[r].job] # NoRecord
      <4>1. r \in 1 .. Len(runs) \/ r = Len(runs) + 1
        BY <1>1, <3>5
      <4> QED BY <1>1, <1>2, <3>4, <3>5, <3>6, <4>1
    <3> QED BY <3>7
  <2>3. ASSUME NEW r \in DOMAIN runs, Turns(r)
        PROVE  \A q \in DOMAIN runs' : job'[runs'[q].job] # NoRecord
    <3>1. PICK record \in RunRecords :
              record.job = runs[r].job /\ runs' = [runs EXCEPT ![r] = record]
      BY <1>1, <2>3, TurnFacts
    <3>2. DOMAIN runs' = DOMAIN runs /\ \A q \in DOMAIN runs \ {r} : runs'[q] = runs[q]
      BY <1>1, <3>1
    <3>3. runs'[r].job = runs[r].job
      BY <1>1, <3>1
    <3> QED BY <1>2, <3>2, <3>3
  <2> QED BY <1>1, <2>1, <2>2, <2>3, RunsStep
<1>4. \A q \in queue' : job'[q[1]] # NoRecord
  <2>1. CASE queue' \subseteq queue
    BY <1>1, <2>1, StaysKnown DEF Known, ThreadTypes
  <2>2. CASE Poll
    <3>1. /\ queue' = {<<j, job[j].run>> : j \in {j \in Jobs : job[j].status = "RUNNING"
                                                                /\ job[j].run # NoRun}}
          /\ job' = job
      BY <2>2 DEF Poll, outbox
    <3>2. \A j \in Jobs : job[j].status = "RUNNING" => job[j] # NoRecord
      BY DEF NoRecord
    <3> QED BY <3>1, <3>2
  <2> QED BY <1>1, <2>1, <2>2, QueueStep
<1> QED BY <1>3, <1>4

\* The part of the invariant that a thread's own step can disturb.
KnownAt(a) ==
    /\ write[a].to = "job" => write[a].record # NoRecord /\ jobFile[thread[a].job] # NoRecord
    /\ thread[a].at \notin Resting =>
           job[thread[a].job] # NoRecord \/ (thread[a].at = "claim" /\ write[a].to = "job")
    /\ a = "shadow" /\ thread[a].at \notin Resting => thread[a].job \in fresh

LEMMA KnownOthers ==
    ASSUME KInv, [Next]_vars, NEW a \in Threads, fresh \subseteq fresh',
           thread'[a] = thread[a], write'[a] = write[a]
    PROVE  KnownAt(a)'
<1>1. thread[a].at \notin Resting => thread[a].job \in Jobs
  BY DEF KInv, TInv, TypeOK, ThreadTypes, Resting
<1>2. write[a].to = "job" => thread[a].at \notin Resting
  BY DEF KInv, TInv, WritersWork, NoWrite, Resting
<1> QED BY <1>1, <1>2, StaysKnown, StaysFiled DEF KnownAt, KInv, Known

LEMMA KnownSelf ==
    ASSUME KInv, [Next]_vars, NEW a \in Threads,
           \/ Passes(a) \/ ProcessMove(a) \/ SetRecord(a)
           \/ \E store \in {"job", "inbox"}, j \in Jobs,
                 record \in JobRecords \cup InboxRecords : Appends(a, store, j, record)
    PROVE  KnownAt(a)' /\ fresh \subseteq fresh' /\ Alone(a)
<1>1. /\ TInv /\ TypeOK /\ ThreadTypes /\ StoreTypes /\ Known /\ NoWrite.to = "none"
      /\ NoRecord.status = "none" /\ thread' \in [Threads -> ThreadRecords]
      /\ \A b \in Threads : thread'[b].at \notin Resting => thread'[b].job \in Jobs
  BY ThreadsTyped DEF KInv, TInv, TypeOK, NoWrite, NoRecord, Resting
<1>2. CASE Passes(a)
  BY <1>1, <1>2, StaysKnown DEF Passes, KnownAt
<1>3. CASE ProcessMove(a)
  <2>1. /\ thread[a].at \notin Resting /\ write[a] = NoWrite /\ write' = write /\ Alone(a)
        /\ job' = job /\ fresh' = fresh
        /\ thread'[a].at \in {"rest", "ask"} \/ thread'[a].job = thread[a].job
    BY <1>1, <1>3, CallbackKind DEF ProcessMove, Resting, outbox
  <2>2. job[thread[a].job] # NoRecord /\ (a = "shadow" => thread[a].job \in fresh)
    BY <2>1, KnownThread
  <2> QED BY <1>1, <2>1, <2>2 DEF KnownAt, Resting
<1>4. CASE SetRecord(a)
  <2>1. Quiet(a) \/ SetsInbox(a)
    BY <1>1, <1>4, SetRecordKind
  <2>2. Alone(a) /\ fresh' = fresh /\ write'[a] = NoWrite
    BY <1>1, <1>4, <2>1, SetFacts DEF Quiet, SetsInbox, ThreadTypes
  <2>3. CASE Rests(a)
    BY <1>1, <2>2, <2>3, RestsFacts DEF KnownAt, Resting
  <2>4. CASE thread' = thread /\ thread[a].at \notin Resting
    <3>1. thread[a].job \in Jobs
      BY <1>1, <2>4 DEF Resting
    <3>2. job'[thread[a].job] # NoRecord
      <4>1. CASE job[thread[a].job] # NoRecord
        BY <3>1, <4>1, StaysKnown
      <4>2. CASE write[a].to = "job"
        BY <1>1, <1>4, <3>1, <4>2, SetFacts DEF Known, StoreTypes
      <4> QED BY <1>1, <2>4, <4>1, <4>2 DEF Known
    <3> QED BY <1>1, <2>2, <2>4, <3>2 DEF KnownAt, Known
  <2>5. CASE thread' = thread /\ thread[a].at \in Resting
    BY <1>1, <2>2, <2>5 DEF KnownAt
  <2> QED BY <1>1, <1>4, <2>2, <2>3, <2>4, <2>5, SetFacts
<1>5. ASSUME NEW store \in {"job", "inbox"}, NEW j \in Jobs,
             NEW record \in JobRecords \cup InboxRecords, Appends(a, store, j, record)
      PROVE  KnownAt(a)' /\ fresh \subseteq fresh' /\ Alone(a)
  <2>1. /\ write'[a].to = store /\ write'[a].record = record /\ record # NoRecord
        /\ thread'[a].job = j /\ (a = "shadow" => j \in fresh') /\ job' = job
        /\ write[a] = NoWrite
    BY <1>1, <1>5 DEF Appends, Fits
  <2>4. store = "job" => jobFile'[j] = record
    BY <1>1, <1>5 DEF Appends, StoreTypes
  <2>2. CASE thread[a].job = j /\ thread[a].at \notin Resting
    <3>1. job[j] # NoRecord
      BY <2>1, <2>2, KnownThread
    <3> QED BY <1>5, <2>1, <2>4, <3>1 DEF KnownAt, Appends
  <2>3. CASE store = "job" /\ thread'[a].at = "claim"
    BY <1>5, <2>1, <2>3, <2>4 DEF KnownAt, Appends
  <2> QED BY <1>5, <2>2, <2>3 DEF Appends
<1> QED BY <1>2, <1>3, <1>4, <1>5

LEMMA StepKInv ==
    ASSUME KInv, [Next]_vars
    PROVE  KInv'
<1>1. /\ TInv /\ TInv' /\ TypeOK /\ StoreTypes /\ ThreadTypes /\ Known
      /\ NoRecord.status = "none" /\ "shadow" \in Threads
  BY StepTInv DEF KInv, TInv, TypeOK, NoRecord, Threads
<1> DEFINE Worker(a) == \/ Passes(a) \/ ProcessMove(a) \/ SetRecord(a)
                        \/ \E store \in {"job", "inbox"}, j \in Jobs,
                              record \in JobRecords \cup InboxRecords :
                                  Appends(a, store, j, record)
<1>2. \A a \in Threads : KnownAt(a)'
  <2>1. CASE Unmoved
    BY <2>1, KnownOthers DEF Unmoved
  <2>2. CASE Crash
    BY <2>2 DEF Crash, KnownAt, Idle, NoWrite, Resting
  <2>3. ASSUME NEW a \in Threads, Worker(a), NEW b \in Threads
        PROVE  KnownAt(b)'
    <3>1. KnownAt(a)' /\ fresh \subseteq fresh' /\ Alone(a)
      BY <2>3, KnownSelf
    <3>2. CASE b # a
      BY <3>1, <3>2, KnownOthers DEF Alone
    <3> QED BY <3>1, <3>2
  <2> QED BY <2>1, <2>2, <2>3, WriteKinds
<1>3. \A j \in Jobs : job'[j] # NoRecord => jobFile'[j] # NoRecord
  <2>1. CASE UNCHANGED <<job, jobFile>> \/ Crash
    BY <1>1, <2>1 DEF Known, Crash
  <2>2. ASSUME NEW a \in Threads, SetRecord(a), NEW j \in Jobs, job'[j] # NoRecord
        PROVE  jobFile'[j] # NoRecord
    <3>1. jobFile' = jobFile
      BY <1>1, <2>2, SetFacts
    <3>2. CASE write[a].to = "job" /\ thread[a].job = j
      <4>1. jobFile[j] # NoRecord
        BY <1>1, <2>2, <3>2 DEF Known
      <4> QED BY <3>1, <4>1
    <3>3. CASE ~(write[a].to = "job" /\ thread[a].job = j)
      <4>1. job'[j] = job[j]
        BY <1>1, <2>2, <3>3, SetFacts DEF StoreTypes
      <4> QED BY <1>1, <2>2, <3>1, <4>1 DEF Known
    <3> QED BY <3>2, <3>3
  <2>3. ASSUME NEW a \in Threads, NEW store \in {"job", "inbox"}, NEW i \in Jobs,
               NEW record \in JobRecords \cup InboxRecords, Appends(a, store, i, record)
        PROVE  \A j \in Jobs : job'[j] # NoRecord => jobFile'[j] # NoRecord
    <3>1. record # NoRecord /\ job' = job
      BY <1>1, <2>3 DEF Appends, Fits
    <3>2. \A j \in Jobs : jobFile'[j] = record \/ jobFile'[j] = jobFile[j]
      BY <1>1, <2>3 DEF Appends, StoreTypes
    <3> QED BY <1>1, <3>1, <3>2 DEF Known
  <2>4. \A a \in Threads : Passes(a) \/ ProcessMove(a) => UNCHANGED <<job, jobFile>>
    BY DEF Passes, ProcessMove, outbox
  <2>5. Unmoved => UNCHANGED <<job, jobFile>>
    BY DEF Unmoved, outbox
  <2> QED BY <2>1, <2>2, <2>3, <2>4, <2>5, WriteKinds
<1> QED BY <1>1, <1>2, <1>3, KnownRuns DEF KInv, Known, KnownAt

LEMMA InitKInv ==
    ASSUME Init
    PROVE  KInv
<1>1. TInv
  BY InitTInv
<1>2. /\ \A a \in Threads : thread[a].at = "rest" /\ write[a].to = "none"
      /\ \A j \in Jobs : job[j] = NoRecord
      /\ DOMAIN runs = {} /\ queue = {} /\ "shadow" \in Threads
  BY DEF Init, Idle, NoWrite, Threads
<1> QED BY <1>1, <1>2 DEF KInv, Known, Resting

-----------------------------------------------------------------------------
(* Memory and file *)

\* A record m in memory and f in the file: one thread at most has a record on its way
\* from the file to memory, and it is the one in the file; else they are the same.
Pending(a, store, j) == write[a].to = store /\ thread[a].job = j
Agree(store, m, f, j) ==
    /\ \A a, b \in Threads : Pending(a, store, j) /\ Pending(b, store, j) => a = b
    /\ \A a \in Threads : Pending(a, store, j) => write[a].record = f
    /\ (\A a \in Threads : ~Pending(a, store, j)) => m = f

Sync(j) == Agree("job", job[j], jobFile[j], j) /\ Agree("inbox", inbox[j], inboxFile[j], j)
SyncInv == KInv /\ \A j \in Jobs \ torn : Sync(j)

\* What one thread does to the record of a job in a store: nothing, it appends the only
\* record on its way, or it sets the record it had on its way.
LEMMA AgreeStep ==
    ASSUME NEW store, NEW j, NEW m, NEW f, NEW m2, NEW f2, Agree(store, m, f, j),
           NEW a \in Threads, Alone(a),
           \/ m2 = m /\ f2 = f /\ ~Pending(a, store, j) /\ ~Pending(a, store, j)'
           \/ /\ Pending(a, store, j)' /\ write'[a].record = f2
              /\ ~Pending(a, store, j) /\ ~HalfDone(a, store, j)
           \/ /\ Pending(a, store, j) /\ ~Pending(a, store, j)'
              /\ m2 = write[a].record /\ f2 = f
    PROVE  Agree(store, m2, f2, j)'
<1>1. \A b \in Threads \ {a} : thread'[b] = thread[b] /\ write'[b] = write[b]
  BY DEF Alone
<1>2. CASE m2 = m /\ f2 = f /\ ~Pending(a, store, j) /\ ~Pending(a, store, j)'
  BY <1>1, <1>2 DEF Agree, Pending
<1>3. CASE /\ Pending(a, store, j)' /\ write'[a].record = f2
           /\ ~Pending(a, store, j) /\ ~HalfDone(a, store, j)
  BY <1>1, <1>3 DEF Agree, Pending, HalfDone
<1>4. CASE /\ Pending(a, store, j) /\ ~Pending(a, store, j)'
           /\ m2 = write[a].record /\ f2 = f
  BY <1>1, <1>4 DEF Agree, Pending
<1> QED BY <1>2, <1>3, <1>4

LEMMA TornStep ==
    ASSUME KInv, [Next]_vars
    PROVE  torn \subseteq torn'
<1>1. TypeOK
  BY DEF KInv, TInv
<1>2. Unmoved \/ Crash => torn' = torn
  BY DEF Unmoved, Crash, history, outcome
<1>3. \A a \in Threads : Passes(a) \/ ProcessMove(a) \/ SetRecord(a) => torn' = torn
  BY <1>1, SetFacts DEF Passes, ProcessMove, history, outcome
<1>4. \A a \in Threads, store \in {"job", "inbox"}, j \in Jobs,
         record \in JobRecords \cup InboxRecords :
             Appends(a, store, j, record) => torn \subseteq torn'
  BY DEF Appends
<1> QED BY <1>2, <1>3, <1>4, WriteKinds

LEMMA StepSync ==
    ASSUME SyncInv, [Next]_vars
    PROVE  SyncInv'
<1>1. /\ KInv /\ KInv' /\ TInv /\ TypeOK /\ StoreTypes /\ ThreadTypes /\ torn \subseteq torn'
      /\ torn' \subseteq Jobs /\ NoWrite.to = "none"
  BY StepKInv, TornStep, HistoryStep DEF SyncInv, KInv, TInv, TypeOK, NoWrite
<1>2. ASSUME NEW j \in Jobs \ torn'
      PROVE  Sync(j)'
  <2>1. Sync(j)
    BY <1>1, <1>2 DEF SyncInv
  <2>2. CASE Unmoved
    BY <2>1, <2>2 DEF Unmoved, Sync, Agree, Pending, outbox
  <2>3. CASE Crash
    <3>1. job' = jobFile /\ inbox' = inboxFile /\ UNCHANGED <<jobFile, inboxFile>>
      BY <2>3 DEF Crash
    <3>2. \A a \in Threads : write'[a].to = "none"
      BY <2>3 DEF Crash, NoWrite
    <3> QED BY <3>1, <3>2 DEF Sync, Agree, Pending
  <2>4. ASSUME NEW a \in Threads, Passes(a) \/ ProcessMove(a)
        PROVE  Sync(j)'
    <3>1. Alone(a) /\ write[a] = NoWrite /\ write'[a] = NoWrite
      BY <1>1, <2>4, CallbackKind DEF Passes, ProcessMove
    <3>2. UNCHANGED <<job, jobFile, inbox, inboxFile>>
      BY <2>4 DEF Passes, ProcessMove, outbox, inboxes
    <3>3. \A store \in {"job", "inbox"} : ~Pending(a, store, j) /\ ~Pending(a, store, j)'
      BY <1>1, <3>1 DEF Pending
    <3> QED BY <2>1, <3>1, <3>2, <3>3, AgreeStep DEF Sync
  <2>5. ASSUME NEW a \in Threads, SetRecord(a)
        PROVE  Sync(j)'
    <3>1. Quiet(a) \/ SetsInbox(a)
      BY <1>1, <2>5, SetRecordKind
    <3>2. Alone(a) /\ write'[a] = NoWrite /\ UNCHANGED <<jobFile, inboxFile>>
      BY <1>1, <2>5, <3>1, SetFacts DEF Quiet, SetsInbox, ThreadTypes
    <3>3. \A store \in {"job", "inbox"} : ~Pending(a, store, j)'
      BY <1>1, <3>2 DEF Pending
    <3>4. Agree("job", job[j], jobFile[j], j)'
      <4>1. CASE Pending(a, "job", j)
        <5>1. job'[j] = write[a].record
          BY <1>1, <2>5, <4>1, SetFacts DEF Pending, StoreTypes
        <5> QED BY <2>1, <3>2, <3>3, <4>1, <5>1, AgreeStep DEF Sync
      <4>2. CASE ~Pending(a, "job", j)
        <5>1. job'[j] = job[j]
          BY <1>1, <2>5, <4>2, SetFacts DEF Pending, StoreTypes
        <5> QED BY <2>1, <3>2, <3>3, <4>2, <5>1, AgreeStep DEF Sync
      <4> QED BY <4>1, <4>2
    <3>5. Agree("inbox", inbox[j], inboxFile[j], j)'
      <4>1. CASE Pending(a, "inbox", j)
        <5>1. inbox'[j] = write[a].record
          BY <1>1, <2>5, <4>1, SetFacts DEF Pending, StoreTypes
        <5> QED BY <2>1, <3>2, <3>3, <4>1, <5>1, AgreeStep DEF Sync
      <4>2. CASE ~Pending(a, "inbox", j)
        <5>1. inbox'[j] = inbox[j]
          BY <1>1, <2>5, <4>2, SetFacts DEF Pending, StoreTypes
        <5> QED BY <2>1, <3>2, <3>3, <4>2, <5>1, AgreeStep DEF Sync
      <4> QED BY <4>1, <4>2
    <3> QED BY <3>4, <3>5 DEF Sync
  <2>6. ASSUME NEW a \in Threads, NEW store \in {"job", "inbox"}, NEW i \in Jobs,
               NEW record \in JobRecords \cup InboxRecords, Appends(a, store, i, record)
        PROVE  Sync(j)'
    <3>1. /\ Alone(a) /\ write[a].to = "none" /\ thread'[a].job = i /\ UNCHANGED <<job, inbox>>
          /\ write'[a].to = store /\ write'[a].record = record
          /\ HalfDone(a, store, i) => i \in torn'
      BY <1>1, <2>6 DEF Appends
    <3>2. \A s \in {"job", "inbox"} : ~Pending(a, s, j)
      BY <3>1 DEF Pending
    <3>3. \A s \in {"job", "inbox"} : Pending(a, s, j)' <=> (s = store /\ i = j)
      BY <3>1 DEF Pending
    <3>4. ~(i = j /\ HalfDone(a, store, j))
      BY <1>2, <3>1
    <3>5. Agree("job", job[j], jobFile[j], j)'
      <4>1. CASE store = "job" /\ i = j
        <5>1. jobFile'[j] = record
          BY <1>1, <2>6, <4>1 DEF Appends, StoreTypes
        <5> QED BY <2>1, <3>1, <3>2, <3>3, <3>4, <4>1, <5>1, AgreeStep DEF Sync
      <4>2. CASE ~(store = "job" /\ i = j)
        <5>1. jobFile'[j] = jobFile[j]
          BY <1>1, <2>6, <4>2 DEF Appends, StoreTypes
        <5> QED BY <2>1, <3>1, <3>2, <3>3, <4>2, <5>1, AgreeStep DEF Sync
      <4> QED BY <4>1, <4>2
    <3>6. Agree("inbox", inbox[j], inboxFile[j], j)'
      <4>1. CASE store = "inbox" /\ i = j
        <5>1. inboxFile'[j] = record
          BY <1>1, <2>6, <4>1 DEF Appends, StoreTypes
        <5> QED BY <2>1, <3>1, <3>2, <3>3, <3>4, <4>1, <5>1, AgreeStep DEF Sync
      <4>2. CASE ~(store = "inbox" /\ i = j)
        <5>1. inboxFile'[j] = inboxFile[j]
          BY <1>1, <2>6, <4>2 DEF Appends, StoreTypes
        <5> QED BY <2>1, <3>1, <3>2, <3>3, <4>2, <5>1, AgreeStep DEF Sync
      <4> QED BY <4>1, <4>2
    <3> QED BY <3>5, <3>6 DEF Sync
  <2> QED BY <1>1, <2>2, <2>3, <2>4, <2>5, <2>6, WriteKinds
<1> QED BY <1>1, <1>2 DEF SyncInv

LEMMA InitSync ==
    ASSUME Init
    PROVE  SyncInv
<1>1. KInv
  BY InitKInv
<1>2. /\ \A a \in Threads : write[a].to = "none"
      /\ job = jobFile /\ inbox = inboxFile
  BY DEF Init, NoWrite
<1> QED BY <1>1, <1>2 DEF SyncInv, Sync, Agree, Pending

\* outbox.py: the last line wins.  For any jobs and bounds: whenever nobody has a record
\* of a job on its way, memory holds what the files say of its status and its callback,
\* so a restart answers as before; unless two threads wrote records of it at once.
THEOREM RestartAnswersTheSame == Spec => []MemoryMatchesFile
<1>1. ASSUME SyncInv
      PROVE  MemoryMatchesFile
  <2>1. SUFFICES ASSUME NEW j \in Jobs \ torn,
                        \A a \in Threads : write[a] = NoWrite \/ thread[a].job # j
                 PROVE  job[j] = jobFile[j] /\ inbox[j] = inboxFile[j]
    BY DEF MemoryMatchesFile
  <2>2. \A a \in Threads, store \in {"job", "inbox"} : ~Pending(a, store, j)
    BY <2>1 DEF Pending, NoWrite
  <2> QED BY <1>1, <2>1, <2>2 DEF SyncInv, Sync, Agree
<1>2. Init => SyncInv
  BY InitSync
<1>3. SyncInv /\ [Next]_vars => SyncInv'
  BY StepSync
<1> QED BY <1>1, <1>2, <1>3, PTL DEF Spec

-----------------------------------------------------------------------------
(* What the stores say of a job, and its effects *)

\* A record of j with that status: in memory, in the file or on its way.
Says(m, f, store, status, j) ==
    \/ status \in {m[j].status, f[j].status}
    \/ \E a \in Threads : Pending(a, store, j) /\ write[a].record.status = status
SaysDone(j) ==
    \/ Says(inbox, inboxFile, "inbox", "PROCESSED", j)
    \/ Says(job, jobFile, "job", "COMPLETED", j)
SaysRejected(j) == Says(inbox, inboxFile, "inbox", "REJECTED", j)

Stood(j, places) == \E a \in Threads : thread[a].job = j /\ thread[a].at \in places

\* Whoever says, or is about to say, that a callback was processed or its job completed
\* comes after the effect; a callback that is or will be rejected has no effect, and
\* nobody is on the way to one.
Verdict(j) ==
    /\ SaysDone(j) \/ Stood(j, {"mark", "validate", "complete"}) => effects[j] # <<>>
    /\ SaysRejected(j) \/ Stood(j, {"reject"}) =>
           /\ effects[j] = <<>> /\ inboxFile[j] # NoRecord
           /\ \A a \in Threads : ~Works(a, j)

VerdictInv == OnceInv /\ KInv /\ \A j \in Jobs \ raced : Verdict(j)

\* A status is new only where a thread appends it.
LEMMA SaysStep ==
    ASSUME KInv, [Next]_vars, NEW j \in Jobs, NEW status, status # "none"
    PROVE  \/ \E a \in Threads, store \in {"job", "inbox"},
                 record \in JobRecords \cup InboxRecords :
                     Appends(a, store, j, record) /\ record.status = status
           \/ /\ Says(job, jobFile, "job", status, j)' => Says(job, jobFile, "job", status, j)
              /\ Says(inbox, inboxFile, "inbox", status, j)' =>
                     Says(inbox, inboxFile, "inbox", status, j)
<1>1. /\ TInv /\ TypeOK /\ StoreTypes /\ ThreadTypes /\ NoWrite.to = "none"
  BY DEF KInv, TInv, TypeOK, NoWrite
<1> DEFINE New == \E a \in Threads, store \in {"job", "inbox"},
                     record \in JobRecords \cup InboxRecords :
                         Appends(a, store, j, record) /\ record.status = status
           Old == /\ Says(job, jobFile, "job", status, j)' => Says(job, jobFile, "job", status, j)
                  /\ Says(inbox, inboxFile, "inbox", status, j)' =>
                         Says(inbox, inboxFile, "inbox", status, j)
<1>2. ASSUME Unmoved
      PROVE  Old
  BY <1>2 DEF Unmoved, outbox, Pending, Says
<1>3. ASSUME Crash
      PROVE  Old
  <2>1. /\ job' = jobFile /\ inbox' = inboxFile /\ UNCHANGED <<jobFile, inboxFile>>
        /\ \A a \in Threads : write'[a].to = "none"
    BY <1>3 DEF Crash, NoWrite
  <2> QED BY <2>1 DEF Says, Pending
<1>4. ASSUME NEW a \in Threads, Passes(a) \/ ProcessMove(a)
      PROVE  Old
  <2>1. Alone(a) /\ write[a] = NoWrite /\ write'[a] = NoWrite
    BY <1>1, <1>4, CallbackKind DEF Passes, ProcessMove
  <2>2. UNCHANGED <<job, jobFile, inbox, inboxFile>>
    BY <1>4 DEF Passes, ProcessMove, outbox, inboxes
  <2>3. \A b \in Threads, store \in {"job", "inbox"} :
            Pending(b, store, j)' => Pending(b, store, j) /\ write'[b] = write[b]
    BY <1>1, <2>1 DEF Alone, Pending
  <2> QED BY <2>2, <2>3 DEF Says
<1>5. ASSUME NEW a \in Threads, SetRecord(a)
      PROVE  Old
  <2>1. Quiet(a) \/ SetsInbox(a)
    BY <1>1, <1>5, SetRecordKind
  <2>2. /\ \A b \in Threads \ {a} : thread'[b] = thread[b] /\ write'[b] = write[b]
        /\ write'[a].to = "none" /\ UNCHANGED <<jobFile, inboxFile>>
    BY <1>1, <1>5, <2>1, SetFacts DEF Quiet, SetsInbox, ThreadTypes, Alone
  <2>3. \A b \in Threads, store \in {"job", "inbox"} :
            Pending(b, store, j)' => Pending(b, store, j) /\ write'[b] = write[b]
    BY <2>2 DEF Pending
  <2>4. job'[j] = job[j] \/ (Pending(a, "job", j) /\ job'[j] = write[a].record)
    BY <1>1, <1>5, SetFacts DEF Pending, StoreTypes
  <2>5. inbox'[j] = inbox[j] \/ (Pending(a, "inbox", j) /\ inbox'[j] = write[a].record)
    BY <1>1, <1>5, SetFacts DEF Pending, StoreTypes
  <2> QED BY <2>2, <2>3, <2>4, <2>5 DEF Says
<1>6. ASSUME NEW a \in Threads, NEW store \in {"job", "inbox"}, NEW i \in Jobs,
             NEW record \in JobRecords \cup InboxRecords, Appends(a, store, i, record)
      PROVE  Old \/ New
  <2>1. /\ \A b \in Threads \ {a} : thread'[b] = thread[b] /\ write'[b] = write[b]
        /\ UNCHANGED <<job, inbox>> /\ thread'[a].job = i
        /\ write'[a].to = store /\ write'[a].record = record
    BY <1>1, <1>6 DEF Appends, Alone
  <2>2. CASE i = j /\ record.status = status
    BY <1>6, <2>2
  <2>3. CASE ~(i = j /\ record.status = status)
    <3>1. /\ jobFile'[j] = jobFile[j] \/ jobFile'[j].status # status
          /\ inboxFile'[j] = inboxFile[j] \/ inboxFile'[j].status # status
      BY <1>1, <1>6, <2>3 DEF Appends, StoreTypes
    <3>2. \A b \in Threads, s \in {"job", "inbox"} :
              Pending(b, s, j)' /\ write'[b].record.status = status =>
                  Pending(b, s, j) /\ write'[b] = write[b]
      BY <2>1, <2>3 DEF Pending
    <3> QED BY <2>1, <3>1, <3>2 DEF Says
  <2> QED BY <2>2, <2>3
<1> HIDE DEF New, Old
<1>7. New \/ Old
  BY <1>2, <1>3, <1>4, <1>5, <1>6, WriteKinds
<1> QED BY <1>7 DEF New, Old

\* A place is new only where the step before it led.
LEMMA StoodStep ==
    ASSUME KInv, [Next]_vars, NEW j \in Jobs, NEW b \in Threads, thread'[b].job = j,
           thread'[b].at \in Fate
    PROVE  \/ thread[b] = thread'[b]
           \/ ProcessMove(b) /\ thread[b].job = j
           \/ \E store \in {"job", "inbox"}, record \in JobRecords \cup InboxRecords :
                  Appends(b, store, j, record)
<1>1. /\ TInv /\ TypeOK /\ ThreadTypes
  BY DEF KInv, TInv, TypeOK
<1>2. CASE Unmoved
  BY <1>2 DEF Unmoved
<1>3. CASE Crash
  BY <1>3 DEF Crash, Idle, Fate
<1>4. ASSUME NEW a \in Threads, Passes(a)
      PROVE  thread[b] = thread'[b]
  BY <1>4 DEF Passes, Alone
<1>5. ASSUME NEW a \in Threads, ProcessMove(a)
      PROVE  thread[b] = thread'[b] \/ (ProcessMove(b) /\ thread[b].job = j)
  BY <1>1, <1>5, CallbackKind DEF Alone, Fate
<1>6. ASSUME NEW a \in Threads, SetRecord(a)
      PROVE  thread[b] = thread'[b]
  BY <1>1, <1>6, SetFacts, RestsFacts DEF Fate
<1>7. ASSUME NEW a \in Threads, NEW store \in {"job", "inbox"}, NEW i \in Jobs,
             NEW record \in JobRecords \cup InboxRecords, Appends(a, store, i, record)
      PROVE  thread[b] = thread'[b] \/ (b = a /\ i = j)
  BY <1>7 DEF Appends, Alone
<1> QED BY <1>2, <1>3, <1>4, <1>5, <1>6, <1>7, WriteKinds

\* Effects are only added, by a thread on its way to one.
LEMMA EffectsOf ==
    ASSUME TInv, [Next]_vars, NEW j \in Jobs
    PROVE  \/ effects'[j] = effects[j]
           \/ /\ effects'[j] # <<>>
              /\ \E a \in Threads : Works(a, j) /\ ProcessMove(a) /\ Stands(a, "mark")
<1>1. TypeOK /\ effects \in [Jobs -> Seq(Runs)]
  BY DEF TInv, TypeOK, WorldTypes
<1>2. CASE effects' = effects
  BY <1>2
<1>3. ASSUME NEW a \in Threads, thread[a].at = "effect", thread[a].job \in Jobs,
             thread[a].run \in Runs,
             effects' = [effects EXCEPT ![thread[a].job] = Append(@, thread[a].run)],
             ProcessMove(a), Stands(a, "mark")
      PROVE  \/ effects'[j] = effects[j]
             \/ effects'[j] # <<>> /\ Works(a, j) /\ ProcessMove(a) /\ Stands(a, "mark")
  <2>1. CASE thread[a].job # j
    BY <1>1, <1>3, <2>1
  <2>2. CASE thread[a].job = j
    <3>1. effects'[j] = Append(effects[j], thread[a].run) /\ effects[j] \in Seq(Runs)
      BY <1>1, <1>3, <2>2
    <3>2. effects'[j] # <<>>
      BY <1>3, <3>1
    <3> QED BY <1>3, <2>2, <3>2 DEF Works, Working
  <2> QED BY <2>1, <2>2
<1> QED BY <1>2, <1>3, EffectsStep DEF EffectChanges

LEMMA FiledStays ==
    ASSUME KInv, [Next]_vars, NEW j \in Jobs, inboxFile[j] # NoRecord
    PROVE  inboxFile'[j] # NoRecord
<1>1. TypeOK /\ StoreTypes /\ NoRecord.status = "none"
  BY DEF KInv, TInv, TypeOK, NoRecord
<1>2. CASE inboxFile' = inboxFile
  BY <1>2
<1>3. ASSUME NEW a \in Threads, NEW store \in {"job", "inbox"}, NEW i \in Jobs,
             NEW record \in JobRecords \cup InboxRecords, Appends(a, store, i, record)
      PROVE  inboxFile'[j] # NoRecord
  <2>1. record # NoRecord
    BY <1>1, <1>3 DEF Appends, Fits
  <2> QED BY <1>1, <1>3, <2>1 DEF Appends, StoreTypes
<1>4. \A a \in Threads : Passes(a) \/ ProcessMove(a) \/ SetRecord(a) => inboxFile' = inboxFile
  BY <1>1, SetFacts DEF Passes, ProcessMove, inboxes
<1>5. Unmoved \/ Crash => inboxFile' = inboxFile
  BY DEF Unmoved, Crash
<1> QED BY <1>2, <1>3, <1>4, <1>5, WriteKinds

\* Work on a job begins with the first record of its callback.
LEMMA WorksStep ==
    ASSUME KInv, [Next]_vars, NEW j \in Jobs \ raced', Once(j), inboxFile[j] # NoRecord,
           NEW b \in Threads, Works(b, j)'
    PROVE  Works(b, j)
<1>1. thread'[b].job = j /\ thread'[b].at \in Working /\ thread'[b].at \in Fate
  BY DEF Works, Working, Fate
<1>2. CASE thread[b] = thread'[b]
  BY <1>1, <1>2 DEF Works
<1>3. CASE ProcessMove(b) /\ thread[b].job = j
  BY <1>3 DEF ProcessMove, Works, Working
<1>4. ASSUME NEW store \in {"job", "inbox"}, NEW record \in JobRecords \cup InboxRecords,
             Appends(b, store, j, record)
      PROVE  FALSE
  <2>1. thread'[b].at = "process"
    BY <1>1, <1>4 DEF Appends, Working
  <2>2. inbox[j] = NoRecord /\ write[b].to = "none" /\ ~HalfDone(b, "inbox", j)
    BY <1>4, <2>1 DEF Appends, NoWrite
  <2> QED BY <2>2 DEF Once, HalfDone
<1> QED BY <1>1, <1>2, <1>3, <1>4, StoodStep

LEMMA DoneVerdict ==
    ASSUME KInv, [Next]_vars, NEW j \in Jobs, Verdict(j),
           SaysDone(j)' \/ Stood(j, {"mark", "validate", "complete"})'
    PROVE  effects'[j] # <<>>
<1>1. effects[j] # <<>> => effects'[j] # <<>>
  BY EffectsOf DEF KInv
<1>2. ASSUME NEW a \in Threads, thread[a].job = j, thread[a].at \in {"mark", "validate", "complete"}
      PROVE  effects'[j] # <<>>
  BY <1>1, <1>2 DEF Verdict, Stood
<1>3. ASSUME NEW a \in Threads, NEW store \in {"job", "inbox"},
             NEW record \in JobRecords \cup InboxRecords, Appends(a, store, j, record),
             record.status \in {"PROCESSED", "COMPLETED"}
      PROVE  effects'[j] # <<>>
  BY <1>2, <1>3 DEF Appends, Fits
<1>4. CASE Says(inbox, inboxFile, "inbox", "PROCESSED", j)'
  <2>1. CASE Says(inbox, inboxFile, "inbox", "PROCESSED", j)
    BY <1>1, <2>1 DEF Verdict, SaysDone
  <2> QED BY <1>3, <1>4, <2>1, SaysStep
<1>5. CASE Says(job, jobFile, "job", "COMPLETED", j)'
  <2>1. CASE Says(job, jobFile, "job", "COMPLETED", j)
    BY <1>1, <2>1 DEF Verdict, SaysDone
  <2> QED BY <1>3, <1>5, <2>1, SaysStep
<1>6. ASSUME NEW b \in Threads, thread'[b].job = j,
             thread'[b].at \in {"mark", "validate", "complete"}
      PROVE  effects'[j] # <<>>
  <2>1. thread'[b].at \in Fate
    BY <1>6 DEF Fate
  <2>2. CASE thread[b] = thread'[b]
    BY <1>2, <1>6, <2>2
  <2>3. CASE ProcessMove(b) /\ thread[b].job = j
    <3>1. TypeOK /\ thread[b].job \in Jobs /\ thread \in [Threads -> ThreadRecords]
      BY <2>3 DEF KInv, TInv, TypeOK, ThreadTypes, ThreadRecords
    <3>2. \A place \in {"tidy", "effect", "reject"} : Stands(b, place) => thread'[b].at = place
      BY <3>1, StandsFacts DEF Places
    <3>3. thread' # [thread EXCEPT ![b] = [at |-> "read", job |-> thread[b].job,
                                           run |-> inbox[thread[b].job].run]]
      BY <1>6, <3>1
    <3>4. effects' = [effects EXCEPT ![thread[b].job] = Append(@, thread[b].run)]
      BY <1>6, <2>3, <3>2, <3>3 DEF ProcessMove
    <3>5. effects \in [Jobs -> Seq(Runs)]
      BY DEF KInv, TInv, TypeOK, WorldTypes
    <3>6. effects'[j] = Append(effects[j], thread[b].run) /\ effects[j] \in Seq(Runs)
      BY <2>3, <3>4, <3>5
    <3>7. Len(effects'[j]) = Len(effects[j]) + 1
      BY <3>6
    <3> QED BY <3>6, <3>7
  <2>4. ASSUME NEW store \in {"job", "inbox"}, NEW record \in JobRecords \cup InboxRecords,
               Appends(b, store, j, record)
        PROVE  effects'[j] # <<>>
    BY <1>2, <1>6, <2>4 DEF Appends, Fits
  <2> QED BY <1>6, <2>1, <2>2, <2>3, <2>4, StoodStep
<1> QED BY <1>4, <1>5, <1>6 DEF SaysDone, Stood

LEMMA RejectedVerdict ==
    ASSUME KInv, [Next]_vars, NEW j \in Jobs \ raced', Once(j), Verdict(j),
           SaysRejected(j)' \/ Stood(j, {"reject"})'
    PROVE  /\ effects'[j] = <<>> /\ inboxFile'[j] # NoRecord
           /\ \A a \in Threads : ~Works(a, j)'
<1>1. ASSUME SaysRejected(j) \/ Stood(j, {"reject"})
      PROVE  /\ effects'[j] = <<>> /\ inboxFile'[j] # NoRecord
             /\ \A a \in Threads : ~Works(a, j)'
  <2>1. effects[j] = <<>> /\ inboxFile[j] # NoRecord /\ \A a \in Threads : ~Works(a, j)
    BY <1>1 DEF Verdict
  <2>2. effects'[j] = <<>>
    BY <2>1, EffectsOf DEF KInv
  <2> QED BY <2>1, <2>2, FiledStays, WorksStep
<1>2. CASE SaysRejected(j)'
  <2>1. ASSUME NEW a \in Threads, NEW store \in {"job", "inbox"},
               NEW record \in JobRecords \cup InboxRecords, Appends(a, store, j, record),
               record.status = "REJECTED"
        PROVE  Stood(j, {"reject"})
    BY <2>1 DEF Appends, Fits, Stood
  <2> QED BY <1>1, <1>2, <2>1, SaysStep DEF SaysRejected
<1>3. ASSUME NEW b \in Threads, thread'[b].job = j, thread'[b].at = "reject"
      PROVE  /\ effects'[j] = <<>> /\ inboxFile'[j] # NoRecord
             /\ \A a \in Threads : ~Works(a, j)'
  <2>1. thread'[b].at \in Fate
    BY <1>3 DEF Fate
  <2>2. CASE thread[b] = thread'[b]
    BY <1>1, <1>3, <2>2 DEF Stood
  <2>3. CASE ProcessMove(b) /\ thread[b].job = j
    <3>1. Works(b, j) /\ inboxFile[j] # NoRecord
      BY <2>3, KnownAtWork DEF KInv, ProcessMove, Works, Working
    <3>2. effects[j] = <<>> /\ OneWorks(j)
      BY <3>1 DEF Once
    <3>3. \A a \in Threads : ~Works(a, j)'
      <4>1. ~Works(b, j)'
        BY <1>3 DEF Works, Working
      <4> QED BY <3>1, <3>2, <4>1, WorksStep DEF OneWorks
    <3>4. effects'[j] = <<>>
      <4>1. ASSUME NEW a \in Threads, Works(a, j), Stands(a, "mark")
            PROVE  FALSE
        <5>1. a = b
          BY <3>1, <3>2, <4>1 DEF OneWorks
        <5>2. thread'[b].at = "mark"
          BY <2>3, <4>1, <5>1, StandsFacts DEF KInv, TInv, Places
        <5> QED BY <1>3, <5>2
      <4> QED BY <3>2, <4>1, EffectsOf DEF KInv
    <3> QED BY <3>1, <3>3, <3>4, FiledStays
  <2>4. ASSUME NEW store \in {"job", "inbox"}, NEW record \in JobRecords \cup InboxRecords,
               Appends(b, store, j, record)
        PROVE  FALSE
    BY <1>3, <2>4 DEF Appends
  <2> QED BY <1>3, <2>1, <2>2, <2>3, <2>4, StoodStep
<1> QED BY <1>2, <1>3 DEF Stood

LEMMA StepVerdict ==
    ASSUME VerdictInv, [Next]_vars
    PROVE  VerdictInv'
<1>1. OnceInv' /\ KInv' /\ TInv /\ raced \subseteq raced' /\ raced' \subseteq Jobs
  BY StepOnce, StepKInv, HistoryStep DEF VerdictInv, KInv
<1>2. ASSUME NEW j \in Jobs \ raced'
      PROVE  Verdict(j)'
  <2>1. KInv /\ Once(j) /\ Verdict(j)
    BY <1>1, <1>2 DEF VerdictInv, OnceInv
  <2> QED BY <2>1, DoneVerdict, RejectedVerdict DEF Verdict
<1> QED BY <1>1, <1>2 DEF VerdictInv

LEMMA InitVerdict ==
    ASSUME Init
    PROVE  VerdictInv
<1>1. OnceInv /\ KInv
  BY InitOnce, InitKInv
<1>2. /\ \A a \in Threads : thread[a].at = "rest" /\ write[a].to = "none"
      /\ \A j \in Jobs : /\ job[j].status = "none" /\ jobFile[j].status = "none"
                         /\ inbox[j].status = "none" /\ inboxFile[j].status = "none"
  BY DEF Init, Idle, NoWrite, NoRecord
<1> QED BY <1>1, <1>2 DEF VerdictInv, Verdict, SaysDone, SaysRejected, Says, Stood, Pending

\* callbacks.py, fail closed.  For any jobs and bounds, whoever crashes, fails or races
\* with whom: what the stores say of a job agrees with its effects, a processed callback
\* and a completed job had the whole effect, a rejected callback did not, though a part
\* of it may be stored; unless two threads were receiving its first callback at once.
THEOREM FailsClosed == Spec => []VerdictMatchesEffect
<1>1. VerdictInv => VerdictMatchesEffect
  BY DEF VerdictInv, Verdict, SaysDone, SaysRejected, Says, VerdictMatchesEffect
<1>2. Init => VerdictInv
  BY InitVerdict
<1>3. VerdictInv /\ [Next]_vars => VerdictInv'
  BY StepVerdict
<1> QED BY <1>1, <1>2, <1>3, PTL DEF Spec

=============================================================================
