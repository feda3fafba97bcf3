---------------------------- MODULE JobLifecycle ----------------------------
(***************************************************************************)
(* Jobs of the Quant Foundry gateway in RunPod mode, from create_job to    *)
(* the effect of the signed callback.                                      *)
(*                                                                         *)
(* Four threads of one process call the gateway without a lock: the event  *)
(* loop (the routes that create a job and receive a callback, one after    *)
(* the other), the poller of RunPod results, the sweeper of stale workers, *)
(* and the shadow dispatcher, which creates jobs under fresh names.  The   *)
(* outbox and the inbox append a record to a file and then set it in       *)
(* memory: the append, the assignment, every check before them and every   *)
(* remote call are steps.  The copy of the record in memory is read as     *)
(* part of the append: what a thread takes over from it is the run, which  *)
(* is fixed in a callback and matters of a job only while it is RUNNING,   *)
(* where the thread writes the run it was given itself.                    *)
(*                                                                         *)
(* A run is one execution RunPod accepted, and stands for the bytes of its *)
(* result, signed by the worker when it was ready; a signature older than  *)
(* five minutes is refused.  Left out: forged signatures, budgets,         *)
(* metrics, the cost tracker, the dead-letter store and the database       *)
(* mirrors (nothing here reads them), what the effect of a callback is (a  *)
(* registered dossier or a batch of shadow predictions, the paper ones     *)
(* published), and a line of a file that a crash cut short (_reload raises *)
(* on it, and the gateway does not start until the file is repaired).      *)
(***************************************************************************)
EXTENDS Integers, Sequences, FiniteSets

CONSTANTS
    Jobs,
    MaxCreates,     \* bound: create_job calls, each at most one run
    MaxCallbacks,   \* bound: callbacks workers deliver to the API
    MaxFailures     \* bound: crashes, lost replies, calls and writes that raise,
                    \* results not collected in time

ASSUME JobLifecycleAssumption ==
    MaxCreates \in Nat /\ MaxCallbacks \in Nat /\ MaxFailures \in Nat

VARIABLES
    job,        \* outbox in memory: status and run of each job
    jobFile,    \* outbox.jsonl: the last line of each job
    inbox,      \* inbox in memory: status of each job's callback, and its result
    inboxFile,  \* inbox.jsonl: the last line of each job
    payload,    \* the payload file of each job
    fresh,      \* jobs named by the shadow dispatcher
    thread,     \* where each thread is, with which job and which run
    write,      \* the record it has appended and not yet set in memory
    queue,      \* the jobs and runs the poller still has to ask about
    runs,       \* the runs, oldest first: their job and how they stand
    silent,     \* jobs whose status file shows a worker with a stale heartbeat
    effects,    \* history: the results that took effect in full for each job
    parts,      \* history: the results of which a part was stored and no more
    raced,      \* history: jobs with callbacks received by two threads at once
    torn,       \* history: jobs of which two threads wrote records at once
    creates, callbacks, failures

outbox  == <<job, jobFile>>
inboxes == <<inbox, inboxFile, payload>>
threads == <<thread, write, queue>>
outcome == <<effects, parts>>
history == <<outcome, raced, torn>>
bounds  == <<creates, callbacks, failures>>
vars == <<outbox, inboxes, fresh, threads, runs, silent, history, bounds>>

Threads == {"loop", "poller", "sweeper", "shadow"}
Runs == 1 .. MaxCreates
NoRun == 0
NoJob == "none"
Terminal == {"COMPLETED", "FAILED"}

NoRecord == [status |-> "none", run |-> NoRun]
Idle     == [at |-> "rest", job |-> NoJob, run |-> NoRun]
NoWrite  == [to |-> "none", record |-> NoRecord]

Init ==
    /\ job = [j \in Jobs |-> NoRecord] /\ jobFile = job
    /\ inbox = [j \in Jobs |-> NoRecord] /\ inboxFile = inbox
    /\ payload = [j \in Jobs |-> NoRun]
    /\ fresh = {}
    /\ thread = [a \in Threads |-> Idle]
    /\ write = [a \in Threads |-> NoWrite]
    /\ queue = {}
    /\ runs = <<>> /\ silent = {}
    /\ effects = [j \in Jobs |-> <<>>] /\ parts = [j \in Jobs |-> {}]
    /\ raced = {} /\ torn = {}
    /\ creates = 0 /\ callbacks = 0 /\ failures = 0

\* Something fails: the process, a remote call, a write.
Failure == failures < MaxFailures /\ failures' = failures + 1

\* A thread between two steps of its call.
At(a, place) == thread[a].at = place /\ write[a] = NoWrite
Goes(a, place) == [thread EXCEPT ![a].at = place]

\* The call is over; the poller goes on with its queue.
Done(a) == [thread EXCEPT ![a] = IF a = "poller" /\ queue # {}
                                 THEN [Idle EXCEPT !.at = "ask"] ELSE Idle]

-----------------------------------------------------------------------------
(* The two files *)

\* Another thread has a record of j appended and not set.
HalfDone(a, store, j) ==
    \E b \in Threads \ {a} : write[b].to = store /\ thread[b].job = j

\* Faulty variant for mutation runs: an update that never reaches the file.
LogsNothing(a, store, record) ==
    /\ write' = [write EXCEPT ![a] = [to |-> store, record |-> record]]
    /\ UNCHANGED <<jobFile, inboxFile, torn>>

\* update_status and mark_processed: a changed copy of the record in memory goes
\* to the file ...
Logs(a, store, record) ==
    LET j == thread[a].job
    IN  /\ write' = [write EXCEPT ![a] = [to |-> store, record |-> record]]
        /\ torn' = IF HalfDone(a, store, j) THEN torn \cup {j} ELSE torn
        /\ IF store = "job" THEN /\ jobFile' = [jobFile EXCEPT ![j] = record]
                                 /\ UNCHANGED inboxFile
                            ELSE /\ inboxFile' = [inboxFile EXCEPT ![j] = record]
                                 /\ UNCHANGED jobFile

\* ... and then into memory.
SetRecord(a) ==
    LET j == thread[a].job
    IN  /\ write[a] # NoWrite
        /\ write' = [write EXCEPT ![a] = NoWrite]
        /\ IF write[a].to = "job" THEN /\ job' = [job EXCEPT ![j] = write[a].record]
                                       /\ UNCHANGED inbox
                                  ELSE /\ inbox' = [inbox EXCEPT ![j] = write[a].record]
                                       /\ UNCHANGED job
        /\ thread' = IF thread[a].at = "end" THEN Done(a) ELSE thread
        /\ UNCHANGED <<jobFile, inboxFile, payload, fresh, queue, runs, silent, history,
                       bounds>>

\* A status update of the outbox on the way from one place to the next.
Updates(a, from, status, run, to) ==
    /\ At(a, from)
    /\ Logs(a, "job", [status |-> status,
                       run |-> IF run = NoRun THEN job[thread[a].job].run ELSE run])
    /\ thread' = Goes(a, to)
    /\ UNCHANGED <<job, inbox, payload, fresh, queue, runs, silent, outcome, raced,
                   bounds>>

-----------------------------------------------------------------------------
(* create_job and the dispatcher *)

\* JobOutbox.enqueue keeps the record of a job it knows.
CreateJob(a, j) ==
    /\ thread[a] = Idle
    /\ creates < MaxCreates
    /\ creates' = creates + 1
    /\ \/ a = "loop" /\ j \notin fresh /\ UNCHANGED fresh
       \/ a = "shadow" /\ jobFile[j] = NoRecord /\ thread["loop"].job # j
            /\ fresh' = fresh \cup {j}
    /\ thread' = [thread EXCEPT ![a] = [at |-> "claim", job |-> j, run |-> NoRun]]
    /\ IF job[j] # NoRecord
       THEN UNCHANGED <<jobFile, write>>
       ELSE /\ jobFile' = [jobFile EXCEPT ![j] = [status |-> "QUEUED", run |-> NoRun]]
            /\ write' = [write EXCEPT ![a] = [to |-> "job", record |-> jobFile'[j]]]
    /\ UNCHANGED <<job, inboxes, queue, runs, silent, history, callbacks, failures>>

\* RunPodDispatcher.dispatch, up to the remote call.
Claim(a)    == Updates(a, "claim", "DISPATCHING", NoRun, "announce")
Announce(a) == Updates(a, "announce", "DISPATCHED", NoRun, "call")

\* The call: RunPod starts a run, or refuses for now or for good.  A started run
\* whose reply is lost is taken for a refusal for now, one whose reply cannot be read
\* or names no run for a refusal for good.
Call(a) ==
    /\ At(a, "call")
    /\ LET j == thread[a].job IN
       \/ /\ runs' = Append(runs, [job |-> j, state |-> "running", late |-> FALSE])
          /\ thread' = [thread EXCEPT ![a] = [at |-> "running", job |-> j,
                                              run |-> Len(runs) + 1]]
          /\ UNCHANGED failures
       \/ /\ Failure
          /\ \E place \in {"requeue", "fail"} : thread' = Goes(a, place)
          /\ runs' \in {runs, Append(runs, [job |-> j, state |-> "running", late |-> FALSE])}
    /\ UNCHANGED <<outbox, inboxes, fresh, write, queue, silent, history, creates,
                   callbacks>>

MarkRunning(a) == Updates(a, "running", "RUNNING", thread[a].run, "end")
Requeue(a)     == Updates(a, "requeue", "QUEUED", NoRun, "end")

\* Also the poller after a failed run, and the sweeper.
Fail(a) == Updates(a, "fail", "FAILED", NoRun, "end")

Dispatch(a) == Claim(a) \/ Announce(a) \/ Call(a) \/ MarkRunning(a) \/ Requeue(a) \/ Fail(a)

-----------------------------------------------------------------------------
(* receive_callback and the processor *)

Finished(r) == runs[r].state \in {"good", "bad"}

\* receive_callback of a result in time: first it overwrites the payload file.
TakesUp(a, r) ==
    /\ ~runs[r].late
    /\ payload' = [payload EXCEPT ![runs[r].job] = r]
    /\ thread' = [thread EXCEPT ![a] = [at |-> "receive", job |-> runs[r].job, run |-> r]]

\* A worker posts its result to the API: once or again, while the signature holds.
\* A post that comes later is turned away and leaves everything as it was.
Deliver(r) ==
    /\ thread["loop"] = Idle /\ Finished(r)
    /\ callbacks < MaxCallbacks
    /\ callbacks' = callbacks + 1
    /\ TakesUp("loop", r)
    /\ UNCHANGED <<outbox, inbox, inboxFile, fresh, write, queue, runs, silent, history,
                   creates, failures>>

\* Faulty variant for mutation runs: a duplicate is processed like the first.
ReceiveAgain(a) ==
    LET j == thread[a].job
        known == inbox[j]
    IN  /\ At(a, "receive") /\ (known = NoRecord \/ known.run = thread[a].run)
        /\ Logs(a, "inbox", [status |-> "RECEIVED", run |-> thread[a].run])
        /\ thread' = Goes(a, "process")
        /\ UNCHANGED <<job, inbox, payload, fresh, queue, runs, silent, outcome, raced,
                       bounds>>

\* CallbackInbox.receive: the first result is recorded, the same result again is
\* a duplicate, another result is refused.
Receive(a) ==
    LET j == thread[a].job
        known == inbox[j]
    IN  /\ At(a, "receive")
        /\ IF known # NoRecord /\ known.run # thread[a].run
           THEN /\ thread' = Done(a)
                /\ UNCHANGED <<jobFile, inboxFile, write, raced, torn>>
           ELSE /\ Logs(a, "inbox", [status |-> IF known = NoRecord THEN "RECEIVED"
                                                                    ELSE "DUPLICATE",
                                     run |-> thread[a].run])
                /\ thread' = Goes(a, IF known = NoRecord THEN "process" ELSE "end")
                /\ raced' = IF known = NoRecord /\ HalfDone(a, "inbox", j)
                            THEN raced \cup {j} ELSE raced
        /\ UNCHANGED <<job, inbox, payload, fresh, queue, runs, silent, outcome, bounds>>

\* CallbackProcessor.process: nothing is done twice, ...
Process(a) ==
    LET j == thread[a].job
    IN  /\ At(a, "process")
        /\ thread' = IF job[j].status \in Terminal \/ inbox[j].status = "PROCESSED"
                     THEN Goes(a, "tidy")
                     ELSE [thread EXCEPT ![a] = [at |-> "read", job |-> j,
                                                 run |-> inbox[j].run]]
        /\ UNCHANGED <<outbox, inboxes, fresh, write, queue, runs, silent, history, bounds>>

\* ... the payload file must hold what the inbox recorded, ...
ReadPayload(a) ==
    /\ At(a, "read")
    /\ thread' = Goes(a, IF payload[thread[a].job] = thread[a].run THEN "effect"
                                                                    ELSE "reject")
    /\ UNCHANGED <<outbox, inboxes, fresh, write, queue, runs, silent, history, bounds>>

\* Faulty variant for mutation runs: a result that does not fit is passed over.
EffectSwallowed(a) ==
    LET r == thread[a].run
    IN  /\ At(a, "effect")
        /\ effects' = IF runs[r].state = "good"
                      THEN [effects EXCEPT ![thread[a].job] = Append(@, r)] ELSE effects
        /\ thread' = Goes(a, "mark")
        /\ UNCHANGED <<outbox, inboxes, fresh, write, queue, runs, silent, parts, raced,
                       torn, bounds>>

\* ... a batch of predictions is stored one by one, ...
StorePart(a) ==
    /\ At(a, "effect") /\ thread[a].run \notin parts[thread[a].job]
    /\ parts' = [parts EXCEPT ![thread[a].job] = @ \cup {thread[a].run}]
    /\ UNCHANGED <<outbox, inboxes, fresh, threads, runs, silent, effects, raced, torn, bounds>>

\* ... and a result that fits its schema takes effect in full; one that does not is
\* rejected, with what was stored of it.
Effect(a) ==
    LET j == thread[a].job
        r == thread[a].run
    IN  /\ At(a, "effect")
        /\ IF runs[r].state = "good"
           THEN /\ effects' = [effects EXCEPT ![j] = Append(@, r)]
                /\ parts' = [parts EXCEPT ![j] = @ \ {r}]
                /\ thread' = Goes(a, "mark")
           ELSE thread' = Goes(a, "reject") /\ UNCHANGED outcome
        /\ UNCHANGED <<outbox, inboxes, fresh, write, queue, runs, silent, raced, torn,
                       bounds>>

\* CallbackInbox.mark_processed.
Marks(a, from, status, to) ==
    /\ At(a, from)
    /\ Logs(a, "inbox", [status |-> status, run |-> inbox[thread[a].job].run])
    /\ thread' = Goes(a, to)
    /\ UNCHANGED <<job, inbox, payload, fresh, queue, runs, silent, outcome, raced,
                   bounds>>

\* Faulty variant for mutation runs: the verdict goes to the outbox.
MarkJob(a) == Updates(a, "mark", "PROCESSED", NoRun, "validate")

Mark(a)     == Marks(a, "mark", "PROCESSED", "validate")
Validate(a) == Updates(a, "validate", "VALIDATING", NoRun, "complete")
Complete(a) == Updates(a, "complete", "COMPLETED", NoRun, "tidy")
Reject(a)   == Marks(a, "reject", "REJECTED", "failjob")

\* _fail_job.
FailJob(a) ==
    /\ At(a, "failjob")
    /\ IF job[thread[a].job].status = "FAILED"
       THEN /\ thread' = Goes(a, "tidy")
            /\ UNCHANGED <<outbox, inboxes, fresh, write, queue, runs, silent, history,
                           bounds>>
       ELSE Updates(a, "failjob", "FAILED", NoRun, "tidy")

\* receive_callback ends with removing the worker's status file.
Tidy(a) ==
    /\ At(a, "tidy")
    /\ silent' = silent \ {thread[a].job}
    /\ thread' = Done(a)
    /\ UNCHANGED <<outbox, inboxes, fresh, write, queue, runs, history, bounds>>

Callback(a) ==
    \/ Receive(a) \/ Process(a) \/ ReadPayload(a) \/ StorePart(a) \/ Effect(a) \/ Mark(a)
    \/ Validate(a) \/ Complete(a) \/ Reject(a) \/ FailJob(a) \/ Tidy(a)

-----------------------------------------------------------------------------
(* The background threads *)

\* poll_runpod_results: the running jobs, as they are now, ...
Poll ==
    /\ thread["poller"] = Idle
    /\ queue' = {<<j, job[j].run>> : j \in {j \in Jobs : job[j].status = "RUNNING"
                                                           /\ job[j].run # NoRun}}
    /\ queue' # {}
    /\ thread' = Goes("poller", "ask")
    /\ UNCHANGED <<outbox, inboxes, fresh, write, runs, silent, history, bounds>>

\* Faulty variant for mutation runs: a failed run is asked about for ever.
AskSucceeded(j, r) ==
    LET rest == queue \ {<<j, r>>}
    IN  /\ At("poller", "ask") /\ <<j, r>> \in queue
        /\ queue' = rest
        /\ IF Finished(r) /\ ~runs[r].late
           THEN TakesUp("poller", r)
           ELSE /\ thread' = [thread EXCEPT !["poller"] = IF rest = {} THEN Idle ELSE @]
                /\ UNCHANGED payload
        /\ UNCHANGED <<outbox, inbox, inboxFile, fresh, write, runs, silent, history,
                       bounds>>

\* ... and for each the status of its run: unknown or unfinished, failed (or
\* without the fields of a callback), or finished, in time or not.
Ask(j, r) ==
    LET rest == queue \ {<<j, r>>}
    IN  /\ At("poller", "ask") /\ <<j, r>> \in queue
        /\ queue' = rest
        /\ \/ /\ \/ runs[r].state = "running" /\ UNCHANGED failures
                 \/ Finished(r) /\ runs[r].late /\ UNCHANGED failures
                 \/ Failure
              /\ thread' = [thread EXCEPT !["poller"] = IF rest = {} THEN Idle ELSE @]
              /\ UNCHANGED payload
           \/ /\ runs[r].state = "failed"
              /\ thread' = [thread EXCEPT !["poller"] = [at |-> "fail", job |-> j, run |-> r]]
              /\ UNCHANGED <<payload, failures>>
           \/ Finished(r) /\ TakesUp("poller", r) /\ UNCHANGED failures
        /\ UNCHANGED <<outbox, inbox, inboxFile, fresh, write, runs, silent, history,
                       creates, callbacks>>

\* sweep_stale_workers: a running job with a silent worker is failed.
Sweep(j) ==
    /\ thread["sweeper"] = Idle
    /\ j \in silent /\ job[j].status = "RUNNING"
    /\ thread' = [thread EXCEPT !["sweeper"] = [at |-> "fail", job |-> j, run |-> NoRun]]
    /\ UNCHANGED <<outbox, inboxes, fresh, write, queue, runs, silent, history, bounds>>

-----------------------------------------------------------------------------
(* RunPod, the workers, and faults *)

RunOf(j) == {r \in DOMAIN runs : runs[r].job = j}

\* A run ends; one that ends by itself says so in the status file.
Finish(r, state) ==
    /\ runs[r].state = "running"
    /\ runs' = [runs EXCEPT ![r].state = state]
    /\ silent' = IF state = "failed" THEN silent ELSE silent \ {runs[r].job}
    /\ UNCHANGED <<outbox, inboxes, fresh, threads, history, bounds>>

\* Nobody collects a finished result for five minutes: its signature is too old when the
\* poller gets to it.  Only its run, of a job with no result in the inbox, need grow old:
\* another late result is refused like one that never comes.
Expire(r) ==
    /\ At("poller", "ask") /\ <<runs[r].job, r>> \in queue
    /\ Finished(r) /\ ~runs[r].late
    /\ inbox[runs[r].job] = NoRecord
    /\ job[runs[r].job] = [status |-> "RUNNING", run |-> r]
    /\ Failure
    /\ runs' = [runs EXCEPT ![r].late = TRUE]
    /\ UNCHANGED <<outbox, inboxes, fresh, threads, silent, history, creates, callbacks>>

\* The heartbeat of a worker grows stale, or is seen again: of use to the sweeper only
\* while the job is running.
Falter(j) ==
    /\ job[j].status = "RUNNING"
    /\ \E r \in RunOf(j) : runs[r].state = "running" \/ runs[r].state = "failed"
    /\ silent' = IF j \in silent THEN silent \ {j} ELSE silent \cup {j}
    /\ UNCHANGED <<outbox, inboxes, fresh, threads, runs, history, bounds>>

\* A call raises: a write to a file, the remote call of the poller, a sink.
Abort(a) ==
    /\ thread[a] # Idle /\ write[a] = NoWrite
    /\ Failure
    /\ thread' = [thread EXCEPT ![a] = Idle]
    /\ queue' = IF a = "poller" THEN {} ELSE queue
    /\ UNCHANGED <<outbox, inboxes, fresh, write, runs, silent, history, creates,
                   callbacks>>

\* The process stops and starts again: both stores are read back from their files.
Crash ==
    /\ Failure
    /\ thread' = [a \in Threads |-> Idle]
    /\ write' = [a \in Threads |-> NoWrite]
    /\ queue' = {}
    /\ job' = jobFile /\ inbox' = inboxFile
    /\ UNCHANGED <<jobFile, inboxFile, payload, fresh, runs, silent, history, creates,
                   callbacks>>

ThreadStep(a) ==
    \/ SetRecord(a)
    \/ Dispatch(a) \/ Callback(a)
    \/ a = "poller" /\ (Poll \/ \E q \in queue : Ask(q[1], q[2]))
    \/ a = "sweeper" /\ \E j \in Jobs : Sweep(j)

\* What ThreadStep("poller") comes to: the poller creates no jobs and sweeps none.
PollerStep ==
    \/ SetRecord("poller") \/ Fail("poller") \/ Callback("poller")
    \/ Poll \/ \E q \in queue : Ask(q[1], q[2])

RunEnds(r) == \E state \in {"good", "bad", "failed"} : Finish(r, state)

Next ==
    \/ \E a \in {"loop", "shadow"}, j \in Jobs : CreateJob(a, j)
    \/ \E r \in DOMAIN runs : Deliver(r) \/ RunEnds(r) \/ Expire(r)
    \/ \E a \in Threads : ThreadStep(a) \/ Abort(a)
    \/ \E j \in Jobs : Falter(j)
    \/ Crash

Spec == Init /\ [][Next]_vars

\* The poller's thread goes on and comes round again, and RunPod ends every run
\* (build_job_policy sets a time limit).
FairSpec ==
    /\ Spec
    /\ WF_vars(PollerStep)
    /\ WF_vars(\E r \in DOMAIN runs : RunEnds(r))

-----------------------------------------------------------------------------
(* Properties *)

JobRecords ==
    [status : {"none", "QUEUED", "DISPATCHING", "DISPATCHED", "RUNNING", "VALIDATING",
               "COMPLETED", "FAILED"},
     run : Runs \cup {NoRun}]
InboxRecords ==
    [status : {"none", "RECEIVED", "DUPLICATE", "PROCESSED", "REJECTED"},
     run : Runs \cup {NoRun}]
Places == {"rest", "claim", "announce", "call", "running", "requeue", "fail", "end",
           "receive", "process", "read", "effect", "mark", "validate", "complete",
           "reject", "failjob", "tidy", "ask"}

StoreTypes ==
    /\ job \in [Jobs -> JobRecords] /\ jobFile \in [Jobs -> JobRecords]
    /\ inbox \in [Jobs -> InboxRecords] /\ inboxFile \in [Jobs -> InboxRecords]
    /\ payload \in [Jobs -> Runs \cup {NoRun}]
    /\ fresh \subseteq Jobs

ThreadTypes ==
    /\ thread \in [Threads -> [at : Places, job : Jobs \cup {NoJob}, run : Runs \cup {NoRun}]]
    /\ write \in [Threads -> [to : {"none"}, record : {NoRecord}]
                               \cup [to : {"job"}, record : JobRecords]
                               \cup [to : {"inbox"}, record : InboxRecords]]
    /\ queue \subseteq Jobs \X Runs
    /\ \A a \in Threads : thread[a].at \notin {"rest", "ask"} => thread[a].job \in Jobs

WorldTypes ==
    /\ runs \in Seq([job : Jobs, state : {"running", "good", "bad", "failed"}, late : BOOLEAN])
    /\ Len(runs) <= creates
    /\ silent \subseteq Jobs /\ raced \subseteq Jobs /\ torn \subseteq Jobs
    /\ effects \in [Jobs -> Seq(Runs)] /\ parts \in [Jobs -> SUBSET Runs]
    /\ creates \in 0 .. MaxCreates /\ callbacks \in 0 .. MaxCallbacks
    /\ failures \in 0 .. MaxFailures

\* Type invariant.
TypeOK == StoreTypes /\ ThreadTypes /\ WorldTypes

\* inbox.py: no duplicate side effects.  A job takes effect at most once, and what it
\* leaves, all or a part, is of the one result its inbox recorded, through duplicate,
\* late and conflicting callbacks, repeated create_job calls, failed writes and
\* restarts; unless two threads were receiving its first callback at once.
EffectOnce ==
    \A j \in Jobs \ raced :
        /\ Len(effects[j]) <= 1
        /\ \A k \in DOMAIN effects[j] : effects[j][k] = inboxFile[j].run
        /\ \A r \in parts[j] : r = inboxFile[j].run

\* callbacks.py: fail closed.  What the stores say of a job agrees with its effects:
\* a processed callback and a completed job had the whole effect, a rejected callback
\* did not, though predictions ahead of the one that failed may have been stored.
VerdictMatchesEffect ==
    \A j \in Jobs \ raced :
        /\ "PROCESSED" \in {inbox[j].status, inboxFile[j].status} => effects[j] # <<>>
        /\ "COMPLETED" \in {job[j].status, jobFile[j].status} => effects[j] # <<>>
        /\ "REJECTED" \in {inbox[j].status, inboxFile[j].status} =>
               effects[j] = <<>>

\* outbox.py: on restart the last line wins.  A restart leaves the status of every
\* job and callback as it was answered before, unless two threads wrote at once.
MemoryMatchesFile ==
    \A j \in Jobs \ torn : (\A a \in Threads : write[a] = NoWrite \/ thread[a].job # j) =>
        job[j] = jobFile[j] /\ inbox[j] = inboxFile[j]

\* The poller gets the result of j again and again, and it is refused each time.
Uncollected(j) == \E r \in RunOf(j) : r = job[j].run /\ runs[r].late

\* gateway.py: a running job whose run ends does not stay running: its result is in the
\* inbox or the job is failed.  Only a result nobody collected in five minutes, whose
\* signature is then too old, leaves its job running.
JobsEnd ==
    \A j \in Jobs : job[j].status = "RUNNING"
                      ~> (job[j].status # "RUNNING" \/ inbox[j] # NoRecord \/ Uncollected(j))
=============================================================================
