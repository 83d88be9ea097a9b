----------------------------- MODULE JobPipeline -----------------------------
(***************************************************************************)
(* The life of a job across the API server, PostgreSQL, Redis and the      *)
(* worker processes: acceptJob and HandleDeleteJob of internal/api,        *)
(* the queue of internal/queue, the jobs table of internal/store and the   *)
(* workerPool of cmd/worker.                                               *)
(*                                                                         *)
(* Every call to PostgreSQL or Redis is one step, because the caller may   *)
(* be interleaved with anybody else between two calls.  A call works, or   *)
(* fails without effect, or is applied and its reply is lost (the caller   *)
(* sees the same error).  Failures are drawn from the budget MaxFaults.    *)
(* In a worker process that is shutting down the context of every call is  *)
(* cancelled, so calls fail for free; a call that the cancellation cuts    *)
(* after it was applied is a lost reply just before Stop.                  *)
(***************************************************************************)
EXTENDS JobsTable, ScrapeOutcome, Sequences

CONSTANTS
    Jobs,       \* the job requests clients will make, and their ids
    Workers,    \* the goroutines running workerPool.work
    Procs,      \* the worker processes
    Home,       \* the process a worker runs in
    Deleters,   \* handlers of DELETE requests that run at the same time
    Kind,       \* the endpoint a job came from: scrape, crawl or map
    Retries,    \* max_retries of a job, defaulted by applyJobOptions
    None,       \* no job
    MaxFaults,  \* bound: failed calls, lost replies and crashes
    MaxStops    \* bound: SIGTERMs to worker processes

ASSUME HomeAssumption   == Home \in [Workers -> Procs]
ASSUME KindAssumption   == Kind \in [Jobs -> Kinds]
ASSUME RetriesAssumption == Retries \in [Jobs -> 0..5]
ASSUME NoneAssumption   == None \notin Jobs \cup Workers
ASSUME BoundsAssumption == MaxFaults \in Nat /\ MaxStops \in Nat

VARIABLES
    rows,    \* the jobs table
    queue,   \* the Redis list, tail (next to pop) first
    accept,  \* progress of acceptJob for a job's POST request
    del,     \* the job a DELETE handler found not queued, or None
    reply,   \* the last answer of a DELETE handler
    proc,    \* "up", "stopping" (context cancelled) or "down"
    pc,      \* where a worker is in work and processJob
    held,    \* the job whose payload a worker holds, or None
    out,     \* the (result, err) pair of a worker's finished execution
    runs,    \* history: executions started per job
    faults,  \* spent of MaxFaults
    stops    \* spent of MaxStops

api    == <<accept, del, reply>>
worker == <<pc, held, out>>
vars   == <<rows, queue, accept, del, reply, proc, pc, held, out, runs,
            faults, stops>>

AcceptState == {"idle", "created", "enqueued", "accepted", "rejected", "dropped"}
ProcState   == {"up", "stopping", "down"}
PC          == {"loop", "pop", "claim", "wait", "run", "persist", "stopped"}
ReplyCode   == {"none", "200", "409", "500"}
Reply       == [code : ReplyCode, job : Jobs \cup {None}, seen : Status]
NoReply     == [code |-> "none", job |-> None, seen |-> "absent"]

Init ==
    /\ rows   = [j \in Jobs |-> NoRow]
    /\ queue  = <<>>
    /\ accept = [j \in Jobs |-> "idle"]
    /\ del    = [d \in Deleters |-> None]
    /\ reply  = [d \in Deleters |-> NoReply]
    /\ proc   = [p \in Procs |-> "up"]
    /\ pc     = [w \in Workers |-> "loop"]
    /\ held   = [w \in Workers |-> None]
    /\ out    = [w \in Workers |-> NilOutcome]
    /\ runs   = [j \in Jobs |-> 0]
    /\ faults = 0
    /\ stops  = 0

Fault == faults < MaxFaults /\ faults' = faults + 1
Works == UNCHANGED faults

-----------------------------------------------------------------------------
(***************************************************************************)
(* The API server.                                                         *)
(***************************************************************************)
SetAccept(j, s) == accept' = [accept EXCEPT ![j] = s]

\* acceptJob up to CreateJob's return.  An error answers 500 and stops.
CreateJob(j) ==
    /\ accept[j] = "idle"
    /\ \/ Works /\ SetAccept(j, "created")
          /\ rows' = [rows EXCEPT ![j] = InsertRow]
       \/ Fault /\ SetAccept(j, "rejected") /\ UNCHANGED rows
       \/ Fault /\ SetAccept(j, "rejected")
          /\ rows' = [rows EXCEPT ![j] = InsertRow]
    /\ UNCHANGED <<queue, del, reply, proc, worker, runs, stops>>

\* acceptJob's Enqueue.  go-redis repeats an LPUSH whose reply it lost, so
\* the payload may be pushed twice.  An error answers 500 and leaves the
\* row as it is.
Enqueue(j) ==
    /\ accept[j] = "created"
    /\ \/ Works /\ SetAccept(j, "enqueued") /\ queue' = Append(queue, j)
       \/ Fault /\ SetAccept(j, "enqueued")
          /\ queue' = Append(Append(queue, j), j)
       \/ Fault /\ SetAccept(j, "rejected") /\ UNCHANGED queue
       \/ Fault /\ SetAccept(j, "rejected") /\ queue' = Append(queue, j)
    /\ UNCHANGED <<rows, del, reply, proc, worker, runs, stops>>

\* The 202 answer.
Respond(j) ==
    /\ accept[j] = "enqueued"
    /\ SetAccept(j, "accepted")
    /\ UNCHANGED <<rows, queue, del, reply, proc, worker, runs, faults, stops>>

Answer(d, code, j, seen) ==
    reply' = [reply EXCEPT ![d] = [code |-> code, job |-> j, seen |-> seen]]

\* HandleDeleteJob, CancelJob's UPDATE.  When it affects no row the handler
\* goes on to a SELECT.  A client can name a job as soon as its row exists,
\* because GET /jobs lists it.
DeleteUpdate(d, j) ==
    /\ del[d] = None
    /\ rows[j].status # "absent"
    /\ \/ /\ Works
          /\ Cancellable(rows[j])
          /\ rows' = [rows EXCEPT ![j] = CancelRow(@)]
          /\ Answer(d, "200", j, "failed")
          /\ UNCHANGED del
       \/ /\ Works
          /\ ~Cancellable(rows[j])
          /\ del' = [del EXCEPT ![d] = j]
          /\ UNCHANGED <<rows, reply>>
       \/ /\ Fault
          /\ Answer(d, "500", j, "absent")
          /\ UNCHANGED <<rows, del>>
       \/ /\ Fault
          /\ Cancellable(rows[j])
          /\ rows' = [rows EXCEPT ![j] = CancelRow(@)]
          /\ Answer(d, "500", j, "absent")
          /\ UNCHANGED del
    /\ UNCHANGED <<queue, accept, proc, worker, runs, stops>>

\* CancelJob's SELECT, whose status the 409 answer quotes.
DeleteSelect(d) ==
    /\ del[d] # None
    /\ \/ Works /\ Answer(d, "409", del[d], rows[del[d]].status)
       \/ Fault /\ Answer(d, "500", del[d], "absent")
    /\ del' = [del EXCEPT ![d] = None]
    /\ UNCHANGED <<rows, queue, accept, proc, worker, runs, stops>>

InFlight(j) == accept[j] \in {"created", "enqueued"}

\* The API process dies: every handler between two calls is gone.
ApiCrash ==
    /\ \/ \E j \in Jobs : InFlight(j)
       \/ \E d \in Deleters : del[d] # None
    /\ Fault
    /\ accept' = [j \in Jobs |-> IF InFlight(j) THEN "dropped" ELSE accept[j]]
    /\ del' = [d \in Deleters |-> None]
    /\ UNCHANGED <<rows, queue, reply, proc, worker, runs, stops>>

-----------------------------------------------------------------------------
(***************************************************************************)
(* A worker: the loop of work and, from "claim" on, processJob.            *)
(***************************************************************************)
Up(w)       == proc[Home[w]] = "up"
Stopping(w) == proc[Home[w]] = "stopping"

\* How one of the worker's calls ends, given its context.
CallWorks(w)    == Up(w) /\ Works
CallFails(w)    == \/ Up(w) /\ Fault
                   \/ Stopping(w) /\ Works
CallLosesReply(w) == Up(w) /\ Fault

Goto(w, label) == pc' = [pc EXCEPT ![w] = label]

\* Return from processJob to the top of the loop.
Return(w) ==
    /\ Goto(w, "loop")
    /\ held' = [held EXCEPT ![w] = None]
    /\ out' = [out EXCEPT ![w] = NilOutcome]

\* Mutant: the loop never looks at the context.
CheckCtxNever(w) ==
    /\ pc[w] = "loop"
    /\ Goto(w, "pop")
    /\ UNCHANGED <<rows, queue, api, proc, held, out, runs, faults, stops>>

\* The select on ctx.Done at the top of the loop.
CheckCtx(w) ==
    /\ pc[w] = "loop"
    /\ \/ Up(w) /\ Goto(w, "pop")
       \/ Stopping(w) /\ Goto(w, "stopped")
    /\ UNCHANGED <<rows, queue, api, proc, held, out, runs, faults, stops>>

\* BRPOP hands over the oldest payload.  It does not look at the context
\* once it is sent, so a worker that is stopping may still pop.
Dequeue(w) ==
    /\ pc[w] = "pop"
    /\ queue # <<>>
    /\ held' = [held EXCEPT ![w] = Head(queue)]
    /\ queue' = Tail(queue)
    /\ Goto(w, "claim")
    /\ UNCHANGED <<rows, api, proc, out, runs, faults, stops>>

\* Mutant: the worker returns when the queue is empty.
DequeueEmptyReturns(w) ==
    /\ pc[w] = "pop"
    /\ queue = <<>>
    /\ Goto(w, "stopped")
    /\ UNCHANGED <<rows, queue, api, proc, held, out, runs, faults, stops>>

\* The 5 second timeout of BRPOP.
DequeueEmpty(w) ==
    /\ pc[w] = "pop"
    /\ queue = <<>>
    /\ Goto(w, "loop")
    /\ UNCHANGED <<rows, queue, api, proc, held, out, runs, faults, stops>>

\* BRPOP errors, possibly after Redis removed the payload.
DequeueError(w) ==
    /\ pc[w] = "pop"
    /\ \/ CallFails(w) /\ UNCHANGED queue
       \/ CallLosesReply(w) /\ queue # <<>> /\ queue' = Tail(queue)
    /\ Goto(w, "loop")
    /\ UNCHANGED <<rows, api, proc, held, out, runs, stops>>

StartRun(j) == runs' = [runs EXCEPT ![j] = @ + 1]

\* ClaimJob.  A claimed scrape first waits for the rate limiter; a crawl or
\* a map starts at once.  Not claimed, or an error: the payload is dropped.
Claim(w) ==
    LET j == held[w] IN
    /\ pc[w] = "claim"
    /\ \/ /\ CallWorks(w)
          /\ Claimable(rows[j])
          /\ rows' = [rows EXCEPT ![j] = ClaimRow(@)]
          /\ \/ Kind[j] = "scrape" /\ Goto(w, "wait") /\ UNCHANGED runs
             \/ Kind[j] # "scrape" /\ Goto(w, "run") /\ StartRun(j)
          /\ UNCHANGED <<held, out>>
       \/ CallWorks(w) /\ ~Claimable(rows[j]) /\ Return(w)
          /\ UNCHANGED <<rows, runs>>
       \/ CallFails(w) /\ Return(w) /\ UNCHANGED <<rows, runs>>
       \/ /\ CallLosesReply(w)
          /\ Claimable(rows[j])
          /\ rows' = [rows EXCEPT ![j] = ClaimRow(@)]
          /\ Return(w)
          /\ UNCHANGED runs
    /\ UNCHANGED <<queue, api, proc, stops>>

\* Mutant: a worker that gives up hands the job back as queued.
RateWaitRequeues(w) ==
    /\ pc[w] = "wait"
    /\ \/ /\ Up(w) /\ Goto(w, "run") /\ StartRun(held[w])
          /\ UNCHANGED <<rows, held, out>>
       \/ /\ Stopping(w) /\ Return(w)
          /\ rows' = [rows EXCEPT ![held[w]] = InsertRow]
          /\ UNCHANGED runs
    /\ UNCHANGED <<queue, api, proc, faults, stops>>

\* perDomainRateLimiter.Wait.  A cancelled context makes processJob return
\* with the job still marked as processing.
RateWait(w) ==
    /\ pc[w] = "wait"
    /\ \/ Up(w) /\ Goto(w, "run") /\ StartRun(held[w]) /\ UNCHANGED <<held, out>>
       \/ Stopping(w) /\ Return(w) /\ UNCHANGED runs
    /\ UNCHANGED <<rows, queue, api, proc, faults, stops>>

\* executeWithRetry, CrawlBFS or MapBFS, up to its return.
Execute(w) ==
    /\ pc[w] = "run"
    /\ LET j == held[w] IN
       \E o \in Outcomes(Kind[j], Retries[j], Stopping(w)) :
          out' = [out EXCEPT ![w] = o]
    /\ Goto(w, "persist")
    /\ UNCHANGED <<rows, queue, api, proc, held, runs, faults, stops>>

\* The row handleJobResult's UpdateJob leaves.  A failed run keeps only the
\* stub of its result.
ResultRow(row, o) ==
    IF o.err
    THEN UpdateRow(row, "failed",
                   IF o.result = "none" THEN "none" ELSE "partial",
                   "failure", RetriesUsed(o))
    ELSE UpdateRow(row, "completed", o.result, "none", RetriesUsed(o))

\* Mutant: a failure without a result is not stored.
PersistResults(w) ==
    /\ pc[w] = "persist"
    /\ out[w] # NilOutcome
    /\ \/ /\ CallWorks(w) \/ CallLosesReply(w)
          /\ out[w].result # "none"
          /\ rows' = [rows EXCEPT ![held[w]] = ResultRow(@, out[w])]
       \/ CallWorks(w) /\ out[w].result = "none" /\ UNCHANGED rows
       \/ CallFails(w) /\ UNCHANGED rows
    /\ Return(w)
    /\ UNCHANGED <<queue, api, proc, runs, stops>>

\* handleJobResult with something to store.  UpdateJob's error is logged and
\* dropped, so a lost reply looks like success.
Persist(w) ==
    /\ pc[w] = "persist"
    /\ out[w] # NilOutcome
    /\ \/ /\ CallWorks(w) \/ CallLosesReply(w)
          /\ rows' = [rows EXCEPT ![held[w]] = ResultRow(@, out[w])]
       \/ CallFails(w) /\ UNCHANGED rows
    /\ Return(w)
    /\ UNCHANGED <<queue, api, proc, runs, stops>>

-----------------------------------------------------------------------------
(***************************************************************************)
(* Worker processes.                                                       *)
(***************************************************************************)
\* Process p is gone, with whatever its workers held.
Die(p) ==
    /\ proc' = [proc EXCEPT ![p] = "down"]
    /\ pc'   = [w \in Workers |-> IF Home[w] = p THEN "stopped" ELSE pc[w]]
    /\ held' = [w \in Workers |-> IF Home[w] = p THEN None ELSE held[w]]
    /\ out'  = [w \in Workers |-> IF Home[w] = p THEN NilOutcome ELSE out[w]]

\* handleJobResult with a nil error and a nil result: the first thing the
\* success branch does is to log result.DurationMs.  Nothing recovers the
\* panic.
PanicOnNilResult(w) ==
    /\ pc[w] = "persist"
    /\ out[w] = NilOutcome
    /\ Die(Home[w])
    /\ UNCHANGED <<rows, queue, api, runs, faults, stops>>

Crash(p) ==
    /\ proc[p] # "down"
    /\ Fault
    /\ Die(p)
    /\ UNCHANGED <<rows, queue, api, runs, stops>>

\* SIGTERM: main calls Stop, which cancels the workers' context ...
Stop(p) ==
    /\ proc[p] = "up"
    /\ stops < MaxStops
    /\ stops' = stops + 1
    /\ proc' = [proc EXCEPT ![p] = "stopping"]
    /\ UNCHANGED <<rows, queue, api, worker, runs, faults>>

\* Mutant: Stop does not wait.
StopAtOnce(p) ==
    /\ proc[p] = "stopping"
    /\ proc' = [proc EXCEPT ![p] = "down"]
    /\ UNCHANGED <<rows, queue, api, worker, runs, faults, stops>>

\* ... and waits for all of them before main returns.
StopDone(p) ==
    /\ proc[p] = "stopping"
    /\ \A w \in Workers : Home[w] = p => pc[w] = "stopped"
    /\ proc' = [proc EXCEPT ![p] = "down"]
    /\ UNCHANGED <<rows, queue, api, worker, runs, faults, stops>>

\* The orchestrator starts the process again; Run starts its workers.
Restart(p) ==
    /\ proc[p] = "down"
    /\ proc' = [proc EXCEPT ![p] = "up"]
    /\ pc' = [w \in Workers |-> IF Home[w] = p THEN "loop" ELSE pc[w]]
    /\ UNCHANGED <<rows, queue, api, held, out, runs, faults, stops>>

-----------------------------------------------------------------------------
Post(j) == CreateJob(j) \/ Enqueue(j) \/ Respond(j)

Delete(d) == (\E j \in Jobs : DeleteUpdate(d, j)) \/ DeleteSelect(d)

Work(w) ==
    \/ CheckCtx(w) \/ Dequeue(w) \/ DequeueEmpty(w) \/ DequeueError(w)
    \/ Claim(w) \/ RateWait(w) \/ Execute(w) \/ Persist(w)
    \/ PanicOnNilResult(w)

Manage(p) == Crash(p) \/ Stop(p) \/ StopDone(p) \/ Restart(p)

Next ==
    \/ \E j \in Jobs : Post(j)
    \/ \E d \in Deleters : Delete(d)
    \/ ApiCrash
    \/ \E w \in Workers : Work(w)
    \/ \E p \in Procs : Manage(p)

Spec == Init /\ [][Next]_vars

(***************************************************************************)
(* A goroutine that can run does, a handler that was started goes on, a    *)
(* process whose workers have returned exits and the orchestrator restarts *)
(* a process that is down.  Nobody has to send a request or a signal.      *)
(***************************************************************************)
Fairness ==
    /\ \A w \in Workers : WF_vars(Work(w))
    /\ \A j \in Jobs : WF_vars(Enqueue(j) \/ Respond(j))
    /\ \A d \in Deleters : WF_vars(DeleteSelect(d))
    /\ \A p \in Procs : WF_vars(StopDone(p)) /\ WF_vars(Restart(p))

FairSpec == Spec /\ Fairness
=============================================================================
