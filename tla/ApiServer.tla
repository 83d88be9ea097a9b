----------------------------- MODULE ApiServer -----------------------------
(***************************************************************************)
(* The API process from its start to its exit: requests in every stage of  *)
(* acceptJob, HandleExtract and HandleHealth while servers go away,        *)
(* clients hang up, answers come too late to be written, and a SIGTERM     *)
(* gives everything under way ShutdownLimit ticks.  What becomes of a job  *)
(* after its answer is here as far as clients can tell: popped, claimed,   *)
(* executed and stored in steps that fail one by one, or deleted before.   *)
(* JobPipeline has the rest: single lost replies, second pushes, retries.  *)
(*                                                                         *)
(* A request, its connection and the job it makes have one name.  Time is  *)
(* counted in ticks; a call to PostgreSQL or Redis has no time limit of    *)
(* its own.                                                                *)
(***************************************************************************)
EXTENDS Startup, JobOptions, Sequences, SequencesExt

CONSTANTS
    Submits,                     \* requests to /scrape, /crawl or /map
    Queries,                     \* requests to /extract or /health
    Bodies,                      \* what a client may submit
    WriteTimeout,                \* http.Server.WriteTimeout: 60 s
    LlmTimeout,                  \* the LLM client's timeout: 60 s
    ShutdownLimit,               \* the context of srv.Shutdown: 30 s
    FreshLimit,                  \* how long it spares a new connection: 5 s
    PageBound,                   \* bound: pages a crawl may have stored
    None                         \* no job, no body, no payload, no process

Requests == Submits \cup Queries

ASSUME ApiAssumption ==
    /\ Submits \cap Queries = {}
    /\ \A b \in Bodies : IsRequest(b)
    /\ WriteTimeout \in Nat \ {0}
    /\ LlmTimeout \in Nat \ {0}
    /\ ShutdownLimit \in Nat \ {0}
    /\ PageBound \in Nat \ {0}
    /\ FreshLimit \in Nat
    /\ FreshLimit <= ShutdownLimit
    /\ WriteTimeout <= LlmTimeout
    /\ None \notin Submits \cup Bodies \cup Procs
    /\ None \notin [markdown : BOOLEAN, pages : Seq(BOOLEAN)]
    /\ \A b \in Bodies : None \notin {JobPayload(b), Execution(JobPayload(b))}

VARIABLES
    at,        \* where a request is: "idle", "fresh" on a connection whose
               \* header is not read, a place in its handler, "done"
    age,       \* ticks its connection is fresh, then ticks it is handled
    gone,      \* whether its client has hung up, which cancels its context
    code,      \* the status its handler answered with
    heard,     \* whether that answer reached the client
    body,      \* what was submitted
    status,    \* the status column of a job's row, "absent" without one
    result,    \* its result column: which markdown there is
    payload,   \* what was pushed for a job
    place,     \* where that is: "none", "list", "popped", "claimed" or "gone"
    taker,     \* the process that popped it
    ran,       \* what the job is executed with
    target,    \* the job an extraction is for
    job,       \* the result HandleExtract loaded
    notes,     \* the answer HandleExtract or HandleHealth is gathering
    asked,     \* how often an extraction called the LLM
    spent      \* ticks its last call took

handling == <<at, age, gone, code, heard>>
jobs     == <<body, status, result, payload, place, taker, ran>>
reading  == <<target, job, notes, asked, spent>>
vars     == <<boot, handling, jobs, reading>>

Init ==
    /\ StartupInit
    /\ at      = [r \in Requests |-> "idle"]
    /\ age     = [r \in Requests |-> 0]
    /\ gone    = [r \in Requests |-> FALSE]
    /\ code    = [r \in Requests |-> 0]
    /\ heard   = [r \in Requests |-> FALSE]
    /\ body    = [s \in Submits |-> None]
    /\ status  = [s \in Submits |-> "absent"]
    /\ result  = [s \in Submits |-> None]
    /\ payload = [s \in Submits |-> None]
    /\ place   = [s \in Submits |-> "none"]
    /\ taker   = [s \in Submits |-> None]
    /\ ran     = [s \in Submits |-> None]
    /\ target  = [e \in Queries |-> None]
    /\ job     = [e \in Queries |-> None]
    /\ notes   = [q \in Queries |-> <<>>]
    /\ asked   = [e \in Queries |-> 0]
    /\ spent   = [e \in Queries |-> 0]

-----------------------------------------------------------------------------
Open(r)  == at[r] \notin {"idle", "done"}
Busy(r)  == Open(r) /\ at[r] # "fresh"
Handling == phase[Api] \in {"serving", "draining"}

\* A handler moves on, once it runs and is where the step starts; its time
\* begins with the header.
Move(r, from, to) ==
    /\ Handling
    /\ at[r] = from
    /\ at'  = [at EXCEPT ![r] = to]
    /\ age' = [age EXCEPT ![r] = IF from = "fresh" THEN 0 ELSE @]
    /\ UNCHANGED <<gone, code, heard>>

\* It answers and returns.  What is written after the write deadline, or to
\* a client that hung up, is lost.
Respond(r, from, answer) ==
    /\ Handling
    /\ at[r] = from
    /\ at'    = [at EXCEPT ![r] = "done"]
    /\ code'  = [code EXCEPT ![r] = answer]
    /\ heard' = [heard EXCEPT ![r] = ~gone[r] /\ (from = "fresh" \/ age[r] < WriteTimeout)]
    /\ age'   = [age EXCEPT ![r] = 0]
    /\ UNCHANGED gone

\* Mutant: the listener stays open during a shutdown.
ListeningToTheEnd == Handling

\* A listener that is not open yet, or closed, accepts no connection.
Listening == phase[Api] = "serving"

OpenConnection(r) ==
    /\ Listening
    /\ at[r] = "idle"
    /\ at' = [at EXCEPT ![r] = "fresh"]
    /\ UNCHANGED <<boot, age, gone, code, heard, jobs, reading>>

\* One that sends no header ends: its client hangs up, the time to read a
\* header is over, or Shutdown finds it no longer new.
Disconnect(r) ==
    /\ Handling
    /\ at[r] = "fresh"
    /\ at'  = [at EXCEPT ![r] = "done"]
    /\ age' = [age EXCEPT ![r] = 0]
    /\ UNCHANGED <<boot, gone, code, heard, jobs, reading>>

-----------------------------------------------------------------------------
(***************************************************************************)
(* HandleScrape, HandleCrawl, HandleMap and acceptJob.                     *)
(***************************************************************************)
Submit(s, b) ==
    /\ at[s] = "fresh"
    /\ IF Valid(b) THEN Move(s, "fresh", "create") ELSE Respond(s, "fresh", 400)
    /\ body' = [body EXCEPT ![s] = b]
    /\ UNCHANGED <<boot, status, result, payload, place, taker, ran, reading>>

\* CreateJob.  A call that fails, or is cancelled with the client's request,
\* may have been applied all the same.
CreateJob(s) ==
    LET inserted == [status EXCEPT ![s] = "queued"]
    IN  /\ IF dbUp /\ ~gone[s]
           THEN Move(s, "create", "push") /\ status' = inserted
           ELSE Respond(s, "create", 500) /\ status' \in {status, inserted}
        /\ UNCHANGED <<boot, body, result, payload, place, taker, ran, reading>>

Pushed(s) ==
    /\ payload' = [payload EXCEPT ![s] = JobPayload(body[s])]
    /\ place'   = [place EXCEPT ![s] = "list"]

NotPushed == UNCHANGED <<payload, place>>

\* Mutant: the error of Enqueue is logged and otherwise ignored.
EnqueueAnyway(s) ==
    /\ Move(s, "push", "report")
    /\ Pushed(s) \/ (NotPushed /\ (gone[s] \/ ~redisUp))
    /\ UNCHANGED <<boot, body, status, result, taker, ran, reading>>

Enqueue(s) ==
    /\ IF redisUp /\ ~gone[s]
       THEN Move(s, "push", "report") /\ Pushed(s)
       ELSE Respond(s, "push", 500) /\ (Pushed(s) \/ NotPushed)
    /\ UNCHANGED <<boot, body, status, result, taker, ran, reading>>

\* QueueDepth, whose failure is ignored, the two metrics and the 202.
Accept(s) == Respond(s, "report", 202) /\ UNCHANGED <<boot, jobs, reading>>

\* HandleDeleteJob's UPDATE, for a job that is still queued.
Cancel(s) ==
    /\ Handling /\ dbUp
    /\ status[s] = "queued"
    /\ status' = [status EXCEPT ![s] = "failed"]
    /\ UNCHANGED <<boot, handling, body, result, payload, place, taker, ran, reading>>

-----------------------------------------------------------------------------
(***************************************************************************)
(* The workers.  What an execution stores of Markdown depends on the       *)
(* extract types; a page without text, or one whose fetch failed, has      *)
(* none.                                                                   *)
(***************************************************************************)
Markdowns(run) == IF "markdown" \in run.extract THEN BOOLEAN ELSE {FALSE}

\* A crawl has at least its seed's page, and at most that one unless it has
\* links to follow.
PagesOf(run) ==
    IF run.depth = 0 \/ "links" \notin run.extract THEN 1
    ELSE IF run.limit < PageBound THEN run.limit ELSE PageBound

StoredPages(run) ==
    IF run.kind = "crawl"
    THEN BoundedSeq(Markdowns(run), PagesOf(run)) \ {<<>>}
    ELSE {<<>>}

Stored(run) ==
    [markdown : IF run.kind = "scrape" THEN Markdowns(run) ELSE {FALSE},
     pages    : StoredPages(run)]

\* The goroutines of a process whose context is cancelled still finish what
\* they are at, but none of their calls to PostgreSQL works.
AtWork(p) == phase[p] \in {"running", "stopping"}
Works(p)  == phase[p] = "running" /\ dbUp

Has(p, s, where) == AtWork(p) /\ place[s] = where /\ taker[s] = p
Put(s, where)    == place' = [place EXCEPT ![s] = where]

\* BRPOP, which does not look at the context once it is sent.
Pop(s, p) ==
    /\ redisUp /\ AtWork(p)
    /\ place[s] = "list" /\ Put(s, "popped")
    /\ taker' = [taker EXCEPT ![s] = p]
    /\ UNCHANGED <<boot, handling, body, status, result, payload, ran, reading>>

\* Redis goes away with the payload: its reply is lost, or its list.
PopLost(s) ==
    /\ ~redisUp
    /\ place[s] = "list" /\ Put(s, "gone")
    /\ UNCHANGED <<boot, handling, body, status, result, payload, taker, ran, reading>>

\* ClaimJob.  Refused or failed, it ends the payload, and one that failed
\* may have been applied.
Claim(s, p) ==
    /\ Has(p, s, "popped")
    /\ \/ /\ Works(p) /\ status[s] = "queued" /\ Put(s, "claimed")
          /\ status' = [status EXCEPT ![s] = "processing"]
          /\ ran' = [ran EXCEPT ![s] = Execution(payload[s])]
       \/ /\ ~Works(p) \/ status[s] # "queued"
          /\ Put(s, "gone") /\ UNCHANGED <<status, ran>>
       \/ /\ ~Works(p) /\ status[s] = "queued" /\ Put(s, "gone")
          /\ status' = [status EXCEPT ![s] = "processing"]
          /\ UNCHANGED ran
    /\ UNCHANGED <<boot, handling, body, result, payload, taker, reading>>

\* The row UpdateJob leaves.
Settle(s) ==
    \/ /\ status' = [status EXCEPT ![s] = "completed"]
       /\ \E r \in Stored(ran[s]) : result' = [result EXCEPT ![s] = r]
    \/ status' = [status EXCEPT ![s] = "failed"] /\ UNCHANGED result

\* The execution and handleJobResult.  UpdateJob's error is only logged; one
\* that failed may have been applied.
Persist(s, p) ==
    /\ Has(p, s, "claimed") /\ ran[s].attempts > 0
    /\ Put(s, "gone")
    /\ Settle(s) \/ (~Works(p) /\ UNCHANGED <<status, result>>)
    /\ UNCHANGED <<boot, handling, body, payload, taker, ran, reading>>

\* A scrape's wait for the rate limiter, cut by the context: processJob
\* returns and the row stays as it is.
GiveUp(s, p) ==
    /\ Has(p, s, "claimed") /\ phase[p] = "stopping" /\ ran[s].kind = "scrape"
    /\ Put(s, "gone")
    /\ UNCHANGED <<boot, handling, body, status, result, payload, taker, ran, reading>>

\* max_retries = 0 leaves neither a result nor an error, and reading the nil
\* result panics.
Panic(s, p) ==
    /\ Has(p, s, "claimed") /\ ran[s].attempts <= 0
    /\ phase' = [phase EXCEPT ![p] = "panicked"]
    /\ UNCHANGED <<clock, schema, servers, handling, jobs, reading>>

Job(s, p) == Pop(s, p) \/ Claim(s, p) \/ Persist(s, p) \/ GiveUp(s, p) \/ Panic(s, p)

\* pool.Stop, which waits for the goroutines.
StopWorker(p) ==
    /\ Enter(p, "running", "stopping")
    /\ UNCHANGED <<clock, schema, servers, handling, jobs, reading>>

WorkerStopped(p) ==
    /\ \A s \in Submits : taker[s] = p => place[s] = "gone"
    /\ Enter(p, "stopping", "stopped")
    /\ UNCHANGED <<clock, schema, servers, handling, jobs, reading>>

-----------------------------------------------------------------------------
(***************************************************************************)
(* HandleExtract and Client.Extract.  The three checks at the top of       *)
(* Extract repeat those of the handler and cannot fail after them.         *)
(***************************************************************************)
\* 501 without LLM_API_KEY; 400 for an id that does not parse, a body that
\* does not bind, neither schema nor prompt, or a prompt that is too long.
\* Whether the process has the key is left open at each request.
AskExtract(e, j, wellFormed) ==
    /\ \/ wellFormed /\ Move(e, "fresh", "load")
       \/ ~wellFormed /\ Respond(e, "fresh", 400)
       \/ Respond(e, "fresh", 501)
    /\ target' = [target EXCEPT ![e] = j]
    /\ UNCHANGED <<boot, jobs, job, notes, asked, spent>>

\* The pages to extract from; a scrape's own Markdown counts as one.
Pages(r) == IF r.pages = <<>> THEN <<r.markdown>> ELSE r.pages

Known(j)       == j # None /\ status[j] # "absent"
Extractable(j) == status[j] = "completed" /\ (result[j].pages # <<>> \/ result[j].markdown)

\* GetJob, which reads status and result together, and what it is held to.
LoadRefused(e) ==
    /\ \/ (~dbUp \/ gone[e]) /\ Respond(e, "load", 500)
       \/ dbUp /\ ~gone[e] /\ ~Known(target[e]) /\ Respond(e, "load", 404)
       \/ /\ dbUp /\ ~gone[e] /\ Known(target[e]) /\ ~Extractable(target[e])
          /\ Respond(e, "load", 409)
    /\ UNCHANGED <<boot, jobs, reading>>

Load(e) ==
    /\ dbUp /\ ~gone[e] /\ Known(target[e]) /\ Extractable(target[e])
    /\ Move(e, "load", "page")
    /\ job' = [job EXCEPT ![e] = result[target[e]]]
    /\ UNCHANGED <<boot, jobs, target, notes, asked, spent>>

\* The loop over the pages; the next is the one without a note.
NextPage(e) == Pages(job[e])[Len(notes[e]) + 1]
MorePages(e) == Len(notes[e]) < Len(Pages(job[e]))

Note(r, what) == notes' = [notes EXCEPT ![r] = Append(@, what)]

SkipPage(e) ==
    /\ at[e] = "page" /\ MorePages(e) /\ ~NextPage(e)
    /\ Move(e, "page", "page")
    /\ Note(e, "no markdown")
    /\ UNCHANGED <<boot, jobs, target, job, asked, spent>>

\* Mutant: the LLM is asked about pages without Markdown too.
CallLlmAlways(e) ==
    /\ at[e] = "page" /\ MorePages(e)
    /\ Move(e, "page", "call")
    /\ asked' = [asked EXCEPT ![e] = @ + 1]
    /\ spent' = [spent EXCEPT ![e] = 0]
    /\ UNCHANGED <<boot, jobs, target, job, notes>>

CallLlm(e) ==
    /\ at[e] = "page" /\ MorePages(e) /\ NextPage(e)
    /\ Move(e, "page", "call")
    /\ asked' = [asked EXCEPT ![e] = @ + 1]
    /\ spent' = [spent EXCEPT ![e] = 0]
    /\ UNCHANGED <<boot, jobs, target, job, notes>>

\* For a page the outcome is noted and the loop goes on; for the one result
\* of a scrape it is the answer.
LlmReturns(e, outcome) ==
    /\ at[e] = "call"
    /\ Note(e, outcome)
    /\ IF job[e].pages # <<>> THEN Move(e, "call", "page")
       ELSE Respond(e, "call", IF outcome = "extracted" THEN 200 ELSE 502)
    /\ UNCHANGED <<boot, jobs, target, job, asked, spent>>

\* Within its time the service answers with JSON or with anything else, or
\* the call is cancelled with the client's request.
LlmAnswers(e) ==
    \E outcome \in {"extracted", "extract failed"} :
        /\ spent[e] < LlmTimeout
        /\ gone[e] => outcome = "extract failed"
        /\ LlmReturns(e, outcome)

LlmTimesOut(e) == spent[e] >= LlmTimeout /\ LlmReturns(e, "extract failed")

AllPages(e) ==
    /\ at[e] = "page" /\ ~MorePages(e)
    /\ Respond(e, "page", 200)
    /\ UNCHANGED <<boot, jobs, reading>>

-----------------------------------------------------------------------------
(***************************************************************************)
(* HandleHealth: two pings, one after the other.                           *)
(***************************************************************************)
AskHealth(h) ==
    /\ Move(h, "fresh", "pingdb")
    /\ UNCHANGED <<boot, jobs, reading>>

Pinged(up) == IF up THEN "ok" ELSE "degraded"

PingStore(h) ==
    /\ Move(h, "pingdb", "pingredis")
    /\ Note(h, Pinged(dbUp /\ ~gone[h]))
    /\ UNCHANGED <<boot, jobs, target, job, asked, spent>>

PingQueue(h) ==
    LET seen == Append(notes[h], Pinged(redisUp /\ ~gone[h]))
    IN  /\ Respond(h, "pingredis", IF "degraded" \in Range(seen) THEN 503 ELSE 200)
        /\ notes' = [notes EXCEPT ![h] = seen]
        /\ UNCHANGED <<boot, jobs, target, job, asked, spent>>

-----------------------------------------------------------------------------
(***************************************************************************)
(* The client, the signal, srv.Shutdown and time.                          *)
(***************************************************************************)
ClientLeaves(r) ==
    /\ Fault
    /\ Handling /\ Busy(r) /\ ~gone[r]
    /\ gone' = [gone EXCEPT ![r] = TRUE]
    /\ UNCHANGED <<procs, schema, dbUp, redisUp, outage, at, age, code, heard, jobs, reading>>

Signal ==
    /\ Enter(Api, "serving", "draining")
    /\ clock' = [clock EXCEPT ![Api] = 0]
    /\ UNCHANGED <<schema, servers, handling, jobs, reading>>

Quiet == \A r \in Requests : ~Open(r)

ShutdownDone ==
    /\ Quiet
    /\ Enter(Api, "draining", "stopped")
    /\ UNCHANGED <<clock, schema, servers, handling, jobs, reading>>

\* Shutdown looks for idle connections from time to time, so its context may
\* expire just after the last request is done.
ShutdownForced ==
    /\ clock[Api] >= ShutdownLimit
    /\ Enter(Api, "draining", "forced")
    /\ UNCHANGED <<clock, schema, servers, handling, jobs, reading>>

\* Nothing that ends on time is overdue.
NothingDue ==
    /\ \A p \in Procs : phase[p] = "connecting" => clock[p] < ConnectDeadline
    /\ phase[Api] = "draining" =>
          /\ clock[Api] < ShutdownLimit
          /\ \A r \in Requests : at[r] = "fresh" => age[r] < FreshLimit
    /\ Handling => \A e \in Queries : at[e] = "call" => spent[e] < LlmTimeout

AgeCap == IF WriteTimeout > ShutdownLimit THEN WriteTimeout ELSE ShutdownLimit

Tick ==
    /\ NothingDue
    /\ clock' = [p \in Procs |-> IF phase[p] \in {"connecting", "draining"}
                                 THEN clock[p] + 1 ELSE clock[p]]
    /\ age'   = [r \in Requests |-> IF Open(r) /\ Handling /\ age[r] < AgeCap
                                    THEN age[r] + 1 ELSE age[r]]
    /\ spent' = [e \in Queries |-> IF at[e] = "call" /\ Handling
                                    THEN spent[e] + 1 ELSE spent[e]]
    /\ UNCHANGED <<phase, schema, servers, at, gone, code, heard, jobs,
                   target, job, notes, asked>>

-----------------------------------------------------------------------------
Submission(s) == CreateJob(s) \/ Enqueue(s) \/ Accept(s)

\* What a handler does without waiting for the LLM service.
Extraction(e) ==
    \/ LoadRefused(e) \/ Load(e)
    \/ SkipPage(e) \/ CallLlm(e) \/ LlmTimesOut(e) \/ AllPages(e)

Health(h) == PingStore(h) \/ PingQueue(h)

Next ==
    \/ StartupNext /\ UNCHANGED <<handling, jobs, reading>>
    \/ \E s \in Submits :
          \/ \E b \in Bodies : Submit(s, b)
          \/ Submission(s)
          \/ Cancel(s) \/ PopLost(s)
          \/ \E p \in Procs : Job(s, p)
    \/ \E q \in Queries :
          \/ \E j \in Submits \cup {None}, ok \in BOOLEAN : AskExtract(q, j, ok)
          \/ Extraction(q) \/ LlmAnswers(q)
          \/ AskHealth(q) \/ Health(q)
    \/ \E r \in Requests : OpenConnection(r) \/ Disconnect(r) \/ ClientLeaves(r)
    \/ \E p \in Procs : StopWorker(p) \/ WorkerStopped(p)
    \/ Signal \/ ShutdownDone \/ ShutdownForced \/ Tick

Spec == Init /\ [][Next]_vars

Booted(p) == Boot(p) /\ UNCHANGED <<handling, jobs, reading>>

\* Calls to the servers return, time passes, and a connection that stays
\* silent is closed.  Neither clients nor the LLM service nor workers nor
\* whoever sends signals owe a step.
Fairness ==
    /\ \A p \in Procs : WF_vars(Booted(p))
    /\ \A s \in Submits : WF_vars(Submission(s))
    /\ \A q \in Queries : WF_vars(Extraction(q) \/ Health(q))
    /\ \A r \in Requests : WF_vars(Disconnect(r))
    /\ WF_vars(ShutdownDone \/ ShutdownForced)
    /\ WF_vars(Tick)

FairSpec == Spec /\ Fairness
=============================================================================
