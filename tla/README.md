# TLA+ models of web-gobbler

This directory holds TLA+ specifications of the scraping service in `../src`
(an API server, a PostgreSQL jobs table, a Redis list and worker processes that
scrape, crawl or map web sites), TLC configurations that check them on small
instances, and TLAPS proofs that hold for every size of instance.

## 1. Inventory

| component | state it keeps | operations | talks to |
|---|---|---|---|
| job handlers (`internal/api/handlers.go`) | none between requests | accept a scrape, crawl or map; get, list, cancel a job; extract | store, queue, LLM endpoint |
| jobs table (`internal/store`) | one row per job: status, result, error, retries, completed_at | `CreateJob`, `ClaimJob`, `UpdateJob`, `CancelJob`, `GetJob`, `ListJobs` | PostgreSQL |
| queue (`internal/queue`) | the list `scraper:jobs:queue` | `Enqueue` (LPUSH), `Dequeue` (BRPOP, 5 s), `QueueDepth` | Redis |
| worker pool (`cmd/worker`) | per goroutine: the payload in hand; per process: the cancellable context, a token bucket per domain | `work`, `processJob`, `executeWithRetry`, `handleJobResult`, `Run`, `Stop` | queue, store, crawler, scraper |
| crawler (`internal/crawl`) | frontier queue, seen set, pages or URLs so far | `CrawlBFS`, `MapBFS`, `NormalizeURL` | limiter, scraper |
| scraper (`internal/scraper`) | the browser semaphore (2) | `ScrapePage`, redirects, `HTTPFetcher`, `BrowserFetcher` | the target site |
| validation (`internal/api/validator.go`, `types.go`) | none | bounds on options, URL and extract types; the copies of the options from struct to struct | handlers |
| client rate limiter (`internal/api/middleware.go`) | a token bucket per client address, all dropped every 10 min | `getLimiter`, `cleanupLoop`, middleware | |
| LLM extraction (`internal/extract`) | none | `Extract`: one chat completion, at most 60 s, not retried | LLM endpoint |
| metrics (`internal/metrics`) | counters, a gauge | set and incremented in passing | |
| API and worker processes (`cmd/api`, `main` of `cmd/worker`) | how far they have started; requests under way | connect, migrate, serve, graceful shutdown | all of the above |

How they interact. A POST handler inserts a row (`queued`) and then pushes a
payload; these are two calls to two servers with nothing that ties them. A
worker pops the payload, claims the row (`queued` to `processing`) with a
conditional UPDATE, executes, and writes the outcome with an unconditional
UPDATE. A DELETE handler runs a conditional UPDATE and, if it matched nothing, a
SELECT. Nothing is ever re-queued: there is no reaper, no visibility timeout
and no acknowledgement.

Hard behaviours, in the order of their weight:

1. the hand-over of a job between API, Redis, table and worker, where every
   call can fail, be applied without its caller learning of it, or be cut by a
   crash or a shutdown;
2. races between cancel, claim and completion of one job;
3. shutdown of a worker process with jobs in every stage;
4. the bounds of a crawl (pages, depth, seen set) and what a failed page does;
5. retries, back-off and the rate limits they share;
6. start and end of the processes: servers that are not there yet, two
   processes migrating at once, requests cut by a shutdown or answered too late
   to be written;
7. two-statement reads (`CancelJob`, `ListJobs`) and caches that go stale
   (limiter table, queue depth gauge).

What makes each component correct:

* pipeline: a job is executed at most once; a job a worker executes is nobody
  else's; a cancelled job never runs and a terminal row never changes; a job
  gets stuck only through a failure or a shutdown; without them every accepted
  job finishes; `Stop` returns.
* crawler: pages are same-host, distinct, found at their shortest link
  distance, within both bounds, and none within them is missed.
* retry and rate limiting: at most `max_retries` attempts, the last error is
  reported, no more scrapes of a host admitted than its bucket allows.
* scraper: redirects end, every hop is checked, at most two renders at once and
  a waiting one gives up with its context.
* listing: who reads a list that only grows to its end has seen every job that
  was in it at the start, and a page has the jobs its total says it has.
* client rate limiter: no address is admitted faster than its bucket allows
  between two clean-ups.
* validation and options: a job is executed exactly as its accepted body asked.
* extraction: the notes are those of the stored pages, and the LLM is asked once
  per page that has Markdown.
* processes: an answer and an exit code say what happened; everything that was
  started comes to rest.

The hazards, each at its line and with the properties that cover it, are in
`PROJECT.json`.

## 2. Plan

| # | module | kind | status |
|---|---|---|---|
| 1 | `JobsTable` | operators: a row and what each statement does to it | done |
| 2 | `ScrapeOutcome` | operators: what an execution returns (contract between 3 and 6, 7) | done |
| 3 | `JobPipeline` | API handlers, table, queue, workers and processes composed | done |
| 4 | `JobLifecycle` | abstract specification of 3 | done |
| 5 | `JobProperties`, `MCJobPipeline`, `JobPipelineProofs`, `LifecycleProofs` | properties, instances and proofs of 3 | safety and refinement proved |
| 6 | `SiteLinks`, `CrawlBFS`, `MapBFS` | the two crawls, over whatever the pages answer | done |
| 6a | `CrawlProperties`, `MapProperties`, `MCCrawl`, `MCMap`, `CrawlProofs`, `MapProofs` | properties, instances and proofs of 6 | safety and variants proved; an abstract discovery both implement: planned |
| 7 | `ScrapeWorkers`, `ScrapeProperties`, `MCScrape`, `ScrapeProofs` | the workers of one process in the host limiter, `executeWithRetry` and `ScrapePage` | safety and a variant proved |
| 8 | `IPRateLimiter` | the API's token buckets, their table and its cleanup | safety proved, in 9 |
| 9 | `JobListing`, `ListingProperties`, `MCListing`, `ListingProofs` | listing clients composed with 8: counting and paging while the table changes | safety proved |
| 10 | `JobOptions` | operators: the way of the options from the request body to the execution | done |
| 11 | `Startup` | connect, migrate, dial and listen, by several processes at once | done |
| 12 | `ApiServer`, `ApiProperties`, `MCApi`, `ApiProofs` | 10 and 11 composed with `acceptJob`, `HandleExtract`, `HandleHealth` and `Shutdown` | safety proved |

Order: the pipeline first, because every other part runs inside one of its
steps and its failures are the ones no test of the repository reaches. Modules
6 and 7 open one step of the pipeline (`Execute`), and their results must lie in
the sets of `ScrapeOutcome`: `OutcomeAgreed` is that obligation for the two
crawls, the last conjunct of `ReturnTruthful` for a scrape. Proved so far: every
safety and action property the runs check, with the inductive invariants they rest
on, the refinement of `JobLifecycle`, and variants for the loops of the crawler and
of the scraping workers. Next: an abstract discovery that `CrawlBFS` and `MapBFS` both
implement, and a variant for the pipeline.
No module that is proved about uses RECURSIVE.

## 3. The pipeline

### State

| variable | stands for |
|---|---|
| `rows` | the jobs table; a row is reduced to status, result (none, partial, full), error (none, cancelled, failure), retries_used and whether completed_at is set |
| `queue` | the Redis list, the next element to pop first |
| `accept` | how far `acceptJob` is for a job's request: idle, created (row inserted), enqueued (payload pushed), accepted (202 sent), rejected (500 sent), dropped (handler died) |
| `del`, `reply` | a DELETE handler between its UPDATE and its SELECT, and its last answer |
| `proc` | a worker process: up, stopping (context cancelled), down |
| `pc`, `held`, `out` | where a worker goroutine is, the job in its hands, what its execution returned |
| `runs` | history: how often a job's execution was started |
| `faults`, `stops` | how much of the bounds `MaxFaults` and `MaxStops` is spent |

### Actions

| action | code |
|---|---|
| `CreateJob`, `Enqueue`, `Respond` | `acceptJob`, one step per call |
| `DeleteUpdate`, `DeleteSelect` | `HandleDeleteJob` and the two statements of `CancelJob` |
| `ApiCrash` | the API process ends; all handlers between two calls are gone |
| `CheckCtx`, `Dequeue`, `DequeueEmpty`, `DequeueError` | the loop of `work` |
| `Claim`, `RateWait`, `Execute`, `Persist`, `PanicOnNilResult` | `processJob` with `handleJobResult` |
| `Stop`, `StopDone`, `Restart`, `Crash` | SIGTERM, `workerPool.Stop`, the orchestrator, and the process dying |

Every call has four ways to end: it works; it fails without effect; it is
applied and the caller sees an error; and, for LPUSH, it is applied twice,
because go-redis repeats a command whose reply it lost. The last three are drawn
from `MaxFaults`. A call made under a cancelled context fails for free. BRPOP is
the exception: go-redis does not interrupt it when the context is cancelled, so
a stopping worker can still pop.

What is abstracted: URLs, extract lists, payload bytes and results (only their
presence matters here); time (the 5 s pop timeout may happen whenever the list is
empty); the body of an execution, which is one step that returns any member of
`Outcomes`; metrics and logs. `max_retries` is a constant per job because
`applyJobOptions` fixes it before the run. `GetJob` and `ListJobs` change nothing;
what a poll shows is the operator `PollReply`. Redis itself is taken to be
durable, which the documentation asks for (AOF).

### Properties

| property | hazard it is aimed at |
|---|---|
| `OneOwner`, `AtMostOneExecution` | duplicate payloads, crashes and lost replies |
| `OwnedIsProcessing` | a DELETE or another worker taking a job away while it runs; also shows that `cancelCheck` cannot fire |
| `CancelConfirmed` | cancel racing the claim, also before the payload is pushed |
| `ConflictTruthful` | the status may move between CancelJob's two statements |
| `PollConsistent`, `TerminalFrozen` | `UpdateJob` writes whatever row it finds |
| `StrandedOnlyByFailure` | jobs nobody will ever move on |
| `Lifecycle` | the pipeline implements `JobLifecycle` |
| `AcceptedJobFinishes`, `AcceptedJobSettles`, `StopReturns` | liveness |

`JobLifecycle` is the promise without the machinery: six phases and an executor
per job. The mapping (`PhaseOf`, `ExecutorOf` in `JobProperties`) reads the phase
off the row and the executor off the workers' hands.

## 4. The crawler

`CrawlBFS` and `MapBFS` model one call of the function of that name, from its
entry to its return. The call is sequential, but the world is not: the
context it was given can be cancelled (`Cancel`, the worker's `Stop`) and its job
can be revoked (`Revoke`, what `cancelCheck` looks for) before, during and after
every wait, fetch and link, so each of these is a step.

| variable | stands for |
|---|---|
| `pc` | where the call is: head of the loop, `rate.Wait`, `ScrapePage`, the loop over the links, returned |
| `queue`, `seen`, `item` | the locals of that name |
| `pages`, `skipped` | `out.Pages` and the counter behind `pages_skipped` (crawl) |
| `urls`, `fetched` | `urls` (map); `fetched` is history: the pages it fetched, which it does not report |
| `links` | what the loop over `page.Links` has still to see |
| `ctx`, `revoked` | the context, and whether the row has left `processing` |
| `ret` | the pair that was returned, as an outcome of `ScrapeOutcome` |

| action | code (crawl; the map's is the same loop further down) |
|---|---|
| `Init` | defaults, the seed seen and queued (crawl.go:51-73) |
| `LeaveLoop`, `TakeNext` | the loop condition, the two checks and the pop (75-84); a map drops an item of the last level here |
| `Wait` | `rate.Wait`, whose error ends the call with a result and an error (86-90) |
| `FetchFails`, `FetchWorks` | `ScrapePage` and what is recorded of it (92-118) |
| `FollowLink`, `NoLinksLeft` | one iteration over `page.Links` (119-133), and its end; a full map ends it too |

What a page answers is chosen when it is fetched, from `PageLists`: since no URL
is fetched twice, the site is then any link graph over the given pages, one that
changes meanwhile included. `SiteLinks` keeps what links are made of:
a raw link may have a fragment, belong to another host or not parse at all;
`Norm` is `NormalizeURL` followed by the `url.Parse` after it and is any function
from raw links to URLs, so that two spellings can mean one page and links that fail
to parse are skipped. `AnchorsOf` is the rule that `ScrapePage` extracts links
only for the extract types `links` and `all`.

Left out: what else a page record carries (text, HTML, status, the truncated
flag); the error branch for a seed that does not parse, which the request
validator has parsed before; and a limiter that refuses although the context is
live, which takes `SCRAPER_RATE_LIMIT=0`. `cancelCheck`
answers false when `GetJob` fails, so a revoked crawl may go on, and the
pipeline's `OwnedIsProcessing` shows that nothing revokes a running job;
`MayRevoke` lets the model check that the function would cope.

| property | hazard it is aimed at |
|---|---|
| `Bounded`, `UrlsBoundedAndDistinct` | off-by-one in page, URL and depth bounds that are tested in several places; failed pages escaping the count |
| `EachPageOnce` | pages of other hosts; the same page linked twice, under two spellings, from itself, or linked again after it failed |
| `DepthIsDistance`, `LevelByLevel`, `FetchedLevelByLevel` | a page found first by a detour: wrong depth, links not followed, near pages cut off by `max_pages` |
| `NothingMissed`, `MapComplete` | a link lost among links that are skipped, or a loop left too early |
| `OutcomeAgreed` | what the worker may assume of the result (no panic on a nil result) |
| `CancelStops` | work that goes on after the shutdown began |
| `Terminates` | cycles of links |

A page whose fetch fails is expanded by nobody: its links do not count in any of
these. When the seed itself fails, the call still returns a result and no error,
so the job ends `completed` with one page that failed (crawl) or with the seed as
its only URL (map).

## 5. The scraping workers

`ScrapeWorkers` models what the goroutines of one process share while they
scrape: the table of limiters, the browser semaphore and the pool's context. Each
goes through `processJob`'s scrape branch: a wait for the host's limiter, then the
attempts of `executeWithRetry`, each a `ScrapePage`. A page of a crawl takes the
same way with a single attempt.

| variable | stands for |
|---|---|
| `pc`, `req` | where a worker is; its URL's host, `max_retries`, `render_js` and `follow_redirects` |
| `made` | what each attempt returned; its length is the loop variable `attempt` |
| `via` | `len(via)` of the current chain of redirects |
| `cause` | the last error: `ErrInvalidURL` or `ErrPrivateIP` (refused), `ErrTooManyRedirects` (redirects), any other |
| `ret` | what `executeWithRetry` returned |
| `limiters`, `due` | `perDomainRateLimiter.limiters`, reduced to tokens (negative when reserved in advance), and how long each worker still has to wait |
| `sem` | how full the channel `BrowserFetcher.sem` is |
| `chrome` | `BrowserAvailable`, found out once per process |
| `ctx` | the pool's context |
| `load` | history: a host's admissions, one forgotten per tick |

| action | code |
|---|---|
| `Start`, `Tick`, `Admitted`, `LimitCut` | `perDomainRateLimiter.Wait` (main.go:46-56) and what `processJob` does after it |
| `EndAttempt`, `BackoffOver`, `BackoffCut`, `HandOver` | `executeWithRetry` (207-228) |
| `URLRefused`, `LookupFails`, `ResolveWorks`, `ParseFails`, `ParseWorks` | `ScrapePage`, `resolveAndCheckURL` |
| `HttpWorks`, `HttpFails`, `Redirected`, `RedirectRefused` | `HTTPFetcher.Fetch`, `newScrapeClient` |
| `NoBrowser`, `TakeSlot`, `SlotCut`, `RenderWorks`, `RenderFails` | `BrowserFetcher.Fetch` |

A tick is the time in which the limiter earns one token (half a second by
default); fractions of tokens are not counted. A back-off or a time limit may end
at any tick, since nothing claimed here depends on how long it is. The reservation
scheme is that of `golang.org/x/time/rate`. `SCRAPER_RATE_LIMIT=0`, with which
every wait fails, is excluded by `WorkersAssumption`.

| property | hazard it is aimed at |
|---|---|
| `NoSlotLeaked` | one of the many ways out of a rendering that keeps its slot, or gives back one it never had |
| `ReturnTruthful` | which attempt's result a job gets, when attempts, back-offs and a cancellation interleave |
| `AdmissionsBounded` | two workers making two limiters for one host |
| `EveryScrapeReturns` | waiting for a slot has no time limit of its own; chains of redirects and attempts |

`ReturnTruthful` lets a scrape end early when its URL was refused, as the
documentation has it, but does not ask it to: that refused URLs are not retried is
`RefusedNotRetried`, which the code violates (finding 4).

`AdmissionsBounded` counts admissions when the limiter grants them, so it holds
however late the goroutine runs. It says nothing of requests: a scrape is
admitted once, and its retries and redirects pass no limiter (section 9).

## 6. Lists and the client rate limiter

`IPRateLimiter` models the middleware, `JobListing` extends it with clients that
read `GET /jobs` page by page while other requests and workers change the table.
The state of the limiter:

| variable | stands for |
|---|---|
| `at` | a client's request: none, holding the limiter it looked up, inside its handler |
| `visitors` | the limiter table, from address to a place in memory |
| `tokens` | what each limiter has left; one token is a tick |
| `held` | the limiter a request has looked up and not used yet |
| `current`, `recent` | history: who holds a limiter of the present table, and how many requests of an address it admitted (one forgotten per tick) |

Of the listing:

| variable | stands for |
|---|---|
| `status` | the status column of each job; jobs are numbered by `created_at` |
| `walk` | where a client is in its list: filter, limit, pages read, the total counted, and (history) the jobs of the list at the start it has not seen |

| action | code |
|---|---|
| `GetLimiter` | `getLimiter`, under the mutex |
| `Admit`, `Refuse` | `Allow` and the two ways on from it |
| `Cleanup`, `Refill` | `cleanupLoop`; the time that `rate.Limiter` reads |
| `Insert`, `Claim`, `Cancel`, `Finish` | the statements of the pipeline, reduced to `status` |
| `Count`, `Select`, `ListFails` | `HandleListJobs` with the two statements of `ListJobs` |
| `BeginWalk`, `Ask`, `EndWalk` | a client: it asks for the next page until one is shorter than the limit the reply names, and again for a page that was refused (429) or failed (500) |

A row becomes visible when its INSERT commits, in any order of `created_at`. Two
jobs with the same `created_at` (microseconds) are excluded: the query has no
second sort key, and PostgreSQL may order them anew each time.

| property | hazard it is aimed at |
|---|---|
| `ClientRateBounded` | two requests of an address that look its limiter up at once and compete for its tokens |
| `WalkMissesNothing` | OFFSET paging over a table that changes between the pages |
| `PageAsTotalSays` | statements between the COUNT and the SELECT of a page |

`WalkMissesNothing` and `PageAsTotalSays` are claimed of the list of all jobs and of
the two terminal statuses, which jobs enter and never leave. Jobs do leave
`queued` and `processing`, and a client that pages through those may miss jobs that
were there all along. A client that trusts `total` instead of reading to a short
page may miss some too: jobs inserted after the COUNT push others off the page.
`ClientRateBounded` holds between clean-ups and of the limiters in the present table. It
covers neither the burst that every client has again after a clean-up, whether its
entry was stale or not, nor the requests that still hold a limiter of an
earlier table: these two hazards are listed in `PROJECT.json` without a property.

## 7. The API process

`JobOptions` holds no state. It follows a request's options step by step: the
validator's bounds (`Valid`), what each handler fills in (`HandlerOptions`,
`HandlerExtract`), the copy into the row (`requestToJobOptions`), the copy into the
payload (`toPayloadOptions`), JSON and back (`Marshal`, `Unmarshal`), and what
`applyJobOptions`, `CrawlBFS` and `MapBFS` make of them (`Execution`). A nil
pointer is `Unset`. `Intended`, in `ApiProperties`, says the same in one step, from
the tables of the documentation, and `OptionsArrive` compares the two.

`Startup` lets any number of processes connect (for up to `ConnectDeadline`),
apply the schema, connect to Redis and, for the API, listen. `CREATE TABLE IF NOT
EXISTS` looks in the catalog first and takes part in the unique index of `pg_type`
only when it creates; of several sessions that found nothing, the first to commit
wins and the others get an error. That is PostgreSQL's behaviour, modelled as two
steps (`FindSchema`, `CreateSchema`).

`ApiServer` adds the requests. A request starts with its connection: `OpenConnection`
while the listener is open, then a handler's first step when its header is read, or
`Disconnect`. `Submits` go through `acceptJob`, one step per call; `Queries` ask for an
extraction or for health.

What becomes of a job after its answer is in this module too, because the answer is
a promise about it. The payload is in the list, popped by a process, claimed, or
gone (`place`, `taker`), and every step on that way can fail: Redis loses the list or
the reply (`PopLost`), the claim is refused because the job was deleted, or fails
and may have been applied (`Claim`), the final UPDATE fails (`Persist`), the wait for
the limiter is cut (`GiveUp`), the worker panics on a job without attempts
(`Panic`), is killed, or stops with its context cancelled, under which each of its calls to
PostgreSQL fails (`StopWorker`, `WorkerStopped`). `Cancel` is the UPDATE of a DELETE. The
payload pushed twice, the lost reply of a single call while its server stays up, the DELETE's
own answer and the retries are with `JobPipeline`.

A shutdown closes the listener, but `http.Server.Shutdown` spares a connection that
was accepted before and has not sent a request for its first 5 s (`FreshLimit`): such
a request still starts while the process drains, and has so much less until it is cut.
A connection that was kept alive between requests is closed at once, or serves a
request that had begun; in both cases it is like a fresh one.

| variable | stands for |
|---|---|
| `phase`, `clock` | how far a process has started, or how it ended; how long it has been connecting or draining |
| `schema`, `dbUp`, `redisUp` | the table exists; the servers answer |
| `outage`, `faults` | history: a server was away or the port taken; what is spent of `MaxFaults` |
| `at`, `age`, `gone` | whether a request's connection is fresh, or where it is in its handler; for how long; whether its client left (which cancels its context) |
| `code`, `heard` | the handler's answer, and whether it was written in time to a client that was there |
| `body`, `status`, `result`, `ran` | a submission: what was sent, its row, what it was executed with |
| `payload`, `place`, `taker` | its payload, where that is, and the process that popped it |
| `target`, `job`, `notes`, `asked`, `spent` | an extraction: the job, the result it loaded, the answer so far, the LLM calls and the time of the last; `notes` also gathers the two pings |

| action | code |
|---|---|
| `Connect`, `FindSchema`, `CreateSchema`, `MigrateFails`, `Dial`, `Listen`, `PortTaken` | `store.New`, `Migrate`, `queue.New`, `ListenAndServe`, in the order of both `main`s |
| `OpenConnection`, `Disconnect` | `http.Server`: a connection accepted, and one closed without a request |
| `Submit`, `CreateJob`, `Enqueue`, `Accept` | the handlers of the three endpoints and `acceptJob` |
| `Cancel` | the UPDATE of `CancelJob` |
| `Pop`, `PopLost`, `Claim`, `Persist` with `Settle`, `GiveUp`, `Panic`, `StopWorker`, `WorkerStopped` | `work`, `processJob`, `handleJobResult` and `workerPool.Stop` |
| `AskExtract`, `LoadRefused`, `Load`, `SkipPage`, `CallLlm`, `LlmAnswers`, `LlmTimesOut`, `AllPages` | `HandleExtract`, `Client.Extract` |
| `AskHealth`, `PingStore`, `PingQueue` | `HandleHealth` |
| `Signal`, `ShutdownDone`, `ShutdownForced` | the end of `main` in `cmd/api` |
| `ClientLeaves`, `Killed`, `ServerFails`, `ServerReturns`, `Tick` | the world |

A call fails when its server is away or its context is cancelled, and may have been
applied all the same. A call to PostgreSQL or Redis has no time limit (the
handlers set none), so any time may pass before it returns; an LLM call
ends with its 60 s, `Shutdown` with its 30 s, a fresh connection under `Shutdown`
with its 5 s, connecting with its minute, and `Tick` does not pass these deadlines.

| property | hazard it is aimed at |
|---|---|
| `OptionsArrive` | an option lost between four structs, a zero taken for "not given", caps passed by |
| `ExitsExplained` | a shutdown that cuts requests before they had its limit, less what a fresh connection was spared; all processes giving up over the first migration |
| `AnswersTruthful` | a 202 without a row or a push, a 400 with one; a job left behind that neither a handler, a 500, an outage nor a worker that stopped accounts for, with DELETE, refused and failed claims in between |
| `ExtractionTruthful` | notes shifted against the pages, calls for pages without Markdown, answers of calls that timed out |
| `Settles` | an LLM service that never answers, a server that never comes back, requests that outlast the shutdown |

## 8. Runs

| run | instance | shows |
|---|---|---|
| `pipeline_safety` | a scrape and a crawl, 2 workers in 2 processes, 1 DELETE handler, 1 fault, 1 SIGTERM | all safety and action properties, the refinement of `JobLifecycle` under faults and cancellations, and the inductive invariant of the proofs |
| `pipeline_faults` | a map and a scrape without attempts, 2 workers in 1 process, 2 faults, 1 SIGTERM | every accepted job finishes or is stranded (which takes a failure, `StrandedOnlyByFailure`); `Stop` returns |
| `crawl_bfs` | 4 pages of the host, 1 page of another, a second spelling, a link that does not parse; `max_pages` 4, `max_depth` 2 | all properties of the crawl, and the inductive invariant of the proofs |
| `map_bfs` | the same with 5 pages; `max_urls` 4, `max_depth` 2 | all properties of the map |
| `scrape_workers` | 2 workers, 2 hosts, a plain, a rendered and a never attempted request, `Burst` 2, 1 browser slot, at most 2 requests per chain | all properties of the scraping workers |
| `job_listing` | 3 jobs, a client that lists with a limit of 2 and (after clamping 3) of 1, another client of the same address, a burst of 1 | all properties of the lists and the client rate limiter |
| `api_process` | the API and a worker, 1 submission out of 6 bodies, which may be deleted, 1 extraction or health request, 1 fault | all safety properties of the API process |
| `api_settles` | the same with 1 body and shorter limits | `Settles` |
| `lost_on_shutdown` | 1 job, 1 worker, 1 SIGTERM, no fault | violation: an accepted job is lost (finding 1) |
| `zero_retries` | a crawl and a scrape with max_retries 0, no fault | violation: the job never finishes (finding 2) |
| `five_redirects` | 1 worker, redirect limit 5 as in the source | violation: the fifth redirect is refused (finding 3) |
| `refused_urls` | 1 worker, 1 plain request with 2 attempts | violation: a refused URL is tried again (finding 4) |

Bounds and why they suffice. Two jobs and two workers are what a race needs:
one worker can hold a payload while another claims, finishes or crashes, and
processes of their own let one stop while the other goes on; the shared process
of the liveness runs lets one worker's panic take the other's job along. One
fault suffices for each single cause (a duplicate push, a lost reply of each
call, a crash at each point) and `pipeline_faults` combines two.
The safety properties are also proved for every bound. Jobs have different kinds, so no
symmetry is used. Deadlock is checked in all pipeline runs (an idle worker
polls) and not in the crawl and map runs, where the call returns.

For the crawls two levels are where depth and order can go wrong (a page with two
parents, one of them nearer; a link back; a detour). `max_pages` 4 equals the
number of pages of the host, so that a crawl can also be complete with room left,
when a page is never linked or lies too deep, and the failing page in between takes
its place in the bound; `max_urls` 4 is one less than the pages, so that the map is
cut in the middle of a page's links. The lists of links contain every skipped kind
before, between and after the followed ones.

In `scrape_workers` two workers compete for one slot and one limiter. A burst of 2
is used up, and tokens are reserved ahead, as soon as a worker starts a third
scrape within a tick. Two attempts have a back-off between them and a last attempt
after it; two requests per chain have a redirect that is followed and one that
is refused. Here the idle workers of a cancelled process are no deadlock: time
goes on.

In `job_listing` three jobs and pages of one or two make a list of up to four
pages, with jobs that enter, change or become visible late in front of, on and
behind the page being read. One address with two clients and a burst of 1 makes
them compete for one token, with a limiter of an earlier table still held.

The API runs keep the (weak) order of the source's time limits and not their proportions
(5, 30, 60 and 60 s): in `api_process` a fresh connection is spared 1 tick, and the
shutdown, write and LLM limits are 2, in `api_settles` 0, 1, 2 and 2, which keeps the
behaviour graph of the liveness check small. A crawl stores at most 2 pages (`PageBound`; 1 in
`api_settles`). Two pages make an extraction of several calls, of which the first
alone can use up the write timeout. The bodies have most options at a bound and
others unset, and one value out of bounds per kind of check (the theorem
`ExecutedAsIntended` covers every body); two processes are the least
that race for the schema, and the least that let one end while the other goes on. One
fault reaches each failing branch on its own; the signal, the worker's stop, DELETEs and
slow calls come for free. All requests come once, so the system can stop: deadlock is
not checked.

Fairness (`Fairness` in `JobPipeline`): weak fairness of each worker's next
step (a goroutine with something to do is scheduled, and every call returns
because pgx and go-redis have timeouts or the caller's context), of a handler
that was started, of the process exit after `Stop`, and of the restart, which is
the orchestrator's (an ECS service with a desired count). Nothing makes clients
send requests or operators send signals. In `CrawlBFS` and `MapBFS` it is weak
fairness of the call's own steps: the goroutine runs, and each wait and fetch ends,
the fetch because of its client timeout; cancellation and revocation never
have to happen. In `ScrapeWorkers` time passes and each worker's step is weakly
fair, and `TakeSlot` is strongly fair, because senders blocked on a Go channel are
served in their order. In `ApiServer` a process that starts, a
handler and `Shutdown` are weakly fair, because every call to a server returns, with
an error at the latest when the connection breaks; so is the end of a connection that
stays silent (`ReadHeaderTimeout`, `Shutdown`); and time passes. A client, a
signal, the workers and the LLM service owe nothing.

## 9. Findings

1. A job popped just before a SIGTERM is lost without any failure, against
   "Every job must be processed at least once"
   (`docs/explanation/architecture.md:28`).
2. `max_retries: 0` is accepted and crashes the worker process; its job, and
   the jobs of the process's other workers, stay `processing`.
3. Four redirects are followed, not the five of `docs/explanation/job-lifecycle.md:98`:
   `len(via)` counts the first request too.
4. Refused and invalid URLs are retried like anything else, against
   `docs/explanation/job-lifecycle.md:120`: `executeWithRetry` does not look at the error.

Seen while modelling and not turned into runs:

* `docs/how-to/crawl.md:33` says a crawl can be cancelled while processing; the API
  answers 409, and `OwnedIsProcessing` shows that `cancelCheck` can never fire.
* A crawl with extract `["markdown"]` (the default of POST /crawl) fetches the seed
  and nothing else, because `ScrapePage` fills `Links` only when links were asked
  for (`AnchorsOf`); `docs/how-to/run.md:80` shows this very request as a "multi-page
  same-origin crawl".
* Retries pass no limiter, so a host can get more requests than the 2 per second of
  `docs/explanation/job-lifecycle.md:83`: three attempts of one scrape, 100 ms and
  200 ms apart.
* `retries_used` is 0 or 1, never a count (`calculateRetries`).

Of the API process: `docs/how-to/llm-extract.md:44` promises one completion per page,
but the calls are made one after the other with 60 s each and
`cmd/api/main.go:97` drops whatever is written after 60 s, so one timeout, or a few slow
pages, and the client gets nothing (the handler goes on to the end, and a 502 after
a timeout is never seen). `README.md:83` ("Migrations run automatically") and
`migrate.go:32` ("Idempotent") hold for one process at a time: on an empty database the
API and the worker may race, the loser exits with code 1, and `docker-compose.yml` has
no restart policy. A client that hangs up between `CreateJob` and `Enqueue` leaves a
queued row without a payload. The worker starts its goroutines before it asks for
signals (`cmd/worker/main.go:425`, `438`), so an early SIGTERM kills jobs without
`Stop`. `max_retries` is ignored by crawls and maps, which try each page once.
`jobToResponse` compares `UpdatedAt` with itself, so a poll never shows `updated_at`.

## 10. Proofs

`JobPipelineProofs` proves, for every set of jobs, workers, processes and DELETE
handlers and all bounds, from the named assumptions of `JobPipeline` only:

* `TypeCorrect`: `Spec => []TypeOK`, by one lemma per group of actions;
* `Inductive`: `Spec => []IInv`. The safety properties are not inductive: that a
  job runs at most once needs that a job waiting for the limiter has not run
  (`Progress`), that its row still says processing (`OwnedIsProcessing`), that
  nobody else owns it (`OneOwner`), that a worker holds a job exactly from pop to
  return (`Hands`), and that nothing survives in a process that is down
  (`Exited`). A pending DELETE must remember that the job it saw had left the
  queue (`PendingDeletes`) for its answer to be true. `IInv` is the conjunction;
  there is one lemma per action, or per group of actions with the same effect,
  and `Frame`, `HandsStep` and `GiveUpInv` carry what a step leaves alone;
* `ExclusiveClaim`, `OwnedRowIsProcessing`, `ExecutedAtMostOnce`, `CancelIsFinal`,
  `ConflictIsTruthful`, `PollIsConsistent`: the safety properties, from `IInv`;
* `TerminalIsFrozen`: `Spec => TerminalFrozen`, from `RowWriters`, which lists the
  only steps that write a row and the status they find.

`LifecycleProofs` proves, from the same assumptions:

* `LifecycleImplemented`: `Spec => Lifecycle`, the refinement of `JobLifecycle` with
  the phase read off the row and the executor off the workers' hands. `StepKinds`
  reduces the steps of the pipeline to five by what they do to the rows and to the
  hands: hands are emptied, or a row is inserted, cancelled, claimed by a worker, or
  settled by the worker that owns it. Each of the five is a step of the abstract
  specification or none (`EmptiedRefines` to `SettledRefines`). Both lemmas use
  `IInv`: that an owner is the only one (`OneOwner`) makes the executor well defined, and
  that its row still says processing (`OwnedIsProcessing`) lets it settle the job;
* `OnlyFailuresStrand`: `Spec => StrandedOnlyByFailure`, by following whoever is to move
  a job on. A handler that has written the row pushes the payload unless something fails
  (`CreatedMovesOn`); a payload that leaves Redis is in the hands of a worker
  (`PoppedIsHeld`); the steps of others leave a worker its job unless its process dies
  (`OthersKeepHands`); it drops a queued job it is about to claim (`AwaitedIsClaimed`),
  or leaves a job processing (`OwnedIsFinished`), only in its shutdown; and a row that
  becomes queued or processing has a handler or a worker to move it on (`NewlyMovable`).

`CrawlProofs` proves, for every site (pages, links, spellings, lists of links)
and all options, from `SiteAssumption` and `OptionsAssumption` only:

* `CrawlInductive`: `Spec => []IInv`. The pages reported, the item in hand and the
  frontier form one sequence, the trail. `TakeNext` and the two fetch actions only
  move the borders between its three parts (lemmas `SameTrail` and `PagesKept`),
  and `FollowLink` appends to it, so what holds of the trail is settled once:
  it lists what was seen, each URL once, by non-decreasing depth, and reaches at
  most one level below the last page (`TrailInOrder`, the breadth-first
  invariant); each place has an expanded parent one level up (`TrailHasParents`); no
  expanded page makes a place nearer (`NoShortcut`); and every link of an expanded
  page is off the host, seen or still to come (`LinksAccounted`). `Room` is the
  bookkeeping of the page bound, the skipped pages and the returned pair;
* `CrawlBounded`, `CrawlFetchesOnce`, `CrawlIsBreadthFirst`, `CrawlDepthIsDistance`,
  `CrawlMissesNothing`, `CrawlOutcomeAgrees`: the safety properties, from `IInv`;
* `CrawlStopsOnCancel`: `Spec => CancelStops`, from `IInv`;
* `CrawlWindsDown`: `Spec => WindsDown`, the part of termination that is no liveness:
  each step of the call lowers the rank (pages still allowed, way to the next page, links
  left), a triple of natural numbers ordered lexicographically, and nothing else
  changes it. So no site makes the call take infinitely many steps. The step that is left
  is that a call which has not returned can take one and does (fairness), which
  `Terminates` checks.

`MapProofs` proves the same of `MapBFS`, for every site and all options:

* `MapInductive`: `Spec => []IInv`. A map reports URLs when they are found and not pages,
  and drops the items of the last level, so the trail of the crawl does not carry
  over. The item of the last iteration, fetched or dropped, separates what was fetched
  from the frontier (`LevelsInOrder`); everything fetched or waiting is the seed or was
  found on the first fetched page that links to it (`AllFound`); the links of every page
  fetched are seen or still to come (`LinksAccounted`); and as long as there is room each
  URL seen was fetched, is in hand, waits, or was dropped on the last level
  (`NoneForgotten`). The last two hold only below the bound, since the URL that fills
  the result never enters the frontier;
* `MapIsBounded`, `MapIsBreadthFirst`, `MapMissesNothing`, `MapOutcomeAgrees`: the safety
  properties, from `IInv`; `MapStopsOnCancel`: `Spec => CancelStops`;
* `MapWindsDown`: the variant of the map, whose rank has the length of the frontier
  after the URLs still allowed, because an item that is dropped yields none.

`ScrapeProofs` proves, for every set of hosts and requests, any finite set of
workers, every burst, number of slots and limit of redirects, from
`WorkersAssumption` only:

* `ScrapeInductive`: `Spec => []IInv`. `ReturnTruthful` needs that a worker between
  two attempts has failed in all of them and has some left (`Progress`).
  `AdmissionsBounded` needs the relation of the three things that move with time
  (`Reserved`): a limiter with tokens left accounts for a host's recent
  admissions (`AdmissionsCovered`), whoever waits has a token reserved for it
  (`WaitsReserved`), and no two workers wait for the same one (`WaitsDiffer`), so that a
  tick admits one worker of a host at most, and only while its limiter is in debt
  (lemma `OneAdmitted`);
* `SlotsSafe`, `ReturnSafe`, `RateSafe`: the safety properties, from `IInv`, `RateSafe` of
  admissions only;
* `ScrapeWindsDown`: `Spec => WindsDown`. Each step of a busy worker lowers its rank
  (attempts left, way through the attempt, redirects left), and no step of another
  worker, of the clock or of `Stop` raises it. That time admits the worker and that a
  slot comes free is left to `EveryScrapeReturns`.

`ListingProofs` proves, for any finite sets of clients, addresses, buckets and jobs,
every burst, limit and page size, from `LimiterAssumption` and `ListingAssumption` only:

* `ListingInductive`: `Spec => []IInv`, in two halves. Of the limiter: what an address was
  lately granted is missing from the limiter in the table (`TokensAccountForGrants`),
  which needs that a request whose lookup was in the present table holds that very
  limiter (`HeldFromTheTable`) and that a new limiter is nobody else's. The latter is a
  count: a client in want of a limiter holds none and its address has none, so fewer
  buckets are referenced than there are (`BucketToBeHad`). Of the lists: the jobs a
  walk has not seen are still listed, behind the pages it has read (`UnseenIsBehind`), and
  there are at least as many as were counted (`TotalStillThere`). Statements keep
  both because growing lists only push jobs back (`ListsGrow`, `NothingComesForward`);
* `RateIsBounded`, `WalkIsComplete`: the safety properties, from `IInv`;
* `PageAgreesWithTotal`: `Spec => PageAsTotalSays`. What a page holds is settled by
  `PageSize`, for every finite set of numbers: the number of greater elements is a bijection
  to `0..n - 1` (`PlacesAreTaken`), so LIMIT and OFFSET cut exactly an interval of it.

`ApiProofs` proves, for every set of processes, requests and bodies and every
limit, from `StartupAssumption`, `DefaultsAssumption` and `ApiAssumption` (the
last holds that `WriteTimeout` is not above `LlmTimeout`; both are 60 s in the code):

* `ExecutedAsIntended`, a theorem about operators: `Execution(JobPayload(b)) =
  Intended(b)` for every body that validates. `OptionsTravel` is the round trip
  through copies and JSON, `Defaults` what an endpoint fills in; the rest shows
  that the crawls' own defaults (`CrawlLimit`, `CrawlDepth`) never apply to a value
  within the validator's bounds;
* `Inductive`: `Spec => []IInv`. The answers are truthful because a submission's
  place in its handler fixes what there is of its row and payload (`Step`), because the
  payload's place tells who has it, what its row can be and which valid body it was
  made from (`Traced`), and because a payload that is gone with its row unfinished took
  an outage or a worker process that stopped (`Answered`): a refused claim finds a
  row that a DELETE has settled. The exit code of a shutdown needs that whatever it
  waits for is at least as old as the shutdown but for `FreshLimit`, and that
  a connection still fresh was there when it began (`DrainBounded`); the race for the schema, that a process that found it
  taken has another one ahead (`BootsExplained`, `Ahead`). An extraction needs that
  the row it read stays completed and unchanged (`Loaded`, lemma `CompletedStays`),
  that notes and calls keep step with the pages (`Gathered`, by the cardinality
  lemma `Counting`), and that a call's duration is covered by the age of its
  request (`Timed`). `Kinds` lists the kinds of steps, `SubmitFrame` and
  `QueryFrame` what a handler leaves alone. `ApiProperties` defines `IInv` for the
  proof; the runs check the invariants it implies;
* `RequestsExecuted`, `ExitsAreExplained`, `AnswersAreTruthful`,
  `ExtractionIsTruthful`: the safety properties, from `IInv`.

The inductive invariants of the pipeline, the crawl and the scraping workers are also
checked by the runs of these components. Those of the map, the listing and the API
process, and the three variants, were checked on the same instances before they were
proved; their runs check what they imply.

Only model-checked is liveness, which is outside the prover's reach: `AcceptedJobSettles`,
`StopReturns`, `Terminates`, `EveryScrapeReturns` and `Settles`.

## 11. Not modelled

Text and Markdown extraction, prompts, response layout and logging (formatting);
Terraform, Docker and scripts; TLS and DNS. Metrics and
the CloudWatch publisher, which only read; reading the environment, and wiring
routes and middleware, which is straight-line code at the start of `main`.
