--------------------------- MODULE ApiProperties ---------------------------
(***************************************************************************)
(* What the API process promises its clients and its operators.            *)
(***************************************************************************)
EXTENDS ApiServer

\* The tables of README.md and docs/how-to/crawl.md, in one place: what a
\* body asks a worker to do.  They list max_retries for POST /scrape only
\* (README.md:130-143), so a page of a crawl or map is tried once.
Intended(b) ==
    LET o == b.options
        of(scrape, crawl, map) == CASE b.kind = "scrape" -> scrape
                                    [] b.kind = "crawl"  -> crawl
                                    [] OTHER             -> map
    IN  [kind     |-> b.kind,
         timeout  |-> Or(o["TimeoutSeconds"], DefaultTimeout),
         follow   |-> Or(o["FollowRedirects"], TRUE),
         render   |-> Or(o["RenderJS"], FALSE),
         extract  |-> IF b.kind # "map" /\ b.extract # {} THEN b.extract
                      ELSE of({"links"}, {"markdown"}, {"links"}),
         attempts |-> of(Or(o["MaxRetries"], DefaultRetries), 1, 1),
         limit    |-> of(1, Or(o["MaxPages"], 10), Or(o["MaxURLs"], 50)),
         depth    |-> of(0, Or(o["MaxDepth"], 2), Or(o["MaxDepth"], 2))]

\* A worker executes exactly what the accepted body asked for: no option is
\* lost between the four structs and the JSON it passes through, a zero is
\* not taken for "left out", a default is not applied over a given value,
\* and no crawl or map goes beyond the caps of the docs (handlers.go:76-213,
\* 464-477, main.go:134-205, crawl.go:51-59).
OptionsArrive ==
    \A s \in Submits : ran[s] # None =>
        /\ ran[s] = Intended(body[s])
        /\ ran[s].depth \in 0..5
        /\ ran[s].limit \in 1..(IF ran[s].kind = "crawl" THEN 100 ELSE 500)

\* An exit code tells what happened (cmd/api/main.go:108-119).  1 during
\* shutdown means that every request cut had its ShutdownLimit, less the time
\* in which a connection accepted before may still send its first one; and
\* without an outage the processes, racing for the first migration, never
\* all give up.
ExitsExplained ==
    /\ phase[Api] = "forced" =>
          \A r \in Requests : Busy(r) => age[r] + FreshLimit >= ShutdownLimit
    /\ (\A p \in Procs : phase[p] = "failed") => outage

\* Nobody is left to finish the job: its payload is neither in the list nor
\* with a worker that goes on.
OnItsWay(s) ==
    \/ place[s] = "list"
    \/ place[s] \in {"popped", "claimed"} /\ phase[taker[s]] = "running"

Stranded(s) == status[s] \in {"queued", "processing"} /\ ~OnItsWay(s)

Unpushed(s) == place[s] = "none" /\ (Busy(s) \/ code[s] = 500)
Lost(s)     == outage \/ (taker[s] # None /\ phase[taker[s]] # "running")

\* What becomes of a submission can be told from its answer (acceptJob,
\* handlers.go:156-198; processJob, worker/main.go:114-208).  202: there is
\* a row and its payload was pushed.  400: there is neither.  A row that will
\* never be finished belongs to a handler at work or cut by an exit, to a
\* 500, to an outage, or to a worker process that stopped with its payload:
\* neither a DELETE nor a refused claim ever strands a job.
AnswersTruthful ==
    \A s \in Submits :
        /\ code[s] = 202 => status[s] # "absent" /\ place[s] # "none"
        /\ code[s] = 400 => status[s] = "absent" /\ place[s] = "none"
        /\ Stranded(s) => Unpushed(s) \/ Lost(s)

\* An extraction answers for the job as it is stored, though it read the row
\* long before: one note per page in the order of the pages, "no markdown"
\* where and only where there is none, one LLM call for each of the others,
\* and no call at all for a job it did not load.  A 502 that its client gets
\* to see is the service's answer and not a timeout: nobody sees an answer
\* that took a timed out call (handlers.go:353-423, cmd/api/main.go:97,
\* extract.go:71).
ExtractionTruthful ==
    \A e \in Queries :
        /\ job[e] # None => job[e] = result[target[e]] /\ status[target[e]] = "completed"
        /\ job[e] # None /\ code[e] # 0 =>
              /\ Len(notes[e]) = Len(Pages(job[e]))
              /\ \A i \in DOMAIN notes[e] :
                    notes[e][i] = "no markdown" <=> ~Pages(job[e])[i]
              /\ asked[e] = Cardinality({i \in DOMAIN notes[e] : Pages(job[e])[i]})
        /\ job[e] = None => asked[e] = 0
        /\ heard[e] => spent[e] < LlmTimeout

\* Under fairness every start comes to an end, every shutdown ends the
\* process, and every request is answered unless its process ends first: no
\* LLM service that never answers, and no client that never hangs up, can
\* hold a handler or a shutdown for ever (store.go:102, extract.go:71,
\* cmd/api/main.go:112).
AtRest ==
    /\ \A p \in Procs : phase[p] \notin Booting
    /\ phase[Api] # "draining"
    /\ Handling => \A r \in Requests : ~Busy(r)

Settles == []<>AtRest

-----------------------------------------------------------------------------
(***************************************************************************)
(* The inductive invariant behind the four invariants, part by part.       *)
(***************************************************************************)
SubmitPlaces == {"idle", "fresh", "create", "push", "report", "done"}
QueryPlaces  == {"idle", "fresh", "load", "page", "call", "pingdb", "pingredis", "done"}
Codes        == {0, 200, 202, 400, 404, 409, 500, 501, 502, 503}
Notes        == {"no markdown", "extracted", "extract failed", "ok", "degraded"}
Results      == [markdown : BOOLEAN, pages : Seq(BOOLEAN)]

\* Every variable keeps the type its column, field or local has in the code.
BootType ==
    /\ phase \in [Procs -> Phase]
    /\ clock \in [Procs -> Nat]
    /\ schema \in BOOLEAN /\ dbUp \in BOOLEAN /\ redisUp \in BOOLEAN
    /\ outage \in BOOLEAN /\ faults \in Nat

HandlingType ==
    /\ at \in [Requests -> SubmitPlaces \cup QueryPlaces]
    /\ age \in [Requests -> Nat]
    /\ gone \in [Requests -> BOOLEAN]
    /\ code \in [Requests -> Codes]
    /\ heard \in [Requests -> BOOLEAN]

JobsType ==
    /\ body \in [Submits -> Bodies \cup {None}]
    /\ status \in [Submits -> {"absent", "queued", "processing", "completed", "failed"}]
    /\ result \in [Submits -> Results \cup {None}]
    /\ payload \in [Submits -> {JobPayload(b) : b \in Bodies} \cup {None}]
    /\ place \in [Submits -> {"none", "list", "popped", "claimed", "gone"}]
    /\ taker \in [Submits -> Procs \cup {None}]
    /\ ran \in [Submits -> {Execution(JobPayload(b)) : b \in Bodies} \cup {None}]

ReadingType ==
    /\ target \in [Queries -> Submits \cup {None}]
    /\ job \in [Queries -> Results \cup {None}]
    /\ notes \in [Queries -> Seq(Notes)]
    /\ asked \in [Queries -> Nat]
    /\ spent \in [Queries -> Nat]

TypeOK == BootType /\ HandlingType /\ JobsType /\ ReadingType

\* Without an outage a process gives up only because another one has created
\* the schema before it, and that one has got further.
Ahead == \E p \in Procs : phase[p] \notin {"connecting", "migrating", "creating", "failed"}

BootsExplained ==
    ~outage =>
        /\ dbUp /\ redisUp
        /\ \A p \in Procs : phase[p] = "failed" => schema /\ Ahead
        /\ \A p \in Procs : phase[p] = "creating" /\ schema => Ahead

\* A shutdown does not outlast its limit, and whatever it waits for was
\* connected when it began.
DrainBounded ==
    /\ phase[Api] = "draining" =>
          /\ clock[Api] <= ShutdownLimit
          /\ \A r \in Requests : Busy(r) => age[r] + FreshLimit >= clock[Api]
          /\ \A r \in Requests : at[r] = "fresh" =>
                clock[Api] <= FreshLimit /\ clock[Api] <= age[r]
    /\ phase[Api] = "forced" =>
          \A r \in Requests : Busy(r) => age[r] + FreshLimit >= ShutdownLimit

\* Where a submission is in its handler tells what there is of its job.
Step(s) ==
    /\ at[s] \in SubmitPlaces
    /\ at[s] \in {"idle", "fresh", "create"} => status[s] = "absent" /\ place[s] = "none"
    /\ at[s] = "push" => status[s] \in {"queued", "failed"} /\ place[s] = "none"
    /\ at[s] = "report" => status[s] # "absent" /\ place[s] # "none"
    /\ Busy(s) => body[s] \in Bodies /\ Valid(body[s])
    /\ at[s] # "done" => code[s] = 0

\* Where its payload is tells who has it and what its row can be.
Began(p) == phase[p] \in {"running", "stopping"} \cup Exited

Traced(s) ==
    /\ place[s] = "none" <=> payload[s] = None
    /\ payload[s] # None => /\ body[s] \in Bodies /\ Valid(body[s])
                            /\ payload[s] = JobPayload(body[s])
    /\ ran[s] # None => payload[s] # None /\ ran[s] = Execution(payload[s])
    /\ ran[s] # None => status[s] # "queued"
    /\ place[s] = "none" => status[s] \in {"absent", "queued", "failed"}
    /\ place[s] \in {"list", "popped"} => status[s] \in {"queued", "failed"}
    /\ place[s] \in {"none", "list", "popped"} => ran[s] = None
    /\ place[s] = "claimed" => status[s] = "processing" /\ ran[s] # None
    /\ place[s] \in {"none", "list"} => taker[s] = None
    /\ place[s] \in {"popped", "claimed"} => taker[s] # None
    /\ taker[s] # None => Began(taker[s])
    /\ status[s] = "completed" => result[s] # None

Answered(s) ==
    /\ code[s] = 202 => status[s] # "absent" /\ place[s] # "none"
    /\ code[s] = 400 => status[s] = "absent" /\ place[s] = "none"
    /\ status[s] = "queued" /\ place[s] = "none" => at[s] = "push" \/ code[s] = 500
    /\ status[s] \in {"queued", "processing"} /\ place[s] = "gone" => Lost(s)

\* Where a query is in its handler tells what it has gathered.
Place(q) ==
    /\ at[q] \in QueryPlaces
    /\ at[q] # "done" => code[q] = 0 /\ ~heard[q]
    /\ at[q] \in {"idle", "fresh", "load", "pingdb"} => notes[q] = <<>> /\ spent[q] = 0
    /\ at[q] \in {"idle", "fresh", "load", "pingdb", "pingredis"} => job[q] = None
    /\ at[q] \in {"page", "call"} => job[q] # None
    /\ at[q] = "call" => MorePages(q) /\ NextPage(q)

Loaded(q) ==
    /\ job[q] = None => asked[q] = 0
    /\ job[q] # None => /\ target[q] \in Submits
                        /\ status[target[q]] = "completed"
                        /\ job[q] = result[target[q]]

\* The pages noted so far, and those of them the LLM was asked about.
AskedAbout(q) == {i \in 1..Len(notes[q]) : Pages(job[q])[i]}

Gathered(q) ==
    job[q] # None =>
        /\ Len(notes[q]) <= Len(Pages(job[q]))
        /\ at[q] = "done" => Len(notes[q]) = Len(Pages(job[q]))
        /\ \A i \in 1..Len(notes[q]) : notes[q][i] = "no markdown" <=> ~Pages(job[q])[i]
        /\ asked[q] = Cardinality(AskedAbout(q)) + (IF at[q] = "call" THEN 1 ELSE 0)

Timed(q) ==
    /\ Busy(q) => spent[q] <= age[q] \/ age[q] >= WriteTimeout
    /\ heard[q] => spent[q] < LlmTimeout

IInv ==
    /\ TypeOK
    /\ BootsExplained
    /\ DrainBounded
    /\ \A s \in Submits : Step(s) /\ Traced(s) /\ Answered(s)
    /\ \A q \in Queries : Place(q) /\ Loaded(q) /\ Gathered(q) /\ Timed(q)
=============================================================================
