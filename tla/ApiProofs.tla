----------------------------- MODULE ApiProofs -----------------------------
(***************************************************************************)
(* Proofs about the API process, for every set of processes, requests and  *)
(* bodies, and for every limit: an accepted job is executed as its body    *)
(* says, and IInv, the inductive invariant of ApiProperties, is kept by    *)
(* every step.                                                             *)
(***************************************************************************)
EXTENDS ApiProperties, FiniteSetTheorems, SequenceTheorems, TLAPS

-----------------------------------------------------------------------------
(***************************************************************************)
(* The way of the options: a statement about operators alone.              *)
(***************************************************************************)
\* The two copies and the JSON change no field.
LEMMA OptionsTravel ==
    ASSUME NEW b
    PROVE  \A f \in Fields :
              Unmarshal(JobPayload(b).options)[f] = Or(b.options[f], HandlerDefault(b.kind, f))
<1> DEFINE o == HandlerOptions(b.kind, b.options)
<1>1. \A f \in Fields : Unmarshal(Marshal(toPayloadOptions(requestToJobOptions(o))))[f]
                            = toPayloadOptions(requestToJobOptions(o))[f]
  BY DEF Unmarshal, Marshal
<1>2. \A f \in Fields : toPayloadOptions(requestToJobOptions(o))[f] = o[f]
  BY DEF toPayloadOptions, requestToJobOptions
<1>3. \A f \in Fields : o[f] = Or(b.options[f], HandlerDefault(b.kind, f))
  BY DEF HandlerOptions
<1>4. QED BY <1>1, <1>2, <1>3 DEF JobPayload

\* What each endpoint fills in.
LEMMA Defaults ==
    ASSUME NEW kind \in {"scrape", "crawl", "map"}
    PROVE  /\ \A f \in Fields \ {"MaxPages", "MaxURLs", "MaxDepth"} :
                 HandlerDefault(kind, f) = Unset
           /\ HandlerDefault(kind, "MaxDepth") = IF kind = "scrape" THEN Unset ELSE 2
           /\ HandlerDefault(kind, "MaxPages") = IF kind = "crawl" THEN 10 ELSE Unset
           /\ HandlerDefault(kind, "MaxURLs") = IF kind = "map" THEN 50 ELSE Unset
  BY DEF HandlerDefault, Fields

\* A body that passes validation is executed as it was meant, for all options
\* it can hold, and within the caps of the docs.
THEOREM ExecutedAsIntended ==
    ASSUME NEW b, IsRequest(b), Valid(b)
    PROVE  /\ Execution(JobPayload(b)) = Intended(b)
           /\ Intended(b).depth \in 0..5
           /\ Intended(b).limit \in 1..(IF Intended(b).kind = "crawl" THEN 100 ELSE 500)
<1> DEFINE o == b.options
           p == Unmarshal(JobPayload(b).options)
           x == Execution(JobPayload(b))
           i == Intended(b)
<1>1. b.kind \in {"scrape", "crawl", "map"} BY DEF IsRequest
<1>2. /\ o["TimeoutSeconds"] \in {Unset} \cup Int
      /\ o["MaxRetries"] \in {Unset} \cup Int
      /\ o["MaxPages"] \in {Unset} \cup Int
      /\ o["MaxDepth"] \in {Unset} \cup Int
      /\ o["MaxURLs"] \in {Unset} \cup Int
  <2>1. \A f \in Fields : o[f] \in {Unset} \cup (IF f \in Flags THEN BOOLEAN ELSE Int)
    BY DEF IsRequest, IsOptions
  <2>2. QED BY <2>1 DEF Fields, Flags
<1>3. /\ Within(o["MaxPages"], 1, 100)
      /\ Within(o["MaxDepth"], 0, 5)
      /\ Within(o["MaxURLs"], 1, 500)
  BY DEF Valid, validateOptions
<1>4. Unset \notin Int BY DefaultsAssumption
<1>5. /\ p["TimeoutSeconds"] = o["TimeoutSeconds"]
      /\ p["MaxRetries"] = o["MaxRetries"]
      /\ p["FollowRedirects"] = o["FollowRedirects"]
      /\ p["RenderJS"] = o["RenderJS"]
  <2>1. {"TimeoutSeconds", "MaxRetries", "FollowRedirects", "RenderJS"}
            \subseteq Fields \ {"MaxPages", "MaxURLs", "MaxDepth"}
    BY DEF Fields
  <2>2. \A f \in Fields \ {"MaxPages", "MaxURLs", "MaxDepth"} : p[f] = Or(o[f], Unset)
    BY OptionsTravel, Defaults, <1>1
  <2>3. \A v : Or(v, Unset) = v BY DEF Or
  <2>4. QED BY <2>1, <2>2, <2>3
<1>6. /\ p["MaxPages"] = Or(o["MaxPages"], IF b.kind = "crawl" THEN 10 ELSE Unset)
      /\ p["MaxURLs"]  = Or(o["MaxURLs"], IF b.kind = "map" THEN 50 ELSE Unset)
      /\ p["MaxDepth"] = Or(o["MaxDepth"], IF b.kind = "scrape" THEN Unset ELSE 2)
  <2>1. {"MaxPages", "MaxURLs", "MaxDepth"} \subseteq Fields BY DEF Fields
  <2>2. QED BY <2>1, OptionsTravel, Defaults, <1>1
<1>7. JobPayload(b).kind = b.kind /\ JobPayload(b).extract = HandlerExtract(b)
  BY DEF JobPayload
<1>8. b.kind = "crawl" => /\ CrawlLimit(p["MaxPages"], 10) = Or(o["MaxPages"], 10)
                          /\ Or(o["MaxPages"], 10) \in 1..100
  BY <1>2, <1>3, <1>4, <1>6 DEF CrawlLimit, Or, Within
<1>9. b.kind = "map" => /\ CrawlLimit(p["MaxURLs"], 50) = Or(o["MaxURLs"], 50)
                        /\ Or(o["MaxURLs"], 50) \in 1..500
  BY <1>2, <1>3, <1>4, <1>6 DEF CrawlLimit, Or, Within
<1>10. b.kind # "scrape" => /\ CrawlDepth(p["MaxDepth"]) = Or(o["MaxDepth"], 2)
                            /\ Or(o["MaxDepth"], 2) \in 0..5
  BY <1>2, <1>3, <1>4, <1>6 DEF CrawlDepth, Or, Within
<1> HIDE DEF p, o
<1>11. x.kind = i.kind /\ x.timeout = i.timeout /\ x.follow = i.follow /\ x.render = i.render
  BY <1>1, <1>5, <1>7 DEF Execution, Intended, p, o
<1>12. x.extract = i.extract
  BY <1>1, <1>7 DEF Execution, Intended, HandlerExtract
<1>13. x.attempts = i.attempts
  BY <1>1, <1>5, <1>7 DEF Execution, Intended, p, o
<1>14. x.limit = i.limit /\ i.limit \in 1..(IF i.kind = "crawl" THEN 100 ELSE 500)
  BY <1>1, <1>7, <1>8, <1>9 DEF Execution, Intended, p, o
<1>15. x.depth = i.depth /\ i.depth \in 0..5
  BY <1>1, <1>7, <1>10 DEF Execution, Intended, p, o
<1>16. x = i
  BY <1>11, <1>12, <1>13, <1>14, <1>15 DEF Execution, Intended
<1>17. QED BY <1>14, <1>15, <1>16

-----------------------------------------------------------------------------
(***************************************************************************)
(* Types.                                                                  *)
(***************************************************************************)
USE StartupAssumption DEF Requests, Open

\* What a worker stores has the type of a result.
LEMMA StoredResults ==
    ASSUME NEW run
    PROVE  Stored(run) \subseteq Results
<1>1. Markdowns(run) \subseteq BOOLEAN BY DEF Markdowns
<1>2. \A m \in 0..PagesOf(run) : [1..m -> Markdowns(run)] \subseteq Seq(BOOLEAN)
  BY <1>1
<1>3. BoundedSeq(Markdowns(run), PagesOf(run)) \subseteq Seq(BOOLEAN)
  BY <1>2 DEF BoundedSeq, SeqOf
<1>4. <<>> \in Seq(BOOLEAN) OBVIOUS
<1>5. StoredPages(run) \subseteq Seq(BOOLEAN)
  BY <1>3, <1>4 DEF StoredPages
<1>6. QED BY <1>1, <1>5 DEF Stored, Results

LEMMA TypeInit == Init => TypeOK
<1> SUFFICES ASSUME Init PROVE TypeOK
  OBVIOUS
<1>1. BootType BY DEF Init, StartupInit, BootType, Phase, Booting
<1>2. HandlingType BY DEF Init, HandlingType, SubmitPlaces, Codes
<1>3. JobsType BY DEF Init, JobsType
<1>4. ReadingType BY DEF Init, ReadingType
<1>5. QED BY <1>1, <1>2, <1>3, <1>4 DEF TypeOK

LEMMA EnterType ==
    ASSUME BootType, NEW p \in Procs, NEW from, NEW to \in Phase, Enter(p, from, to)
    PROVE  phase' \in [Procs -> Phase]
  BY DEF Enter, BootType

\* The steps of Startup.
LEMMA BootTypeNext == BootType /\ StartupNext => BootType'
<1> SUFFICES ASSUME BootType, StartupNext PROVE BootType'
  OBVIOUS
<1>1. Booting \cup Running \cup Exited \subseteq Phase BY DEF Phase
<1> USE <1>1 DEF BootType, servers, procs, Fault, Enter
<1>2. ASSUME NEW p \in Procs, Connect(p) PROVE BootType'
  BY <1>2 DEF Connect, Booting, Exited
<1>3. ASSUME NEW p \in Procs, FindSchema(p) PROVE BootType'
  BY <1>3 DEF FindSchema, Booting
<1>4. ASSUME NEW p \in Procs, CreateSchema(p) PROVE BootType'
  BY <1>4 DEF CreateSchema, Booting, Exited
<1>5. ASSUME NEW p \in Procs, MigrateFails(p) PROVE BootType'
  BY <1>5 DEF MigrateFails, Exited
<1>6. ASSUME NEW p \in Procs, Dial(p) PROVE BootType'
  BY <1>6 DEF Dial, Booting, Running, Exited
<1>7. ASSUME Listen PROVE BootType'
  BY <1>7 DEF Listen, Running
<1>8. ASSUME NEW p \in Procs, Killed(p) PROVE BootType'
  BY <1>8 DEF Killed, Exited
<1>9. ASSUME PortTaken PROVE BootType'
  BY <1>9 DEF PortTaken, Exited
<1>10. CASE ServerFails
  <2>1. faults' \in Nat BY <1>10 DEF ServerFails
  <2>2. dbUp' \in BOOLEAN /\ redisUp' \in BOOLEAN /\ outage' \in BOOLEAN
    BY <1>10, Zenon DEF ServerFails
  <2>3. QED BY <1>10, <2>1, <2>2 DEF ServerFails
<1>11. CASE ServerReturns
  BY <1>11 DEF ServerReturns
<1>12. QED
  BY <1>2, <1>3, <1>4, <1>5, <1>6, <1>7, <1>8, <1>9, <1>10, <1>11 DEF StartupNext, Boot

LEMMA MoveType ==
    ASSUME HandlingType, NEW r \in Requests, NEW from,
           NEW to \in SubmitPlaces \cup QueryPlaces, Move(r, from, to)
    PROVE  HandlingType'
  BY DEF HandlingType, Move

LEMMA RespondType ==
    ASSUME HandlingType, NEW r \in Requests, NEW from, NEW answer \in Codes,
           Respond(r, from, answer)
    PROVE  HandlingType'
  BY DEF HandlingType, Respond, SubmitPlaces, Codes

LEMMA LlmCodes == 200 \in Codes /\ 502 \in Codes
  BY DEF Codes

\* The steps of a job in the hands of clients and workers, of a connection,
\* and of a process that stops.
JobStep(s) == Cancel(s) \/ PopLost(s) \/ \E p \in Procs : Job(s, p)

ConnectionStep(r) == OpenConnection(r) \/ Disconnect(r) \/ ClientLeaves(r)

ExitStep ==
    \/ \E p \in Procs : StopWorker(p) \/ WorkerStopped(p)
    \/ Signal \/ ShutdownDone \/ ShutdownForced

\* A job's step changes nobody else's job; a panic is all it does to a process.
Apart(t) == /\ status'[t] = status[t] /\ result'[t] = result[t] /\ place'[t] = place[t]
            /\ taker'[t] = taker[t] /\ ran'[t] = ran[t]

LEMMA JobFrame ==
    ASSUME NEW s \in Submits, JobStep(s)
    PROVE  /\ UNCHANGED <<clock, schema, servers, handling, body, payload, reading>>
           /\ \/ UNCHANGED phase
              \/ /\ UNCHANGED jobs
                 /\ \E p \in Procs : AtWork(p) /\ phase' = [phase EXCEPT ![p] = "panicked"]
<1> DEFINE Framed == /\ UNCHANGED <<clock, schema, servers, handling, body, payload, reading>>
                     /\ \/ UNCHANGED phase
                        \/ /\ UNCHANGED jobs
                           /\ \E p \in Procs :
                                 AtWork(p) /\ phase' = [phase EXCEPT ![p] = "panicked"]
<1>1. ASSUME Cancel(s) \/ PopLost(s) PROVE Framed
  BY <1>1 DEF Cancel, PopLost, boot, servers
<1>2. ASSUME NEW p \in Procs, Pop(s, p) \/ Claim(s, p) \/ Persist(s, p) \/ GiveUp(s, p)
      PROVE  Framed
  BY <1>2 DEF Pop, Claim, Persist, GiveUp, boot, servers
<1>3. ASSUME NEW p \in Procs, Panic(s, p) PROVE Framed
  BY <1>3 DEF Panic, Has, jobs
<1> HIDE DEF Framed
<1>4. Framed BY <1>1, <1>2, <1>3 DEF JobStep, Job
<1>5. QED BY <1>4 DEF Framed

LEMMA OtherJobs ==
    ASSUME JobsType, NEW s \in Submits, JobStep(s), NEW t \in Submits \ {s}
    PROVE  Apart(t)
<1>1. ASSUME Cancel(s) \/ PopLost(s) PROVE Apart(t)
  BY <1>1 DEF Cancel, PopLost, Put, Apart, JobsType
<1>2. ASSUME NEW p \in Procs, Pop(s, p) \/ GiveUp(s, p) \/ Panic(s, p) PROVE Apart(t)
  BY <1>2 DEF Pop, GiveUp, Panic, Put, Apart, JobsType, jobs
<1>3. ASSUME NEW p \in Procs, Claim(s, p) PROVE Apart(t)
  BY <1>3 DEF Claim, Put, Apart, JobsType
<1>4. ASSUME NEW p \in Procs, Persist(s, p) PROVE Apart(t)
  BY <1>4 DEF Persist, Settle, Put, Apart, JobsType
<1>5. QED BY <1>1, <1>2, <1>3, <1>4 DEF JobStep, Job

LEMMA JobTypeNext ==
    ASSUME JobsType, \A s \in Submits : Traced(s), NEW s \in Submits, JobStep(s)
    PROVE  JobsType'
<1>1. ASSUME Cancel(s) \/ PopLost(s) PROVE JobsType'
  BY <1>1 DEF Cancel, PopLost, Put, JobsType
<1>2. ASSUME NEW p \in Procs, Pop(s, p) \/ GiveUp(s, p) \/ Panic(s, p) PROVE JobsType'
  BY <1>2 DEF Pop, GiveUp, Panic, Put, JobsType, jobs
<1>3. ASSUME NEW p \in Procs, Claim(s, p) PROVE JobsType'
  <2>1. \E b \in Bodies : payload[s] = JobPayload(b)
    BY <1>3 DEF Claim, Has, Traced
  <2>2. ran' \in [Submits -> {Execution(JobPayload(b)) : b \in Bodies} \cup {None}]
    BY <1>3, <2>1 DEF Claim, JobsType
  <2>3. QED BY <1>3, <2>2 DEF Claim, Put, JobsType
<1>4. ASSUME NEW p \in Procs, Persist(s, p) PROVE JobsType'
  <2>1. result' \in [Submits -> Results \cup {None}]
    BY <1>4, StoredResults DEF Persist, Settle, JobsType
  <2>2. status' \in [Submits -> {"absent", "queued", "processing", "completed", "failed"}]
    BY <1>4 DEF Persist, Settle, JobsType
  <2>3. QED BY <1>4, <2>1, <2>2 DEF Persist, Put, JobsType
<1>5. QED BY <1>1, <1>2, <1>3, <1>4 DEF JobStep, Job

LEMMA TypeNext ==
    TypeOK /\ (\A s \in Submits : Step(s) /\ Traced(s)) /\ [Next]_vars => TypeOK'
<1> SUFFICES ASSUME TypeOK, \A s \in Submits : Step(s) /\ Traced(s), [Next]_vars
             PROVE  TypeOK'
  OBVIOUS
<1> USE DEF TypeOK, Codes
<1>a. UNCHANGED boot => BootType'
  BY DEF boot, BootType
<1>b. UNCHANGED handling => HandlingType'
  BY DEF handling, HandlingType
<1>c. UNCHANGED jobs => JobsType'
  BY DEF jobs, JobsType
<1>d. UNCHANGED reading => ReadingType'
  BY DEF reading, ReadingType
<1> USE <1>a, <1>b, <1>c, <1>d
<1>1. CASE StartupNext /\ UNCHANGED <<handling, jobs, reading>>
  BY <1>1, BootTypeNext
<1>2. ASSUME NEW s \in Submits, NEW b \in Bodies, Submit(s, b) PROVE TypeOK'
  <2>1. HandlingType' BY <1>2, MoveType, RespondType DEF Submit, SubmitPlaces
  <2>2. JobsType' BY <1>2 DEF Submit, JobsType
  <2>3. QED BY <1>2, <2>1, <2>2 DEF Submit
<1>3. ASSUME NEW s \in Submits, CreateJob(s) PROVE TypeOK'
  <2>1. HandlingType' BY <1>3, MoveType, RespondType DEF CreateJob, SubmitPlaces
  <2>2. JobsType' BY <1>3 DEF CreateJob, JobsType
  <2>3. QED BY <1>3, <2>1, <2>2 DEF CreateJob
<1>4. ASSUME NEW s \in Submits, Enqueue(s) PROVE TypeOK'
  <2>1. HandlingType' BY <1>4, MoveType, RespondType DEF Enqueue, SubmitPlaces
  <2>2. at[s] = "push" BY <1>4 DEF Enqueue, Move, Respond
  <2>3. body[s] \in Bodies BY <2>2 DEF Step, Busy
  <2>4. UNCHANGED <<body, status, result, taker, ran>> BY <1>4 DEF Enqueue
  <2>5. Pushed(s) \/ UNCHANGED <<payload, place>> BY <1>4 DEF Enqueue, NotPushed
  <2>6. JobsType' BY <2>3, <2>4, <2>5 DEF Pushed, JobsType
  <2>7. QED BY <1>4, <2>1, <2>6 DEF Enqueue
<1>5. ASSUME NEW s \in Submits, Accept(s) PROVE TypeOK'
  BY <1>5, RespondType DEF Accept
<1>6. ASSUME NEW s \in Submits, JobStep(s) PROVE TypeOK'
  <2>1. UNCHANGED <<handling, reading>> BY <1>6, JobFrame
  <2>2. BootType'
    <3>1. UNCHANGED <<clock, schema, servers>> BY <1>6, JobFrame
    <3>2. phase' \in [Procs -> Phase] BY <1>6, JobFrame DEF BootType, Phase, Exited
    <3>3. QED BY <3>1, <3>2 DEF BootType, servers
  <2>3. JobsType' BY <1>6, JobTypeNext DEF BootType
  <2>4. QED BY <2>1, <2>2, <2>3
<1>7. ASSUME NEW q \in Queries, NEW j \in Submits \cup {None}, NEW ok \in BOOLEAN,
             AskExtract(q, j, ok)
      PROVE  TypeOK'
  <2>1. HandlingType' BY <1>7, MoveType, RespondType DEF AskExtract, QueryPlaces
  <2>2. ReadingType' BY <1>7 DEF AskExtract, ReadingType
  <2>3. QED BY <1>7, <2>1, <2>2 DEF AskExtract
<1>8. ASSUME NEW q \in Queries, LoadRefused(q) PROVE TypeOK'
  BY <1>8, RespondType DEF LoadRefused
<1>9. ASSUME NEW q \in Queries, Load(q) PROVE TypeOK'
  <2>1. HandlingType' BY <1>9, MoveType DEF Load, QueryPlaces
  <2>2. target[q] \in Submits BY <1>9 DEF Load, Known, ReadingType
  <2>3. ReadingType' BY <1>9, <2>2 DEF Load, ReadingType, JobsType
  <2>4. QED BY <1>9, <2>1, <2>3 DEF Load
<1>10. ASSUME NEW q \in Queries, NEW what \in Notes, Note(q, what)
       PROVE  notes' \in [Queries -> Seq(Notes)]
  BY <1>10 DEF Note, ReadingType
<1>11. ASSUME NEW q \in Queries, SkipPage(q) PROVE TypeOK'
  <2>1. HandlingType' BY <1>11, MoveType DEF SkipPage, QueryPlaces
  <2>2. ReadingType' BY <1>11, <1>10 DEF SkipPage, ReadingType, Notes
  <2>3. QED BY <1>11, <2>1, <2>2 DEF SkipPage
<1>12. ASSUME NEW q \in Queries, CallLlm(q) PROVE TypeOK'
  <2>1. HandlingType' BY <1>12, MoveType DEF CallLlm, QueryPlaces
  <2>2. ReadingType' BY <1>12 DEF CallLlm, ReadingType
  <2>3. QED BY <1>12, <2>1, <2>2 DEF CallLlm
<1>13. ASSUME NEW q \in Queries, NEW outcome \in {"extracted", "extract failed"},
              LlmReturns(q, outcome)
       PROVE  TypeOK'
  <2>1. HandlingType'
    <3>1. CASE job[q].pages # <<>>
      BY <1>13, <3>1, MoveType DEF LlmReturns, QueryPlaces
    <3>2. CASE job[q].pages = <<>>
      <4>1. Respond(q, "call", 200) \/ Respond(q, "call", 502)
        BY <1>13, <3>2 DEF LlmReturns
      <4>2. q \in Requests /\ HandlingType
        OBVIOUS
      <4>3. HIDE DEF TypeOK, Codes
      <4>4. QED BY <4>1, <4>2, LlmCodes, RespondType
    <3>3. QED BY <3>1, <3>2
  <2>2. ReadingType' BY <1>13, <1>10 DEF LlmReturns, ReadingType, Notes
  <2>3. QED BY <1>13, <2>1, <2>2 DEF LlmReturns
<1>14. ASSUME NEW q \in Queries, AllPages(q) PROVE TypeOK'
  BY <1>14, RespondType DEF AllPages
<1>15. ASSUME NEW q \in Queries, AskHealth(q) PROVE TypeOK'
  BY <1>15, MoveType DEF AskHealth, QueryPlaces
<1>16. \A up : Pinged(up) \in Notes
  BY DEF Pinged, Notes
<1>17. ASSUME NEW q \in Queries, PingStore(q) PROVE TypeOK'
  <2>1. HandlingType' BY <1>17, MoveType DEF PingStore, QueryPlaces
  <2>2. ReadingType' BY <1>17, <1>10, <1>16 DEF PingStore, ReadingType
  <2>3. QED BY <1>17, <2>1, <2>2 DEF PingStore
<1>18. ASSUME NEW q \in Queries, PingQueue(q) PROVE TypeOK'
  <2>1. HandlingType' BY <1>18, RespondType DEF PingQueue
  <2>2. notes' \in [Queries -> Seq(Notes)]
    BY <1>18, <1>16 DEF PingQueue, ReadingType
  <2>3. ReadingType' BY <1>18, <2>2 DEF PingQueue, ReadingType
  <2>4. QED BY <1>18, <2>1, <2>3 DEF PingQueue
<1>19. ASSUME NEW r \in Requests, ConnectionStep(r) PROVE TypeOK'
  <2>1. HandlingType'
    <3>1. CASE OpenConnection(r) BY <3>1 DEF OpenConnection, HandlingType, SubmitPlaces
    <3>2. CASE Disconnect(r) BY <3>2 DEF Disconnect, HandlingType, SubmitPlaces
    <3>3. CASE ClientLeaves(r) BY <3>3 DEF ClientLeaves, HandlingType
    <3>4. QED BY <1>19, <3>1, <3>2, <3>3 DEF ConnectionStep
  <2>2. BootType' /\ UNCHANGED <<jobs, reading>>
    BY <1>19 DEF ConnectionStep, OpenConnection, Disconnect, ClientLeaves, BootType, Fault,
                 procs, boot
  <2>3. QED BY <2>1, <2>2
<1>20. CASE ExitStep
  <2>1. BootType'
    BY <1>20 DEF ExitStep, StopWorker, WorkerStopped, Signal, ShutdownDone, ShutdownForced,
                 Enter, BootType, servers, Phase, Running, Exited
  <2>2. QED
    BY <1>20, <2>1 DEF ExitStep, StopWorker, WorkerStopped, Signal, ShutdownDone, ShutdownForced
<1>21. CASE Tick
  <2>1. BootType' BY <1>21 DEF Tick, BootType, servers
  <2>2. HandlingType' BY <1>21 DEF Tick, HandlingType
  <2>3. ReadingType' BY <1>21 DEF Tick, ReadingType
  <2>4. QED BY <1>21, <2>1, <2>2, <2>3 DEF Tick
<1>22. CASE UNCHANGED vars
  BY <1>22 DEF vars
<1> HIDE DEF TypeOK, Codes
<1>23. CASE \E s \in Submits :
                \/ \E b \in Bodies : Submit(s, b)
                \/ Submission(s)
                \/ Cancel(s) \/ PopLost(s)
                \/ \E p \in Procs : Job(s, p)
  BY <1>23, <1>2, <1>3, <1>4, <1>5, <1>6 DEF Submission, JobStep
<1>24. CASE \E q \in Queries :
                \/ \E j \in Submits \cup {None}, ok \in BOOLEAN : AskExtract(q, j, ok)
                \/ Extraction(q) \/ LlmAnswers(q)
                \/ AskHealth(q) \/ Health(q)
  BY <1>24, <1>7, <1>8, <1>9, <1>11, <1>12, <1>13, <1>14, <1>15, <1>17, <1>18
  DEF Extraction, Health, LlmAnswers, LlmTimesOut
<1>25. QED
  BY <1>1, <1>19, <1>20, <1>21, <1>22, <1>23, <1>24 DEF Next, ConnectionStep, ExitStep

-----------------------------------------------------------------------------
(***************************************************************************)
(* What the two forms of a handler's step do, and the kinds of steps.      *)
(***************************************************************************)
Same(r) == /\ at'[r] = at[r] /\ age'[r] = age[r] /\ gone'[r] = gone[r]
           /\ code'[r] = code[r] /\ heard'[r] = heard[r]

LEMMA MoveFrame ==
    ASSUME HandlingType, NEW r \in Requests, NEW from, NEW to, Move(r, from, to)
    PROVE  /\ Handling /\ at[r] = from /\ at'[r] = to
           /\ age'[r] = (IF from = "fresh" THEN 0 ELSE age[r]) /\ gone'[r] = gone[r]
           /\ code'[r] = code[r] /\ heard'[r] = heard[r]
           /\ \A x \in Requests \ {r} : Same(x)
  BY DEF HandlingType, Move, Same

LEMMA RespondFrame ==
    ASSUME HandlingType, NEW r \in Requests, NEW from, NEW answer, Respond(r, from, answer)
    PROVE  /\ Handling /\ at[r] = from /\ at'[r] = "done"
           /\ age'[r] = 0 /\ gone'[r] = gone[r]
           /\ code'[r] = answer
           /\ heard'[r] = (~gone[r] /\ (from = "fresh" \/ age[r] < WriteTimeout))
           /\ \A x \in Requests \ {r} : Same(x)
  BY DEF HandlingType, Respond, Same

SubmitStep(s) == (\E b \in Bodies : Submit(s, b)) \/ Submission(s)

QueryStep(q) ==
    \/ \E j \in Submits \cup {None}, ok \in BOOLEAN : AskExtract(q, j, ok)
    \/ Extraction(q) \/ LlmAnswers(q) \/ AskHealth(q) \/ Health(q)

LEMMA Kinds ==
    [Next]_vars => \/ StartupNext /\ UNCHANGED <<handling, jobs, reading>>
                   \/ \E s \in Submits : SubmitStep(s)
                   \/ \E s \in Submits : JobStep(s)
                   \/ \E q \in Queries : QueryStep(q)
                   \/ \E r \in Requests : ConnectionStep(r)
                   \/ ExitStep
                   \/ Tick
                   \/ UNCHANGED vars
  BY DEF Next, SubmitStep, JobStep, QueryStep, ConnectionStep, ExitStep

\* A handler works only while its process does; it begins with the header of
\* a fresh connection, and leaves all other requests alone.
Working(r) ==
    /\ Handling
    /\ gone'[r] = gone[r] /\ at'[r] # "fresh"
    /\ \A x \in Requests \ {r} : Same(x)
    /\ at[r] = "fresh" \/ (Busy(r) /\ (Busy(r)' => age'[r] = age[r]))

LEMMA MoveWorking ==
    ASSUME HandlingType, NEW r \in Requests, NEW from, NEW to, Move(r, from, to),
           from \notin {"idle", "done"}, to # "fresh"
    PROVE  Working(r)
  BY MoveFrame DEF Working, Busy

LEMMA RespondWorking ==
    ASSUME HandlingType, NEW r \in Requests, NEW from, NEW answer, Respond(r, from, answer),
           from \notin {"idle", "done"}
    PROVE  Working(r)
<1>1. /\ Handling /\ at[r] = from /\ at'[r] = "done" /\ gone'[r] = gone[r]
      /\ \A x \in Requests \ {r} : Same(x)
  BY RespondFrame
<1>2. QED BY <1>1 DEF Working, Busy

LEMMA SubmitFrame ==
    ASSUME HandlingType, NEW s \in Submits, SubmitStep(s)
    PROVE  Working(s) /\ UNCHANGED <<boot, reading, result, taker, ran>>
<1>1. ASSUME NEW b \in Bodies, Submit(s, b)
      PROVE  Working(s) /\ UNCHANGED <<boot, reading, result, taker, ran>>
  BY <1>1, MoveWorking, RespondWorking DEF Submit
<1>2. ASSUME CreateJob(s) PROVE Working(s) /\ UNCHANGED <<boot, reading, result, taker, ran>>
  BY <1>2, MoveWorking, RespondWorking DEF CreateJob
<1>3. ASSUME Enqueue(s) PROVE Working(s) /\ UNCHANGED <<boot, reading, result, taker, ran>>
  BY <1>3, MoveWorking, RespondWorking DEF Enqueue
<1>4. ASSUME Accept(s) PROVE Working(s) /\ UNCHANGED <<boot, reading, result, taker, ran>>
  BY <1>4, RespondWorking DEF Accept, jobs
<1>5. QED BY <1>1, <1>2, <1>3, <1>4 DEF SubmitStep, Submission

LEMMA QueryFrame ==
    ASSUME HandlingType, NEW q \in Queries, QueryStep(q)
    PROVE  Working(q) /\ UNCHANGED <<boot, jobs>>
<1> DEFINE Framed == Working(q) /\ UNCHANGED <<boot, jobs>>
<1>1. ASSUME NEW j \in Submits \cup {None}, NEW ok \in BOOLEAN, AskExtract(q, j, ok)
      PROVE  Framed
  BY <1>1, MoveWorking, RespondWorking DEF AskExtract
<1>2. ASSUME LoadRefused(q) PROVE Framed
  BY <1>2, RespondWorking DEF LoadRefused
<1>3. ASSUME Load(q) PROVE Framed
  BY <1>3, MoveWorking DEF Load
<1>4. ASSUME SkipPage(q) PROVE Framed
  BY <1>4, MoveWorking DEF SkipPage
<1>5. ASSUME CallLlm(q) PROVE Framed
  BY <1>5, MoveWorking DEF CallLlm
<1>6. ASSUME NEW outcome, LlmReturns(q, outcome) PROVE Framed
  BY <1>6, MoveWorking, RespondWorking DEF LlmReturns
<1>7. ASSUME AllPages(q) PROVE Framed
  BY <1>7, RespondWorking DEF AllPages
<1>8. ASSUME AskHealth(q) PROVE Framed
  BY <1>8, MoveWorking DEF AskHealth
<1>9. ASSUME PingStore(q) PROVE Framed
  BY <1>9, MoveWorking DEF PingStore
<1>10. ASSUME PingQueue(q) PROVE Framed
  BY <1>10, RespondWorking DEF PingQueue
<1> HIDE DEF Framed
<1>11. Framed
  BY <1>1, <1>2, <1>3, <1>4, <1>5, <1>6, <1>7, <1>8, <1>9, <1>10
  DEF QueryStep, Extraction, Health, LlmAnswers, LlmTimesOut
<1>12. QED BY <1>11 DEF Framed

-----------------------------------------------------------------------------
(***************************************************************************)
(* The race for the schema: without an outage a process that gives up has  *)
(* another one ahead of it.                                                *)
(***************************************************************************)
LEMMA BootsInit == Init => BootsExplained
  BY DEF Init, StartupInit, BootsExplained

\* Whatever leaves phase, schema, the servers and outage alone.
LEMMA BootsKept ==
    BootsExplained /\ UNCHANGED <<phase, schema, dbUp, redisUp, outage>> => BootsExplained'
  BY DEF BootsExplained, Ahead

\* A process that gets past the migration is ahead of all others.
LEMMA GotAhead ==
    ASSUME BootType, NEW p \in Procs, NEW from, NEW to,
           to \notin {"connecting", "migrating", "creating", "failed"},
           Enter(p, from, to)
    PROVE  Ahead'
  BY DEF Ahead, Enter, BootType

\* Nobody who is ahead falls back, as long as nobody fails there.
LEMMA StaysAhead ==
    ASSUME BootType, Ahead, NEW p \in Procs, NEW from, NEW to, Enter(p, from, to),
           from \in {"connecting", "migrating", "creating", "failed"}
              \/ to \notin {"connecting", "migrating", "creating", "failed"}
    PROVE  Ahead'
<1>1. PICK q \in Procs : phase[q] \notin {"connecting", "migrating", "creating", "failed"}
  BY DEF Ahead
<1>2. CASE from \in {"connecting", "migrating", "creating", "failed"}
  BY <1>1, <1>2 DEF Ahead, Enter, BootType
<1>3. CASE to \notin {"connecting", "migrating", "creating", "failed"}
  BY <1>3, GotAhead
<1>4. QED BY <1>2, <1>3

LEMMA BootsNext ==
    BootType /\ HandlingType /\ BootsExplained /\ [Next]_vars => BootsExplained'
<1> SUFFICES ASSUME BootType, HandlingType, BootsExplained, [Next]_vars, ~outage'
             PROVE  BootsExplained'
  BY DEF BootsExplained
<1>1. ASSUME NEW p \in Procs, Connect(p) PROVE BootsExplained'
  <2>1. ~outage /\ dbUp BY <1>1 DEF Connect, servers, BootsExplained
  <2>2. Enter(p, "connecting", "migrating") BY <1>1, <2>1 DEF Connect
  <2>3. Ahead => Ahead' BY <2>2, StaysAhead
  <2>4. QED BY <1>1, <2>1, <2>2, <2>3 DEF Connect, servers, Enter, BootsExplained, BootType
<1>2. ASSUME NEW p \in Procs, FindSchema(p) PROVE BootsExplained'
  <2>1. ~outage BY <1>2 DEF FindSchema, servers
  <2>2. CASE schema
    <3>1. Enter(p, "migrating", "dialing") BY <1>2, <2>2 DEF FindSchema
    <3>2. Ahead' BY <3>1, GotAhead
    <3>3. QED BY <1>2, <2>1, <2>2, <3>1, <3>2 DEF FindSchema, servers, Enter, BootsExplained, BootType
  <2>3. CASE ~schema
    <3>1. Enter(p, "migrating", "creating") /\ UNCHANGED <<schema, servers>>
      BY <1>2, <2>3 DEF FindSchema
    <3>2. QED BY <2>1, <2>3, <3>1 DEF servers, Enter, BootsExplained, BootType
  <2>4. QED BY <2>2, <2>3
<1>3. ASSUME NEW p \in Procs, CreateSchema(p) PROVE BootsExplained'
  <2>1. ~outage BY <1>3 DEF CreateSchema, servers
  <2>2. CASE schema
    <3>1. Enter(p, "creating", "failed") BY <1>3, <2>2 DEF CreateSchema
    <3>2. Ahead BY <2>1, <2>2, <3>1 DEF Enter, BootsExplained
    <3>3. Ahead' BY <3>1, <3>2, StaysAhead
    <3>4. QED BY <1>3, <2>1, <3>3 DEF CreateSchema, servers, BootsExplained
  <2>3. CASE ~schema
    <3>1. Enter(p, "creating", "dialing") BY <1>3, <2>3 DEF CreateSchema
    <3>2. Ahead' BY <3>1, GotAhead
    <3>3. QED BY <1>3, <2>1, <3>2 DEF CreateSchema, servers, BootsExplained
  <2>4. QED BY <2>2, <2>3
<1>4. ASSUME NEW p \in Procs, MigrateFails(p) PROVE BootsExplained'
  BY <1>4 DEF MigrateFails, servers, BootsExplained
<1>5. ASSUME NEW p \in Procs, Dial(p) PROVE BootsExplained'
  <2>1. ~outage /\ redisUp BY <1>5 DEF Dial, servers, BootsExplained
  <2>2. PICK to \in {"listening", "running"} : Enter(p, "dialing", to)
    BY <1>5, <2>1 DEF Dial
  <2>3. Ahead' BY <2>2, GotAhead
  <2>4. QED
    BY <1>5, <2>1, <2>2, <2>3 DEF Dial, servers, Enter, BootsExplained, BootType
<1>6. ASSUME Listen PROVE BootsExplained'
  <2>1. Enter(Api, "listening", "serving") BY <1>6 DEF Listen
  <2>2. Ahead' BY <2>1, GotAhead
  <2>3. QED BY <1>6, <2>1, <2>2 DEF Listen, servers, Enter, BootsExplained, BootType
<1>7. ASSUME NEW p \in Procs, Killed(p) PROVE BootsExplained'
  <2>1. ~outage /\ UNCHANGED <<dbUp, redisUp>> BY <1>7 DEF Killed
  <2>2. phase' = [phase EXCEPT ![p] = "killed"] BY <1>7 DEF Killed
  <2>3. Ahead' BY <2>2 DEF Ahead, BootType
  <2>4. schema => schema' BY <1>7 DEF Killed, BootType
  <2>5. QED BY <2>1, <2>2, <2>3, <2>4 DEF BootsExplained, BootType
<1>8. ASSUME PortTaken \/ ServerFails PROVE FALSE
  BY <1>8 DEF PortTaken, ServerFails
<1>9. ASSUME ServerReturns PROVE BootsExplained'
  BY <1>9 DEF ServerReturns, procs, BootsExplained
<1>10. ASSUME NEW s \in Submits, JobStep(s) PROVE BootsExplained'
  <2>1. UNCHANGED <<schema, dbUp, redisUp, outage>> BY <1>10, JobFrame DEF servers
  <2>2. CASE UNCHANGED phase
    BY <2>1, <2>2, BootsKept
  <2>3. ASSUME NEW p \in Procs, phase' = [phase EXCEPT ![p] = "panicked"]
        PROVE  BootsExplained'
    <3>1. Ahead' BY <2>3 DEF Ahead, BootType
    <3>2. QED BY <2>1, <2>3, <3>1 DEF BootsExplained, BootType
  <2>4. QED BY <1>10, <2>2, <2>3, JobFrame
<1>11. ASSUME ExitStep PROVE BootsExplained'
  <2>1. UNCHANGED <<schema, dbUp, redisUp, outage>>
    BY <1>11 DEF ExitStep, StopWorker, WorkerStopped, Signal, ShutdownDone, ShutdownForced, servers
  <2>2. PICK p \in Procs, from \in {"running", "stopping", "serving", "draining"},
             to \in {"stopping", "draining", "stopped", "forced"} : Enter(p, from, to)
    BY <1>11 DEF ExitStep, StopWorker, WorkerStopped, Signal, ShutdownDone, ShutdownForced
  <2>3. Ahead' BY <2>2, GotAhead
  <2>4. QED BY <2>1, <2>2, <2>3 DEF Enter, BootsExplained, BootType
<1>12. ASSUME StartupNext PROVE BootsExplained'
  BY <1>1, <1>2, <1>3, <1>4, <1>5, <1>6, <1>7, <1>8, <1>9, <1>12 DEF StartupNext, Boot
<1>13. ASSUME \/ \E s \in Submits : SubmitStep(s)
              \/ \E q \in Queries : QueryStep(q)
       PROVE  BootsExplained'
  BY <1>13, SubmitFrame, QueryFrame, BootsKept DEF boot
<1>14. ASSUME (\E r \in Requests : ConnectionStep(r)) \/ Tick \/ UNCHANGED vars
       PROVE  BootsExplained'
  BY <1>14, BootsKept
  DEF ConnectionStep, OpenConnection, Disconnect, ClientLeaves, Tick, vars, boot, procs, servers
<1>15. QED
  BY <1>10, <1>11, <1>12, <1>13, <1>14, Kinds

-----------------------------------------------------------------------------
(***************************************************************************)
(* Shutdown: what is under way was connected at the signal.                *)
(***************************************************************************)
LEMMA DrainInit == Init => DrainBounded
  BY DEF Init, StartupInit, DrainBounded

\* A step that starts no request and leaves the process in its phase.
LEMMA DrainKept ==
    ASSUME DrainBounded, phase'[Api] = phase[Api], clock'[Api] = clock[Api],
           \A r \in Requests : Open(r)' => at'[r] = at[r] /\ age'[r] = age[r]
    PROVE  DrainBounded'
  BY DEF DrainBounded, Busy

LEMMA DrainNext ==
    BootType /\ HandlingType /\ HandlingType' /\ DrainBounded /\ [Next]_vars => DrainBounded'
<1> SUFFICES ASSUME BootType, HandlingType, HandlingType', DrainBounded, [Next]_vars
             PROVE  DrainBounded'
  OBVIOUS
<1>0. /\ Api \in Procs /\ clock[Api] \in Nat /\ ShutdownLimit \in Nat /\ FreshLimit \in Nat
      /\ FreshLimit <= ShutdownLimit
      /\ \A r \in Requests : age[r] \in Nat
  BY ApiAssumption DEF BootType, HandlingType
<1>1. CASE StartupNext /\ UNCHANGED <<handling, jobs, reading>>
  <2>1. \A r \in Requests : at'[r] = at[r] /\ age'[r] = age[r]
    BY <1>1 DEF handling
  <2> DEFINE Elsewhere == \/ phase'[Api] = phase[Api] /\ clock'[Api] = clock[Api]
                      \/ phase'[Api] \notin {"draining", "forced"}
  <2>2. Elsewhere
    <3> USE DEF Enter, BootType, servers, procs
    <3>1. ASSUME NEW p \in Procs, Connect(p) \/ FindSchema(p) \/ CreateSchema(p)
          PROVE  Elsewhere
      BY <3>1 DEF Connect, FindSchema, CreateSchema
    <3>2. ASSUME NEW p \in Procs, MigrateFails(p) \/ Dial(p) \/ Killed(p)
          PROVE  Elsewhere
      BY <3>2 DEF MigrateFails, Dial, Killed
    <3>3. ASSUME Listen \/ PortTaken \/ ServerFails \/ ServerReturns
          PROVE  Elsewhere
      BY <3>3 DEF Listen, PortTaken, ServerFails, ServerReturns
    <3>4. QED BY <1>1, <3>1, <3>2, <3>3 DEF StartupNext, Boot
  <2>3. QED BY <2>1, <2>2, DrainKept DEF DrainBounded
<1>2. ASSUME NEW r \in Requests, Working(r), UNCHANGED boot
      PROVE  DrainBounded'
  <2>1. Handling /\ UNCHANGED <<phase, clock>> BY <1>2 DEF Working, boot
  <2>2. \A x \in Requests \ {r} : at'[x] = at[x] /\ age'[x] = age[x]
    BY <1>2 DEF Working, Same
  <2>3. at'[r] # "fresh" BY <1>2 DEF Working
  <2>4. age'[r] \in Nat BY DEF HandlingType
  <2>5. ASSUME phase[Api] = "draining", Busy(r)' PROVE age'[r] + FreshLimit >= clock[Api]
    <3>1. CASE at[r] = "fresh"
      BY <1>0, <2>4, <2>5, <3>1 DEF DrainBounded
    <3>2. CASE at[r] # "fresh"
      BY <1>2, <2>5, <3>2 DEF Working, DrainBounded
    <3>3. QED BY <3>1, <3>2
  <2>6. phase[Api] # "forced" BY <2>1 DEF Handling
  <2>7. QED BY <2>1, <2>2, <2>3, <2>5, <2>6 DEF DrainBounded, Busy
<1>3. ASSUME NEW s \in Submits, JobStep(s) PROVE DrainBounded'
  <2>1. UNCHANGED <<at, age, clock>> BY <1>3, JobFrame DEF handling
  <2>2. phase'[Api] = phase[Api] \/ phase'[Api] = "panicked"
    BY <1>3, JobFrame DEF BootType
  <2>3. QED BY <2>1, <2>2, DrainKept DEF DrainBounded
<1>4. ASSUME NEW r \in Requests, ConnectionStep(r) PROVE DrainBounded'
  <2>1. UNCHANGED <<phase, clock>>
    BY <1>4 DEF ConnectionStep, OpenConnection, Disconnect, ClientLeaves, boot, procs
  <2>2. CASE OpenConnection(r)
    BY <2>1, <2>2 DEF OpenConnection, Listening, DrainBounded
  <2>3. CASE Disconnect(r)
    <3>1. \A x \in Requests : Open(x)' => at'[x] = at[x] /\ age'[x] = age[x]
      BY <2>3 DEF Disconnect, HandlingType
    <3>2. QED BY <2>1, <3>1, DrainKept
  <2>4. CASE ClientLeaves(r)
    BY <2>1, <2>4, DrainKept DEF ClientLeaves
  <2>5. QED BY <1>4, <2>2, <2>3, <2>4 DEF ConnectionStep
<1>5. CASE Signal
  <2>1. phase'[Api] = "draining" /\ clock'[Api] = 0 /\ UNCHANGED <<at, age>>
    BY <1>5, <1>0 DEF Signal, Enter, BootType, handling
  <2>2. QED BY <2>1, <1>0 DEF DrainBounded, Busy
<1>6. ASSUME (\E p \in Procs : StopWorker(p) \/ WorkerStopped(p)) \/ ShutdownDone
      PROVE  DrainBounded'
  <2>1. UNCHANGED <<at, age, clock>>
    BY <1>6 DEF StopWorker, WorkerStopped, ShutdownDone, handling
  <2>2. phase'[Api] = phase[Api] \/ phase'[Api] \in {"stopping", "stopped"}
    BY <1>6 DEF StopWorker, WorkerStopped, ShutdownDone, Enter, BootType
  <2>3. QED BY <2>1, <2>2, DrainKept DEF DrainBounded
<1>7. CASE ShutdownForced
  <2>1. /\ phase[Api] = "draining" /\ clock[Api] >= ShutdownLimit
        /\ phase'[Api] = "forced" /\ UNCHANGED <<at, age>>
    BY <1>7, <1>0 DEF ShutdownForced, Enter, BootType, handling
  <2>2. \A r \in Requests : Busy(r)' => age'[r] + FreshLimit >= ShutdownLimit
    BY <2>1, <1>0 DEF DrainBounded, Busy
  <2>3. QED BY <2>1, <2>2 DEF DrainBounded
<1>8. CASE Tick
  <2>1. UNCHANGED <<phase, at>> BY <1>8 DEF Tick
  <2>2. \A r \in Requests : age'[r] = IF Open(r) /\ Handling /\ age[r] < AgeCap
                                       THEN age[r] + 1 ELSE age[r]
    BY <1>8 DEF Tick
  <2>3. AgeCap \in Nat /\ AgeCap >= ShutdownLimit
    BY ApiAssumption DEF AgeCap
  <2>4. CASE phase[Api] = "draining"
    <3>1. /\ clock[Api] < ShutdownLimit
          /\ \A r \in Requests : at[r] = "fresh" => age[r] < FreshLimit
      BY <1>8, <2>4 DEF Tick, NothingDue
    <3>2. clock'[Api] = clock[Api] + 1 BY <1>8, <1>0, <2>4 DEF Tick
    <3>3. Handling BY <2>4 DEF Handling
    <3>4. \A r \in Requests : Busy(r) => age'[r] + FreshLimit >= clock[Api] + 1
      <4>1. SUFFICES ASSUME NEW r \in Requests, Busy(r)
                     PROVE  age'[r] + FreshLimit >= clock[Api] + 1
        OBVIOUS
      <4>2. age[r] + FreshLimit >= clock[Api] BY <2>4, <4>1 DEF DrainBounded
      <4>3. CASE age[r] < AgeCap
        <5>1. age'[r] = age[r] + 1 BY <2>2, <3>3, <4>1, <4>3 DEF Busy
        <5>2. QED BY <1>0, <4>2, <5>1
      <4>4. CASE ~(age[r] < AgeCap)
        <5>1. age'[r] = age[r] BY <2>2, <4>4
        <5>2. QED BY <1>0, <2>3, <3>1, <4>4, <5>1
      <4>5. QED BY <4>3, <4>4
    <3>5. \A r \in Requests : at[r] = "fresh" =>
              clock[Api] + 1 <= FreshLimit /\ clock[Api] + 1 <= age'[r]
      <4>1. SUFFICES ASSUME NEW r \in Requests, at[r] = "fresh"
                     PROVE  clock[Api] + 1 <= FreshLimit /\ clock[Api] + 1 <= age'[r]
        OBVIOUS
      <4>2. clock[Api] <= age[r] /\ age[r] < FreshLimit BY <2>4, <3>1, <4>1 DEF DrainBounded
      <4>3. age[r] < AgeCap BY <1>0, <2>3, <4>2
      <4>4. age'[r] = age[r] + 1 BY <2>2, <3>3, <4>1, <4>3
      <4>5. QED BY <1>0, <4>2, <4>4
    <3>6. clock[Api] + 1 <= ShutdownLimit BY <1>0, <3>1
    <3>7. QED BY <2>1, <2>4, <3>2, <3>4, <3>5, <3>6 DEF DrainBounded, Busy
  <2>5. CASE phase[Api] = "forced"
    <3>1. ~Handling BY <2>5 DEF Handling
    <3>2. \A r \in Requests : age'[r] = age[r] BY <2>2, <3>1
    <3>3. QED BY <2>1, <2>5, <3>2 DEF DrainBounded, Busy
  <2>6. QED BY <2>1, <2>4, <2>5 DEF DrainBounded
<1>9. CASE UNCHANGED vars
  BY <1>9 DEF vars, boot, handling, DrainBounded, Busy
<1>10. QED
  BY <1>1, <1>2, <1>3, <1>4, <1>5, <1>6, <1>7, <1>8, <1>9, Kinds, SubmitFrame, QueryFrame
  DEF ExitStep

-----------------------------------------------------------------------------
(***************************************************************************)
(* Submissions: the answer and the job.                                    *)
(***************************************************************************)
SubmissionOK(s) == Step(s) /\ Traced(s) /\ Answered(s)

LEMMA SubmissionsInit == Init => \A s \in Submits : SubmissionOK(s)
  BY DEF Init, SubmissionOK, Step, Traced, Answered, SubmitPlaces, Busy

\* An outage is never forgotten, and no worker process starts a second time.
GoesOn ==
    /\ outage => outage'
    /\ \A p \in Procs : Began(p) => Began(p)' /\ (phase'[p] = "running" => phase[p] = "running")

LEMMA EnterGoesOn ==
    ASSUME BootType, NEW p \in Procs, NEW from, NEW to, Enter(p, from, to), UNCHANGED outage,
           \/ from \notin {"running", "stopping"} \cup Exited
           \/ to \in {"stopping"} \cup Exited
    PROVE  GoesOn
<1>1. phase[p] = from /\ phase' = [phase EXCEPT ![p] = to] BY DEF Enter
<1>2. \A x \in Procs : phase'[x] = IF x = p THEN to ELSE phase[x]
  BY <1>1 DEF BootType
<1>3. to \in {"stopping"} \cup Exited => to # "running" BY DEF Exited
<1>4. QED BY <1>1, <1>2, <1>3 DEF GoesOn, Began

LEMMA UnchangedGoesOn ==
    ASSUME UNCHANGED phase, outage => outage'
    PROVE  GoesOn
  BY DEF GoesOn, Began

LEMMA NextGoesOn ==
    ASSUME BootType, HandlingType, [Next]_vars
    PROVE  GoesOn
<1>1. ASSUME NEW p \in Procs, Boot(p) PROVE GoesOn
  <2>1. UNCHANGED outage
    BY <1>1 DEF Boot, Connect, FindSchema, CreateSchema, MigrateFails, Dial, Listen, servers
  <2>2. \E x \in Procs, from \in Booting : \E to : Enter(x, from, to)
    BY <1>1 DEF Boot, Connect, FindSchema, CreateSchema, MigrateFails, Dial, Listen, Booting
  <2>3. \A from \in Booting : from \notin {"running", "stopping"} \cup Exited
    BY DEF Booting, Exited
  <2>4. QED BY <2>1, <2>2, <2>3, EnterGoesOn
<1>2. ASSUME NEW p \in Procs, Killed(p) PROVE GoesOn
  <2>1. Enter(p, phase[p], "killed") /\ UNCHANGED outage BY <1>2 DEF Killed, Enter
  <2>2. "killed" \in Exited BY DEF Exited
  <2>3. QED BY <2>1, <2>2, EnterGoesOn
<1>3. ASSUME PortTaken PROVE GoesOn
  <2>1. /\ outage' /\ phase[Api] = "listening"
        /\ phase' = [phase EXCEPT ![Api] = "failed"]
    BY <1>3 DEF PortTaken, Enter
  <2>2. QED BY <2>1 DEF GoesOn, Began, BootType, Exited
<1>4. ASSUME ServerFails \/ ServerReturns PROVE GoesOn
  BY <1>4, UnchangedGoesOn DEF ServerFails, ServerReturns, procs
<1>5. ASSUME \/ \E s \in Submits : SubmitStep(s)
             \/ \E q \in Queries : QueryStep(q)
      PROVE  GoesOn
  BY <1>5, SubmitFrame, QueryFrame, UnchangedGoesOn DEF boot
<1>6. ASSUME NEW s \in Submits, JobStep(s) PROVE GoesOn
  <2>1. UNCHANGED outage BY <1>6, JobFrame DEF servers
  <2>2. ASSUME NEW p \in Procs, phase' = [phase EXCEPT ![p] = "panicked"] PROVE GoesOn
    <3>1. Enter(p, phase[p], "panicked") BY <2>2 DEF Enter
    <3>2. "panicked" \in Exited BY DEF Exited
    <3>3. QED BY <2>1, <3>1, <3>2, EnterGoesOn
  <2>3. QED BY <1>6, <2>1, <2>2, JobFrame, UnchangedGoesOn
<1>7. ASSUME ExitStep PROVE GoesOn
  <2>1. UNCHANGED outage
    BY <1>7 DEF ExitStep, StopWorker, WorkerStopped, Signal, ShutdownDone, ShutdownForced, servers
  <2>2. \E p \in Procs : \/ Enter(p, "running", "stopping")
                         \/ Enter(p, "stopping", "stopped")
                         \/ Enter(p, "serving", "draining")
                         \/ Enter(p, "draining", "stopped")
                         \/ Enter(p, "draining", "forced")
    BY <1>7 DEF ExitStep, StopWorker, WorkerStopped, Signal, ShutdownDone, ShutdownForced
  <2>3. {"stopped", "forced"} \subseteq Exited /\ {"serving", "draining"} \cap Exited = {}
    BY DEF Exited
  <2>4. QED BY <2>1, <2>2, <2>3, EnterGoesOn
<1>8. ASSUME (\E r \in Requests : ConnectionStep(r)) \/ Tick \/ UNCHANGED vars
      PROVE  GoesOn
  BY <1>8, UnchangedGoesOn
  DEF ConnectionStep, OpenConnection, Disconnect, ClientLeaves, Tick, vars, boot, procs, servers
<1>9. QED
  BY <1>1, <1>2, <1>3, <1>4, <1>5, <1>6, <1>7, <1>8, Kinds DEF StartupNext

LEMMA SubmissionKept ==
    ASSUME JobsType, GoesOn, NEW s \in Submits, SubmissionOK(s), at'[s] = at[s],
           code'[s] = code[s], body'[s] = body[s], payload'[s] = payload[s], Apart(s)
    PROVE  SubmissionOK(s)'
<1>1. taker[s] \in Procs \cup {None} BY DEF JobsType
<1>2. Step(s)' BY DEF SubmissionOK, Step, Busy, Apart
<1>3. Traced(s)' BY <1>1 DEF SubmissionOK, Traced, Apart, GoesOn, Began
<1>4. Lost(s) => Lost(s)'
  BY <1>1 DEF SubmissionOK, Traced, Apart, GoesOn, Lost
<1>5. Answered(s)' BY <1>4 DEF SubmissionOK, Answered, Apart
<1>6. QED BY <1>2, <1>3, <1>5 DEF SubmissionOK

\* The step of another submission.
LEMMA OtherSubmission ==
    ASSUME HandlingType, JobsType, GoesOn, NEW s \in Submits, SubmissionOK(s),
           NEW t \in Submits \ {s}, SubmitStep(t)
    PROVE  SubmissionOK(s)'
<1>1. Same(s) /\ ran'[s] = ran[s] /\ result'[s] = result[s] /\ taker'[s] = taker[s]
  BY SubmitFrame DEF Working
<1> DEFINE Untouched == /\ body'[s] = body[s] /\ status'[s] = status[s]
                        /\ payload'[s] = payload[s] /\ place'[s] = place[s]
<1>2. Untouched
  <2>1. ASSUME NEW b \in Bodies, Submit(t, b) PROVE Untouched
    BY <2>1 DEF Submit, JobsType
  <2>2. ASSUME CreateJob(t) PROVE Untouched
    BY <2>2 DEF CreateJob, JobsType
  <2>3. ASSUME Enqueue(t) PROVE Untouched
    BY <2>3 DEF Enqueue, Pushed, NotPushed, JobsType
  <2>4. ASSUME Accept(t) PROVE Untouched
    BY <2>4 DEF Accept, jobs
  <2>5. QED BY <2>1, <2>2, <2>3, <2>4 DEF SubmitStep, Submission
<1>3. QED BY <1>1, <1>2, SubmissionKept DEF Same, Apart

\* A job that is cancelled, popped, claimed, executed or dropped is still the
\* one its client was told of.
LEMMA SubmissionWorked ==
    ASSUME BootType, JobsType, BootsExplained, GoesOn, NEW s \in Submits, SubmissionOK(s),
           NEW t \in Submits, JobStep(t)
    PROVE  SubmissionOK(s)'
<1>1. at'[s] = at[s] /\ code'[s] = code[s] /\ body'[s] = body[s] /\ payload'[s] = payload[s]
  BY JobFrame DEF handling
<1>2. CASE t # s
  BY <1>1, <1>2, OtherJobs, SubmissionKept
<1>3. CASE t = s
  <2>0. /\ Step(s) /\ Traced(s) /\ Answered(s) /\ Busy(s)' = Busy(s)
        /\ (~dbUp \/ ~redisUp => outage) /\ (outage => outage')
        /\ \A p \in Procs : Began(p) =>
              Began(p)' /\ (phase'[p] = "running" => phase[p] = "running")
    BY <1>1 DEF SubmissionOK, Busy, BootsExplained, GoesOn
  <2>1. CASE Cancel(s)
    <3>1. /\ status[s] = "queued" /\ status'[s] = "failed" /\ place'[s] = place[s]
          /\ taker'[s] = taker[s] /\ ran'[s] = ran[s] /\ UNCHANGED phase
      BY <2>1 DEF Cancel, JobsType, boot
    <3>2. QED
      BY <1>1, <2>0, <3>1 DEF SubmissionOK, Step, Traced, Answered, Began, Busy
  <2>2. CASE PopLost(s)
    <3>1. /\ place[s] = "list" /\ place'[s] = "gone" /\ ~redisUp
          /\ status'[s] = status[s] /\ taker'[s] = taker[s] /\ ran'[s] = ran[s]
          /\ result'[s] = result[s]
      BY <2>2 DEF PopLost, Put, JobsType
    <3>2. Lost(s)' BY <2>0, <3>1 DEF Lost
    <3>3. QED
      BY <1>1, <2>0, <3>1, <3>2 DEF SubmissionOK, Step, Traced, Answered, Busy
  <2>3. ASSUME NEW p \in Procs, Pop(s, p) PROVE SubmissionOK(s)'
    <3>1. /\ place[s] = "list" /\ place'[s] = "popped" /\ taker'[s] = p /\ AtWork(p)
          /\ status'[s] = status[s] /\ ran'[s] = ran[s] /\ result'[s] = result[s]
      BY <2>3 DEF Pop, Put, JobsType
    <3>2. Began(p)' BY <2>0, <3>1 DEF AtWork, Began
    <3>3. p # None BY ApiAssumption
    <3>4. QED
      BY <1>1, <2>0, <3>1, <3>2, <3>3 DEF SubmissionOK, Step, Traced, Answered, Busy, Began
  <2>4. ASSUME NEW p \in Procs, Has(p, s, "popped") \/ Has(p, s, "claimed")
        PROVE  /\ taker[s] = p /\ p # None /\ Began(p)'
               /\ ~Works(p) => Lost(s) /\ (taker'[s] = p => Lost(s)')
               /\ place[s] \in {"popped", "claimed"} /\ payload[s] # None
               /\ at[s] \notin {"idle", "fresh", "create", "push"} /\ code[s] # 400
    <3>1. taker[s] = p /\ AtWork(p) /\ place[s] \in {"popped", "claimed"} BY <2>4 DEF Has
    <3>2. p # None BY ApiAssumption
    <3>3. Began(p)' BY <2>0, <3>1 DEF AtWork, Began
    <3>4. ~Works(p) => outage \/ (phase[p] # "running" /\ phase'[p] # "running")
      BY <2>0, <3>1 DEF Works, AtWork, Began
    <3>5. ~Works(p) => Lost(s) /\ (taker'[s] = p => Lost(s)')
      BY <2>0, <3>1, <3>2, <3>4 DEF Lost
    <3>6. QED BY <2>0, <3>1, <3>2, <3>3, <3>5 DEF Step, Traced, Answered
  <2>5. ASSUME NEW p \in Procs, Claim(s, p) PROVE SubmissionOK(s)'
    <3>1. /\ Has(p, s, "popped") /\ place[s] = "popped" /\ taker'[s] = taker[s]
          /\ result'[s] = result[s]
          /\ \/ /\ status[s] = "queued" /\ place'[s] = "claimed" /\ status'[s] = "processing"
                /\ ran'[s] = Execution(payload[s])
             \/ /\ ~Works(p) \/ status[s] # "queued"
                /\ place'[s] = "gone" /\ status'[s] = status[s] /\ ran'[s] = ran[s]
             \/ /\ ~Works(p) /\ status[s] = "queued" /\ place'[s] = "gone"
                /\ status'[s] = "processing" /\ ran'[s] = ran[s]
      BY <2>5 DEF Claim, Has, Put, JobsType
    <3>2. Execution(payload[s]) # None
      BY <2>0, <2>4, <3>1, ApiAssumption DEF Traced
    <3>3. status[s] \in {"queued", "failed"} /\ ran[s] = None
      BY <2>0, <3>1 DEF Traced
    <3>4. Step(s)' BY <1>1, <2>0, <2>4, <3>1, <3>3 DEF Step, Busy
    <3>5. Traced(s)' BY <1>1, <2>0, <2>4, <3>1, <3>2, <3>3 DEF Traced, Began
    <3>6. Answered(s)' BY <1>1, <2>0, <2>4, <3>1, <3>3 DEF Answered
    <3>7. QED BY <3>4, <3>5, <3>6 DEF SubmissionOK
  <2>6. ASSUME NEW p \in Procs, Persist(s, p) PROVE SubmissionOK(s)'
    <3>1. /\ Has(p, s, "claimed") /\ place[s] = "claimed" /\ place'[s] = "gone"
          /\ taker'[s] = taker[s] /\ ran'[s] = ran[s]
      BY <2>6 DEF Persist, Has, Put, JobsType
    <3>2. \/ status'[s] = "completed" /\ result'[s] \in Stored(ran[s])
          \/ status'[s] = "failed"
          \/ ~Works(p) /\ status'[s] = status[s]
      BY <2>6 DEF Persist, Settle, JobsType
    <3>3. None \notin Results BY ApiAssumption DEF Results
    <3>4. status'[s] = "completed" => result'[s] # None
      BY <2>0, <3>1, <3>2, <3>3, StoredResults DEF Traced
    <3>5. status[s] = "processing" /\ ran[s] # None BY <2>0, <3>1 DEF Traced
    <3>6. Step(s)' BY <1>1, <2>0, <2>4, <3>1, <3>2, <3>5 DEF Step, Busy
    <3>7. Traced(s)' BY <1>1, <2>0, <2>4, <3>1, <3>2, <3>4, <3>5 DEF Traced, Began
    <3>8. Answered(s)' BY <1>1, <2>0, <2>4, <3>1, <3>2, <3>5 DEF Answered
    <3>9. QED BY <3>6, <3>7, <3>8 DEF SubmissionOK
  <2>7. ASSUME NEW p \in Procs, GiveUp(s, p) PROVE SubmissionOK(s)'
    <3>1. /\ Has(p, s, "claimed") /\ place[s] = "claimed" /\ place'[s] = "gone" /\ ~Works(p)
          /\ status'[s] = status[s] /\ taker'[s] = taker[s] /\ ran'[s] = ran[s]
          /\ result'[s] = result[s]
      BY <2>7 DEF GiveUp, Has, Put, Works, JobsType
    <3>2. Step(s)' BY <1>1, <2>0, <2>4, <3>1 DEF Step, Busy
    <3>3. Traced(s)' BY <1>1, <2>0, <2>4, <3>1 DEF Traced, Began
    <3>4. Answered(s)' BY <1>1, <2>0, <2>4, <3>1 DEF Answered
    <3>5. QED BY <3>2, <3>3, <3>4 DEF SubmissionOK
  <2>8. ASSUME NEW p \in Procs, Panic(s, p) PROVE SubmissionOK(s)'
    <3>1. Apart(s) BY <2>8 DEF Panic, jobs, Apart
    <3>2. QED BY <1>1, <3>1, SubmissionKept
  <2>9. QED
    BY <1>3, <2>1, <2>2, <2>3, <2>5, <2>6, <2>7, <2>8 DEF JobStep, Job
<1>4. QED BY <1>2, <1>3

LEMMA SubmissionsNext ==
    ASSUME TypeOK, BootsExplained, NEW s \in Submits, SubmissionOK(s), [Next]_vars
    PROVE  SubmissionOK(s)'
<1>0. BootType /\ HandlingType /\ JobsType /\ s \in Requests BY DEF TypeOK
<1>a. GoesOn BY <1>0, NextGoesOn
<1>1. ASSUME NEW b \in Bodies, Submit(s, b) PROVE SubmissionOK(s)'
  <2>1. at[s] = "fresh" /\ body'[s] = b
    BY <1>0, <1>1 DEF Submit, Move, Respond, JobsType
  <2>2. /\ status'[s] = "absent" /\ payload'[s] = None /\ place'[s] = "none"
        /\ taker'[s] = None /\ ran'[s] = None
    BY <1>1, <2>1 DEF Submit, SubmissionOK, Step, Traced
  <2>3. CASE Valid(b)
    <3>1. at'[s] = "create" /\ code'[s] = 0
      BY <1>0, <1>1, <2>1, <2>3, MoveFrame DEF Submit, SubmissionOK, Step
    <3>2. QED
      BY <2>1, <2>2, <2>3, <3>1
      DEF SubmissionOK, Step, Traced, Answered, Busy, SubmitPlaces
  <2>4. CASE ~Valid(b)
    <3>1. Respond(s, "fresh", 400) BY <1>1, <2>4 DEF Submit
    <3>2. at'[s] = "done" /\ code'[s] = 400
      BY <1>0, <3>1, RespondFrame
    <3>3. QED
      BY <2>1, <2>2, <3>2 DEF SubmissionOK, Step, Traced, Answered, Busy, SubmitPlaces
  <2>5. QED BY <2>3, <2>4
<1>2. ASSUME CreateJob(s) PROVE SubmissionOK(s)'
  <2>1. at[s] = "create" BY <1>2 DEF CreateJob, Move, Respond
  <2>2. /\ body'[s] = body[s] /\ payload'[s] = None /\ place'[s] = "none"
        /\ taker'[s] = None /\ ran'[s] = None
        /\ body[s] \in Bodies /\ Valid(body[s]) /\ code[s] = 0
    BY <1>2, <2>1 DEF CreateJob, SubmissionOK, Step, Traced, Busy
  <2>3. CASE dbUp /\ ~gone[s]
    <3>1. Move(s, "create", "push") BY <1>2, <2>3 DEF CreateJob
    <3>2. at'[s] = "push" /\ code'[s] = 0 BY <1>0, <2>2, <3>1, MoveFrame
    <3>3. status'[s] = "queued" BY <1>0, <1>2, <2>3 DEF CreateJob, JobsType
    <3>4. QED
      BY <2>2, <3>2, <3>3 DEF SubmissionOK, Step, Traced, Answered, Busy, SubmitPlaces
  <2>4. CASE ~(dbUp /\ ~gone[s])
    <3>1. Respond(s, "create", 500) BY <1>2, <2>4 DEF CreateJob
    <3>2. at'[s] = "done" /\ code'[s] = 500 BY <1>0, <3>1, RespondFrame
    <3>3. status'[s] \in {"absent", "queued"}
      BY <1>0, <1>2, <2>1, <2>4 DEF CreateJob, JobsType, SubmissionOK, Step
    <3>4. QED
      BY <2>2, <3>2, <3>3 DEF SubmissionOK, Step, Traced, Answered, Busy, SubmitPlaces
  <2>5. QED BY <2>3, <2>4
<1>3. ASSUME Enqueue(s) PROVE SubmissionOK(s)'
  <2>1. at[s] = "push" BY <1>3 DEF Enqueue, Move, Respond
  <2>2. /\ body'[s] = body[s] /\ status'[s] = status[s] /\ status[s] \in {"queued", "failed"}
        /\ ran'[s] = None /\ taker'[s] = None
        /\ body[s] \in Bodies /\ Valid(body[s]) /\ code[s] = 0
        /\ payload[s] = None /\ place[s] = "none"
    BY <1>3, <2>1 DEF Enqueue, SubmissionOK, Step, Traced, Busy
  <2>3. JobPayload(body[s]) # None BY <2>2, ApiAssumption
  <2>4. Pushed(s) => payload'[s] = JobPayload(body[s]) /\ place'[s] = "list"
    BY <1>0 DEF Pushed, JobsType
  <2>5. CASE redisUp /\ ~gone[s]
    <3>1. Move(s, "push", "report") /\ Pushed(s) BY <1>3, <2>5 DEF Enqueue
    <3>2. at'[s] = "report" /\ code'[s] = 0 BY <1>0, <2>2, <3>1, MoveFrame
    <3>3. QED
      BY <2>2, <2>3, <2>4, <3>1, <3>2
      DEF SubmissionOK, Step, Traced, Answered, Busy, SubmitPlaces
  <2>6. CASE ~(redisUp /\ ~gone[s])
    <3>1. Respond(s, "push", 500) BY <1>3, <2>6 DEF Enqueue
    <3>2. at'[s] = "done" /\ code'[s] = 500 BY <1>0, <3>1, RespondFrame
    <3>3. \/ payload'[s] = JobPayload(body[s]) /\ place'[s] = "list"
          \/ payload'[s] = None /\ place'[s] = "none"
      BY <1>3, <2>2, <2>4, <2>6 DEF Enqueue, NotPushed
    <3>4. QED
      BY <2>2, <2>3, <3>2, <3>3 DEF SubmissionOK, Step, Traced, Answered, Busy, SubmitPlaces
  <2>7. QED BY <2>5, <2>6
<1>4. ASSUME Accept(s) PROVE SubmissionOK(s)'
  <2>1. Respond(s, "report", 202) /\ UNCHANGED jobs /\ UNCHANGED boot BY <1>4 DEF Accept
  <2>2. at[s] = "report" /\ at'[s] = "done" /\ code'[s] = 202 /\ code[s] = 0
    BY <1>0, <2>1, RespondFrame DEF SubmissionOK, Step
  <2>3. UNCHANGED <<body, status, result, payload, place, taker, ran, phase, outage>>
    BY <2>1 DEF jobs, boot
  <2>4. QED
    BY <2>2, <2>3 DEF SubmissionOK, Step, Traced, Answered, Busy, SubmitPlaces, Began, Lost
<1>5. ASSUME NEW q \in Queries, QueryStep(q) PROVE SubmissionOK(s)'
  <2>1. Same(s) /\ UNCHANGED jobs
    BY <1>0, <1>5, QueryFrame, ApiAssumption DEF Working
  <2>2. QED BY <1>0, <1>a, <2>1, SubmissionKept DEF Same, jobs, Apart
<1>6. ASSUME NEW r \in Requests, ConnectionStep(r) PROVE SubmissionOK(s)'
  <2>1. UNCHANGED jobs /\ code'[s] = code[s]
    BY <1>6 DEF ConnectionStep, OpenConnection, Disconnect, ClientLeaves
  <2>2. CASE at'[s] = at[s]
    BY <1>0, <1>a, <2>1, <2>2, SubmissionKept DEF jobs, Apart
  <2>3. CASE at'[s] # at[s]
    <3>1. at[s] \in {"idle", "fresh"} /\ at'[s] \in {"fresh", "done"}
      BY <1>0, <1>6, <2>3
      DEF ConnectionStep, OpenConnection, Disconnect, ClientLeaves, HandlingType
    <3>2. /\ status'[s] = "absent" /\ payload'[s] = None /\ place'[s] = "none"
          /\ taker'[s] = None /\ ran'[s] = None /\ code'[s] = 0
      BY <2>1, <3>1 DEF SubmissionOK, Step, Traced, jobs
    <3>3. QED
      BY <3>1, <3>2 DEF SubmissionOK, Step, Traced, Answered, Busy, SubmitPlaces
  <2>4. QED BY <2>2, <2>3
<1>7. ASSUME \/ StartupNext /\ UNCHANGED <<handling, jobs, reading>>
             \/ ExitStep \/ Tick \/ UNCHANGED vars
      PROVE  SubmissionOK(s)'
  <2>1. UNCHANGED <<at, code, jobs>>
    BY <1>7 DEF ExitStep, StopWorker, WorkerStopped, Signal, ShutdownDone, ShutdownForced,
                Tick, vars, handling
  <2>2. QED BY <1>0, <1>a, <2>1, SubmissionKept DEF jobs, Apart
<1>8. ASSUME SubmitStep(s) PROVE SubmissionOK(s)'
  BY <1>1, <1>2, <1>3, <1>4, <1>8 DEF SubmitStep, Submission
<1>9. QED
  BY <1>0, <1>a, <1>5, <1>6, <1>7, <1>8, OtherSubmission, SubmissionWorked, Kinds

-----------------------------------------------------------------------------
(***************************************************************************)
(* Queries: what was gathered, and from what.                              *)
(***************************************************************************)
QueryOK(q) == Place(q) /\ Loaded(q) /\ Gathered(q) /\ Timed(q)

LEMMA QueriesInit == Init => \A q \in Queries : QueryOK(q)
<1> SUFFICES ASSUME Init, NEW q \in Queries PROVE QueryOK(q)
  OBVIOUS
<1>1. /\ at[q] = "idle" /\ code[q] = 0 /\ heard[q] = FALSE /\ notes[q] = <<>>
      /\ spent[q] = 0 /\ job[q] = None /\ asked[q] = 0
  BY DEF Init
<1>2. QED
  BY <1>1 DEF QueryOK, Place, Loaded, Gathered, Timed, Busy, QueryPlaces

\* A completed row never changes again.
LEMMA CompletedStays ==
    ASSUME TypeOK, \A s \in Submits : SubmissionOK(s), [Next]_vars,
           NEW s \in Submits, status[s] = "completed"
    PROVE  status'[s] = "completed" /\ result'[s] = result[s]
<1> DEFINE Stays == status'[s] = "completed" /\ result'[s] = result[s]
<1>0. HandlingType /\ JobsType BY DEF TypeOK
<1>1. ASSUME NEW t \in Submits, SubmitStep(t) PROVE Stays
  <2>1. UNCHANGED result BY <1>0, <1>1, SubmitFrame
  <2>2. ASSUME NEW b \in Bodies, Submit(t, b) PROVE Stays
    BY <2>2 DEF Submit
  <2>3. ASSUME CreateJob(t) PROVE Stays
    <3>1. at[t] = "create" BY <2>3 DEF CreateJob, Move, Respond
    <3>2. t # s BY <3>1 DEF SubmissionOK, Step
    <3>3. QED BY <1>0, <2>1, <2>3, <3>2 DEF CreateJob, JobsType
  <2>4. ASSUME Enqueue(t) PROVE Stays
    BY <2>4 DEF Enqueue
  <2>5. ASSUME Accept(t) PROVE Stays
    BY <2>5 DEF Accept, jobs
  <2>6. QED BY <1>1, <2>2, <2>3, <2>4, <2>5 DEF SubmitStep, Submission
<1>2. ASSUME NEW t \in Submits, JobStep(t) PROVE Stays
  <2>1. CASE t # s
    BY <1>0, <1>2, <2>1, OtherJobs DEF Apart
  <2>2. ASSUME Cancel(s) \/ PopLost(s) PROVE Stays
    BY <2>2 DEF Cancel, PopLost
  <2>3. ASSUME NEW p \in Procs, Job(s, p) PROVE Stays
    <3>1. ~Has(p, s, "claimed") /\ (Has(p, s, "popped") => FALSE)
      BY DEF Has, SubmissionOK, Traced
    <3>2. QED BY <2>3, <3>1 DEF Job, Pop, Claim, Persist, GiveUp, Panic
  <2>4. QED BY <1>2, <2>1, <2>2, <2>3 DEF JobStep
<1>3. ASSUME NEW q \in Queries, QueryStep(q) PROVE Stays
  BY <1>0, <1>3, QueryFrame DEF jobs
<1>4. ASSUME \/ StartupNext /\ UNCHANGED <<handling, jobs, reading>>
             \/ \E r \in Requests : ConnectionStep(r)
             \/ ExitStep \/ Tick \/ UNCHANGED vars
      PROVE  Stays
  BY <1>4
  DEF ConnectionStep, OpenConnection, Disconnect, ClientLeaves, ExitStep, StopWorker,
      WorkerStopped, Signal, ShutdownDone, ShutdownForced, Tick, vars, jobs
<1> HIDE DEF Stays
<1>5. Stays BY <1>1, <1>2, <1>3, <1>4, Kinds
<1>6. QED BY <1>5 DEF Stays

\* A step elsewhere.
LEMMA QueryKept ==
    ASSUME NEW q \in Queries, QueryOK(q),
           at'[q] = at[q], code'[q] = code[q], heard'[q] = heard[q], age'[q] = age[q],
           target'[q] = target[q], job'[q] = job[q], notes'[q] = notes[q],
           asked'[q] = asked[q], spent'[q] = spent[q],
           \A s \in Submits : status[s] = "completed" =>
                status'[s] = "completed" /\ result'[s] = result[s]
    PROVE  QueryOK(q)'
<1>1. Place(q)'
  BY DEF QueryOK, Place, MorePages, NextPage
<1>2. Loaded(q)'
  BY DEF QueryOK, Loaded
<1>3. Gathered(q)'
  BY DEF QueryOK, Gathered, AskedAbout
<1>4. Timed(q)'
  BY DEF QueryOK, Timed, Busy
<1>5. QED BY <1>1, <1>2, <1>3, <1>4 DEF QueryOK

LEMMA Counting ==
    ASSUME NEW n \in Nat, NEW pages
    PROVE  LET chosen(m) == {i \in 1..m : pages[i]}
           IN  /\ Cardinality(chosen(n)) \in Nat
               /\ Cardinality(chosen(n + 1))
                     = Cardinality(chosen(n)) + (IF pages[n + 1] THEN 1 ELSE 0)
<1> DEFINE chosen(m) == {i \in 1..m : pages[i]}
<1>1. IsFiniteSet(chosen(n))
  <2>1. IsFiniteSet(1..n) BY FS_Interval
  <2>2. QED BY <2>1, FS_Subset
<1>2. n + 1 \notin chosen(n) OBVIOUS
<1>3. pages[n + 1] => chosen(n + 1) = chosen(n) \cup {n + 1} OBVIOUS
<1>4. ~pages[n + 1] => chosen(n + 1) = chosen(n) OBVIOUS
<1>5. Cardinality(chosen(n)) \in Nat BY <1>1, FS_CardinalityType
<1>6. Cardinality(chosen(n) \cup {n + 1}) = Cardinality(chosen(n)) + 1
  BY <1>1, <1>2, FS_AddElement
<1> HIDE DEF chosen
<1>7. Cardinality(chosen(n + 1)) = Cardinality(chosen(n)) + (IF pages[n + 1] THEN 1 ELSE 0)
  BY <1>3, <1>4, <1>5, <1>6
<1>8. QED BY <1>5, <1>7 DEF chosen

LEMMA PagesLength ==
    ASSUME NEW r \in Results
    PROVE  Len(Pages(r)) \in Nat
<1>1. r.pages \in Seq(BOOLEAN)
  BY DEF Results
<1>2. CASE r.pages = <<>>
  BY <1>2 DEF Pages
<1>3. CASE r.pages # <<>>
  <2>1. Pages(r) \in Seq(BOOLEAN) BY <1>1, <1>3 DEF Pages
  <2>2. QED BY ONLY <2>1, LenProperties
<1>4. QED BY <1>2, <1>3

LEMMA AskedFinite ==
    ASSUME NEW q \in Queries, notes[q] \in Seq(Notes)
    PROVE  Cardinality(AskedAbout(q)) \in Nat
<1>1. Len(notes[q]) \in Nat BY ONLY notes[q] \in Seq(Notes), LenProperties
<1>2. QED BY <1>1, Counting DEF AskedAbout

\* One more page is noted, whatever was noted.
LEMMA NoteTaken ==
    ASSUME ReadingType, NEW q \in Queries, NEW what \in Notes, Note(q, what)
    PROVE  /\ notes[q] \in Seq(Notes) /\ Len(notes[q]) \in Nat
           /\ Len(notes'[q]) = Len(notes[q]) + 1
           /\ \A i \in 1..Len(notes[q]) : notes'[q][i] = notes[q][i]
           /\ notes'[q][Len(notes[q]) + 1] = what
<1>1. notes[q] \in Seq(Notes) BY DEF ReadingType
<1>2. notes'[q] = Append(notes[q], what) BY DEF Note, ReadingType
<1>3. /\ Len(Append(notes[q], what)) = Len(notes[q]) + 1
      /\ \A i \in 1..Len(notes[q]) : Append(notes[q], what)[i] = notes[q][i]
      /\ Append(notes[q], what)[Len(notes[q]) + 1] = what
  BY ONLY <1>1, what \in Notes, AppendProperties
<1>4. QED BY <1>1, <1>2, <1>3

LEMMA NoteGathered ==
    ASSUME ReadingType, NEW q \in Queries, NEW what \in Notes, Note(q, what),
           job[q] # None, job'[q] = job[q], Gathered(q), MorePages(q),
           what = "no markdown" <=> ~NextPage(q)
    PROVE  /\ Len(notes'[q]) = Len(notes[q]) + 1
           /\ Len(notes'[q]) <= Len(Pages(job'[q]))
           /\ \A i \in 1..Len(notes'[q]) :
                 notes'[q][i] = "no markdown" <=> ~Pages(job'[q])[i]
           /\ Cardinality(AskedAbout(q)) \in Nat
           /\ Cardinality(AskedAbout(q)')
                 = Cardinality(AskedAbout(q)) + (IF NextPage(q) THEN 1 ELSE 0)
<1> DEFINE n == Len(notes[q])
           pages == Pages(job[q])
<1>1. /\ n \in Nat /\ Len(notes'[q]) = n + 1
      /\ \A i \in 1..n : notes'[q][i] = notes[q][i]
      /\ notes'[q][n + 1] = what
  BY NoteTaken
<1>2. /\ Pages(job'[q]) = pages /\ n < Len(pages) /\ NextPage(q) = pages[n + 1]
      /\ \A i \in 1..n : notes[q][i] = "no markdown" <=> ~pages[i]
  BY DEF MorePages, NextPage, Gathered
<1>3. job[q] \in Results
  BY DEF ReadingType
<1>4. Len(pages) \in Nat
  BY <1>3, PagesLength
<1>5. AskedAbout(q) = {i \in 1..n : pages[i]} /\ AskedAbout(q)' = {i \in 1..n+1 : pages[i]}
  BY <1>1, <1>2 DEF AskedAbout
<1> HIDE DEF n, pages
<1>6. /\ Cardinality(AskedAbout(q)) \in Nat
      /\ Cardinality(AskedAbout(q)') = Cardinality(AskedAbout(q)) + (IF pages[n + 1] THEN 1 ELSE 0)
  BY <1>1, <1>5, Counting
<1>7. \A i \in 1..(n + 1) : notes'[q][i] = "no markdown" <=> ~pages[i]
  <2>1. ASSUME NEW i \in 1..n PROVE notes'[q][i] = "no markdown" <=> ~pages[i]
    BY <1>1, <1>2, <2>1
  <2>2. notes'[q][n + 1] = "no markdown" <=> ~pages[n + 1]
    BY <1>1, <1>2
  <2>3. \A i \in 1..(n + 1) : i \in 1..n \/ i = n + 1
    <3>1. n \in Nat BY <1>1
    <3>2. QED BY ONLY <3>1
  <2>4. QED BY <2>1, <2>2, <2>3
<1>8. n + 1 <= Len(pages)
  <2>1. n \in Nat /\ n < Len(pages) BY <1>1, <1>2
  <2>2. QED BY ONLY <1>4, <2>1
<1>9. Len(notes'[q]) = Len(notes[q]) + 1 BY <1>1 DEF n
<1>10. Len(notes'[q]) <= Len(Pages(job'[q])) BY <1>1, <1>2, <1>8
<1>11. \A i \in 1..Len(notes'[q]) : notes'[q][i] = "no markdown" <=> ~Pages(job'[q])[i]
  BY <1>1, <1>2, <1>7
<1>12. QED BY <1>2, <1>6, <1>9, <1>10, <1>11

\* What the last call cost does not show in an answer that arrives.
LEMMA TimelyAnswer ==
    ASSUME TypeOK, NEW q \in Queries, NEW from, NEW answer, Respond(q, from, answer),
           Timed(q), spent'[q] = spent[q], Busy(q) \/ spent[q] = 0
    PROVE  Timed(q)'
<1>1. /\ at[q] = from /\ at'[q] = "done"
      /\ heard'[q] = (~gone[q] /\ (from = "fresh" \/ age[q] < WriteTimeout))
  BY RespondFrame DEF TypeOK
<1>2. age[q] \in Nat /\ spent[q] \in Nat /\ WriteTimeout \in Nat /\ LlmTimeout \in Nat
      /\ WriteTimeout <= LlmTimeout /\ LlmTimeout > 0
  BY ApiAssumption DEF TypeOK, HandlingType, ReadingType
<1>3. spent[q] = 0 => spent[q] < LlmTimeout
  BY <1>2
<1>4. Busy(q) /\ age[q] < WriteTimeout => spent[q] < LlmTimeout
  BY <1>2 DEF Timed
<1>5. from = "fresh" => ~Busy(q)
  BY <1>1 DEF Busy
<1>6. QED BY <1>1, <1>3, <1>4, <1>5 DEF Timed, Busy

LEMMA SameCount ==
    ASSUME NEW c \in Nat, NEW k \in {0, 1}, NEW after, after = c + k, NEW sum, sum = c + k
    PROVE  sum = after + 0
  OBVIOUS

LEMMA FirstIsLast == \A n \in Nat : n + 1 <= 1 => n + 1 = 1
  OBVIOUS

LEMMA QueryStepOK ==
    ASSUME TypeOK, \A s \in Submits : SubmissionOK(s),
           NEW q \in Queries, QueryOK(q), QueryStep(q), [Next]_vars
    PROVE  QueryOK(q)'
<1>0. /\ q \in Requests /\ HandlingType /\ ReadingType
      /\ notes[q] \in Seq(Notes) /\ asked[q] \in Nat /\ spent[q] \in Nat /\ age[q] \in Nat
  BY DEF TypeOK, ReadingType, HandlingType
<1>1. Place(q) /\ Loaded(q) /\ Gathered(q) /\ Timed(q)
  BY DEF QueryOK
<1>2. \A s \in Submits : status[s] = "completed" =>
          status'[s] = "completed" /\ result'[s] = result[s]
  BY CompletedStays
<1>3. UNCHANGED jobs
  BY <1>0, QueryFrame
<1>4. ASSUME NEW j \in Submits \cup {None}, NEW ok \in BOOLEAN, AskExtract(q, j, ok)
      PROVE  QueryOK(q)'
  <2>1. /\ UNCHANGED <<job, notes, asked, spent>> /\ at[q] = "fresh"
    BY <1>4 DEF AskExtract, Move, Respond
  <2>2. job[q] = None /\ notes[q] = <<>> /\ spent[q] = 0 /\ asked[q] = 0
    BY <1>1, <2>1 DEF Place, Loaded
  <2>3. CASE Move(q, "fresh", "load")
    <3>1. at'[q] = "load" /\ code'[q] = 0 /\ ~heard'[q] /\ age'[q] = 0
      BY <1>0, <1>1, <2>3, <2>1, MoveFrame DEF Place
    <3>2. QED
      BY <1>0, <2>1, <2>2, <3>1 DEF QueryOK, Place, Loaded, Gathered, Timed, Busy, QueryPlaces
  <2>4. CASE \E answer : Respond(q, "fresh", answer)
    <3>1. at'[q] = "done" /\ Timed(q)'
      BY <1>0, <1>1, <2>1, <2>2, <2>4, RespondFrame, TimelyAnswer
    <3>2. QED
      BY <2>1, <2>2, <3>1 DEF QueryOK, Place, Loaded, Gathered, QueryPlaces
  <2>5. QED BY <1>4, <2>3, <2>4 DEF AskExtract
<1>5. ASSUME LoadRefused(q) PROVE QueryOK(q)'
  <2>1. UNCHANGED reading /\ \E answer : Respond(q, "load", answer)
    BY <1>5 DEF LoadRefused
  <2>2. at[q] = "load" /\ at'[q] = "done" BY <1>0, <2>1, RespondFrame
  <2>3. UNCHANGED <<target, job, notes, asked, spent>> BY <2>1 DEF reading
  <2>4. job[q] = None /\ asked[q] = 0 BY <1>1, <2>2 DEF Place, Loaded
  <2>5. Timed(q)' BY <1>1, <2>1, <2>2, <2>3, TimelyAnswer DEF Busy
  <2>6. QED
    BY <2>2, <2>3, <2>4, <2>5 DEF QueryOK, Place, Loaded, Gathered, QueryPlaces
<1>6. ASSUME Load(q) PROVE QueryOK(q)'
  <2>1. /\ Move(q, "load", "page") /\ UNCHANGED <<target, notes, asked, spent>>
        /\ target[q] \in Submits /\ status[target[q]] = "completed"
        /\ job'[q] = result[target[q]]
    BY <1>6 DEF Load, Known, Extractable, TypeOK, ReadingType
  <2>2. at[q] = "load" /\ at'[q] = "page" /\ age'[q] = age[q] /\ heard'[q] = heard[q]
        /\ code'[q] = code[q]
    BY <1>0, <2>1, MoveFrame
  <2>3. /\ job[q] = None /\ notes[q] = <<>> /\ spent[q] = 0 /\ asked[q] = 0
        /\ code[q] = 0 /\ ~heard[q]
    BY <1>1, <2>2 DEF Place, Loaded
  <2>4. job'[q] # None
    BY <2>1 DEF SubmissionOK, Traced
  <2>5. Place(q)'
    BY <2>1, <2>2, <2>3, <2>4 DEF Place, QueryPlaces
  <2>6. Loaded(q)'
    BY <1>2, <2>1, <2>4 DEF Loaded
  <2>7. Gathered(q)'
    <3>1. job'[q] \in Results
      BY <2>1, <2>4 DEF TypeOK, JobsType
    <3>2. Len(Pages(job'[q])) \in Nat
      BY <3>1, PagesLength
    <3>3. notes'[q] = <<>> /\ asked'[q] = 0 BY <2>1, <2>3
    <3>4. AskedAbout(q)' = {} BY <3>3 DEF AskedAbout
    <3>5. Cardinality(AskedAbout(q)') = 0 BY <3>4, FS_EmptySet
    <3>6. QED BY <2>2, <3>2, <3>3, <3>5 DEF Gathered
  <2>8. Timed(q)'
    BY <1>0, <2>1, <2>2, <2>3 DEF Timed, Busy
  <2>9. QED BY <2>5, <2>6, <2>7, <2>8 DEF QueryOK
<1>7. ASSUME SkipPage(q) PROVE QueryOK(q)'
  <2>1. /\ Move(q, "page", "page") /\ UNCHANGED <<target, job, asked, spent>>
        /\ MorePages(q) /\ ~NextPage(q) /\ Note(q, "no markdown")
    BY <1>7 DEF SkipPage
  <2>2. at[q] = "page" /\ at'[q] = "page" /\ age'[q] = age[q] /\ heard'[q] = heard[q]
        /\ code'[q] = code[q]
    BY <1>0, <2>1, MoveFrame
  <2>3. job[q] # None /\ code[q] = 0 /\ ~heard[q] BY <1>1, <2>2 DEF Place
  <2>4. Place(q)' BY <2>1, <2>2, <2>3 DEF Place, QueryPlaces
  <2>5. Loaded(q)' BY <1>1, <1>2, <2>1 DEF Loaded
  <2>6. Gathered(q)'
    <3>1. "no markdown" \in Notes BY DEF Notes
    <3>2. /\ Len(notes'[q]) <= Len(Pages(job'[q]))
          /\ \A i \in 1..Len(notes'[q]) :
                notes'[q][i] = "no markdown" <=> ~Pages(job'[q])[i]
          /\ Cardinality(AskedAbout(q)) \in Nat
          /\ Cardinality(AskedAbout(q)') = Cardinality(AskedAbout(q)) + 0
      BY <1>0, <1>1, <2>1, <2>3, <3>1, NoteGathered
    <3>3. asked'[q] = Cardinality(AskedAbout(q)) + 0
      BY <1>1, <2>1, <2>2, <2>3 DEF Gathered
    <3>4. asked'[q] = Cardinality(AskedAbout(q)') + 0
      BY ONLY <3>2, <3>3, SameCount
    <3>5. QED BY <2>1, <2>2, <3>2, <3>4 DEF Gathered
  <2>7. Timed(q)' BY <1>1, <2>1, <2>2, <2>3 DEF Timed, Busy
  <2>8. QED BY <2>4, <2>5, <2>6, <2>7 DEF QueryOK
<1>8. ASSUME CallLlm(q) PROVE QueryOK(q)'
  <2>1. /\ Move(q, "page", "call") /\ UNCHANGED <<target, job, notes>>
        /\ MorePages(q) /\ NextPage(q) /\ asked'[q] = asked[q] + 1 /\ spent'[q] = 0
    BY <1>0, <1>8 DEF CallLlm, ReadingType
  <2>2. at[q] = "page" /\ at'[q] = "call" /\ age'[q] = age[q] /\ heard'[q] = heard[q]
        /\ code'[q] = code[q]
    BY <1>0, <2>1, MoveFrame
  <2>3. job[q] # None /\ code[q] = 0 /\ ~heard[q] BY <1>1, <2>2 DEF Place
  <2>4. Place(q)'
    BY <2>1, <2>2, <2>3 DEF Place, QueryPlaces, MorePages, NextPage
  <2>5. Loaded(q)' BY <1>1, <1>2, <2>1, <2>3 DEF Loaded
  <2>6. Gathered(q)'
    <3>1. AskedAbout(q)' = AskedAbout(q) BY <2>1 DEF AskedAbout
    <3>2. asked[q] = Cardinality(AskedAbout(q)) + 0
      BY <1>1, <2>2, <2>3 DEF Gathered
    <3>3. Cardinality(AskedAbout(q)) \in Nat
      BY <1>0, AskedFinite
    <3>4. asked'[q] = Cardinality(AskedAbout(q)') + 1
      BY <2>1, <3>1, <3>2, <3>3
    <3>5. QED BY <1>1, <2>1, <2>2, <2>3, <3>4 DEF Gathered
  <2>7. Timed(q)' BY <1>0, <2>1, <2>2, <2>3 DEF Timed, Busy
  <2>8. QED BY <2>4, <2>5, <2>6, <2>7 DEF QueryOK
<1>9. ASSUME NEW outcome \in {"extracted", "extract failed"}, LlmReturns(q, outcome)
       PROVE  QueryOK(q)'
  <2>1. /\ at[q] = "call" /\ Note(q, outcome) /\ UNCHANGED <<target, job, asked, spent>>
    BY <1>9 DEF LlmReturns
  <2>2. job[q] # None /\ code[q] = 0 /\ ~heard[q] /\ MorePages(q) /\ NextPage(q)
    BY <1>1, <2>1 DEF Place
  <2>3. outcome \in Notes /\ outcome # "no markdown" BY DEF Notes
  <2>4. Loaded(q)' BY <1>1, <1>2, <2>1, <2>2 DEF Loaded
  <2>5. /\ Len(notes'[q]) = Len(notes[q]) + 1
        /\ Len(notes'[q]) <= Len(Pages(job'[q]))
        /\ \A i \in 1..Len(notes'[q]) :
              notes'[q][i] = "no markdown" <=> ~Pages(job'[q])[i]
        /\ asked'[q] = Cardinality(AskedAbout(q)') + 0
    <3>1. /\ Len(notes'[q]) = Len(notes[q]) + 1
          /\ Len(notes'[q]) <= Len(Pages(job'[q]))
          /\ \A i \in 1..Len(notes'[q]) :
                notes'[q][i] = "no markdown" <=> ~Pages(job'[q])[i]
          /\ Cardinality(AskedAbout(q)) \in Nat
          /\ Cardinality(AskedAbout(q)') = Cardinality(AskedAbout(q)) + 1
      BY <1>0, <1>1, <2>1, <2>2, <2>3, NoteGathered
    <3>2. asked'[q] = Cardinality(AskedAbout(q)) + 1
      BY <1>1, <2>1, <2>2 DEF Gathered
    <3>3. asked'[q] = Cardinality(AskedAbout(q)') + 0
      BY ONLY <3>1, <3>2, SameCount
    <3>4. QED BY <3>1, <3>3
  <2>6. CASE job[q].pages # <<>>
    <3>1. Move(q, "call", "page") BY <1>9, <2>6 DEF LlmReturns
    <3>2. at'[q] = "page" /\ age'[q] = age[q] /\ heard'[q] = heard[q] /\ code'[q] = code[q]
      <4>1. "call" # "fresh" OBVIOUS
      <4>2. QED BY ONLY <1>0, <3>1, <4>1, MoveFrame
    <3>3. Place(q)' BY <2>1, <2>2, <3>2 DEF Place, QueryPlaces
    <3>4. Gathered(q)' BY <2>5, <3>2 DEF Gathered
    <3>5. Timed(q)' BY <1>1, <2>1, <2>2, <3>2 DEF Timed, Busy
    <3>6. QED BY <2>4, <3>3, <3>4, <3>5 DEF QueryOK
  <2>7. CASE job[q].pages = <<>>
    <3>1. \E answer : Respond(q, "call", answer) BY <1>9, <2>7 DEF LlmReturns
    <3>2. at'[q] = "done" BY <1>0, <3>1, RespondFrame
    <3>3. Place(q)' BY <2>1, <2>2, <3>2 DEF Place, QueryPlaces
    <3>4. Len(notes'[q]) = Len(Pages(job'[q]))
      <4>1. Len(Pages(job'[q])) = 1 BY <2>1, <2>7 DEF Pages
      <4>2. Len(notes[q]) \in Nat BY ONLY <1>0, LenProperties
      <4>3. Len(notes'[q]) = Len(notes[q]) + 1 /\ Len(notes'[q]) <= 1
        BY <2>5, <4>1
      <4>4. QED BY <4>1, <4>2, <4>3, FirstIsLast
    <3>5. Gathered(q)' BY <2>5, <3>2, <3>4 DEF Gathered
    <3>6. Timed(q)' BY <1>1, <2>1, <3>1, TimelyAnswer DEF Busy
    <3>7. QED BY <2>4, <3>3, <3>5, <3>6 DEF QueryOK
  <2>8. QED BY <2>6, <2>7
<1>10. ASSUME AllPages(q) PROVE QueryOK(q)'
  <2>1. Respond(q, "page", 200) /\ ~MorePages(q) /\ UNCHANGED reading
    BY <1>10 DEF AllPages
  <2>2. at[q] = "page" /\ at'[q] = "done" BY <1>0, <2>1, RespondFrame
  <2>3. UNCHANGED <<target, job, notes, asked, spent>> BY <2>1 DEF reading
  <2>4. job[q] # None BY <1>1, <2>2 DEF Place
  <2>5. Place(q)' BY <2>2, <2>3, <2>4 DEF Place, QueryPlaces
  <2>6. Loaded(q)' BY <1>1, <1>2, <2>3 DEF Loaded
  <2>7. Gathered(q)'
    <3>1. job[q] \in Results BY <1>0, <2>4 DEF ReadingType
    <3>2. Len(Pages(job[q])) \in Nat BY <3>1, PagesLength
    <3>3. Len(notes[q]) \in Nat BY ONLY <1>0, LenProperties
    <3>4. Len(notes[q]) <= Len(Pages(job[q])) /\ ~(Len(notes[q]) < Len(Pages(job[q])))
      BY <1>1, <2>1, <2>4 DEF Gathered, MorePages
    <3>5. Len(notes[q]) = Len(Pages(job[q]))
      BY ONLY <3>2, <3>3, <3>4
    <3>6. AskedAbout(q)' = AskedAbout(q) BY <2>3 DEF AskedAbout
    <3>7. QED BY <1>1, <2>2, <2>3, <3>5, <3>6 DEF Gathered
  <2>8. Timed(q)' BY <1>1, <2>1, <2>2, <2>3, TimelyAnswer DEF Busy
  <2>9. QED BY <2>5, <2>6, <2>7, <2>8 DEF QueryOK
<1>11. ASSUME AskHealth(q) PROVE QueryOK(q)'
  <2>1. Move(q, "fresh", "pingdb") /\ UNCHANGED <<target, job, notes, asked, spent>>
    BY <1>11 DEF AskHealth, reading
  <2>2. at[q] = "fresh" /\ at'[q] = "pingdb" /\ age'[q] = 0 /\ heard'[q] = heard[q]
        /\ code'[q] = code[q]
    BY <1>0, <2>1, MoveFrame
  <2>3. /\ job[q] = None /\ notes[q] = <<>> /\ spent[q] = 0 /\ asked[q] = 0
        /\ code[q] = 0 /\ ~heard[q]
    BY <1>1, <2>2 DEF Place, Loaded
  <2>4. QED
    BY <1>0, <2>1, <2>2, <2>3 DEF QueryOK, Place, Loaded, Gathered, Timed, Busy, QueryPlaces
<1>12. ASSUME PingStore(q) PROVE QueryOK(q)'
  <2>1. /\ Move(q, "pingdb", "pingredis") /\ Note(q, Pinged(dbUp /\ ~gone[q]))
        /\ UNCHANGED <<target, job, asked, spent>>
    BY <1>12 DEF PingStore
  <2>2. at[q] = "pingdb" /\ at'[q] = "pingredis" /\ age'[q] = age[q] /\ heard'[q] = heard[q]
        /\ code'[q] = code[q] /\ gone'[q] = gone[q]
    BY <1>0, <2>1, MoveFrame
  <2>3. /\ job[q] = None /\ notes[q] = <<>> /\ spent[q] = 0 /\ asked[q] = 0
        /\ code[q] = 0 /\ ~heard[q]
    BY <1>1, <2>2 DEF Place, Loaded
  <2>4. Place(q)' BY <2>1, <2>2, <2>3 DEF Place, QueryPlaces
  <2>5. QED
    BY <1>0, <2>1, <2>2, <2>3, <2>4 DEF QueryOK, Loaded, Gathered, Timed, Busy
<1>13. ASSUME PingQueue(q) PROVE QueryOK(q)'
  <2>1. UNCHANGED <<target, job, asked, spent>> /\ \E answer : Respond(q, "pingredis", answer)
    BY <1>13 DEF PingQueue
  <2>2. at[q] = "pingredis" /\ at'[q] = "done" BY <1>0, <2>1, RespondFrame
  <2>3. job[q] = None /\ asked[q] = 0 BY <1>1, <2>2 DEF Place, Loaded
  <2>4. Timed(q)' BY <1>1, <2>1, <2>2, TimelyAnswer DEF Busy
  <2>5. QED
    BY <2>1, <2>2, <2>3, <2>4 DEF QueryOK, Place, Loaded, Gathered, QueryPlaces
<1>14. QED
  BY <1>4, <1>5, <1>6, <1>7, <1>8, <1>9, <1>10, <1>11, <1>12, <1>13
  DEF QueryStep, Extraction, Health, LlmAnswers, LlmTimesOut

\* The step of another query.
LEMMA OtherQuery ==
    ASSUME ReadingType, NEW q \in Queries, NEW x \in Queries \ {q}, QueryStep(x)
    PROVE  /\ target'[q] = target[q] /\ job'[q] = job[q] /\ notes'[q] = notes[q]
           /\ asked'[q] = asked[q] /\ spent'[q] = spent[q]
<1> DEFINE Untouched == /\ target'[q] = target[q] /\ job'[q] = job[q] /\ notes'[q] = notes[q]
                    /\ asked'[q] = asked[q] /\ spent'[q] = spent[q]
<1>1. ASSUME NEW j, NEW ok, AskExtract(x, j, ok) PROVE Untouched
  BY <1>1 DEF AskExtract, ReadingType
<1>2. ASSUME LoadRefused(x) \/ AllPages(x) \/ AskHealth(x) PROVE Untouched
  BY <1>2 DEF LoadRefused, AllPages, AskHealth, reading
<1>3. ASSUME Load(x) PROVE Untouched
  BY <1>3 DEF Load, ReadingType
<1>4. ASSUME SkipPage(x) PROVE Untouched
  BY <1>4 DEF SkipPage, Note, ReadingType
<1>5. ASSUME CallLlm(x) PROVE Untouched
  BY <1>5 DEF CallLlm, ReadingType
<1>6. ASSUME NEW outcome, LlmReturns(x, outcome) PROVE Untouched
  BY <1>6 DEF LlmReturns, Note, ReadingType
<1>7. ASSUME PingStore(x) PROVE Untouched
  BY <1>7 DEF PingStore, Note, ReadingType
<1>8. ASSUME PingQueue(x) PROVE Untouched
  BY <1>8 DEF PingQueue, ReadingType
<1> HIDE DEF Untouched
<1>9. Untouched
  BY <1>1, <1>2, <1>3, <1>4, <1>5, <1>6, <1>7, <1>8
  DEF QueryStep, Extraction, Health, LlmAnswers, LlmTimesOut
<1>10. QED BY <1>9 DEF Untouched

LEMMA QueriesNext ==
    ASSUME TypeOK, \A s \in Submits : SubmissionOK(s),
           NEW q \in Queries, QueryOK(q), [Next]_vars
    PROVE  QueryOK(q)'
<1>1. /\ HandlingType /\ q \in Requests
      /\ \A s \in Submits : status[s] = "completed" =>
            status'[s] = "completed" /\ result'[s] = result[s]
  BY CompletedStays DEF TypeOK
<1>2. ASSUME NEW s \in Submits, SubmitStep(s) PROVE QueryOK(q)'
  <2>1. Same(q) /\ UNCHANGED reading
    BY <1>1, <1>2, SubmitFrame, ApiAssumption DEF Working
  <2>2. UNCHANGED <<target, job, notes, asked, spent>> BY <2>1 DEF reading
  <2>3. QED BY <1>1, <2>1, <2>2, QueryKept DEF Same
<1>3. ASSUME NEW x \in Queries \ {q}, QueryStep(x) PROVE QueryOK(q)'
  <2>1. Same(q) BY <1>1, <1>3, QueryFrame DEF Working
  <2>2. /\ target'[q] = target[q] /\ job'[q] = job[q] /\ notes'[q] = notes[q]
        /\ asked'[q] = asked[q] /\ spent'[q] = spent[q]
    BY <1>3, OtherQuery DEF TypeOK
  <2>3. QED BY <1>1, <2>1, <2>2, QueryKept DEF Same
<1>4. ASSUME \/ StartupNext /\ UNCHANGED <<handling, jobs, reading>>
             \/ \E s \in Submits : JobStep(s)
             \/ ExitStep \/ UNCHANGED vars
      PROVE  QueryOK(q)'
  <2>1. UNCHANGED <<handling, reading>>
    BY <1>4, JobFrame
    DEF ExitStep, StopWorker, WorkerStopped, Signal, ShutdownDone, ShutdownForced, vars
  <2>2. UNCHANGED <<at, code, heard, age>> /\ UNCHANGED <<target, job, notes, asked, spent>>
    BY <2>1 DEF handling, reading
  <2>3. QED BY <1>1, <2>2, QueryKept
<1>5. ASSUME NEW r \in Requests, ConnectionStep(r) PROVE QueryOK(q)'
  <2>1. /\ UNCHANGED <<status, result, target, job, notes, asked, spent>>
        /\ code'[q] = code[q] /\ heard'[q] = heard[q]
    BY <1>5 DEF ConnectionStep, OpenConnection, Disconnect, ClientLeaves, jobs, reading
  <2>2. CASE at'[q] = at[q] /\ age'[q] = age[q]
    BY <1>1, <2>1, <2>2, QueryKept
  <2>3. CASE ~(at'[q] = at[q] /\ age'[q] = age[q])
    <3>1. at[q] \in {"idle", "fresh"} /\ at'[q] \in {"fresh", "done"}
      BY <1>1, <1>5, <2>3
      DEF ConnectionStep, OpenConnection, Disconnect, ClientLeaves, HandlingType
    <3>2. /\ job'[q] = None /\ notes'[q] = <<>> /\ spent'[q] = 0 /\ asked'[q] = 0
          /\ code'[q] = 0 /\ ~heard'[q]
      BY <2>1, <3>1 DEF QueryOK, Place, Loaded
    <3>3. QED
      BY <3>1, <3>2 DEF QueryOK, Place, Loaded, Gathered, Timed, Busy, QueryPlaces
  <2>4. QED BY <2>2, <2>3
<1>6. CASE Tick
  <2>1. /\ UNCHANGED <<at, gone, code, heard, outage>>
        /\ UNCHANGED <<target, job, notes, asked>>
        /\ UNCHANGED <<status, result>>
    BY <1>6 DEF Tick, jobs, servers
  <2>2. Place(q) /\ Loaded(q) /\ Gathered(q) /\ Timed(q) BY DEF QueryOK
  <2>3. age'[q] = (IF Open(q) /\ Handling /\ age[q] < AgeCap THEN age[q] + 1 ELSE age[q])
    BY <1>1, <1>6 DEF Tick
  <2>4. spent'[q] = (IF at[q] = "call" /\ Handling THEN spent[q] + 1 ELSE spent[q])
    BY <1>6 DEF Tick
  <2>5. Place(q)'
    BY <2>1, <2>2, <2>4 DEF Place, MorePages, NextPage
  <2>6. Loaded(q)' BY <2>1, <2>2 DEF Loaded
  <2>7. Gathered(q)' BY <2>1, <2>2 DEF Gathered, AskedAbout
  <2>8. Timed(q)'
    <3>1. /\ age[q] \in Nat /\ spent[q] \in Nat /\ WriteTimeout \in Nat
          /\ AgeCap \in Nat /\ WriteTimeout <= AgeCap
      BY <1>1, ApiAssumption DEF AgeCap, TypeOK, HandlingType, ReadingType
    <3>2. heard[q] => at[q] = "done" BY <2>2 DEF Place
    <3>3. heard'[q] => spent'[q] < LlmTimeout BY <2>1, <2>2, <2>4, <3>2 DEF Timed
    <3>4. ASSUME Busy(q) PROVE spent'[q] <= age'[q] \/ age'[q] >= WriteTimeout
      <4>1. spent[q] <= age[q] \/ age[q] >= WriteTimeout BY <2>2, <3>4 DEF Timed
      <4>2. CASE age[q] < AgeCap /\ Handling
        <5>1. age'[q] = age[q] + 1 /\ spent'[q] \in {spent[q], spent[q] + 1}
          BY <2>3, <2>4, <3>4, <4>2 DEF Busy
        <5>2. QED BY ONLY <3>1, <4>1, <5>1
      <4>3. CASE ~(age[q] < AgeCap) /\ Handling
        <5>1. age'[q] = age[q] BY <2>3, <4>3
        <5>2. QED BY <3>1, <4>3, <5>1
      <4>4. CASE ~Handling
        <5>1. age'[q] = age[q] /\ spent'[q] = spent[q] BY <2>3, <2>4, <4>4
        <5>2. QED BY <4>1, <5>1
      <4>5. QED BY <4>2, <4>3, <4>4
    <3>5. QED BY <2>1, <3>3, <3>4 DEF Timed, Busy
  <2>9. QED BY <2>5, <2>6, <2>7, <2>8 DEF QueryOK
<1>7. QED
  BY <1>2, <1>3, <1>4, <1>5, <1>6, QueryStepOK, Kinds

-----------------------------------------------------------------------------
(***************************************************************************)
(* The invariants.                                                         *)
(***************************************************************************)
LEMMA IInvParts ==
    IInv <=> /\ TypeOK /\ BootsExplained /\ DrainBounded
             /\ \A s \in Submits : SubmissionOK(s)
             /\ \A q \in Queries : QueryOK(q)
  BY DEF IInv, SubmissionOK, QueryOK

LEMMA IInvInit == Init => IInv
  BY TypeInit, BootsInit, DrainInit, SubmissionsInit, QueriesInit, IInvParts

LEMMA IInvNext == IInv /\ [Next]_vars => IInv'
<1> SUFFICES ASSUME IInv, [Next]_vars PROVE IInv'
  OBVIOUS
<1>1. /\ TypeOK /\ BootsExplained /\ DrainBounded
      /\ \A s \in Submits : SubmissionOK(s)
      /\ \A q \in Queries : QueryOK(q)
  BY IInvParts
<1>2. BootType /\ HandlingType BY <1>1 DEF TypeOK
<1>3. TypeOK' BY <1>1, TypeNext DEF SubmissionOK
<1>4. BootsExplained' BY <1>1, <1>2, BootsNext
<1>5. DrainBounded'
  <2>1. HandlingType' BY <1>3 DEF TypeOK
  <2>2. QED BY <1>1, <1>2, <2>1, DrainNext
<1>6. (\A s \in Submits : SubmissionOK(s))' BY <1>1, SubmissionsNext
<1>7. (\A q \in Queries : QueryOK(q))' BY <1>1, QueriesNext
<1>8. QED BY <1>3, <1>4, <1>5, <1>6, <1>7, IInvParts DEF IInv, SubmissionOK, QueryOK

\* Every part of the inductive invariant holds in every reachable state of
\* the API process (cmd/api/main.go, handlers.go).
THEOREM Inductive == Spec => []IInv
<1>1. QED BY IInvInit, IInvNext, PTL DEF Spec

\* A worker executes exactly what the accepted body asked for, for any bodies
\* and any number of jobs (handlers.go:76-213, main.go:134-205).
THEOREM RequestsExecuted == Spec => []OptionsArrive
<1>1. IInv => OptionsArrive
  <2> SUFFICES ASSUME IInv, NEW s \in Submits, ran[s] # None
               PROVE  /\ ran[s] = Intended(body[s])
                      /\ ran[s].depth \in 0..5
                      /\ ran[s].limit \in 1..(IF ran[s].kind = "crawl" THEN 100 ELSE 500)
    BY DEF OptionsArrive
  <2>1. body[s] \in Bodies /\ Valid(body[s]) /\ ran[s] = Execution(JobPayload(body[s]))
    BY DEF IInv, Traced
  <2>2. IsRequest(body[s]) BY <2>1, ApiAssumption
  <2>3. QED BY <2>1, <2>2, ExecutedAsIntended
<1>2. QED BY <1>1, Inductive, PTL

\* A request that an exit with code 1 cuts had its ShutdownLimit, less what
\* its connection may have waited to send it, and the race for the schema
\* never ends all processes (cmd/api/main.go:108-119, store.go:107-140).
THEOREM ExitsAreExplained == Spec => []ExitsExplained
<1>1. IInv => ExitsExplained
  <2> SUFFICES ASSUME IInv PROVE ExitsExplained
    OBVIOUS
  <2>1. ASSUME \A p \in Procs : phase[p] = "failed" PROVE outage
    BY <2>1, StartupAssumption DEF IInv, BootsExplained, Ahead
  <2>2. QED BY <2>1 DEF IInv, DrainBounded, ExitsExplained
<1>2. QED BY <1>1, Inductive, PTL

\* What becomes of a submission can be told from its answer: no step of a
\* client, a worker or a server strands a job but the ones named (acceptJob,
\* handlers.go:156-198; processJob, worker/main.go:114-208).
THEOREM AnswersAreTruthful == Spec => []AnswersTruthful
<1>1. IInv => AnswersTruthful
  <2> SUFFICES ASSUME IInv, NEW s \in Submits
               PROVE  /\ code[s] = 202 => status[s] # "absent" /\ place[s] # "none"
                      /\ code[s] = 400 => status[s] = "absent" /\ place[s] = "none"
                      /\ Stranded(s) => Unpushed(s) \/ Lost(s)
    BY DEF AnswersTruthful
  <2>1. Traced(s) /\ Answered(s) BY DEF IInv
  <2>2. ASSUME Stranded(s) PROVE Unpushed(s) \/ Lost(s)
    <3>1. place[s] \in {"none", "list", "popped", "claimed", "gone"}
      BY DEF IInv, TypeOK, JobsType
    <3>2. CASE place[s] = "none"
      BY <2>1, <2>2, <3>2 DEF Stranded, Traced, Answered, Unpushed, Busy
    <3>3. CASE place[s] = "list"
      BY <2>2, <3>3 DEF Stranded, OnItsWay
    <3>4. CASE place[s] \in {"popped", "claimed"}
      BY <2>1, <2>2, <3>4 DEF Stranded, OnItsWay, Traced, Lost
    <3>5. CASE place[s] = "gone"
      BY <2>1, <2>2, <3>5 DEF Stranded, Answered
    <3>6. QED BY <3>1, <3>2, <3>3, <3>4, <3>5
  <2>3. QED BY <2>1, <2>2 DEF Answered
<1>2. QED BY <1>1, Inductive, PTL

\* An extraction answers for the job as it is stored, whenever it read it,
\* and pays for exactly the pages with Markdown (handlers.go:353-423).
THEOREM ExtractionIsTruthful == Spec => []ExtractionTruthful
<1>1. IInv => ExtractionTruthful
  <2> SUFFICES ASSUME IInv, NEW e \in Queries
               PROVE  /\ job[e] # None => job[e] = result[target[e]] /\ status[target[e]] = "completed"
                      /\ job[e] # None /\ code[e] # 0 =>
                            /\ Len(notes[e]) = Len(Pages(job[e]))
                            /\ \A i \in DOMAIN notes[e] :
                                  notes[e][i] = "no markdown" <=> ~Pages(job[e])[i]
                            /\ asked[e] = Cardinality({i \in DOMAIN notes[e] : Pages(job[e])[i]})
                      /\ job[e] = None => asked[e] = 0
                      /\ heard[e] => spent[e] < LlmTimeout
    BY DEF ExtractionTruthful
  <2>1. Place(e) /\ Loaded(e) /\ Gathered(e) /\ Timed(e) BY DEF IInv
  <2>2. notes[e] \in Seq(Notes) BY DEF IInv, TypeOK, ReadingType
  <2>3. DOMAIN notes[e] = 1..Len(notes[e]) BY ONLY <2>2, LenProperties
  <2>4. ASSUME job[e] # None, code[e] # 0
        PROVE  /\ Len(notes[e]) = Len(Pages(job[e]))
               /\ \A i \in 1..Len(notes[e]) : notes[e][i] = "no markdown" <=> ~Pages(job[e])[i]
               /\ asked[e] = Cardinality(AskedAbout(e))
    <3>1. at[e] = "done" BY <2>1, <2>4 DEF Place
    <3>2. Cardinality(AskedAbout(e)) \in Nat BY <2>2, AskedFinite
    <3>3. asked[e] = Cardinality(AskedAbout(e)) + 0 BY <2>1, <2>4, <3>1 DEF Gathered
    <3>4. asked[e] = Cardinality(AskedAbout(e)) BY ONLY <3>2, <3>3
    <3>5. QED BY <2>1, <2>4, <3>1, <3>4 DEF Gathered
  <2>5. QED BY <2>1, <2>3, <2>4 DEF Loaded, Timed, AskedAbout
<1>2. QED BY <1>1, Inductive, PTL
=============================================================================
