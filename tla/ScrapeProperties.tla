-------------------------- MODULE ScrapeProperties --------------------------
(***************************************************************************)
(* What is claimed of the workers of one process while they scrape.        *)
(***************************************************************************)
EXTENDS ScrapeWorkers

TypeOK ==
    /\ pc \in [Workers -> {"idle", "limit", "resolve", "http", "slot",
                           "render", "parse", "backoff", "done"}]
    /\ req \in [Workers -> Requests \cup {None}]
    /\ made \in [Workers -> Seq(Outcome)]
    /\ via \in [Workers -> 0..RedirectLimit]
    /\ cause \in [Workers -> {"other", "redirects", "refused"}]
    /\ ret \in [Workers -> Outcome]
    /\ due \in [Workers -> Nat]
    /\ limiters \in [Hosts -> Int \cup {None}]
    /\ sem \in Nat
    /\ chrome \in BOOLEAN
    /\ ctx \in {"live", "cancelled"}
    /\ load \in [Hosts -> Nat]

-----------------------------------------------------------------------------
(***************************************************************************)
(* Safety.                                                                 *)
(***************************************************************************)

Rendering == {w \in Workers : pc[w] = "render"}

\* The slots in use are exactly those of the workers that render, whatever
\* way earlier renderings ended, and never more than the semaphore has.
NoSlotLeaked ==
    /\ sem = Cardinality(Rendering)
    /\ sem <= MaxBrowsers

\* What the caller of worker w gets is told by the attempts: at most as many
\* as allowed and none after one that worked; all of them, unless one worked,
\* the URL was refused or the context was cancelled; the last one's result
\* and error, unless a cancelled back-off dropped it; and always what
\* JobPipeline takes it to be.  Whether a refused URL is tried again is
\* RefusedNotRetried's question.
Told(w) ==
    LET n == Len(made[w]) IN
    /\ n <= req[w].retries
    /\ \A i \in 1..(n - 1) : made[w][i].err
    /\ n < req[w].retries =>
          \/ ctx = "cancelled"
          \/ n > 0 /\ (made[w][n].err => cause[w] = "refused")
    /\ \/ n = 0 /\ ret[w] = NilOutcome
       \/ n > 0 /\ ret[w] = made[w][n]
       \/ n > 0 /\ made[w][n].err /\ ctx = "cancelled" /\ ret[w] = FailedNil
    /\ ret[w] \in ScrapeOutcomes(req[w].retries)

ReturnTruthful == \A w \in Workers : pc[w] = "done" => Told(w)

\* No interval of k ticks sees more than Burst + k scrapes of a host
\* admitted, however many workers compete and however they are delayed:
\* with one admission forgotten at each tick there are never more than Burst.
AdmissionsBounded == \A h \in Hosts : load[h] <= Burst

-----------------------------------------------------------------------------
(***************************************************************************)
(* The inductive invariant.                                                *)
(***************************************************************************)
Attempting == {"resolve", "http", "slot", "render", "parse", "backoff"}

\* What a worker remembers at each place of its way.
ProgressOf(w) ==
    /\ pc[w] = "idle" \/ req[w] \in Requests
    /\ pc[w] = "limit" \/ due[w] = 0
    /\ pc[w] \in {"idle", "limit"} => made[w] = <<>>
    /\ pc[w] \in Attempting =>
          /\ Len(made[w]) < req[w].retries
          /\ \A i \in 1..Len(made[w]) : made[w][i].err
    /\ pc[w] = "backoff" => Len(made[w]) > 0

Progress == \A w \in Workers : ProgressOf(w)

\* A host has no more admissions in sight than its limiter has given tokens
\* away, and those who wait for it do so for different tokens, all of them
\* reserved.
AdmissionsCovered ==
    \A h \in Hosts :
        /\ TokensOf(h) <= Burst
        /\ load[h] <= Burst
        /\ TokensOf(h) > 0 => load[h] <= Burst - TokensOf(h)

WaitsReserved ==
    \A h \in Hosts : \A w \in Workers :
        due[w] > 0 /\ req[w].host = h => due[w] <= 0 - TokensOf(h)

WaitsDiffer ==
    \A v, w \in Workers :
        due[v] > 0 /\ due[v] = due[w] /\ req[v].host = req[w].host => v = w

Reserved == AdmissionsCovered /\ WaitsReserved /\ WaitsDiffer

\* What a step of any worker, of the clock or of Stop keeps: a worker's
\* memory fits its place, and slots and tokens are accounted for.
IInv ==
    /\ TypeOK
    /\ NoSlotLeaked
    /\ Progress
    /\ ReturnTruthful
    /\ Reserved

-----------------------------------------------------------------------------
\* Why a scrape returns: every step of a worker that is busy lowers its rank,
\* first by an attempt that is over, then by its way through the attempt, then
\* by a redirect that is followed; no step of others or of the clock raises it.
Stage(w) ==
    CASE pc[w] = "limit" -> 7 [] pc[w] = "backoff" -> 6
      [] pc[w] = "resolve" -> 5 [] pc[w] \in {"http", "slot"} -> 4
      [] pc[w] = "render" -> 3 [] pc[w] = "parse" -> 2
      [] pc[w] = "done" -> 1 [] pc[w] = "idle" -> 0

AttemptsLeft(w) == IF pc[w] = "idle" THEN 0 ELSE req[w].retries - Len(made[w])

Rank(w) == <<AttemptsLeft(w), Stage(w), RedirectLimit - via[w]>>

Below(r, s) == \E i \in DOMAIN s : /\ r[i] < s[i]
                                   /\ \A k \in 1..(i - 1) : r[k] = s[k]

WindsDown ==
    /\ [](\A w \in Workers : Rank(w) \in Nat \X Nat \X Nat)
    /\ [][\A w \in Workers :
             IF Continue(w) THEN Below(Rank(w)', Rank(w))
             ELSE Start(w) \/ Rank(w)' = Rank(w)]_vars

\* Every scrape returns: the limiter admits it, a slot comes free, chains of
\* redirects and attempts end, also while the process is shutting down.
EveryScrapeReturns == \A w \in Workers : pc[w] # "idle" ~> pc[w] = "idle"

-----------------------------------------------------------------------------
\* docs/explanation/job-lifecycle.md:98 says of the client that it "follows
\* up to 5 redirects".  An attempt that fails with ErrTooManyRedirects must
\* then have followed five, which takes six requests.
FollowsFiveRedirects ==
    \A w \in Workers :
        pc[w] \in {"backoff", "done"} /\ cause[w] = "redirects" => via[w] - 1 >= 5

\* docs/explanation/job-lifecycle.md:120: "SSRF blocks (`ErrPrivateIP`) and
\* invalid URLs (`ErrInvalidURL`) are not retried because they will always
\* fail."  No attempt may then begin after one that ended that way.
RefusedNotRetried == \A w \in Workers : pc[w] = "resolve" => cause[w] # "refused"
=============================================================================
