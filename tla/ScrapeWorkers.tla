--------------------------- MODULE ScrapeWorkers ---------------------------
(***************************************************************************)
(* The goroutines of one worker process while they scrape: the wait for    *)
(* the host's limiter, executeWithRetry, and ScrapePage with both of its   *)
(* fetchers.  They share the limiter table, the browser semaphore and the  *)
(* pool's context.  A page of a crawl is a scrape with one attempt here.   *)
(*                                                                         *)
(* Time is counted in ticks, one token of the limiter each.  Only the      *)
(* limiter depends on it; a back-off or a time limit may end at any tick.  *)
(***************************************************************************)
EXTENDS ScrapeOutcome, FiniteSets, Sequences

CONSTANTS
    Workers,
    Hosts,
    Requests,       \* what a worker may be asked to scrape
    Burst,          \* SCRAPER_RATE_LIMIT, also the tokens per second
    MaxBrowsers,    \* capacity of the browser semaphore
    RedirectLimit,  \* 5 in newScrapeClient
    None            \* no limiter in the table, no request in hand

\* maxRetries and options of a payload, with the host of its URL.
Request == [host : Hosts, retries : Nat, render : BOOLEAN, follow : BOOLEAN]

ASSUME WorkersAssumption ==
    /\ IsFiniteSet(Workers)
    /\ Requests \subseteq Request
    /\ Burst \in Nat \ {0}
    /\ MaxBrowsers \in Nat \ {0}
    /\ RedirectLimit \in Nat \ {0}
    /\ None \notin Int \cup Request

VARIABLES
    pc,        \* "idle", "limit", "resolve", "http", "slot", "render",
               \* "parse", "backoff" or "done"
    req,       \* the request a worker is busy with, or None
    made,      \* what its attempts returned so far
    via,       \* the requests of the current chain of redirects
    cause,     \* what the last attempt failed with: "refused" is ErrInvalidURL
               \* or ErrPrivateIP, "redirects" ErrTooManyRedirects, or "other"
    ret,       \* what executeWithRetry returned
    due,       \* ticks until a limiter admits the worker
    limiters,  \* the tokens of each host's limiter, negative when reserved
    sem,       \* the slots of the browser semaphore in use
    chrome,    \* what BrowserAvailable found out once
    ctx,       \* the pool's context: "live" or "cancelled"
    load       \* history: a host's admissions, one forgotten at each tick

fetching == <<made, via, cause, ret>>
shared   == <<limiters, sem, chrome, ctx, load>>
vars     == <<pc, req, made, via, cause, ret, due, limiters, sem, chrome,
              ctx, load>>

Init ==
    /\ pc       = [w \in Workers |-> "idle"]
    /\ req      = [w \in Workers |-> None]
    /\ made     = [w \in Workers |-> <<>>]
    /\ via      = [w \in Workers |-> 0]
    /\ cause    = [w \in Workers |-> "other"]
    /\ ret      = [w \in Workers |-> NilOutcome]
    /\ due      = [w \in Workers |-> 0]
    /\ limiters = [h \in Hosts |-> None]
    /\ sem      = 0
    /\ chrome \in BOOLEAN
    /\ ctx      = "live"
    /\ load     = [h \in Hosts |-> 0]
-----------------------------------------------------------------------------
(***************************************************************************)
(* perDomainRateLimiter.Wait: the limiter is found or made under the lock  *)
(* and then reserved from; the reservation tells how long to wait.         *)
(***************************************************************************)
TokensOf(host) == IF limiters[host] = None THEN Burst ELSE limiters[host]

\* Mutant: a lookup that always makes a new limiter.
ReserveAfresh(host) == limiters' = [limiters EXCEPT ![host] = Burst - 1]

Reserve(host) == limiters' = [limiters EXCEPT ![host] = TokensOf(host) - 1]

\* A job was claimed, and the context is looked at before anything is
\* reserved; under a cancelled one processJob returns without a scrape.
Start(w) ==
    /\ pc[w] = "idle"
    /\ ctx = "live"
    /\ \E r \in Requests :
          /\ req' = [req EXCEPT ![w] = r]
          /\ Reserve(r.host)
          /\ LET wait == 0 - limiters'[r.host] IN
             \/ /\ wait <= 0
                /\ load' = [load EXCEPT ![r.host] = @ + 1]
                /\ UNCHANGED due
             \/ /\ wait > 0
                /\ due' = [due EXCEPT ![w] = wait]
                /\ UNCHANGED load
    /\ pc' = [pc EXCEPT ![w] = "limit"]
    /\ UNCHANGED <<fetching, sem, chrome, ctx>>

\* A token's worth of time passes.
AdmittedBy(host) == {w \in Workers : due[w] = 1 /\ req[w].host = host}

Tick ==
    /\ limiters' = [h \in Hosts |->
          IF limiters[h] = None \/ limiters[h] = Burst THEN limiters[h]
                                                       ELSE limiters[h] + 1]
    /\ due' = [w \in Workers |-> IF due[w] > 0 THEN due[w] - 1 ELSE 0]
    /\ load' = [h \in Hosts |-> (IF load[h] > 0 THEN load[h] - 1 ELSE 0)
                                + Cardinality(AdmittedBy(h))]
    /\ UNCHANGED <<pc, req, fetching, sem, chrome, ctx>>

Goto(w, label) == pc' = [pc EXCEPT ![w] = label]

Return(w, outcome) ==
    /\ ret' = [ret EXCEPT ![w] = outcome]
    /\ pc' = [pc EXCEPT ![w] = "done"]

\* The limiter lets the worker go; with no attempt allowed the loop of
\* executeWithRetry is not entered.
Admitted(w) ==
    /\ pc[w] = "limit"
    /\ due[w] = 0
    /\ \/ req[w].retries > 0 /\ Goto(w, "resolve") /\ UNCHANGED ret
       \/ req[w].retries = 0 /\ Return(w, NilOutcome)
    /\ UNCHANGED <<req, made, via, cause, due, shared>>

\* Mutant: the attempts of the last job are still there for the next one.
ResetKeepingAttempts(w) ==
    /\ pc'      = [pc EXCEPT ![w] = "idle"]
    /\ req'     = [req EXCEPT ![w] = None]
    /\ via'     = [via EXCEPT ![w] = 0]
    /\ cause'   = [cause EXCEPT ![w] = "other"]
    /\ ret'     = [ret EXCEPT ![w] = NilOutcome]
    /\ due'     = [due EXCEPT ![w] = 0]
    /\ UNCHANGED made

\* What a worker that is not scraping remembers: nothing.
Reset(w) ==
    /\ pc'      = [pc EXCEPT ![w] = "idle"]
    /\ req'     = [req EXCEPT ![w] = None]
    /\ made'    = [made EXCEPT ![w] = <<>>]
    /\ via'     = [via EXCEPT ![w] = 0]
    /\ cause'   = [cause EXCEPT ![w] = "other"]
    /\ ret'     = [ret EXCEPT ![w] = NilOutcome]
    /\ due'     = [due EXCEPT ![w] = 0]

\* The cancelled context ends the wait, and the job is left as it is.
LimitCut(w) ==
    /\ pc[w] = "limit"
    /\ ctx = "cancelled"
    /\ Reset(w)
    /\ UNCHANGED shared

\* handleJobResult writes the outcome; the worker is free again.
HandOver(w) ==
    /\ pc[w] = "done"
    /\ Reset(w)
    /\ UNCHANGED shared

-----------------------------------------------------------------------------
(***************************************************************************)
(* executeWithRetry: an attempt ends the loop when it worked or was the    *)
(* last one.                                                               *)
(***************************************************************************)

\* Mutant: one attempt more than allowed.
EndAttemptOnceMore(w, outcome) ==
    /\ made' = [made EXCEPT ![w] = Append(@, outcome)]
    /\ IF outcome.err /\ Len(made[w]) < req[w].retries
          THEN Goto(w, "backoff") /\ UNCHANGED ret
          ELSE Return(w, outcome)

EndAttempt(w, outcome) ==
    /\ made' = [made EXCEPT ![w] = Append(@, outcome)]
    /\ IF outcome.err /\ Len(made[w]) + 1 < req[w].retries
          THEN Goto(w, "backoff") /\ UNCHANGED ret
          ELSE Return(w, outcome)

\* time.After fires, and wins also if the context is cancelled by then.
BackoffOver(w) ==
    /\ pc[w] = "backoff"
    /\ Goto(w, "resolve")
    /\ via' = [via EXCEPT ![w] = 0]
    /\ UNCHANGED <<req, made, cause, ret, due, shared>>

\* The cancelled context wins; the partial result of the attempts is dropped.
BackoffCut(w) ==
    /\ pc[w] = "backoff"
    /\ ctx = "cancelled"
    /\ Return(w, FailedNil)
    /\ UNCHANGED <<req, made, via, cause, due, shared>>
-----------------------------------------------------------------------------
(***************************************************************************)
(* ScrapePage.  A URL that is refused or whose host does not resolve gives *)
(* no result, every later failure one with the status.                     *)
(***************************************************************************)
Blame(w, what) == cause' = [cause EXCEPT ![w] = what]

\* Neither http nor https, not parsable, or resolving to a private address.
URLRefused(w) ==
    /\ pc[w] = "resolve"
    /\ EndAttempt(w, FailedNil) /\ Blame(w, "refused")
    /\ UNCHANGED <<req, via, due, shared>>

LookupFails(w) ==
    /\ pc[w] = "resolve"
    /\ EndAttempt(w, FailedNil) /\ Blame(w, "other")
    /\ UNCHANGED <<req, via, due, shared>>

\* The fetcher is chosen; an HTTP fetch sends its first request.
ResolveWorks(w) ==
    /\ pc[w] = "resolve"
    /\ \/ ~req[w].render /\ Goto(w, "http") /\ via' = [via EXCEPT ![w] = 1]
       \/ req[w].render /\ chrome /\ Goto(w, "slot") /\ UNCHANGED via
    /\ Blame(w, "other")
    /\ UNCHANGED <<req, made, ret, due, shared>>

\* ErrBrowserUnavailable.
NoBrowser(w) ==
    /\ pc[w] = "resolve"
    /\ req[w].render
    /\ ~chrome
    /\ EndAttempt(w, FailedPartial) /\ Blame(w, "other")
    /\ UNCHANGED <<req, via, due, shared>>

\* The answer is 2xx and its body arrives, cut at MaxBodySize.
HttpWorks(w) ==
    /\ pc[w] = "http"
    /\ Goto(w, "parse")
    /\ UNCHANGED <<req, fetching, due, shared>>

\* No answer in time, a broken connection, a cancelled context, a status
\* that is not 2xx (a redirect that is not to be followed has one), a body
\* that breaks off, or a redirect to a host that does not resolve.
HttpFails(w) ==
    /\ pc[w] = "http"
    /\ EndAttempt(w, FailedPartial)
    /\ UNCHANGED <<req, via, cause, due, shared>>

\* CheckRedirect lets the client send the next request of the chain.
Redirected(w) ==
    /\ pc[w] = "http"
    /\ req[w].follow
    /\ via[w] < RedirectLimit
    /\ via' = [via EXCEPT ![w] = @ + 1]
    /\ UNCHANGED <<pc, req, made, cause, ret, due, shared>>

\* It returns ErrTooManyRedirects, or ErrPrivateIP for where the chain leads.
RedirectRefused(w) ==
    /\ pc[w] = "http"
    /\ req[w].follow
    /\ Blame(w, IF via[w] >= RedirectLimit THEN "redirects" ELSE "refused")
    /\ EndAttempt(w, FailedPartial)
    /\ UNCHANGED <<req, via, due, shared>>

\* The select of BrowserFetcher.Fetch: a slot, or the cancelled context.
TakeSlot(w) ==
    /\ pc[w] = "slot"
    /\ sem < MaxBrowsers
    /\ sem' = sem + 1
    /\ Goto(w, "render")
    /\ UNCHANGED <<req, fetching, due, limiters, chrome, ctx, load>>

\* Mutant: the release is deferred before the select.
SlotCutReleasing(w) ==
    /\ pc[w] = "slot"
    /\ ctx = "cancelled"
    /\ sem' = IF sem > 0 THEN sem - 1 ELSE 0
    /\ EndAttempt(w, FailedPartial)
    /\ UNCHANGED <<req, via, cause, due, limiters, chrome, ctx, load>>

SlotCut(w) ==
    /\ pc[w] = "slot"
    /\ ctx = "cancelled"
    /\ EndAttempt(w, FailedPartial)
    /\ UNCHANGED <<req, via, cause, due, shared>>

\* The page is rendered; the deferred release gives the slot back.
RenderWorks(w) ==
    /\ pc[w] = "render"
    /\ sem' = sem - 1
    /\ Goto(w, "parse")
    /\ UNCHANGED <<req, fetching, due, limiters, chrome, ctx, load>>

\* Mutant: the slot is kept when rendering fails.
RenderFailsKeepingSlot(w) ==
    /\ pc[w] = "render"
    /\ EndAttempt(w, FailedPartial)
    /\ UNCHANGED <<req, via, cause, due, shared>>

\* Chrome fails, or its time limit or the context ends; the slot is released
\* all the same.
RenderFails(w) ==
    /\ pc[w] = "render"
    /\ sem' = sem - 1
    /\ EndAttempt(w, FailedPartial)
    /\ UNCHANGED <<req, via, cause, due, limiters, chrome, ctx, load>>

ParseWorks(w) ==
    /\ pc[w] = "parse"
    /\ EndAttempt(w, Succeeded)
    /\ UNCHANGED <<req, via, cause, due, shared>>

\* ErrParseFailure.
ParseFails(w) ==
    /\ pc[w] = "parse"
    /\ EndAttempt(w, FailedPartial)
    /\ UNCHANGED <<req, via, cause, due, shared>>

-----------------------------------------------------------------------------
\* workerPool.Stop cancels the context.
Cancel ==
    /\ ctx = "live"
    /\ ctx' = "cancelled"
    /\ UNCHANGED <<pc, req, fetching, due, limiters, sem, chrome, load>>

Fetch(w) ==
    \/ URLRefused(w) \/ LookupFails(w) \/ ResolveWorks(w) \/ NoBrowser(w)
    \/ HttpWorks(w) \/ HttpFails(w) \/ Redirected(w) \/ RedirectRefused(w)
    \/ TakeSlot(w) \/ SlotCut(w) \/ RenderWorks(w) \/ RenderFails(w)
    \/ ParseWorks(w) \/ ParseFails(w)

Continue(w) ==
    \/ Admitted(w) \/ LimitCut(w) \/ HandOver(w)
    \/ BackoffOver(w) \/ BackoffCut(w) \/ Fetch(w)

Next == Tick \/ Cancel \/ \E w \in Workers : Start(w) \/ Continue(w)

Spec == Init /\ [][Next]_vars

(***************************************************************************)
(* Time passes; a goroutine with something to do is scheduled, and every   *)
(* fetch ends because the HTTP client and the browser task have time       *)
(* limits.  Senders blocked on a Go channel are served in their order, so  *)
(* a worker that waits for a slot gets one if slots keep coming free.      *)
(***************************************************************************)
Fairness ==
    /\ WF_vars(Tick)
    /\ \A w \in Workers : WF_vars(Continue(w)) /\ SF_vars(TakeSlot(w))

FairSpec == Spec /\ Fairness
=============================================================================
