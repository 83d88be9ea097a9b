---------------------------- MODULE ScrapeOutcome ----------------------------
(***************************************************************************)
(* What running a job can return to processJob: the pair (result, err) of  *)
(* executeWithRetry, CrawlBFS or MapBFS.  A result is "full" when it comes *)
(* with no error, "partial" when it only carries the status and duration   *)
(* of a failed run, "none" when the pointer is nil.                        *)
(*                                                                         *)
(* The operators are the contract between the pipeline, which runs a job   *)
(* in one step, and the modules that look inside that step.                *)
(***************************************************************************)
EXTENDS Integers

Kinds == {"scrape", "crawl", "map"}

Outcome == [result : {"none", "partial", "full"}, err : BOOLEAN]

\* The zero value of a Go (result, err) pair: nil, nil.
NilOutcome == [result |-> "none", err |-> FALSE]

Succeeded     == [result |-> "full", err |-> FALSE]
FailedPartial == [result |-> "partial", err |-> TRUE]
FailedNil     == [result |-> "none", err |-> TRUE]

(***************************************************************************)
(* executeWithRetry.  With no attempt allowed the loop body never runs and *)
(* the two zero values are returned.  Otherwise the last attempt's pair    *)
(* comes back: a failed fetch carries a partial result, a URL that does    *)
(* not resolve or a wait cut short by shutdown carries none.               *)
(***************************************************************************)
ScrapeOutcomes(maxRetries) ==
    IF maxRetries = 0 THEN {NilOutcome}
                      ELSE {Succeeded, FailedPartial, FailedNil}

(***************************************************************************)
(* CrawlBFS and MapBFS.  Failed pages are recorded, never returned as an   *)
(* error, and a cancelled context ends the loop with what was gathered;    *)
(* only a rate limiter wait that the cancelled context interrupts returns  *)
(* an error, next to the pages gathered so far.                            *)
(***************************************************************************)
CrawlOutcomes(cancelled) ==
    {Succeeded} \cup (IF cancelled THEN {FailedPartial} ELSE {})

Outcomes(kind, maxRetries, cancelled) ==
    IF kind = "scrape" THEN ScrapeOutcomes(maxRetries)
                       ELSE CrawlOutcomes(cancelled)

\* calculateRetries: 0 for a result without an error, 1 for anything else.
RetriesUsed(outcome) ==
    IF ~outcome.err /\ outcome.result # "none" THEN 0 ELSE 1

=============================================================================
