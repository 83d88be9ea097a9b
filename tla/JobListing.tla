----------------------------- MODULE JobListing -----------------------------
(***************************************************************************)
(* Clients that read GET /jobs page by page, past the rate limiter of      *)
(* their address, while the rows they list come and change.  A page is     *)
(* made of two statements, COUNT and SELECT, and other statements may come *)
(* between them.                                                           *)
(*                                                                         *)
(* A client asks for page after page until one is shorter than the limit   *)
(* it was answered; it repeats a page that was refused or failed.          *)
(*                                                                         *)
(* A job is the number of its created_at, which is when its INSERT began:  *)
(* the rows may become visible in another order.  No two jobs have the     *)
(* same created_at.                                                        *)
(***************************************************************************)
EXTENDS IPRateLimiter, JobsTable

CONSTANTS
    Jobs,
    Walkers,        \* the clients that list; the others ask for other things
    Limits,         \* the limits they ask for
    MaxLimit,       \* 100
    DefaultLimit,   \* 20
    NoWalk

ASSUME ListingAssumption ==
    /\ Jobs \subseteq Nat /\ IsFiniteSet(Jobs)
    /\ Walkers \subseteq Clients
    /\ Limits \subseteq Int
    /\ MaxLimit \in Nat \ {0}
    /\ DefaultLimit \in 1..MaxLimit

VARIABLES
    status, \* the status column; "absent" before the row is visible
    walk    \* where a client is in its list, or NoWalk

vars == <<limiterVars, status, walk>>

Filters == {"all"} \cup RowStatus

Walk == [filter  : Filters,
         limit   : 1..MaxLimit,
         pages   : Nat,               \* how many have been answered
         step    : {"ask", "select", "over"},
         total   : Nat,               \* between COUNT and SELECT
         unseen  : SUBSET Jobs]       \* history: the jobs of the list as it
                                      \* was at the start, less those listed

Init ==
    /\ InitLimiter
    /\ status = [j \in Jobs |-> "absent"]
    /\ walk = [c \in Clients |-> NoWalk]
-----------------------------------------------------------------------------
(***************************************************************************)
(* Meanwhile: acceptJob, ClaimJob, CancelJob and UpdateJob.                *)
(***************************************************************************)
Moves(j, from, to) ==
    /\ status[j] = from
    /\ status' = [status EXCEPT ![j] = to]

Insert(j) == Moves(j, "absent", "queued")
Claim(j)  == Moves(j, "queued", "processing")
Cancel(j) == Moves(j, "queued", "failed")
Finish(j) == \E to \in Terminal : Moves(j, "processing", to)

Statement(j) ==
    /\ Insert(j) \/ Claim(j) \/ Cancel(j) \/ Finish(j)
    /\ UNCHANGED <<limiterVars, walk>>
-----------------------------------------------------------------------------
(***************************************************************************)
(* HandleListJobs and Store.ListJobs.                                      *)
(***************************************************************************)

\* A limit out of range becomes the default, not the nearest one in range.
ClampLimit(asked) == IF asked \in 1..MaxLimit THEN asked ELSE DefaultLimit

\* WHERE status = $1, or no WHERE
Matching(filter) ==
    {j \in Jobs : status[j] \in (IF filter = "all" THEN RowStatus
                                                        ELSE {filter})}

\* Mutant: the total of all jobs.
CountJobsUnfiltered(filter) == Cardinality(Matching("all"))

CountJobs(filter) == Cardinality(Matching(filter))

\* Mutant: jobs that are not finished come first.
SelectJobsUnfinishedFirst(filter, limit, offset) ==
    LET unfinished(j) == status[j] \notin Terminal
        before(i, j)  == \/ unfinished(i) /\ ~unfinished(j)
                         \/ (unfinished(i) <=> unfinished(j)) /\ i > j
        ahead(j)      == Cardinality({i \in Matching(filter) : before(i, j)})
    IN  {j \in Matching(filter) : ahead(j) \in offset..(offset + limit - 1)}

\* ORDER BY created_at DESC LIMIT limit OFFSET offset
SelectJobs(filter, limit, offset) ==
    LET ahead(j) == Cardinality({i \in Matching(filter) : i > j})
    IN  {j \in Matching(filter) : ahead(j) \in offset..(offset + limit - 1)}

BeginWalk(c) ==
    /\ at[c] = "away"
    /\ walk[c] = NoWalk
    /\ \E filter \in Filters, asked \in Limits :
          walk' = [walk EXCEPT ![c] =
                      [filter  |-> filter, limit |-> ClampLimit(asked),
                       pages   |-> 0, step |-> "ask",
                       total   |-> 0, unseen |-> Matching(filter)]]
    /\ UNCHANGED <<limiterVars, status>>

Walking(c, step) == walk[c] # NoWalk /\ walk[c].step = step

Ask(c) ==
    /\ Walking(c, "ask")
    /\ GetLimiter(c)
    /\ UNCHANGED <<status, walk>>

Count(c) ==
    /\ at[c] = "inside"
    /\ Walking(c, "ask")
    /\ walk' = [walk EXCEPT ![c].step = "select",
                            ![c].total = CountJobs(walk[c].filter)]
    /\ UNCHANGED <<limiterVars, status>>

\* The page is answered with its total; the client sees whether to go on.
Select(c) ==
    /\ Walking(c, "select")
    /\ LET w    == walk[c]
           page == SelectJobs(w.filter, w.limit, w.pages * w.limit)
       IN  walk' = [walk EXCEPT ![c] =
                       [w EXCEPT !.pages  = @ + 1,
                                 !.total  = 0,
                                 !.unseen = @ \ page,
                                 !.step   = IF Cardinality(page) < w.limit
                                               THEN "over" ELSE "ask"]]
    /\ Leave(c)
    /\ UNCHANGED status

\* Either statement fails: 500.
ListFails(c) ==
    /\ at[c] = "inside"
    /\ walk[c] # NoWalk
    /\ walk' = [walk EXCEPT ![c].step = "ask", ![c].total = 0]
    /\ Leave(c)
    /\ UNCHANGED status

EndWalk(c) ==
    /\ Walking(c, "over")
    /\ walk' = [walk EXCEPT ![c] = NoWalk]
    /\ UNCHANGED <<limiterVars, status>>

\* A request for something else.
OtherRequest(c) ==
    /\ GetLimiter(c) \/ Leave(c)
    /\ UNCHANGED <<status, walk>>

\* The middleware, and time.
Middleware ==
    /\ \/ \E c \in Clients : Admit(c) \/ Refuse(c)
       \/ Refill
       \/ Cleanup
    /\ UNCHANGED <<status, walk>>

Next ==
    \/ \E j \in Jobs : Statement(j)
    \/ \E c \in Walkers : \/ BeginWalk(c) \/ Ask(c) \/ Count(c) \/ Select(c)
                          \/ ListFails(c) \/ EndWalk(c)
    \/ \E c \in Clients \ Walkers : OtherRequest(c)
    \/ Middleware

Spec == Init /\ [][Next]_vars
=============================================================================
