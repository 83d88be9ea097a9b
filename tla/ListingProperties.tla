-------------------------- MODULE ListingProperties --------------------------
(***************************************************************************)
(* What is claimed of the rate limiter and of the lists read through it.   *)
(***************************************************************************)
EXTENDS JobListing

TypeOK ==
    /\ at \in [Clients -> {"away", "holding", "inside"}]
    /\ visitors \in [Addresses -> Buckets \cup {None}]
    /\ tokens \in [Buckets -> 0..ApiBurst]
    /\ held \in [Clients -> Buckets \cup {None}]
    /\ current \subseteq Clients
    /\ recent \in [Addresses -> Nat]
    /\ status \in [Jobs -> Status]
    /\ walk \in [Clients -> Walk \cup {NoWalk}]

-----------------------------------------------------------------------------
(***************************************************************************)
(* Safety.                                                                 *)
(***************************************************************************)

\* From one clean-up to the next no interval of k ticks sees more than
\* ApiBurst + k requests of one address admitted, however many of its
\* clients look the limiter up at the same time.  Those who had looked it up
\* before the clean-up come on top, one request each.
ClientRateBounded == \A a \in Addresses : recent[a] <= ApiBurst

\* The lists that only grow: no statement deletes a row or takes it out of a
\* terminal status.
GrowingFilters == {"all"} \cup Terminal

\* Who reads such a list to its end sees every job that was in it at the
\* start, whatever is inserted, claimed, cancelled or finished in between.
\* The list of queued or processing jobs promises nothing of the kind: jobs
\* leave it, and those behind them move to pages already read.
WalkMissesNothing ==
    \A c \in Walkers :
        Walking(c, "over") /\ walk[c].filter \in GrowingFilters
            => walk[c].unseen = {}

-----------------------------------------------------------------------------
(***************************************************************************)
(* The inductive invariant.                                                *)
(***************************************************************************)

\* A request has a limiter from its lookup to its decision, and as long as
\* the table is the one it looked in, that limiter is the one of its address.
HeldFromTheTable ==
    /\ \A c \in Clients : at[c] = "holding" <=> held[c] # None
    /\ \A c \in current : held[c] # None /\ held[c] = visitors[AddressOf[c]]

\* What an address was lately granted is missing from its limiter.
TokensAccountForGrants ==
    \A a \in Addresses :
        /\ visitors[a] = None => recent[a] = 0
        /\ visitors[a] # None => recent[a] + tokens[visitors[a]] <= ApiBurst

\* The jobs a list shows before job j.
Ahead(filter, j) == {i \in Matching(filter) : i > j}

\* The jobs a walk has not seen are still in its list, behind the pages it has
\* read, and there is none when a page was not full.
UnseenIsBehind ==
    \A c \in Walkers :
        walk[c] # NoWalk /\ walk[c].filter \in GrowingFilters =>
            /\ walk[c].unseen \subseteq Matching(walk[c].filter)
            /\ \A j \in walk[c].unseen :
                  Cardinality(Ahead(walk[c].filter, j))
                      >= walk[c].pages * walk[c].limit

\* There are never fewer jobs than were counted.
TotalStillThere ==
    \A c \in Walkers :
        Walking(c, "select") /\ walk[c].filter \in GrowingFilters =>
            walk[c].total <= CountJobs(walk[c].filter)

IInv ==
    /\ TypeOK
    /\ HeldFromTheTable
    /\ TokensAccountForGrants
    /\ UnseenIsBehind
    /\ TotalStillThere
    /\ WalkMissesNothing

-----------------------------------------------------------------------------
(***************************************************************************)
(* What a step may never do.                                               *)
(***************************************************************************)

\* A page of such a list has the jobs that the total it comes with says it
\* has, although other statements run between COUNT and SELECT.
PageAsTotalSays ==
    [][\A c \in Walkers :
          Select(c) /\ walk[c].filter \in GrowingFilters =>
              LET w     == walk[c]
                  start == w.pages * w.limit
                  shown == Cardinality(SelectJobs(w.filter, w.limit, start))
              IN  shown = w.limit \/ shown >= w.total - start]_vars
=============================================================================
