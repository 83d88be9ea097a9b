------------------------------ MODULE CrawlBFS ------------------------------
(***************************************************************************)
(* CrawlBFS of internal/crawl: one call, from its entry to its return.     *)
(*                                                                         *)
(* The loop works on local state, but the context it was given can be      *)
(* cancelled and the job it works for be revoked at any time, so each wait *)
(* and fetch is a step of its own, and so is each link of a page.  What a  *)
(* page answers is not known before it is fetched and no URL is fetched    *)
(* twice, so the site is any site, also one that changes meanwhile.        *)
(***************************************************************************)
EXTENDS SiteLinks, ScrapeOutcome

CONSTANTS
    Extract,       \* the job's extract types, as given
    OptPages,      \* Options.MaxPages, as given
    OptDepth,      \* Options.MaxDepth, as given
    MayRevoke      \* whether cancelCheck can ever answer true

ASSUME OptionsAssumption ==
    OptPages \in Int /\ OptDepth \in Int /\ MayRevoke \in BOOLEAN

MaxPages == IF OptPages <= 0 THEN 10 ELSE OptPages
MaxDepth == IF OptDepth < 0 THEN 2 ELSE OptDepth
ExtractTypes == IF Extract = {} THEN {"markdown"} ELSE Extract

VARIABLES
    pc,       \* "loop" (its head), "wait", "fetch", "follow" or "done"
    queue,    \* the frontier
    seen,     \* the URLs that were ever queued
    pages,    \* out.Pages
    skipped,  \* how many of them failed
    item,     \* the frontier item of this iteration
    links,    \* what is left of page.Links to follow
    ctx,      \* "live" or "cancelled"
    revoked,  \* whether the job's row says something else than processing
    ret       \* the (result, err) pair that was returned

world == <<ctx, revoked>>
vars  == <<pc, queue, seen, pages, skipped, item, links, ctx, revoked, ret>>

Init ==
    /\ pc      = "loop"
    /\ queue   = <<[url |-> Seed, depth |-> 0]>>
    /\ seen    = {Seed}
    /\ pages   = <<>>
    /\ skipped = 0
    /\ item    = [url |-> Seed, depth |-> 0]
    /\ links   = <<>>
    /\ ctx     = "live"
    /\ revoked = FALSE
    /\ ret     = NilOutcome

-----------------------------------------------------------------------------
Finish(outcome) == pc' = "done" /\ ret' = outcome

\* The loop's condition fails, or one of the two checks after it breaks.
LeaveLoop ==
    /\ pc = "loop"
    /\ queue = <<>> \/ Len(pages) >= MaxPages \/ ctx = "cancelled" \/ revoked
    /\ Finish(Succeeded)
    /\ UNCHANGED <<queue, seen, pages, skipped, item, links, world>>

\* Mutant: the loop takes the newest item.
TakeNewest ==
    /\ pc = "loop"
    /\ queue # <<>>
    /\ Len(pages) < MaxPages
    /\ ctx = "live"
    /\ item' = queue[Len(queue)]
    /\ queue' = SubSeq(queue, 1, Len(queue) - 1)
    /\ pc' = "wait"
    /\ UNCHANGED <<seen, pages, skipped, links, world, ret>>

\* The next item of the frontier.  cancelCheck answers false when GetJob
\* fails, so a revoked job may go on.
TakeNext ==
    /\ pc = "loop"
    /\ queue # <<>>
    /\ Len(pages) < MaxPages
    /\ ctx = "live"
    /\ item' = Head(queue)
    /\ queue' = Tail(queue)
    /\ pc' = "wait"
    /\ UNCHANGED <<seen, pages, skipped, links, world, ret>>

\* Mutants: an interrupted wait is taken for a granted one, or returns nil.
WaitIgnoresError ==
    /\ pc = "wait"
    /\ pc' = "fetch"
    /\ UNCHANGED <<queue, seen, pages, skipped, item, links, world, ret>>

WaitReturnsNil ==
    /\ pc = "wait"
    /\ \/ ctx = "live" /\ pc' = "fetch" /\ UNCHANGED ret
       \/ ctx = "cancelled" /\ Finish(NilOutcome)
    /\ UNCHANGED <<queue, seen, pages, skipped, item, links, world>>

\* rate.Wait for the seed's host; only a cancelled context interrupts it.
Wait ==
    /\ pc = "wait"
    /\ \/ ctx = "live" /\ pc' = "fetch" /\ UNCHANGED ret
       \/ ctx = "cancelled" /\ Finish(FailedPartial)
    /\ UNCHANGED <<queue, seen, pages, skipped, item, links, world>>

Report(ok, anchors) ==
    pages' = Append(pages, [url |-> item.url, depth |-> item.depth,
                            ok |-> ok, links |-> anchors])

\* Mutants: a failed page is not counted; it goes back to the frontier.
FetchFailsUncounted ==
    /\ pc = "fetch"
    /\ Report(FALSE, <<>>)
    /\ pc' = "loop"
    /\ UNCHANGED <<queue, seen, skipped, item, links, world, ret>>
FetchFailsRequeues ==
    /\ pc = "fetch"
    /\ queue' = Append(queue, item)
    /\ pc' = "loop"
    /\ UNCHANGED <<seen, pages, skipped, item, links, world, ret>>

\* ScrapePage fails, for whatever reason: the page is reported and counted.
FetchFails ==
    /\ pc = "fetch"
    /\ Report(FALSE, <<>>)
    /\ skipped' = skipped + 1
    /\ pc' = "loop"
    /\ UNCHANGED <<queue, seen, item, links, world, ret>>

\* Mutant: the depth test is off by one.
FetchWorksTooDeep ==
    /\ pc = "fetch"
    /\ \E list \in PageLists :
          LET anchors == AnchorsOf(list, ExtractTypes) IN
          /\ Report(TRUE, anchors)
          /\ \/ item.depth > MaxDepth /\ pc' = "loop" /\ UNCHANGED links
             \/ item.depth <= MaxDepth /\ pc' = "follow" /\ links' = anchors
    /\ UNCHANGED <<queue, seen, skipped, item, world, ret>>

\* ScrapePage succeeds; the links of a page at the last level are reported
\* but not followed.
FetchWorks ==
    /\ pc = "fetch"
    /\ \E list \in PageLists :
          LET anchors == AnchorsOf(list, ExtractTypes) IN
          /\ Report(TRUE, anchors)
          /\ \/ item.depth >= MaxDepth /\ pc' = "loop" /\ UNCHANGED links
             \/ item.depth < MaxDepth /\ pc' = "follow" /\ links' = anchors
    /\ UNCHANGED <<queue, seen, skipped, item, world, ret>>

\* Mutants: a link that cannot be followed ends the loop over the links; a
\* followed link is not remembered; it gets the depth of its page.
FollowLinkBreaks ==
    /\ pc = "follow"
    /\ links # <<>>
    /\ \/ /\ Followable(Head(links), seen)
          /\ seen' = seen \cup {Norm[Head(links)]}
          /\ queue' = Append(queue, [url |-> Norm[Head(links)],
                                     depth |-> item.depth + 1])
          /\ links' = Tail(links)
       \/ /\ ~Followable(Head(links), seen)
          /\ links' = <<>>
          /\ UNCHANGED <<seen, queue>>
    /\ UNCHANGED <<pc, pages, skipped, item, world, ret>>
FollowLinkForgets ==
    /\ pc = "follow"
    /\ links # <<>>
    /\ \/ /\ Followable(Head(links), seen)
          /\ queue' = Append(queue, [url |-> Norm[Head(links)],
                                     depth |-> item.depth + 1])
       \/ ~Followable(Head(links), seen) /\ UNCHANGED queue
    /\ links' = Tail(links)
    /\ UNCHANGED <<pc, seen, pages, skipped, item, world, ret>>

FollowLinkSameDepth ==
    /\ pc = "follow"
    /\ links # <<>>
    /\ \/ /\ Followable(Head(links), seen)
          /\ seen' = seen \cup {Norm[Head(links)]}
          /\ queue' = Append(queue, [url |-> Norm[Head(links)],
                                     depth |-> item.depth])
       \/ ~Followable(Head(links), seen) /\ UNCHANGED <<seen, queue>>
    /\ links' = Tail(links)
    /\ UNCHANGED <<pc, pages, skipped, item, world, ret>>

\* One iteration of the loop over page.Links.
FollowLink ==
    /\ pc = "follow"
    /\ links # <<>>
    /\ \/ /\ Followable(Head(links), seen)
          /\ seen' = seen \cup {Norm[Head(links)]}
          /\ queue' = Append(queue, [url |-> Norm[Head(links)],
                                     depth |-> item.depth + 1])
       \/ ~Followable(Head(links), seen) /\ UNCHANGED <<seen, queue>>
    /\ links' = Tail(links)
    /\ UNCHANGED <<pc, pages, skipped, item, world, ret>>

NoLinksLeft ==
    /\ pc = "follow"
    /\ links = <<>>
    /\ pc' = "loop"
    /\ UNCHANGED <<queue, seen, pages, skipped, item, links, world, ret>>

-----------------------------------------------------------------------------
\* workerPool.Stop cancels the context.
Cancel ==
    /\ pc # "done"
    /\ ctx = "live"
    /\ ctx' = "cancelled"
    /\ UNCHANGED <<pc, queue, seen, pages, skipped, item, links, revoked, ret>>

\* The job's row leaves processing.
Revoke ==
    /\ MayRevoke
    /\ pc # "done"
    /\ ~revoked
    /\ revoked' = TRUE
    /\ UNCHANGED <<pc, queue, seen, pages, skipped, item, links, ctx, ret>>

Step == \/ LeaveLoop \/ TakeNext \/ Wait \/ FetchFails \/ FetchWorks
        \/ FollowLink \/ NoLinksLeft

Next == Step \/ Cancel \/ Revoke

Spec == Init /\ [][Next]_vars

\* The goroutine runs, and every wait and fetch ends (both have time limits).
FairSpec == Spec /\ WF_vars(Step)
=============================================================================
