------------------------------- MODULE MapBFS -------------------------------
(***************************************************************************)
(* MapBFS of internal/crawl: one call, from its entry to its return.  It   *)
(* differs from CrawlBFS in what it reports and bounds (URLs when they are *)
(* found, not pages when they are fetched), in popping the items of the    *)
(* last level without fetching them, and in not reporting failures.        *)
(***************************************************************************)
EXTENDS SiteLinks, ScrapeOutcome

CONSTANTS
    OptURLs,       \* Options.MaxURLs, as given
    OptDepth,      \* Options.MaxDepth, as given
    MayRevoke      \* whether cancelCheck can ever answer true

ASSUME OptionsAssumption ==
    OptURLs \in Int /\ OptDepth \in Int /\ MayRevoke \in BOOLEAN

MaxURLs  == IF OptURLs <= 0 THEN 50 ELSE OptURLs
MaxDepth == IF OptDepth < 0 THEN 2 ELSE OptDepth

VARIABLES
    pc,       \* "loop" (its head), "wait", "fetch", "follow" or "done"
    queue,    \* the frontier
    seen,     \* the URLs that were ever reported
    urls,     \* the same in the order they were found: the result
    item,     \* the frontier item of this iteration
    links,    \* what is left of page.Links to follow
    fetched,  \* history: the pages fetched, failed ones included
    ctx,      \* "live" or "cancelled"
    revoked,  \* whether the job's row says something else than processing
    ret       \* the (result, err) pair that was returned

world == <<ctx, revoked>>
vars  == <<pc, queue, seen, urls, item, links, fetched, ctx, revoked, ret>>

Init ==
    /\ pc      = "loop"
    /\ queue   = <<[url |-> Seed, depth |-> 0]>>
    /\ seen    = {Seed}
    /\ urls    = <<Seed>>
    /\ item    = [url |-> Seed, depth |-> 0]
    /\ links   = <<>>
    /\ fetched = <<>>
    /\ ctx     = "live"
    /\ revoked = FALSE
    /\ ret     = NilOutcome

-----------------------------------------------------------------------------
Finish(outcome) == pc' = "done" /\ ret' = outcome

\* The loop's condition fails, or one of the two checks after it breaks.
LeaveLoop ==
    /\ pc = "loop"
    /\ queue = <<>> \/ Len(urls) >= MaxURLs \/ ctx = "cancelled" \/ revoked
    /\ Finish(Succeeded)
    /\ UNCHANGED <<queue, seen, urls, item, links, fetched, world>>

\* Mutants: the depth test is off by one; the context is not looked at.
TakeNextTooShallow ==
    /\ pc = "loop"
    /\ queue # <<>>
    /\ Len(urls) < MaxURLs
    /\ ctx = "live"
    /\ item' = Head(queue)
    /\ queue' = Tail(queue)
    /\ pc' = IF Head(queue).depth + 1 >= MaxDepth THEN "loop" ELSE "wait"
    /\ UNCHANGED <<seen, urls, links, fetched, world, ret>>
TakeNextIgnoresCtx ==
    /\ pc = "loop"
    /\ queue # <<>>
    /\ Len(urls) < MaxURLs
    /\ item' = Head(queue)
    /\ queue' = Tail(queue)
    /\ pc' = IF Head(queue).depth >= MaxDepth THEN "loop" ELSE "wait"
    /\ UNCHANGED <<seen, urls, links, fetched, world, ret>>

\* The next item of the frontier; one of the last level is dropped.
TakeNext ==
    /\ pc = "loop"
    /\ queue # <<>>
    /\ Len(urls) < MaxURLs
    /\ ctx = "live"
    /\ item' = Head(queue)
    /\ queue' = Tail(queue)
    /\ pc' = IF Head(queue).depth >= MaxDepth THEN "loop" ELSE "wait"
    /\ UNCHANGED <<seen, urls, links, fetched, world, ret>>

\* Mutant: the error of an interrupted wait is dropped with the result.
WaitReturnsNil ==
    /\ pc = "wait"
    /\ \/ ctx = "live" /\ pc' = "fetch" /\ UNCHANGED ret
       \/ ctx = "cancelled" /\ Finish(NilOutcome)
    /\ UNCHANGED <<queue, seen, urls, item, links, fetched, world>>

\* rate.Wait for the seed's host; only a cancelled context interrupts it.
Wait ==
    /\ pc = "wait"
    /\ \/ ctx = "live" /\ pc' = "fetch" /\ UNCHANGED ret
       \/ ctx = "cancelled" /\ Finish(FailedPartial)
    /\ UNCHANGED <<queue, seen, urls, item, links, fetched, world>>

Fetched(ok, anchors) ==
    fetched' = Append(fetched, [url |-> item.url, depth |-> item.depth,
                                ok |-> ok, links |-> anchors])

\* Mutant: a page that failed goes back to the frontier.
FetchFailsRequeues ==
    /\ pc = "fetch"
    /\ queue' = Append(queue, item)
    /\ pc' = "loop"
    /\ UNCHANGED <<seen, urls, item, links, fetched, world, ret>>

\* ScrapePage fails: nothing is reported.
FetchFails ==
    /\ pc = "fetch"
    /\ Fetched(FALSE, <<>>)
    /\ pc' = "loop"
    /\ UNCHANGED <<queue, seen, urls, item, links, world, ret>>

\* ScrapePage, with extract type links whatever the job asked for, succeeds.
FetchWorks ==
    /\ pc = "fetch"
    /\ \E list \in PageLists :
          LET anchors == AnchorsOf(list, {"links"}) IN
          Fetched(TRUE, anchors) /\ links' = anchors
    /\ pc' = "follow"
    /\ UNCHANGED <<queue, seen, urls, item, world, ret>>

\* Mutants: the bound is looked at between pages only; the new frontier item
\* gets the depth of the page it was found on.
FollowLinkUnbounded ==
    /\ pc = "follow"
    /\ links # <<>>
    /\ links' = Tail(links)
    /\ LET url == Norm[Head(links)] IN
       \/ /\ Followable(Head(links), seen)
          /\ seen' = seen \cup {url}
          /\ urls' = Append(urls, url)
          /\ queue' = Append(queue, [url |-> url, depth |-> item.depth + 1])
       \/ ~Followable(Head(links), seen) /\ UNCHANGED <<queue, seen, urls>>
    /\ UNCHANGED <<pc, item, fetched, world, ret>>
FollowLinkSameDepth ==
    /\ pc = "follow"
    /\ links # <<>>
    /\ links' = Tail(links)
    /\ LET url == Norm[Head(links)] IN
       \/ /\ Followable(Head(links), seen)
          /\ seen' = seen \cup {url}
          /\ urls' = Append(urls, url)
          /\ IF Len(urls) + 1 >= MaxURLs
                THEN pc' = "loop" /\ UNCHANGED queue
                ELSE /\ queue' = Append(queue, [url |-> url, depth |-> item.depth])
                     /\ UNCHANGED pc
       \/ ~Followable(Head(links), seen) /\ UNCHANGED <<pc, queue, seen, urls>>
    /\ UNCHANGED <<item, fetched, world, ret>>

\* One iteration of the loop over page.Links, which a full result ends; the
\* URL that filled it never enters the frontier.
FollowLink ==
    /\ pc = "follow"
    /\ links # <<>>
    /\ links' = Tail(links)
    /\ LET url == Norm[Head(links)] IN
       \/ /\ Followable(Head(links), seen)
          /\ seen' = seen \cup {url}
          /\ urls' = Append(urls, url)
          /\ IF Len(urls) + 1 >= MaxURLs
                THEN pc' = "loop" /\ UNCHANGED queue
                ELSE /\ queue' = Append(queue, [url |-> url,
                                                depth |-> item.depth + 1])
                     /\ UNCHANGED pc
       \/ ~Followable(Head(links), seen) /\ UNCHANGED <<pc, queue, seen, urls>>
    /\ UNCHANGED <<item, fetched, world, ret>>

NoLinksLeft ==
    /\ pc = "follow"
    /\ links = <<>>
    /\ pc' = "loop"
    /\ UNCHANGED <<queue, seen, urls, item, links, fetched, world, ret>>

-----------------------------------------------------------------------------
\* workerPool.Stop cancels the context.
Cancel ==
    /\ pc # "done"
    /\ ctx = "live"
    /\ ctx' = "cancelled"
    /\ UNCHANGED <<pc, queue, seen, urls, item, links, fetched, revoked, ret>>

\* The job's row leaves processing.
Revoke ==
    /\ MayRevoke
    /\ pc # "done"
    /\ ~revoked
    /\ revoked' = TRUE
    /\ UNCHANGED <<pc, queue, seen, urls, item, links, fetched, ctx, ret>>

Step == \/ LeaveLoop \/ TakeNext \/ Wait \/ FetchFails \/ FetchWorks
        \/ FollowLink \/ NoLinksLeft

Next == Step \/ Cancel \/ Revoke

Spec == Init /\ [][Next]_vars

\* The goroutine runs, and every wait and fetch ends (both have time limits).
FairSpec == Spec /\ WF_vars(Step)
=============================================================================
