---------------------------- MODULE MapProperties ----------------------------
(***************************************************************************)
(* What is claimed of MapBFS.                                              *)
(***************************************************************************)
EXTENDS MapBFS

TypeOK ==
    /\ pc \in {"loop", "wait", "fetch", "follow", "done"}
    /\ queue \in Seq(Item)
    /\ seen \subseteq OnSite
    /\ urls \in Seq(OnSite)
    /\ item \in Item
    /\ links \in Seq(Links)
    /\ fetched \in Seq(Page)
    /\ ctx \in {"live", "cancelled"}
    /\ revoked \in BOOLEAN
    /\ ret \in Outcome

-----------------------------------------------------------------------------
(***************************************************************************)
(* Safety.                                                                 *)
(***************************************************************************)

\* Never more URLs than asked for, although the bound is looked at in two
\* places, and none twice, however it is spelled where it is linked.
UrlsBoundedAndDistinct ==
    /\ Len(urls) <= MaxURLs
    /\ \A i, j \in DOMAIN urls : urls[i] = urls[j] => i = j

\* Pages are fetched level by level, each at its distance from the seed: one
\* level below the first fetched page that links to it.
FetchedLevelByLevel ==
    /\ \A i, j \in DOMAIN fetched : i <= j => fetched[i].depth <= fetched[j].depth
    /\ \A i \in DOMAIN fetched : fetched[i].url # Seed =>
          \E p \in 1..(i - 1) :
             /\ LinksTo(fetched[p], fetched[i].url)
             /\ fetched[i].depth = fetched[p].depth + 1
             /\ \A q \in 1..(p - 1) : ~LinksTo(fetched[q], fetched[i].url)

\* A map that returns with room left, and was neither cancelled nor revoked,
\* reports every URL of the host that a fetched page links to, and has
\* fetched each of them that is not on the last level.
MapComplete ==
    pc = "done" /\ Len(urls) < MaxURLs /\ ctx = "live" /\ ~revoked =>
        \A p \in DOMAIN fetched : \A url \in OnSite :
            LinksTo(fetched[p], url) =>
                /\ \E i \in DOMAIN urls : urls[i] = url
                /\ fetched[p].depth + 1 < MaxDepth =>
                      \E q \in DOMAIN fetched : fetched[q].url = url

\* What the worker gets back is what JobPipeline takes it to be.
OutcomeAgreed ==
    pc = "done" => ret \in CrawlOutcomes(ctx = "cancelled")

-----------------------------------------------------------------------------
(***************************************************************************)
(* The inductive invariant.  The item of the last iteration, whether it    *)
(* was fetched or dropped, separates the fetched pages from the frontier.  *)
(***************************************************************************)

\* There is room for a URL while a page is fetched or its links are followed;
\* when the loop was left nothing was left to do, or there was a reason.
Room ==
    /\ pc \in {"wait", "fetch", "follow"} => Len(urls) < MaxURLs
    /\ ret = IF pc # "done" THEN NilOutcome
             ELSE IF ret.err THEN FailedPartial ELSE Succeeded
    /\ pc = "done" /\ ret.err => ctx = "cancelled"
    /\ pc = "done" => queue = <<>> \/ Len(urls) >= MaxURLs
                        \/ ctx = "cancelled" \/ revoked

\* The result lists what was seen, the seed included.
UrlsAreSeen ==
    /\ seen = {urls[i] : i \in DOMAIN urls}
    /\ Seed \in seen

\* Nothing fetched is deeper than the item, nothing in the frontier is less
\* deep, and it reaches one level further at most.
LevelsInOrder ==
    /\ \A i, j \in DOMAIN fetched : i <= j => fetched[i].depth <= fetched[j].depth
    /\ \A i \in DOMAIN fetched : fetched[i].depth <= item.depth
    /\ \A k \in DOMAIN queue : queue[k].depth \in {item.depth, item.depth + 1}
    /\ \A k, l \in DOMAIN queue : k <= l => queue[k].depth <= queue[l].depth

\* Page p of the fetched ones is the first that links to url.
FirstLink(p, url) ==
    /\ LinksTo(fetched[p], url)
    /\ \A q \in 1..(p - 1) : ~LinksTo(fetched[q], url)

\* What is to be fetched is the seed, or was found one level below the first
\* of the n first pages that links to it.
FoundBy(it, n) ==
    IF it.url = Seed THEN it.depth = 0
    ELSE \E p \in 1..n : FirstLink(p, it.url) /\ it.depth = fetched[p].depth + 1

AllFound ==
    /\ \A i \in DOMAIN fetched : FoundBy(fetched[i], i - 1)
    /\ FoundBy(item, Len(fetched))
    /\ \A k \in DOMAIN queue : FoundBy(queue[k], Len(fetched))

\* While links are followed the item is the last page, and its links are
\* either still to come or seen; those of earlier pages are all seen, unless
\* the result is full.
LinksAccounted ==
    /\ pc = "follow" =>
          /\ Len(fetched) > 0
          /\ item.url = fetched[Len(fetched)].url
          /\ item.depth = fetched[Len(fetched)].depth
          /\ \A k \in DOMAIN links : \E i \in DOMAIN fetched[Len(fetched)].links :
                links[k] = fetched[Len(fetched)].links[i]
    /\ Len(urls) < MaxURLs =>
          \A p \in DOMAIN fetched : \A i \in DOMAIN fetched[p].links :
              \/ Norm[fetched[p].links[i]] \notin OnSite
              \/ Norm[fetched[p].links[i]] \in seen
              \/ /\ pc = "follow"
                 /\ p = Len(fetched)
                 /\ \E k \in DOMAIN links : links[k] = fetched[p].links[i]

\* A URL was dropped because it is on the last level.
Dropped(url) ==
    \/ url = Seed /\ MaxDepth = 0
    \/ \E p \in DOMAIN fetched :
          FirstLink(p, url) /\ fetched[p].depth + 1 >= MaxDepth

\* Until the result is full every URL of it was fetched, is the item in hand,
\* waits in the frontier or was dropped.
NoneForgotten ==
    Len(urls) < MaxURLs =>
        \A url \in seen :
            \/ \E q \in DOMAIN fetched : fetched[q].url = url
            \/ (pc \in {"wait", "fetch"} \/ ret.err) /\ item.url = url
            \/ \E k \in DOMAIN queue : queue[k].url = url
            \/ Dropped(url)

IInv ==
    /\ TypeOK
    /\ Room
    /\ UrlsBoundedAndDistinct
    /\ UrlsAreSeen
    /\ LevelsInOrder
    /\ AllFound
    /\ LinksAccounted
    /\ NoneForgotten

-----------------------------------------------------------------------------
(***************************************************************************)
(* What a step may never do, and what must happen.                         *)
(***************************************************************************)

\* After a cancellation no new item is taken up, and what is still found is
\* found on the page in hand.
CancelStops ==
    [][ctx = "cancelled" =>
          /\ Len(fetched') > Len(fetched) => pc = "fetch"
          /\ pc' \in {"wait", "fetch"} => pc' = pc]_vars

\* Why the loops end: every step of the call lowers the rank, first by a URL
\* that is found, then by an item that leaves the frontier, then by the way to
\* the next one, then by a link that is done with; a cancellation or a
\* revocation does not raise it.
Stage == CASE pc = "wait" -> 4 [] pc = "fetch" -> 3 [] pc = "follow" -> 2
           [] pc = "loop" -> 1 [] pc = "done" -> 0

Rank == <<MaxURLs - Len(urls), Len(queue), Stage, Len(links)>>

Below(r, s) == \E i \in DOMAIN s : /\ r[i] < s[i]
                                   /\ \A k \in 1..(i - 1) : r[k] = s[k]

WindsDown ==
    /\ [](Rank \in Nat \X Nat \X Nat \X Nat)
    /\ [][IF Step THEN Below(Rank', Rank) ELSE Rank' = Rank]_vars

\* The loops end, whatever the site links to.
Terminates == <>(pc = "done")
=============================================================================
