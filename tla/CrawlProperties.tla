--------------------------- MODULE CrawlProperties ---------------------------
(***************************************************************************)
(* What is claimed of CrawlBFS.                                            *)
(***************************************************************************)
EXTENDS CrawlBFS, FiniteSets

TypeOK ==
    /\ pc \in {"loop", "wait", "fetch", "follow", "done"}
    /\ queue \in Seq(Item)
    /\ seen \subseteq OnSite
    /\ pages \in Seq(Page)
    /\ skipped \in Nat
    /\ item \in Item
    /\ links \in Seq(Links)
    /\ ctx \in {"live", "cancelled"}
    /\ revoked \in BOOLEAN
    /\ ret \in Outcome

-----------------------------------------------------------------------------
(***************************************************************************)
(* Safety.                                                                 *)
(***************************************************************************)

FailedPages == {i \in DOMAIN pages : ~pages[i].ok}

\* The bounds of the request hold at every moment, failed pages included,
\* and pages_skipped counts exactly the failed ones.
Bounded ==
    /\ Len(pages) <= MaxPages
    /\ \A i \in DOMAIN pages : pages[i].depth <= MaxDepth
    /\ skipped = Cardinality(FailedPages)

\* No URL is fetched twice, however often and in whatever spelling it is
\* linked, and none is asked for that is outside the seed's host; where a
\* redirect then leads is the fetcher's affair.
EachPageOnce ==
    /\ \A i \in DOMAIN pages : pages[i].url \in OnSite
    /\ \A i, j \in DOMAIN pages : pages[i].url = pages[j].url => i = j

\* Page i was expanded, so that its links count.
Expanded(i) == pages[i].ok /\ pages[i].depth < MaxDepth

\* The reported depth is the distance from the seed over the links of the
\* expanded pages: the seed alone has 0, every other page has an expanded
\* page one level up that links to it, and no expanded page is nearer.
DepthIsDistance ==
    \A i \in DOMAIN pages :
        /\ pages[i].depth = 0 <=> pages[i].url = Seed
        /\ pages[i].depth > 0 =>
              \E p \in 1..(i - 1) : /\ Expanded(p)
                                    /\ LinksTo(pages[p], pages[i].url)
                                    /\ pages[i].depth = pages[p].depth + 1
        /\ \A p \in DOMAIN pages :
              Expanded(p) /\ LinksTo(pages[p], pages[i].url)
                  => pages[i].depth <= pages[p].depth + 1

\* Pages are reported level by level, so that a crawl cut at max_pages has
\* seen the nearest ones.
LevelByLevel ==
    \A i, j \in DOMAIN pages : i <= j => pages[i].depth <= pages[j].depth

\* A crawl that returns with room left, and was neither cancelled nor
\* revoked, has fetched every page that an expanded page links to.
NothingMissed ==
    pc = "done" /\ Len(pages) < MaxPages /\ ctx = "live" /\ ~revoked =>
        \A p \in DOMAIN pages : Expanded(p) =>
            \A url \in OnSite : LinksTo(pages[p], url) =>
                \E i \in DOMAIN pages : pages[i].url = url

\* What the worker gets back is what JobPipeline takes it to be.
OutcomeAgreed ==
    pc = "done" => ret \in CrawlOutcomes(ctx = "cancelled")

-----------------------------------------------------------------------------
(***************************************************************************)
(* The inductive invariant.  The pages reported, the item in hand and the  *)
(* frontier are one sequence, the trail, in the order of discovery; a step *)
(* moves the borders between the three or appends to the trail.            *)
(***************************************************************************)
InHand == pc \in {"wait", "fetch"} \/ ret.err

Place(n) ==
    IF n <= Len(pages) THEN [url |-> pages[n].url, depth |-> pages[n].depth]
    ELSE IF ~InHand THEN queue[n - Len(pages)]
    ELSE IF n = Len(pages) + 1 THEN item
    ELSE queue[n - Len(pages) - 1]

TrailLen == Len(pages) + (IF InHand THEN 1 ELSE 0) + Len(queue)
Trail == [n \in 1..TrailLen |-> Place(n)]

\* The trail lists what was seen, each URL once, level by level, and reaches
\* at most one level beyond the page that was expanded last.
TrailInOrder ==
    /\ TrailLen > 0
    /\ Trail[1] = [url |-> Seed, depth |-> 0]
    /\ seen = {Trail[n].url : n \in DOMAIN Trail}
    /\ \A m, n \in DOMAIN Trail : Trail[m].url = Trail[n].url => m = n
    /\ \A m, n \in DOMAIN Trail : m <= n => Trail[m].depth <= Trail[n].depth
    /\ \A m, n \in DOMAIN Trail :
          Len(pages) <= n => Trail[m].depth <= Trail[n].depth + 1
    /\ \A n \in DOMAIN Trail : Trail[n].depth <= MaxDepth

\* Every place but the seed's was found on an expanded page before it.
TrailHasParents ==
    \A n \in DOMAIN Trail : n > 1 =>
        \E p \in DOMAIN pages : /\ p < n
                                /\ Expanded(p)
                                /\ LinksTo(pages[p], Trail[n].url)
                                /\ Trail[n].depth = pages[p].depth + 1

\* While links are followed the item is the last page, and its links are
\* either still to come or seen; those of earlier pages are all seen.
LinksAccounted ==
    /\ pc = "follow" =>
          /\ Len(pages) > 0
          /\ Expanded(Len(pages))
          /\ item.url = pages[Len(pages)].url
          /\ item.depth = pages[Len(pages)].depth
          /\ \A k \in DOMAIN links : \E i \in DOMAIN pages[Len(pages)].links :
                links[k] = pages[Len(pages)].links[i]
    /\ \A p \in DOMAIN pages : Expanded(p) =>
          \A i \in DOMAIN pages[p].links :
              \/ Norm[pages[p].links[i]] \notin OnSite
              \/ Norm[pages[p].links[i]] \in seen
              \/ /\ pc = "follow"
                 /\ p = Len(pages)
                 /\ \E k \in DOMAIN links : links[k] = pages[p].links[i]

\* No place of the trail is further from the seed than one link from an
\* expanded page makes it.
NoShortcut ==
    \A p \in DOMAIN pages : Expanded(p) =>
        \A n \in DOMAIN Trail :
            LinksTo(pages[p], Trail[n].url) => Trail[n].depth <= pages[p].depth + 1

\* No more pages than allowed, also with the one in hand; when the loop was
\* left nothing was left to do, or there was a reason to stop.
Room ==
    /\ skipped = Cardinality(FailedPages)
    /\ Len(pages) <= MaxPages
    /\ pc \in {"wait", "fetch"} => Len(pages) < MaxPages
    /\ ret = IF pc # "done" THEN NilOutcome
             ELSE IF ret.err THEN FailedPartial ELSE Succeeded
    /\ pc = "done" /\ ret.err => ctx = "cancelled"
    /\ pc = "done" => queue = <<>> \/ Len(pages) >= MaxPages
                        \/ ctx = "cancelled" \/ revoked

IInv ==
    /\ TypeOK
    /\ Room
    /\ TrailInOrder
    /\ TrailHasParents
    /\ LinksAccounted
    /\ NoShortcut

-----------------------------------------------------------------------------
(***************************************************************************)
(* What a step may never do, and what must happen.                         *)
(***************************************************************************)

\* After a cancellation the only page that can still be added is the one
\* whose fetch had begun; no new item is taken up.
CancelStops ==
    [][ctx = "cancelled" =>
          /\ Len(pages') > Len(pages) => pc = "fetch"
          /\ pc' \in {"wait", "fetch"} => pc' = pc]_vars

\* Why the loops end: every step of the call lowers the rank, first by a page
\* that is added, then by the way to the next one, then by a link that is
\* done with; a cancellation or a revocation does not raise it.
Stage == CASE pc = "follow" -> 4 [] pc = "loop" -> 3 [] pc = "wait" -> 2
           [] pc = "fetch" -> 1 [] pc = "done" -> 0

Rank == <<MaxPages - Len(pages), Stage, Len(links)>>

Below(r, s) == \E i \in DOMAIN s : /\ r[i] < s[i]
                                   /\ \A k \in 1..(i - 1) : r[k] = s[k]

WindsDown ==
    /\ [](Rank \in Nat \X Nat \X Nat)
    /\ [][IF Step THEN Below(Rank', Rank) ELSE Rank' = Rank]_vars

\* The loops end, whatever the site links to.
Terminates == <>(pc = "done")
=============================================================================
