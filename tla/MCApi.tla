------------------------------- MODULE MCApi -------------------------------
(***************************************************************************)
(* An API process and a worker, with a submission and a query.             *)
(***************************************************************************)
EXTENDS ApiProperties

CONSTANTS api, worker, s1, q1

NoOptions == [f \in Fields |-> Unset]

Request(kind, extract, options) ==
    [kind |-> kind, url |-> TRUE, extract |-> extract, options |-> options @@ NoOptions]

\* Options at a bound from the inside, left out, and out of bounds; a scrape
\* and a crawl that store Markdown.
MCBodies ==
    { Request("scrape", {}, [MaxRetries |-> 0]),
      Request("scrape", {"markdown", "html"},
              [MaxRetries |-> 5, TimeoutSeconds |-> 60, FollowRedirects |-> FALSE]),
      Request("crawl", {"links", "markdown"},
              [MaxPages |-> 100, MaxDepth |-> 5, TimeoutSeconds |-> 1, RenderJS |-> TRUE]),
      Request("map", {"tables"}, [MaxDepth |-> 0, RenderJS |-> FALSE]),
      Request("scrape", {"tables"}, NoOptions),
      Request("crawl", {}, [MaxPages |-> 0]) }

\* A crawl that stores Markdown, of one page at most with PageBound 1.
CrawlBody == { Request("crawl", {"links", "markdown"}, [MaxPages |-> 2]) }
=============================================================================
