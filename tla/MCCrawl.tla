------------------------------- MODULE MCCrawl -------------------------------
(***************************************************************************)
(* A small site: the seed s, three more pages of its host, one page of     *)
(* another host, a second spelling of a (with a fragment) and a link that  *)
(* cannot be parsed.                                                       *)
(***************************************************************************)
EXTENDS CrawlProperties

CONSTANTS s, a, b, c, other, aFrag, broken

MCLinks  == {s, a, b, c, other, aFrag, broken}
MCOnSite == {s, a, b, c}
MCURLs   == MCOnSite \cup {other}
MCNorm   == [l \in MCLinks |-> CASE l = aFrag  -> a
                                 [] l = broken -> Unparsable
                                 [] OTHER      -> l]

\* No link, each link alone, some pairs in both orders, and everything.
MCPageLists ==
    {<<>>, <<a>>, <<b>>, <<c>>, <<s, aFrag>>, <<a, b>>, <<b, a>>, <<b, c>>,
     <<broken, other, aFrag, a, s, b, c>>}
=============================================================================
