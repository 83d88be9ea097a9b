-------------------------------- MODULE MCMap --------------------------------
(***************************************************************************)
(* The site of MCCrawl for MapBFS: the seed s, four more pages of its      *)
(* host, one page of another host, a second spelling of a (with a          *)
(* fragment) and a link that cannot be parsed.                             *)
(***************************************************************************)
EXTENDS MapProperties

CONSTANTS s, a, b, c, d, other, aFrag, broken

MCLinks  == {s, a, b, c, d, other, aFrag, broken}
MCOnSite == {s, a, b, c, d}
MCURLs   == MCOnSite \cup {other}
MCNorm   == [l \in MCLinks |-> CASE l = aFrag  -> a
                                 [] l = broken -> Unparsable
                                 [] OTHER      -> l]

\* No link, each link alone, each pair of pages, and everything.
MCPageLists ==
    {<<>>} \cup {<<l>> : l \in MCLinks}
           \cup {<<l, m>> : l, m \in MCOnSite}
           \cup {<<broken, other, aFrag, a, s, b, c, d>>}
=============================================================================
