------------------------------ MODULE SiteLinks ------------------------------
(***************************************************************************)
(* The web site as the crawler sees it.  A raw link is what extractLinks   *)
(* hands over, resolved but with its fragment; NormalizeURL maps it to a   *)
(* URL without fragment or fails; sameHost tells which URLs belong to the  *)
(* seed's host.  Several raw links may normalise to one URL.               *)
(*                                                                         *)
(* A fetched page is a record; links is empty when the extract types of    *)
(* the job do not ask for links, whatever the page contains.               *)
(***************************************************************************)
EXTENDS Integers, Sequences

CONSTANTS
    Links,       \* raw links
    URLs,        \* normalised URLs
    OnSite,      \* the URLs on the seed's host
    Norm,        \* NormalizeURL and the url.Parse after it
    Unparsable,  \* what Norm yields for a link that cannot be parsed
    Seed,        \* the normalised URL of an accepted request
    PageLists    \* the lists of links a page may carry

ASSUME SiteAssumption ==
    /\ OnSite \subseteq URLs
    /\ Unparsable \notin URLs
    /\ Norm \in [Links -> URLs \cup {Unparsable}]
    /\ Seed \in OnSite
    /\ PageLists \subseteq Seq(Links)

\* frontierItem
Item == [url : OnSite, depth : Nat]

Page == [url : OnSite, depth : Nat, ok : BOOLEAN, links : Seq(Links)]

\* extractLinks is called only for these extract types.
AnchorsOf(list, extract) ==
    IF {"links", "all"} \cap extract # {} THEN list ELSE <<>>

\* A link that parses, stays on the host and is new.
Followable(link, seen) == Norm[link] \in OnSite \ seen

\* Page p has a link to url.
LinksTo(p, url) == \E i \in DOMAIN p.links : Norm[p.links[i]] = url

=============================================================================
