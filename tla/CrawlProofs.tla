----------------------------- MODULE CrawlProofs -----------------------------
(***************************************************************************)
(* Proofs of the safety properties of CrawlBFS, for every site, every set  *)
(* of options and every way pages may fail.                                *)
(***************************************************************************)
EXTENDS CrawlProperties, FiniteSetTheorems, TLAPS

USE SiteAssumption, OptionsAssumption DEF SiteAssumption, OptionsAssumption

\* The defaults make the bounds natural numbers whatever the options say.
LEMMA BoundsType == MaxPages \in Nat \ {0} /\ MaxDepth \in Nat
  BY DEF MaxPages, MaxDepth

\* What a fetched page yields to follow is a list of links.
LEMMA AnchorsType ==
    ASSUME NEW list \in PageLists
    PROVE  AnchorsOf(list, ExtractTypes) \in Seq(Links)
  BY DEF AnchorsOf

\* The pairs that can be returned, and those that are.
LEMMA OutcomesType == {NilOutcome, Succeeded, FailedPartial} \subseteq Outcome
  BY DEF Outcome, NilOutcome, Succeeded, FailedPartial

LEMMA InitType == Init => TypeOK
  <1> SUFFICES ASSUME Init PROVE TypeOK
    OBVIOUS
  <1>1. [url |-> Seed, depth |-> 0] \in Item
    BY DEF Item
  <1>2. <<[url |-> Seed, depth |-> 0]>> \in Seq(Item)
    BY <1>1
  <1>3. <<>> \in Seq(Links) /\ <<>> \in Seq(Page)
    OBVIOUS
  <1> QED  BY <1>1, <1>2, <1>3, OutcomesType DEF Init, TypeOK

LEMMA HeadsType ==
    ASSUME TypeOK
    PROVE  /\ queue # <<>> => Head(queue) \in Item /\ Tail(queue) \in Seq(Item)
           /\ links # <<>> => Head(links) \in Links /\ Tail(links) \in Seq(Links)
  BY DEF TypeOK

LEMMA PageType ==
    ASSUME TypeOK, NEW ok \in BOOLEAN, NEW anchors \in Seq(Links),
           Report(ok, anchors)
    PROVE  pages' \in Seq(Page)
  <1>1. [url |-> item.url, depth |-> item.depth, ok |-> ok, links |-> anchors]
            \in Page
    BY DEF TypeOK, Item, Page
  <1> QED  BY <1>1 DEF TypeOK, Report

\* Every step keeps the types.
LEMMA StepType == TypeOK /\ [Next]_vars => TypeOK'
  <1> SUFFICES ASSUME TypeOK, [Next]_vars PROVE TypeOK'
    OBVIOUS
  <1>1. CASE LeaveLoop
    BY <1>1, OutcomesType DEF LeaveLoop, Finish, TypeOK, world
  <1>2. CASE TakeNext
    BY <1>2, HeadsType DEF TakeNext, TypeOK, world
  <1>3. CASE Wait
    BY <1>3, OutcomesType DEF Wait, Finish, TypeOK, world
  <1>4. CASE FetchFails
    <2>1. <<>> \in Seq(Links) /\ FALSE \in BOOLEAN
      OBVIOUS
    <2>2. pages' \in Seq(Page)
      BY <1>4, <2>1, PageType DEF FetchFails
    <2> QED  BY <1>4, <2>2 DEF FetchFails, TypeOK, world
  <1>5. CASE FetchWorks
    <2>1. PICK list \in PageLists :
             /\ Report(TRUE, AnchorsOf(list, ExtractTypes))
             /\ \/ pc' = "loop" /\ UNCHANGED links
                \/ pc' = "follow" /\ links' = AnchorsOf(list, ExtractTypes)
      BY <1>5 DEF FetchWorks
    <2>2. pages' \in Seq(Page) /\ AnchorsOf(list, ExtractTypes) \in Seq(Links)
      BY <2>1, AnchorsType, PageType
    <2> QED  BY <1>5, <2>1, <2>2 DEF FetchWorks, TypeOK, world
  <1>6. CASE FollowLink
    <2>1. /\ Tail(links) \in Seq(Links)
          /\ Head(links) \in Links
      BY <1>6, HeadsType DEF FollowLink
    <2>2. CASE Followable(Head(links), seen)
      <3>1. [url |-> Norm[Head(links)], depth |-> item.depth + 1] \in Item
        BY <2>2 DEF Followable, TypeOK, Item
      <3>2. queue' \in Seq(Item)
        <4>1. queue' = Append(queue, [url |-> Norm[Head(links)],
                                      depth |-> item.depth + 1])
          BY <1>6, <2>2 DEF FollowLink
        <4> QED  BY <3>1, <4>1 DEF TypeOK
      <3>3. seen' \subseteq OnSite
        BY <1>6, <2>2 DEF FollowLink, TypeOK, Followable
      <3> QED  BY <1>6, <2>1, <3>2, <3>3 DEF FollowLink, TypeOK, world
    <2>3. CASE ~Followable(Head(links), seen)
      BY <1>6, <2>1, <2>3 DEF FollowLink, TypeOK, world
    <2> QED  BY <2>2, <2>3
  <1>7. CASE NoLinksLeft
    BY <1>7 DEF NoLinksLeft, TypeOK, world
  <1>8. CASE Cancel
    BY <1>8 DEF Cancel, TypeOK
  <1>9. CASE Revoke
    BY <1>9 DEF Revoke, TypeOK
  <1>10. CASE UNCHANGED vars
    BY <1>10 DEF vars, TypeOK
  <1> QED  BY <1>1, <1>2, <1>3, <1>4, <1>5, <1>6, <1>7, <1>8, <1>9, <1>10
           DEF Next, Step

-----------------------------------------------------------------------------
(***************************************************************************)
(* The trail: what its places are, and which steps leave it as it is.      *)
(***************************************************************************)
LEMMA TrailFacts ==
    ASSUME TypeOK
    PROVE  /\ TrailLen \in Nat
           /\ Len(pages) \in Nat
           /\ Len(pages) <= TrailLen
           /\ DOMAIN pages = 1..Len(pages)
           /\ DOMAIN Trail = 1..TrailLen
           /\ \A n \in 1..TrailLen : Trail[n] = Place(n) /\ Place(n) \in Item
           /\ \A n \in 1..Len(pages) : /\ Trail[n].url = pages[n].url
                                      /\ Trail[n].depth = pages[n].depth
                                      /\ pages[n] \in Page
  <1>1. TrailLen \in Nat /\ Len(pages) \in Nat /\ Len(pages) <= TrailLen
    BY DEF TypeOK, TrailLen
  <1>2. DOMAIN pages = 1..Len(pages) /\ DOMAIN Trail = 1..TrailLen
    BY DEF TypeOK, Trail
  <1>3. \A n \in 1..Len(pages) : pages[n] \in Page
    BY DEF TypeOK
  <1>4. ASSUME NEW n \in 1..TrailLen
        PROVE  Trail[n] = Place(n) /\ Place(n) \in Item
    <2>1. Trail[n] = Place(n)
      BY DEF Trail
    <2>2. CASE n <= Len(pages)
      <3>1. pages[n] \in Page
        BY <1>1, <1>3, <2>2
      <3>2. Place(n) = [url |-> pages[n].url, depth |-> pages[n].depth]
        BY <2>2 DEF Place
      <3> QED  BY <2>1, <3>1, <3>2 DEF Page, Item
    <2>3. CASE n > Len(pages) /\ ~InHand
      <3>1. n - Len(pages) \in 1..Len(queue)
        BY <1>1, <2>3 DEF TrailLen, TypeOK
      <3> QED  BY <1>1, <2>1, <2>3, <3>1 DEF Place, TypeOK
    <2>4. CASE n > Len(pages) /\ InHand /\ n = Len(pages) + 1
      BY <1>1, <2>1, <2>4 DEF Place, TypeOK
    <2>5. CASE n > Len(pages) /\ InHand /\ n # Len(pages) + 1
      <3>1. n - Len(pages) - 1 \in 1..Len(queue)
        BY <1>1, <2>5 DEF TrailLen, TypeOK
      <3> QED  BY <1>1, <2>1, <2>5, <3>1 DEF Place, TypeOK
    <2> QED  BY <1>1, <2>1, <2>2, <2>3, <2>4, <2>5
  <1>5. ASSUME NEW n \in 1..Len(pages)
        PROVE  Trail[n].url = pages[n].url /\ Trail[n].depth = pages[n].depth
    <2>1. Trail[n] = [url |-> pages[n].url, depth |-> pages[n].depth]
      BY <1>1, <1>4 DEF Place
    <2> QED  BY <2>1
  <1> QED  BY <1>1, <1>2, <1>3, <1>4, <1>5

\* The trail of the next state has the same places, and the pages of this
\* state are a prefix of its pages.
SameTrail ==
    /\ TrailLen' = TrailLen
    /\ \A n \in 1..TrailLen : Place(n)' = Place(n)
PagesKept ==
    /\ Len(pages') >= Len(pages)
    /\ \A p \in 1..Len(pages) : pages'[p] = pages[p]

LEMMA TakeNextTrail ==
    ASSUME TypeOK, Room, TakeNext
    PROVE  SameTrail
  <1>1. /\ pc = "loop" /\ pc' = "wait" /\ queue # <<>> /\ pages' = pages
        /\ item' = Head(queue) /\ queue' = Tail(queue) /\ ret' = ret
    BY DEF TakeNext
  <1>2. ~InHand /\ InHand'
    BY <1>1 DEF InHand, Room, NilOutcome
  <1>3. /\ Len(queue) > 0 /\ Len(queue') = Len(queue) - 1
        /\ item' = queue[1]
        /\ \A k \in 1..(Len(queue) - 1) : queue'[k] = queue[k + 1]
    BY <1>1 DEF TypeOK
  <1>4. Len(pages) \in Nat /\ Len(queue) \in Nat
    BY DEF TypeOK
  <1>5. TrailLen' = TrailLen
    BY <1>1, <1>2, <1>3, <1>4 DEF TrailLen
  <1>6. ASSUME NEW n \in 1..TrailLen PROVE Place(n)' = Place(n)
    <2>1. CASE n <= Len(pages)
      BY <1>1, <2>1 DEF Place
    <2>2. CASE n = Len(pages) + 1
      BY <1>1, <1>2, <1>3, <1>4, <2>2 DEF Place
    <2>3. CASE n > Len(pages) + 1
      <3>1. n - Len(pages) - 1 \in 1..(Len(queue) - 1)
        BY <1>2, <1>4, <2>3 DEF TrailLen
      <3>2. queue'[n - Len(pages) - 1] = queue[n - Len(pages)]
        BY <1>3, <1>4, <3>1
      <3>3. Place(n)' = queue'[n - Len(pages) - 1]
        <4>1. pages' = pages /\ InHand'
          BY <1>1, <1>2
        <4> QED  BY <1>4, <2>3, <4>1 DEF Place
      <3>4. Place(n) = queue[n - Len(pages)]
        BY <1>2, <1>4, <2>3 DEF Place
      <3> QED  BY <3>2, <3>3, <3>4
    <2> QED  BY <1>4, <2>1, <2>2, <2>3 DEF TrailLen
  <1> QED  BY <1>5, <1>6 DEF SameTrail

\* A fetch turns the item in hand into the last page.
LEMMA FetchTrail ==
    ASSUME TypeOK, Room, pc = "fetch", pc' \in {"loop", "follow"},
           UNCHANGED <<queue, ret>>,
           NEW ok \in BOOLEAN, NEW anchors \in Seq(Links), Report(ok, anchors)
    PROVE  /\ SameTrail
           /\ PagesKept
           /\ Len(pages') = Len(pages) + 1
           /\ pages'[Len(pages) + 1] =
                 [url |-> item.url, depth |-> item.depth,
                  ok |-> ok, links |-> anchors]
           /\ Place(Len(pages) + 1) = item
           /\ Len(pages) + 1 <= TrailLen
  <1> DEFINE page == [url |-> item.url, depth |-> item.depth,
                      ok |-> ok, links |-> anchors]
  <1>1. /\ Len(pages') = Len(pages) + 1
        /\ pages'[Len(pages) + 1] = page
        /\ \A p \in 1..Len(pages) : pages'[p] = pages[p]
    BY DEF TypeOK, Report
  <1>2. InHand /\ ~InHand'
    BY DEF InHand, Room, NilOutcome
  <1>3. Len(pages) \in Nat /\ Len(queue) \in Nat
    BY DEF TypeOK
  <1>4. TrailLen' = TrailLen
    BY <1>1, <1>2, <1>3 DEF TrailLen
  <1>5. item = [url |-> item.url, depth |-> item.depth]
    BY DEF TypeOK, Item
  <1>6. ASSUME NEW n \in 1..TrailLen PROVE Place(n)' = Place(n)
    <2>1. CASE n <= Len(pages)
      BY <1>1, <1>3, <2>1 DEF Place
    <2>2. CASE n = Len(pages) + 1
      <3>1. Place(n)' = [url |-> page.url, depth |-> page.depth]
        BY <1>1, <1>3, <2>2 DEF Place
      <3>2. Place(n) = item
        BY <1>2, <1>3, <2>2 DEF Place
      <3> QED  BY <1>5, <3>1, <3>2
    <2>3. CASE n > Len(pages) + 1
      BY <1>1, <1>2, <1>3, <2>3 DEF Place
    <2> QED  BY <1>3, <2>1, <2>2, <2>3 DEF TrailLen
  <1>7. Place(Len(pages) + 1) = item /\ Len(pages) + 1 <= TrailLen
    BY <1>2, <1>3 DEF Place, TrailLen
  <1> QED  BY <1>1, <1>3, <1>4, <1>6, <1>7 DEF SameTrail, PagesKept

\* Steps that neither move the borders nor extend the trail.
LEMMA QuietTrail ==
    ASSUME TypeOK, UNCHANGED <<queue, pages, item>>, InHand' = InHand
    PROVE  SameTrail
  BY DEF SameTrail, TrailLen, Place

\* Following a link either leaves the trail as it is or adds one place.
LEMMA FollowTrail ==
    ASSUME TypeOK, Room, FollowLink
    PROVE  /\ UNCHANGED <<pages, item, pc, ret>>
           /\ Head(links) \in Links
           /\ \/ SameTrail /\ seen' = seen /\ ~Followable(Head(links), seen)
              \/ /\ Followable(Head(links), seen)
                 /\ seen' = seen \cup {Norm[Head(links)]}
                 /\ TrailLen' = TrailLen + 1
                 /\ \A n \in 1..TrailLen : Place(n)' = Place(n)
                 /\ \A n \in {TrailLen + 1} : Place(n)' =
                       [url |-> Norm[Head(links)], depth |-> item.depth + 1]
  <1>1. UNCHANGED <<pages, item, pc, ret>> /\ pc = "follow"
    BY DEF FollowLink
  <1>2. Head(links) \in Links
    BY HeadsType DEF FollowLink
  <1>3. ~InHand /\ ~InHand'
    BY <1>1 DEF InHand, Room, NilOutcome
  <1>4. CASE ~Followable(Head(links), seen)
    <2>1. queue' = queue /\ seen' = seen
      BY <1>4 DEF FollowLink
    <2>2. SameTrail
      BY <1>1, <1>3, <2>1 DEF SameTrail, TrailLen, Place
    <2> QED  BY <1>1, <1>2, <1>4, <2>1, <2>2
  <1>5. CASE Followable(Head(links), seen)
    <2> DEFINE new == [url |-> Norm[Head(links)], depth |-> item.depth + 1]
    <2>1. seen' = seen \cup {Norm[Head(links)]} /\ queue' = Append(queue, new)
      BY <1>5 DEF FollowLink
    <2>2. new \in Item
      BY <1>5 DEF Followable, TypeOK, Item
    <2> HIDE DEF new
    <2>3. /\ Len(queue') = Len(queue) + 1
          /\ \A k \in 1..Len(queue) : queue'[k] = queue[k]
          /\ queue'[Len(queue) + 1] = new
      BY <2>1, <2>2 DEF TypeOK
    <2>4. Len(pages) \in Nat /\ Len(queue) \in Nat
      BY DEF TypeOK
    <2>5. TrailLen = Len(pages) + Len(queue) /\ TrailLen' = TrailLen + 1
      BY <1>1, <1>3, <2>3, <2>4 DEF TrailLen
    <2>6. ASSUME NEW n \in 1..TrailLen PROVE Place(n)' = Place(n)
      <3>1. CASE n <= Len(pages)
        BY <1>1, <3>1 DEF Place
      <3>2. CASE n > Len(pages)
        <4>1. n - Len(pages) \in 1..Len(queue)
          BY <2>4, <2>5, <3>2
        <4> QED  BY <1>1, <1>3, <2>3, <2>4, <3>2, <4>1 DEF Place
      <3> QED  BY <2>4, <2>5, <3>1, <3>2
    <2>7. ASSUME NEW n \in {TrailLen + 1} PROVE Place(n)' = new
      <3>1. n - Len(pages) = Len(queue) + 1 /\ ~(n <= Len(pages))
        BY <2>4, <2>5
      <3>2. Place(n)' = queue'[n - Len(pages)]
        BY <1>1, <1>3, <3>1 DEF Place
      <3> QED  BY <2>3, <3>1, <3>2
    <2> QED  BY <1>1, <1>2, <1>5, <2>1, <2>5, <2>6, <2>7 DEF new
  <1> QED  BY <1>4, <1>5

-----------------------------------------------------------------------------
(***************************************************************************)
(* The parts of the inductive invariant that speak of the trail.           *)
(***************************************************************************)
LEMMA SameTrailIsEqual == SameTrail => Trail' = Trail
  BY DEF SameTrail, Trail

LEMMA OrderKept ==
    ASSUME TypeOK, TypeOK', TrailInOrder, SameTrail, seen' = seen,
           Len(pages') >= Len(pages)
    PROVE  TrailInOrder'
  <1>1. Trail' = Trail /\ TrailLen' = TrailLen
    BY SameTrailIsEqual DEF SameTrail
  <1>2. Len(pages) \in Nat /\ Len(pages') \in Nat /\ DOMAIN Trail = 1..TrailLen
    BY TrailFacts DEF TypeOK
  <1>3. \A m, n \in DOMAIN Trail' :
           Len(pages') <= n => Trail'[m].depth <= Trail'[n].depth + 1
    BY <1>1, <1>2, TrailFacts DEF TrailInOrder
  <1> QED  BY <1>1, <1>3 DEF TrailInOrder

LEMMA ParentsKept ==
    ASSUME TypeOK, TypeOK', TrailHasParents, SameTrail, PagesKept
    PROVE  TrailHasParents'
  <1>1. Trail' = Trail
    BY SameTrailIsEqual
  <1>2. Len(pages) \in Nat /\ Len(pages') \in Nat
    BY DEF TypeOK
  <1>3. DOMAIN pages = 1..Len(pages) /\ DOMAIN pages' = 1..Len(pages')
    BY DEF TypeOK
  <1> SUFFICES ASSUME NEW n \in DOMAIN Trail, n > 1
               PROVE  \E p \in DOMAIN pages' :
                         /\ p < n
                         /\ Expanded(p)'
                         /\ LinksTo(pages'[p], Trail[n].url)
                         /\ Trail[n].depth = pages'[p].depth + 1
    BY <1>1 DEF TrailHasParents
  <1>4. PICK p \in DOMAIN pages : /\ p < n
                                 /\ Expanded(p)
                                 /\ LinksTo(pages[p], Trail[n].url)
                                 /\ Trail[n].depth = pages[p].depth + 1
    BY DEF TrailHasParents
  <1>5. p \in DOMAIN pages' /\ pages'[p] = pages[p]
    BY <1>2, <1>3 DEF PagesKept
  <1>6. Expanded(p)'
    BY <1>4, <1>5 DEF Expanded
  <1> QED  BY <1>4, <1>5, <1>6

TrailParts == TrailInOrder /\ TrailHasParents /\ LinksAccounted /\ NoShortcut

\* A step outside the loop over a page's links that adds no page.
LEMMA QuietStep ==
    ASSUME TypeOK, TypeOK', TrailParts, SameTrail, UNCHANGED <<pages, seen>>,
           pc # "follow", pc' # "follow"
    PROVE  TrailParts'
  <1>1. TrailInOrder' /\ TrailHasParents'
    <2>1. Len(pages) \in Nat
      BY DEF TypeOK
    <2>2. PagesKept
      BY <2>1 DEF PagesKept
    <2> QED  BY <2>1, <2>2, OrderKept, ParentsKept DEF TrailParts
  <1>2. NoShortcut'
    BY SameTrailIsEqual DEF TrailParts, NoShortcut, Expanded
  <1>3. LinksAccounted'
    BY DEF TrailParts, LinksAccounted, Expanded
  <1> QED  BY <1>1, <1>2, <1>3 DEF TrailParts

\* A step that changes none of the loops' state.
LEMMA OutsideStep ==
    ASSUME TypeOK, TypeOK', TrailParts,
           UNCHANGED <<pc, queue, seen, pages, item, links, ret>>
    PROVE  TrailParts'
  <1>1. SameTrail
    BY QuietTrail DEF InHand
  <1>2. TrailInOrder' /\ TrailHasParents'
    <2>1. Len(pages) \in Nat
      BY DEF TypeOK
    <2>2. PagesKept
      BY <2>1 DEF PagesKept
    <2> QED  BY <1>1, <2>1, <2>2, OrderKept, ParentsKept DEF TrailParts
  <1>3. NoShortcut'
    BY <1>1, SameTrailIsEqual DEF TrailParts, NoShortcut, Expanded
  <1>4. LinksAccounted'
    BY DEF TrailParts, LinksAccounted, Expanded
  <1> QED  BY <1>2, <1>3, <1>4 DEF TrailParts

\* The end of the loop over a page's links.
LEMMA NoLinksLeftStep ==
    ASSUME TypeOK, TypeOK', Room, TrailParts, NoLinksLeft
    PROVE  TrailParts'
  <1>1. /\ UNCHANGED <<queue, seen, pages, item, links, ret>>
        /\ pc = "follow" /\ pc' = "loop" /\ links = <<>>
    BY DEF NoLinksLeft, world
  <1>2. SameTrail
    BY <1>1 DEF SameTrail, TrailLen, Place, InHand
  <1>3. TrailInOrder' /\ TrailHasParents'
    <2>1. Len(pages) \in Nat
      BY DEF TypeOK
    <2>2. PagesKept
      BY <1>1, <2>1 DEF PagesKept
    <2> QED  BY <1>1, <1>2, <2>1, <2>2, OrderKept, ParentsKept DEF TrailParts
  <1>4. NoShortcut'
    BY <1>1, <1>2, SameTrailIsEqual DEF TrailParts, NoShortcut, Expanded
  <1>5. LinksAccounted'
    BY <1>1 DEF TrailParts, LinksAccounted, Expanded
  <1> QED  BY <1>3, <1>4, <1>5 DEF TrailParts

\* A fetch, whatever it brings.
LEMMA FetchStep ==
    ASSUME TypeOK, TypeOK', Room, TrailParts,
           NEW ok \in BOOLEAN, NEW anchors \in Seq(Links),
           pc = "fetch", Report(ok, anchors),
           UNCHANGED <<queue, seen, item, ret>>,
           \/ pc' = "loop" /\ ~(ok /\ item.depth < MaxDepth)
           \/ pc' = "follow" /\ links' = anchors /\ ok /\ item.depth < MaxDepth
    PROVE  TrailParts'
  <1> DEFINE last == Len(pages) + 1
  <1>1. /\ SameTrail
        /\ PagesKept
        /\ Len(pages') = last
        /\ pages'[last] = [url |-> item.url, depth |-> item.depth,
                          ok |-> ok, links |-> anchors]
        /\ Place(last) = item
        /\ last <= TrailLen
    BY FetchTrail
  <1>2. Len(pages) \in Nat /\ DOMAIN pages' = 1..last
    BY <1>1 DEF TypeOK
  <1>3. DOMAIN pages = 1..Len(pages) /\ DOMAIN Trail = 1..TrailLen /\ Trail[last] = item
    BY <1>1, <1>2, TrailFacts
  <1>4. Trail' = Trail
    BY <1>1, SameTrailIsEqual
  <1>5. TrailInOrder' /\ TrailHasParents'
    <2>1. Len(pages') >= Len(pages)
      BY <1>1, <1>2
    <2> QED  BY <1>1, <2>1, OrderKept, ParentsKept DEF TrailParts
  <1>6. /\ pages'[last].ok = ok
        /\ pages'[last].depth = item.depth
        /\ pages'[last].url = item.url
        /\ pages'[last].links = anchors
    BY <1>1
  <1>7. ASSUME NEW p \in DOMAIN pages', p # last
        PROVE  p \in DOMAIN pages /\ pages'[p] = pages[p]
    BY <1>1, <1>2, <1>3, <1>7 DEF PagesKept
  <1>8. NoShortcut'
    <2> SUFFICES ASSUME NEW p \in DOMAIN pages', Expanded(p)',
                        NEW n \in DOMAIN Trail,
                        LinksTo(pages'[p], Trail[n].url)
                 PROVE  Trail[n].depth <= pages'[p].depth + 1
      BY <1>4 DEF NoShortcut
    <2>1. CASE p = last
      <3>1. Len(pages) <= last /\ last \in DOMAIN Trail
        BY <1>1, <1>2, <1>3
      <3>2. Trail[n].depth <= Trail[last].depth + 1
        BY <3>1 DEF TrailParts, TrailInOrder
      <3> QED  BY <1>3, <1>6, <2>1, <3>2
    <2>2. CASE p # last
      <3>1. p \in DOMAIN pages /\ pages'[p] = pages[p]
        BY <1>7, <2>2
      <3> QED  BY <3>1 DEF TrailParts, NoShortcut, Expanded
    <2> QED  BY <2>1, <2>2
  <1>9. LinksAccounted'
    <2>1. ASSUME pc' = "follow"
          PROVE  /\ last > 0
                 /\ pages'[last].ok /\ pages'[last].depth < MaxDepth
                 /\ links' = pages'[last].links
                 /\ item' = item
      BY <1>2, <1>6, <2>1
    <2>2. ASSUME NEW p \in DOMAIN pages', Expanded(p)',
                 NEW i \in DOMAIN pages'[p].links
          PROVE  \/ Norm[pages'[p].links[i]] \notin OnSite
                 \/ Norm[pages'[p].links[i]] \in seen'
                 \/ /\ pc' = "follow"
                    /\ p = last
                    /\ \E k \in DOMAIN links' : links'[k] = pages'[p].links[i]
      <3>1. CASE p = last
        <4>1. pc' = "follow"
          BY <1>6, <2>2, <3>1 DEF Expanded
        <4> QED  BY <2>1, <2>2, <3>1, <4>1
      <3>2. CASE p # last
        <4>1. p \in DOMAIN pages /\ pages'[p] = pages[p]
          BY <1>7, <3>2
        <4>2. Expanded(p) /\ i \in DOMAIN pages[p].links
          BY <2>2, <4>1 DEF Expanded
        <4>3. \/ Norm[pages[p].links[i]] \notin OnSite
              \/ Norm[pages[p].links[i]] \in seen
          BY <4>1, <4>2 DEF TrailParts, LinksAccounted
        <4> QED  BY <4>1, <4>3
      <3> QED  BY <3>1, <3>2
    <2>3. pc' = "follow" =>
             /\ Len(pages') > 0
             /\ Expanded(Len(pages))'
             /\ item'.url = pages'[Len(pages')].url
             /\ item'.depth = pages'[Len(pages')].depth
             /\ \A k \in DOMAIN links' :
                   \E i \in DOMAIN pages'[Len(pages')].links :
                      links'[k] = pages'[Len(pages')].links[i]
      BY <1>1, <1>6, <2>1 DEF Expanded
    <2> HIDE DEF last
    <2> QED  BY <1>1, <2>2, <2>3 DEF LinksAccounted
  <1> QED  BY <1>5, <1>8, <1>9 DEF TrailParts

\* One link of the page in hand.
LEMMA FollowStep ==
    ASSUME TypeOK, TypeOK', Room, TrailParts, FollowLink
    PROVE  TrailParts'
  <1> DEFINE url == Norm[Head(links)]
             last == Len(pages)
  <1>1. /\ UNCHANGED <<pages, item, pc, ret>>
        /\ pc = "follow"
        /\ links # <<>>
        /\ links' = Tail(links)
    BY DEF FollowLink
  <1>2. /\ last > 0
        /\ Expanded(last)
        /\ item.url = pages[last].url
        /\ item.depth = pages[last].depth
        /\ \A k \in DOMAIN links : \E i \in DOMAIN pages[last].links :
              links[k] = pages[last].links[i]
    BY <1>1 DEF TrailParts, LinksAccounted
  <1>3. /\ 1 \in DOMAIN links
        /\ links[1] = Head(links)
        /\ \A k \in DOMAIN links' : k + 1 \in DOMAIN links /\ links'[k] = links[k + 1]
        /\ \A k \in DOMAIN links : k # 1 =>
              k - 1 \in DOMAIN links' /\ links'[k - 1] = links[k]
    BY <1>1 DEF TypeOK
  <1>4. seen' = seen \/ seen' = seen \cup {url}
    BY FollowTrail
  <1>5. url \in OnSite => url \in seen'
    BY FollowTrail DEF Followable
  <1>6. LinksAccounted'
    <2>1. ASSUME NEW k \in DOMAIN links'
          PROVE  \E i \in DOMAIN pages[last].links : links'[k] = pages[last].links[i]
      BY <1>2, <1>3
    <2>2. ASSUME NEW p \in DOMAIN pages, Expanded(p),
                 NEW i \in DOMAIN pages[p].links
          PROVE  \/ Norm[pages[p].links[i]] \notin OnSite
                 \/ Norm[pages[p].links[i]] \in seen'
                 \/ /\ p = last
                    /\ \E k \in DOMAIN links' : links'[k] = pages[p].links[i]
      <3>1. \/ Norm[pages[p].links[i]] \notin OnSite
            \/ Norm[pages[p].links[i]] \in seen
            \/ /\ p = last
               /\ \E k \in DOMAIN links : links[k] = pages[p].links[i]
        BY <2>2 DEF TrailParts, LinksAccounted
      <3>2. CASE p = last /\ \E k \in DOMAIN links : links[k] = pages[p].links[i]
        <4>1. PICK k \in DOMAIN links : links[k] = pages[p].links[i]
          BY <3>2
        <4>2. CASE k = 1
          BY <1>3, <1>5, <4>1, <4>2
        <4>3. CASE k # 1
          BY <1>3, <3>2, <4>1, <4>3
        <4> QED  BY <4>2, <4>3
      <3> QED  BY <1>4, <3>1, <3>2
    <2>3. Expanded(last)'
      BY <1>1, <1>2 DEF Expanded
    <2> QED  BY <1>1, <1>2, <2>1, <2>2, <2>3 DEF LinksAccounted, Expanded
  <1>7. CASE SameTrail /\ seen' = seen
    <2>1. Len(pages) \in Nat
      BY DEF TypeOK
    <2>2. PagesKept
      BY <1>1, <2>1 DEF PagesKept
    <2>3. TrailInOrder' /\ TrailHasParents'
      BY <1>1, <1>7, <2>1, <2>2, OrderKept, ParentsKept DEF TrailParts
    <2>4. NoShortcut'
      BY <1>1, <1>7, SameTrailIsEqual DEF TrailParts, NoShortcut, Expanded
    <2> QED  BY <1>6, <2>3, <2>4 DEF TrailParts
  <1>8. CASE /\ Followable(Head(links), seen)
             /\ seen' = seen \cup {url}
             /\ TrailLen' = TrailLen + 1
             /\ \A n \in 1..TrailLen : Place(n)' = Place(n)
             /\ \A n \in {TrailLen + 1} :
                   Place(n)' = [url |-> url, depth |-> item.depth + 1]
    <2> DEFINE end == TrailLen + 1
               new == [url |-> url, depth |-> item.depth + 1]
    <2>1. /\ TrailLen \in Nat /\ last \in Nat /\ last <= TrailLen
          /\ DOMAIN pages = 1..last
          /\ DOMAIN Trail = 1..TrailLen
          /\ \A n \in 1..TrailLen : Trail[n] = Place(n) /\ Place(n) \in Item
          /\ Trail[last].depth = item.depth
      BY <1>2, TrailFacts
    <2>2. /\ DOMAIN Trail' = 1..end
          /\ \A n \in 1..TrailLen : Trail'[n] = Trail[n]
          /\ Trail'[end] = new
      BY <1>8, <2>1 DEF Trail
    <2>3. /\ new.url = url /\ new.depth = item.depth + 1
          /\ url \in OnSite /\ url \notin seen
      BY <1>8 DEF Followable
    <2>4. /\ item.depth \in Nat
          /\ \A n \in 1..TrailLen : Trail[n].depth \in Nat
      BY <2>1 DEF TypeOK, Item
    <2>5. \A n \in 1..TrailLen : Trail[n].url \in seen /\ Trail[n].url # url
      BY <2>1, <2>3 DEF TrailParts, TrailInOrder
    <2>6. \A n \in 1..TrailLen : Trail[n].depth <= item.depth + 1
      BY <1>2, <2>1 DEF TrailParts, TrailInOrder
    <2>7. \A n \in 1..TrailLen : last <= n => item.depth <= Trail[n].depth
      BY <1>2, <2>1 DEF TrailParts, TrailInOrder
    <2>8. item.depth + 1 <= MaxDepth
      BY <1>2, <2>4, BoundsType DEF Expanded
    <2> HIDE DEF url, last, end, new
    <2>9. TrailInOrder'
      <3>1. TrailLen' > 0 /\ Trail'[1] = [url |-> Seed, depth |-> 0]
        BY <1>8, <2>1, <2>2 DEF TrailParts, TrailInOrder
      <3>2. seen' = {Trail'[n].url : n \in DOMAIN Trail'}
        <4>1. seen = {Trail[n].url : n \in 1..TrailLen}
          BY <2>1 DEF TrailParts, TrailInOrder
        <4>2. DOMAIN Trail' = (1..TrailLen) \cup {end}
          BY <2>1, <2>2 DEF end
        <4>3. ASSUME NEW x \in seen'
              PROVE  \E n \in DOMAIN Trail' : x = Trail'[n].url
          <5>1. CASE x = url
            BY <2>2, <2>3, <4>2, <5>1
          <5>2. CASE x # url
            BY <1>8, <2>2, <4>1, <4>2, <5>2
          <5> QED  BY <5>1, <5>2
        <4>4. ASSUME NEW n \in DOMAIN Trail'
              PROVE  Trail'[n].url \in seen'
          <5>1. CASE n = end
            BY <1>8, <2>2, <2>3, <5>1
          <5>2. CASE n # end
            BY <1>8, <2>2, <2>5, <4>2, <5>2
          <5> QED  BY <5>1, <5>2
        <4> QED  BY <4>3, <4>4
      <3>3. ASSUME NEW m \in DOMAIN Trail', NEW n \in DOMAIN Trail'
            PROVE  /\ Trail'[m].url = Trail'[n].url => m = n
                   /\ m <= n => Trail'[m].depth <= Trail'[n].depth
                   /\ last <= n => Trail'[m].depth <= Trail'[n].depth + 1
                   /\ Trail'[n].depth <= MaxDepth
        <4>1. m \in Nat /\ n \in Nat /\ end = TrailLen + 1
          BY <2>1, <2>2 DEF end
        <4>2. CASE m # end /\ n # end
          <5>1. m \in 1..TrailLen /\ n \in 1..TrailLen
            BY <2>1, <2>2, <3>3, <4>1, <4>2
          <5> QED  BY <2>1, <2>2, <5>1 DEF TrailParts, TrailInOrder, last
        <4>3. CASE m = end /\ n # end
          <5>1. n \in 1..TrailLen /\ ~(m <= n)
            BY <2>1, <2>2, <3>3, <4>1, <4>3
          <5>2. Trail'[m] = new /\ Trail'[n] = Trail[n]
            BY <2>2, <4>3, <5>1
          <5>3. Trail[n].depth <= MaxDepth
            BY <2>1, <5>1 DEF TrailParts, TrailInOrder
          <5> QED  BY <2>3, <2>4, <2>5, <2>7, <5>1, <5>2, <5>3
        <4>4. CASE m # end /\ n = end
          <5>1. m \in 1..TrailLen
            BY <2>1, <2>2, <3>3, <4>1, <4>4
          <5>2. Trail'[n] = new /\ Trail'[m] = Trail[m]
            BY <2>2, <4>4, <5>1
          <5> QED  BY <2>3, <2>4, <2>5, <2>6, <2>8, <5>1, <5>2
        <4>5. CASE m = end /\ n = end
          BY <2>2, <2>3, <2>4, <2>8, <4>5
        <4> QED  BY <4>2, <4>3, <4>4, <4>5
      <3> QED  BY <1>1, <3>1, <3>2, <3>3 DEF TrailInOrder, last
    <2>10. TrailHasParents'
      <3> SUFFICES ASSUME NEW n \in DOMAIN Trail', n > 1
                   PROVE  \E p \in DOMAIN pages :
                             /\ p < n
                             /\ Expanded(p)
                             /\ LinksTo(pages[p], Trail'[n].url)
                             /\ Trail'[n].depth = pages[p].depth + 1
        BY <1>1 DEF TrailHasParents, Expanded
      <3>1. CASE n = end
        <4>1. last \in DOMAIN pages /\ last < n
          BY <1>2, <2>1, <3>1 DEF end
        <4>2. LinksTo(pages[last], url)
          BY <1>2, <1>3 DEF LinksTo, url
        <4> QED  BY <1>2, <2>2, <2>3, <3>1, <4>1, <4>2
      <3>2. CASE n # end
        <4>1. n \in 1..TrailLen
          BY <2>1, <2>2, <3>2 DEF end
        <4> QED  BY <2>1, <2>2, <4>1 DEF TrailParts, TrailHasParents
      <3> QED  BY <3>1, <3>2
    <2>11. NoShortcut'
      <3> SUFFICES ASSUME NEW p \in DOMAIN pages, Expanded(p),
                          NEW n \in DOMAIN Trail',
                          LinksTo(pages[p], Trail'[n].url)
                   PROVE  Trail'[n].depth <= pages[p].depth + 1
        BY <1>1 DEF NoShortcut, Expanded
      <3>1. CASE n = end
        <4>1. PICK i \in DOMAIN pages[p].links : Norm[pages[p].links[i]] = url
          BY <2>2, <2>3, <3>1 DEF LinksTo
        <4>2. p = Len(pages)
          BY <2>3, <4>1 DEF TrailParts, LinksAccounted
        <4> QED  BY <1>2, <2>2, <2>3, <2>4, <3>1, <4>2 DEF last
      <3>2. CASE n # end
        <4>1. n \in 1..TrailLen
          BY <2>1, <2>2, <3>2 DEF end
        <4> QED  BY <2>1, <2>2, <4>1 DEF TrailParts, NoShortcut
      <3> QED  BY <3>1, <3>2
    <2> QED  BY <1>6, <2>9, <2>10, <2>11 DEF TrailParts
  <1> QED  BY <1>7, <1>8, FollowTrail

-----------------------------------------------------------------------------
(***************************************************************************)
(* The inductive invariant.                                                *)
(***************************************************************************)
LEMMA InitInv == Init => IInv
  <1> SUFFICES ASSUME Init PROVE IInv
    OBVIOUS
  <1>1. TypeOK
    BY InitType
  <1>2. /\ pc = "loop" /\ pages = <<>> /\ skipped = 0 /\ seen = {Seed}
        /\ queue = <<[url |-> Seed, depth |-> 0]>> /\ ret = NilOutcome
    BY DEF Init
  <1>3. DOMAIN pages = {} /\ Len(pages) = 0 /\ Len(queue) = 1
    BY <1>2
  <1>4. ~InHand /\ TrailLen = 1
    BY <1>2, <1>3 DEF InHand, NilOutcome, TrailLen
  <1>5. DOMAIN Trail = {1} /\ Trail[1] = [url |-> Seed, depth |-> 0]
    BY <1>2, <1>3, <1>4 DEF Trail, Place
  <1>6. Room
    <2>1. FailedPages = {}
      BY <1>3 DEF FailedPages
    <2> QED  BY <1>2, <1>3, <2>1, FS_EmptySet, BoundsType DEF Room
  <1>7. TrailInOrder
    <2>1. seen = {Trail[n].url : n \in DOMAIN Trail}
      BY <1>2, <1>5
    <2> QED  BY <1>3, <1>4, <1>5, <2>1, BoundsType DEF TrailInOrder
  <1>8. TrailHasParents /\ NoShortcut /\ LinksAccounted
    BY <1>2, <1>3, <1>5 DEF TrailHasParents, NoShortcut, LinksAccounted
  <1> QED  BY <1>1, <1>6, <1>7, <1>8 DEF IInv

\* The bookkeeping of a fetch: one page more, one failure more if it failed.
LEMMA FetchCounts ==
    ASSUME TypeOK, TypeOK', Room, pc = "fetch", pc' \in {"loop", "follow"},
           UNCHANGED <<queue, ctx, revoked, ret>>,
           NEW ok \in BOOLEAN, NEW anchors \in Seq(Links), Report(ok, anchors),
           skipped' = IF ok THEN skipped ELSE skipped + 1
    PROVE  Room'
  <1> DEFINE last == Len(pages) + 1
  <1>1. /\ Len(pages) \in Nat /\ last \notin DOMAIN pages
        /\ DOMAIN pages = 1..Len(pages)
        /\ DOMAIN pages' = DOMAIN pages \cup {last}
        /\ Len(pages') = last
        /\ pages'[last].ok = ok
        /\ \A p \in DOMAIN pages : pages'[p] = pages[p]
    BY DEF TypeOK, Report
  <1>2. IsFiniteSet(FailedPages)
    <2>1. FailedPages \subseteq 1..Len(pages)
      BY <1>1 DEF FailedPages
    <2>2. IsFiniteSet(1..Len(pages))
      BY <1>1, FS_Interval
    <2> QED  BY <2>1, <2>2, FS_Subset
  <1>3. FailedPages' = IF ok THEN FailedPages ELSE FailedPages \cup {last}
    <2> HIDE DEF last
    <2> QED  BY <1>1 DEF FailedPages
  <1>4. skipped' = Cardinality(FailedPages)'
    <2>1. last \notin FailedPages
      BY <1>1 DEF FailedPages
    <2>2. Cardinality(FailedPages \cup {last}) = Cardinality(FailedPages) + 1
      BY <1>2, <2>1, FS_AddElement
    <2> QED  BY <1>3, <2>2 DEF Room
  <1>5. Len(pages') <= MaxPages
    BY <1>1, BoundsType DEF Room
  <1> QED  BY <1>4, <1>5 DEF Room

LEMMA StepInv == IInv /\ [Next]_vars => IInv'
  <1> SUFFICES ASSUME IInv, [Next]_vars PROVE IInv'
    OBVIOUS
  <1>1. TypeOK /\ TypeOK' /\ Room /\ TrailParts
    BY StepType DEF IInv, TrailParts
  <1>2. CASE LeaveLoop
    <2>1. /\ UNCHANGED <<queue, pages, item, seen, skipped, ctx, revoked>>
          /\ pc = "loop" /\ pc' = "done" /\ ret' = Succeeded
          /\ queue = <<>> \/ Len(pages) >= MaxPages \/ ctx = "cancelled" \/ revoked
      BY <1>2 DEF LeaveLoop, Finish, world
    <2>2. ret = NilOutcome /\ ~ret.err /\ ~ret'.err
      BY <1>1, <2>1 DEF Room, NilOutcome, Succeeded
    <2>3. SameTrail
      BY <1>1, <2>1, <2>2, QuietTrail DEF InHand
    <2>4. TrailParts'
      BY <1>1, <2>1, <2>3, QuietStep
    <2>5. Room'
      BY <1>1, <2>1, <2>2 DEF Room, FailedPages
    <2> QED  BY <1>1, <2>4, <2>5 DEF IInv, TrailParts
  <1>3. CASE TakeNext
    <2>1. /\ UNCHANGED <<pages, seen, skipped, ctx, revoked, ret>>
          /\ pc = "loop" /\ pc' = "wait" /\ Len(pages) < MaxPages
      BY <1>3 DEF TakeNext, world
    <2>2. TrailParts'
      BY <1>1, <1>3, <2>1, TakeNextTrail, QuietStep
    <2>3. Room'
      BY <1>1, <2>1 DEF Room, FailedPages
    <2> QED  BY <1>1, <2>2, <2>3 DEF IInv, TrailParts
  <1>4. CASE Wait
    <2>1. /\ UNCHANGED <<queue, pages, item, seen, skipped, ctx, revoked>>
          /\ pc = "wait"
          /\ \/ pc' = "fetch" /\ ret' = ret
             \/ pc' = "done" /\ ret' = FailedPartial /\ ctx = "cancelled"
      BY <1>4 DEF Wait, Finish, world
    <2>2. InHand /\ InHand'
      BY <2>1 DEF InHand, FailedPartial
    <2>3. TrailParts'
      BY <1>1, <2>1, <2>2, QuietTrail, QuietStep
    <2>4. Room'
      BY <1>1, <2>1 DEF Room, FailedPages, FailedPartial, NilOutcome
    <2> QED  BY <1>1, <2>3, <2>4 DEF IInv, TrailParts
  <1>5. CASE FetchFails
    <2>1. /\ UNCHANGED <<queue, seen, item, ctx, revoked, ret>>
          /\ pc = "fetch" /\ pc' = "loop"
          /\ Report(FALSE, <<>>) /\ skipped' = skipped + 1
      BY <1>5 DEF FetchFails, world
    <2>2. <<>> \in Seq(Links) /\ FALSE \in BOOLEAN
      OBVIOUS
    <2>3. TrailParts'
      BY <1>1, <2>1, <2>2, FetchStep
    <2>4. Room'
      BY <1>1, <2>1, <2>2, FetchCounts
    <2> QED  BY <1>1, <2>3, <2>4 DEF IInv, TrailParts
  <1>6. CASE FetchWorks
    <2>1. PICK list \in PageLists :
             /\ UNCHANGED <<queue, seen, item, ctx, revoked, ret, skipped>>
             /\ pc = "fetch"
             /\ Report(TRUE, AnchorsOf(list, ExtractTypes))
             /\ \/ item.depth >= MaxDepth /\ pc' = "loop"
                \/ /\ item.depth < MaxDepth /\ pc' = "follow"
                   /\ links' = AnchorsOf(list, ExtractTypes)
      BY <1>6 DEF FetchWorks, world
    <2>2. /\ AnchorsOf(list, ExtractTypes) \in Seq(Links)
          /\ TRUE \in BOOLEAN /\ item.depth \in Nat
      BY <1>1, AnchorsType DEF TypeOK, Item
    <2>3. TrailParts'
      <3>1. CASE pc' = "loop"
        <4>1. ~(item.depth < MaxDepth)
          BY <2>1, <2>2, <3>1, BoundsType
        <4> QED  BY <1>1, <2>1, <2>2, <3>1, <4>1, FetchStep
      <3>2. CASE pc' = "follow"
        BY <1>1, <2>1, <2>2, <3>2, FetchStep
      <3> QED  BY <2>1, <3>1, <3>2
    <2>4. Room'
      BY <1>1, <2>1, <2>2, FetchCounts
    <2> QED  BY <1>1, <2>3, <2>4 DEF IInv, TrailParts
  <1>7. CASE FollowLink
    <2>1. UNCHANGED <<pc, pages, skipped, ctx, revoked, ret>> /\ pc = "follow"
      BY <1>7 DEF FollowLink, world
    <2>2. TrailParts'
      BY <1>1, <1>7, FollowStep
    <2>3. Room'
      BY <1>1, <2>1 DEF Room, FailedPages
    <2> QED  BY <1>1, <2>2, <2>3 DEF IInv, TrailParts
  <1>8. CASE NoLinksLeft
    <2>1. /\ UNCHANGED <<pages, skipped, ctx, revoked, ret>>
          /\ pc = "follow" /\ pc' = "loop"
      BY <1>8 DEF NoLinksLeft, world
    <2>2. TrailParts'
      BY <1>1, <1>8, NoLinksLeftStep
    <2>3. Room'
      BY <1>1, <2>1 DEF Room, FailedPages
    <2> QED  BY <1>1, <2>2, <2>3 DEF IInv, TrailParts
  <1>9. CASE Cancel \/ Revoke \/ UNCHANGED vars
    <2>1. /\ UNCHANGED <<pc, queue, seen, pages, skipped, item, links, ret>>
          /\ ctx' = ctx \/ ctx' = "cancelled"
          /\ revoked' = revoked \/ revoked' = TRUE
      BY <1>9 DEF Cancel, Revoke, vars
    <2>2. TrailParts'
      BY <1>1, <2>1, OutsideStep
    <2>3. Room'
      BY <1>1, <2>1 DEF Room, FailedPages
    <2> QED  BY <1>1, <2>2, <2>3 DEF IInv, TrailParts
  <1> QED  BY <1>2, <1>3, <1>4, <1>5, <1>6, <1>7, <1>8, <1>9 DEF Next, Step

\* The crawl's inductive invariant: the reported pages, the item in hand and
\* the frontier are one duplicate-free sequence in the order of distance.
THEOREM CrawlInductive == Spec => []IInv
  <1> QED  BY InitInv, StepInv, PTL DEF Spec

-----------------------------------------------------------------------------
(***************************************************************************)
(* What follows from it.                                                   *)
(***************************************************************************)

\* max_pages and max_depth hold at every moment and pages_skipped is right.
THEOREM CrawlBounded == Spec => []Bounded
  <1>1. IInv => Bounded
    <2> SUFFICES ASSUME IInv PROVE Bounded
      OBVIOUS
    <2>1. Len(pages) <= MaxPages /\ skipped = Cardinality(FailedPages)
      BY DEF IInv, Room
    <2>2. \A i \in DOMAIN pages : i \in DOMAIN Trail /\ Trail[i].depth = pages[i].depth
      BY TrailFacts DEF IInv
    <2> QED  BY <2>1, <2>2 DEF IInv, TrailInOrder, Bounded
  <1> QED  BY <1>1, CrawlInductive, PTL

\* No URL is fetched twice, and none outside the seed's host.
THEOREM CrawlFetchesOnce == Spec => []EachPageOnce
  <1>1. IInv => EachPageOnce
    <2> SUFFICES ASSUME IInv PROVE EachPageOnce
      OBVIOUS
    <2>1. \A i \in DOMAIN pages : i \in DOMAIN Trail /\ Trail[i].url = pages[i].url
      BY TrailFacts DEF IInv
    <2>2. \A i \in DOMAIN pages : pages[i].url \in OnSite
      BY <2>1 DEF IInv, TypeOK, TrailInOrder
    <2>3. \A i, j \in DOMAIN pages : pages[i].url = pages[j].url => i = j
      BY <2>1 DEF IInv, TrailInOrder
    <2> QED  BY <2>2, <2>3 DEF EachPageOnce
  <1> QED  BY <1>1, CrawlInductive, PTL

\* Pages come level by level.
THEOREM CrawlIsBreadthFirst == Spec => []LevelByLevel
  <1>1. IInv => LevelByLevel
    <2> SUFFICES ASSUME IInv PROVE LevelByLevel
      OBVIOUS
    <2>1. \A i \in DOMAIN pages : i \in DOMAIN Trail /\ Trail[i].depth = pages[i].depth
      BY TrailFacts DEF IInv
    <2> QED  BY <2>1 DEF IInv, TrailInOrder, LevelByLevel
  <1> QED  BY <1>1, CrawlInductive, PTL

\* The reported depth is the link distance from the seed.
THEOREM CrawlDepthIsDistance == Spec => []DepthIsDistance
  <1>1. IInv => DepthIsDistance
    <2> SUFFICES ASSUME IInv, NEW i \in DOMAIN pages
                 PROVE  /\ pages[i].depth = 0 <=> pages[i].url = Seed
                        /\ pages[i].depth > 0 =>
                              \E p \in 1..(i - 1) :
                                 /\ Expanded(p)
                                 /\ LinksTo(pages[p], pages[i].url)
                                 /\ pages[i].depth = pages[p].depth + 1
                        /\ \A p \in DOMAIN pages :
                              Expanded(p) /\ LinksTo(pages[p], pages[i].url)
                                 => pages[i].depth <= pages[p].depth + 1
      BY DEF DepthIsDistance
    <2>1. /\ Len(pages) \in Nat /\ DOMAIN pages = 1..Len(pages)
          /\ \A n \in DOMAIN pages : /\ n \in DOMAIN Trail
                                    /\ Trail[n].url = pages[n].url
                                    /\ Trail[n].depth = pages[n].depth
                                    /\ pages[n].depth \in Nat
          /\ 1 \in DOMAIN Trail
      BY TrailFacts DEF IInv, Page, TrailInOrder
    <2>2. Trail[1].url = Seed /\ Trail[1].depth = 0
      BY DEF IInv, TrailInOrder
    <2>3. i > 1 =>
             \E p \in DOMAIN pages : /\ p < i
                                     /\ Expanded(p)
                                     /\ LinksTo(pages[p], pages[i].url)
                                     /\ pages[i].depth = pages[p].depth + 1
      BY <2>1 DEF IInv, TrailHasParents
    <2>4. i > 1 => pages[i].depth > 0 /\ pages[i].url # Seed
      <3>1. i > 1 => pages[i].depth > 0
        BY <2>1, <2>3
      <3>2. i > 1 => pages[i].url # Seed
        BY <2>1, <2>2 DEF IInv, TrailInOrder
      <3> QED  BY <3>1, <3>2
    <2>5. i = 1 => pages[i].depth = 0 /\ pages[i].url = Seed
      BY <2>1, <2>2
    <2>6. i \in Nat /\ i >= 1
      BY <2>1
    <2>7. \A p \in DOMAIN pages : p < i => p \in 1..(i - 1)
      BY <2>1, <2>6
    <2>8. \A p \in DOMAIN pages :
             Expanded(p) /\ LinksTo(pages[p], pages[i].url)
                => pages[i].depth <= pages[p].depth + 1
      BY <2>1 DEF IInv, NoShortcut
    <2>9. pages[i].depth = 0 <=> pages[i].url = Seed
      BY <2>1, <2>4, <2>5, <2>6
    <2>10. pages[i].depth > 0 => i > 1
      BY <2>1, <2>5, <2>6
    <2> QED  BY <2>3, <2>7, <2>8, <2>9, <2>10
  <1> QED  BY <1>1, CrawlInductive, PTL

\* A crawl that was not cut short misses nothing.
THEOREM CrawlMissesNothing == Spec => []NothingMissed
  <1>1. IInv => NothingMissed
    <2> SUFFICES ASSUME IInv,
                        pc = "done", Len(pages) < MaxPages, ctx = "live", ~revoked,
                        NEW p \in DOMAIN pages, Expanded(p),
                        NEW url \in OnSite, LinksTo(pages[p], url)
                 PROVE  \E i \in DOMAIN pages : pages[i].url = url
      BY DEF NothingMissed
    <2>1. url \in seen
      <3>1. PICK i \in DOMAIN pages[p].links : Norm[pages[p].links[i]] = url
        BY DEF LinksTo
      <3> QED  BY <3>1 DEF IInv, LinksAccounted
    <2>2. PICK n \in DOMAIN Trail : Trail[n].url = url
      BY <2>1 DEF IInv, TrailInOrder
    <2>3. Len(pages) \in Nat /\ MaxPages \in Nat
      BY BoundsType DEF IInv, TypeOK
    <2>4. queue = <<>> /\ ~ret.err
      BY <2>3 DEF IInv, Room
    <2>5. TrailLen = Len(pages)
      BY <2>3, <2>4 DEF TrailLen, InHand
    <2>6. n \in DOMAIN pages /\ pages[n].url = url
      BY <2>2, <2>5, TrailFacts DEF IInv
    <2> QED  BY <2>6
  <1> QED  BY <1>1, CrawlInductive, PTL

\* What CrawlBFS returns is what the pipeline takes it to return.
THEOREM CrawlOutcomeAgrees == Spec => []OutcomeAgreed
  <1>1. IInv => OutcomeAgreed
    BY DEF IInv, Room, OutcomeAgreed, CrawlOutcomes, Succeeded, FailedPartial
  <1> QED  BY <1>1, CrawlInductive, PTL

\* A cancellation lets nothing but the fetch under way finish.
THEOREM CrawlStopsOnCancel == Spec => CancelStops
  <1>1. TypeOK /\ [Next]_vars =>
           (ctx = "cancelled" =>
              /\ Len(pages') > Len(pages) => pc = "fetch"
              /\ pc' \in {"wait", "fetch"} => pc' = pc)
    <2> SUFFICES ASSUME TypeOK, [Next]_vars, ctx = "cancelled"
                 PROVE  /\ Len(pages') > Len(pages) => pc = "fetch"
                        /\ pc' \in {"wait", "fetch"} => pc' = pc
      OBVIOUS
    <2>1. Len(pages) \in Nat
      BY DEF TypeOK
    <2>2. pc # "fetch" => pages' = pages
      BY DEF Next, Step, LeaveLoop, TakeNext, Wait, FetchFails, FetchWorks,
             FollowLink, NoLinksLeft, Cancel, Revoke, vars
    <2>3. pc' \in {"wait", "fetch"} => pc' = pc
      BY DEF Next, Step, LeaveLoop, TakeNext, Wait, FetchFails, FetchWorks, Finish,
             FollowLink, NoLinksLeft, Cancel, Revoke, vars
    <2> QED  BY <2>1, <2>2, <2>3
  <1>2. IInv => TypeOK
    BY DEF IInv
  <1> QED  BY <1>1, <1>2, CrawlInductive, PTL DEF Spec, CancelStops

-----------------------------------------------------------------------------
(***************************************************************************)
(* The variant.                                                            *)
(***************************************************************************)
LEMMA FirstThatDiffers ==
    ASSUME NEW a, NEW b, NEW c, NEW d, NEW e, NEW f,
           a < d \/ (a = d /\ b < e) \/ (a = d /\ b = e /\ c < f)
    PROVE  Below(<<a, b, c>>, <<d, e, f>>)
<1> DEFINE r == <<a, b, c>>
           s == <<d, e, f>>
<1>1. /\ r[1] = a /\ r[2] = b /\ r[3] = c /\ s[1] = d /\ s[2] = e /\ s[3] = f
      /\ DOMAIN s = {1, 2, 3}
  <2>1. 1..3 = {1, 2, 3}
    OBVIOUS
  <2> QED BY <2>1
<1>2. 1..(1 - 1) = {} /\ 1..(2 - 1) = {1} /\ 1..(3 - 1) = {1, 2}
  OBVIOUS
<1> HIDE DEF r, s
<1>3. CASE a < d
  <2>1. 1 \in DOMAIN s /\ r[1] < s[1] /\ \A k \in 1..(1 - 1) : r[k] = s[k]
    BY <1>1, <1>2, <1>3
  <2> QED BY <2>1 DEF Below, r, s
<1>4. CASE a = d /\ b < e
  <2>1. 2 \in DOMAIN s /\ r[2] < s[2] /\ \A k \in 1..(2 - 1) : r[k] = s[k]
    BY <1>1, <1>2, <1>4
  <2> QED BY <2>1 DEF Below, r, s
<1>5. CASE a = d /\ b = e /\ c < f
  <2>1. 3 \in DOMAIN s /\ r[3] < s[3] /\ \A k \in 1..(3 - 1) : r[k] = s[k]
    BY <1>1, <1>2, <1>5
  <2> QED BY <2>1 DEF Below, r, s
<1> QED BY <1>3, <1>4, <1>5

LEMMA RankType == IInv => Rank \in Nat \X Nat \X Nat
<1> SUFFICES ASSUME IInv PROVE Rank \in Nat \X Nat \X Nat
  OBVIOUS
<1>1. Len(pages) \in Nat /\ Len(links) \in Nat /\ Len(pages) <= MaxPages
  BY DEF IInv, TypeOK, Room
<1>2. MaxPages - Len(pages) \in Nat
  BY <1>1, BoundsType
<1>3. Stage \in Nat
  BY DEF IInv, TypeOK, Stage
<1> QED BY <1>1, <1>2, <1>3 DEF Rank

\* Every step of the call brings its end nearer, for every site and all
\* options; what happens around it does not put the end off.
THEOREM CrawlWindsDown == Spec => WindsDown
<1>1. ASSUME IInv, IInv', Step PROVE Below(Rank', Rank)
  <2>1. /\ Len(pages) \in Nat /\ Len(pages') \in Nat
        /\ Len(links) \in Nat /\ Len(links') \in Nat
    BY <1>1 DEF IInv, TypeOK
  <2>2. \/ MaxPages - Len(pages') < MaxPages - Len(pages)
        \/ /\ pages' = pages
           /\ \/ Stage' < Stage
              \/ Stage' = Stage /\ Len(links') < Len(links)
    <3>1. CASE LeaveLoop \/ TakeNext \/ Wait \/ NoLinksLeft
      BY <3>1 DEF LeaveLoop, TakeNext, Wait, NoLinksLeft, Finish, Stage
    <3>2. CASE FetchFails \/ FetchWorks
      <4>1. \E page \in Page : pages' = Append(pages, page)
        <5>1. PICK page : pages' = Append(pages, page)
          BY <3>2 DEF FetchFails, FetchWorks, Report
        <5>2. pages'[Len(pages) + 1] = page /\ pages' \in Seq(Page)
          BY <1>1, <5>1 DEF IInv, TypeOK
        <5>3. Len(pages') = Len(pages) + 1
          BY <1>1, <5>1 DEF IInv, TypeOK
        <5>4. page \in Page
          BY <2>1, <5>2, <5>3
        <5> QED BY <5>1, <5>4
      <4>2. Len(pages') = Len(pages) + 1
        BY <1>1, <4>1 DEF IInv, TypeOK
      <4> QED BY <2>1, <4>2, BoundsType
    <3>3. CASE FollowLink
      <4>1. /\ links \in Seq(Links) /\ links # <<>> /\ links' = Tail(links)
            /\ pages' = pages /\ pc' = pc
        BY <1>1, <3>3 DEF FollowLink, IInv, TypeOK
      <4>2. Len(links') < Len(links)
        BY <4>1
      <4>3. Stage' = Stage
        BY <4>1 DEF Stage
      <4> QED BY <4>1, <4>2, <4>3
    <3> QED BY <1>1, <3>1, <3>2, <3>3 DEF Step
  <2>3. pages' = pages => MaxPages - Len(pages') = MaxPages - Len(pages)
    OBVIOUS
  <2> QED BY <2>2, <2>3, FirstThatDiffers DEF Rank
<1>2. ASSUME [Next]_vars, ~Step PROVE Rank' = Rank
  BY <1>2 DEF Next, Cancel, Revoke, vars, Rank, Stage
<1>3. IInv /\ IInv' /\ [Next]_vars =>
         IF Step THEN Below(Rank', Rank) ELSE Rank' = Rank
  BY <1>1, <1>2
<1> QED BY <1>3, RankType, CrawlInductive, PTL DEF Spec, WindsDown
=============================================================================
