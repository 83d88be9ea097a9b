------------------------------ MODULE MapProofs ------------------------------
(***************************************************************************)
(* Proofs of the safety properties of MapBFS, for every site, every bound  *)
(* and every way pages may fail.                                           *)
(***************************************************************************)
EXTENDS MapProperties, SequenceTheorems, TLAPS

USE SiteAssumption, OptionsAssumption DEF SiteAssumption, OptionsAssumption

\* The defaults make the bounds natural numbers whatever the options say.
LEMMA BoundsType == MaxURLs \in Nat \ {0} /\ MaxDepth \in Nat
  BY DEF MaxURLs, MaxDepth

LEMMA AnchorsType ==
    ASSUME NEW list \in PageLists
    PROVE  AnchorsOf(list, {"links"}) \in Seq(Links)
  BY DEF AnchorsOf

LEMMA OutcomesType == {NilOutcome, Succeeded, FailedPartial} \subseteq Outcome
  BY DEF Outcome, NilOutcome, Succeeded, FailedPartial

\* What taking the first and adding a last element does to a sequence.
LEMMA HeadTail ==
    ASSUME NEW S, NEW s \in Seq(S), s # <<>>
    PROVE  /\ Head(s) \in S /\ Tail(s) \in Seq(S)
           /\ 1 \in DOMAIN s /\ s[1] = Head(s)
           /\ \A k \in DOMAIN Tail(s) : k + 1 \in DOMAIN s /\ Tail(s)[k] = s[k + 1]
           /\ \A k \in DOMAIN s : k # 1 =>
                 k - 1 \in DOMAIN Tail(s) /\ Tail(s)[k - 1] = s[k]
  OBVIOUS

LEMMA Appended ==
    ASSUME NEW S, NEW s \in Seq(S), NEW e \in S
    PROVE  /\ Append(s, e) \in Seq(S)
           /\ Len(s) \in Nat
           /\ DOMAIN s = 1..Len(s)
           /\ Len(Append(s, e)) = Len(s) + 1
           /\ DOMAIN Append(s, e) = 1..(Len(s) + 1)
           /\ Append(s, e)[Len(s) + 1] = e
           /\ \A k \in DOMAIN s : Append(s, e)[k] = s[k]
           /\ \A k \in DOMAIN Append(s, e) : k # Len(s) + 1 => k \in DOMAIN s
  BY ONLY AppendProperties, LenProperties

-----------------------------------------------------------------------------
(***************************************************************************)
(* Type correctness.                                                       *)
(***************************************************************************)
LEMMA InitType == Init => TypeOK
<1> SUFFICES ASSUME Init PROVE TypeOK
  OBVIOUS
<1>1. [url |-> Seed, depth |-> 0] \in Item
  BY DEF Item
<1>2. <<[url |-> Seed, depth |-> 0]>> \in Seq(Item) /\ <<Seed>> \in Seq(OnSite)
  BY <1>1
<1>3. <<>> \in Seq(Links) /\ <<>> \in Seq(Page)
  OBVIOUS
<1> QED BY <1>1, <1>2, <1>3, OutcomesType DEF Init, TypeOK

\* The page a fetch adds.
PageOf(ok, anchors) ==
    [url |-> item.url, depth |-> item.depth, ok |-> ok, links |-> anchors]

LEMMA PageType ==
    ASSUME TypeOK, NEW ok \in BOOLEAN, NEW anchors \in Seq(Links)
    PROVE  PageOf(ok, anchors) \in Page
  BY DEF TypeOK, Item, Page, PageOf

\* The frontier item a link becomes.
NewItem(url) == [url |-> url, depth |-> item.depth + 1]

LEMMA NewItemType ==
    ASSUME TypeOK, NEW url \in OnSite
    PROVE  NewItem(url) \in Item
  BY DEF TypeOK, Item, NewItem

\* Following a link does one of three things.
LEMMA FollowKinds ==
    ASSUME TypeOK, FollowLink
    PROVE  LET url == Norm[Head(links)] IN
           /\ pc = "follow" /\ links # <<>> /\ links' = Tail(links)
           /\ UNCHANGED <<item, fetched, ctx, revoked, ret>>
           /\ \/ /\ url \notin OnSite \/ url \in seen
                 /\ UNCHANGED <<pc, queue, seen, urls>>
              \/ /\ url \in OnSite /\ url \notin seen
                 /\ seen' = seen \cup {url} /\ urls' = Append(urls, url)
                 /\ \/ /\ Len(urls) + 1 >= MaxURLs
                       /\ pc' = "loop" /\ queue' = queue
                    \/ /\ ~(Len(urls) + 1 >= MaxURLs)
                       /\ pc' = pc /\ queue' = Append(queue, NewItem(url))
  BY DEF FollowLink, Followable, NewItem, world

\* Every step keeps the types.
LEMMA StepType == TypeOK /\ [Next]_vars => TypeOK'
<1> SUFFICES ASSUME TypeOK, [Next]_vars PROVE TypeOK'
  OBVIOUS
<1>1. CASE LeaveLoop
  BY <1>1, OutcomesType DEF LeaveLoop, Finish, TypeOK, world
<1>2. CASE TakeNext
  BY <1>2, HeadTail DEF TakeNext, TypeOK, world
<1>3. CASE Wait
  BY <1>3, OutcomesType DEF Wait, Finish, TypeOK, world
<1>4. CASE FetchFails
  <2>1. <<>> \in Seq(Links) /\ FALSE \in BOOLEAN
    OBVIOUS
  <2>2. fetched' = Append(fetched, PageOf(FALSE, <<>>))
    BY <1>4 DEF FetchFails, Fetched, PageOf
  <2>3. fetched' \in Seq(Page)
    BY <2>1, <2>2, PageType, Appended DEF TypeOK
  <2> QED BY <1>4, <2>3 DEF FetchFails, TypeOK, world
<1>5. CASE FetchWorks
  <2>1. PICK list \in PageLists :
           /\ fetched' = Append(fetched, PageOf(TRUE, AnchorsOf(list, {"links"})))
           /\ links' = AnchorsOf(list, {"links"})
    BY <1>5 DEF FetchWorks, Fetched, PageOf
  <2>2. links' \in Seq(Links) /\ TRUE \in BOOLEAN
    BY <2>1, AnchorsType
  <2>3. fetched' \in Seq(Page)
    BY <2>1, <2>2, PageType, Appended DEF TypeOK
  <2> QED BY <1>5, <2>2, <2>3 DEF FetchWorks, TypeOK, world
<1>6. CASE FollowLink
  <2> DEFINE url == Norm[Head(links)]
  <2>0. links \in Seq(Links) /\ links # <<>> /\ links' = Tail(links)
    BY <1>6, FollowKinds DEF TypeOK
  <2>1. links' \in Seq(Links)
    BY <2>0, HeadTail
  <2>2. url \in OnSite => Append(urls, url) \in Seq(OnSite)
                          /\ Append(queue, NewItem(url)) \in Seq(Item)
                          /\ seen \cup {url} \subseteq OnSite
    BY NewItemType, Appended DEF TypeOK
  <2> HIDE DEF url
  <2>3. urls' \in Seq(OnSite) /\ queue' \in Seq(Item) /\ seen' \subseteq OnSite
    BY <1>6, <2>2, FollowKinds DEF TypeOK, url
  <2>4. pc' \in {"follow", "loop"}
    BY <1>6, FollowKinds
  <2> QED BY <1>6, <2>1, <2>3, <2>4 DEF FollowLink, TypeOK, world
<1>7. CASE NoLinksLeft
  BY <1>7 DEF NoLinksLeft, TypeOK, world
<1>8. CASE Cancel
  BY <1>8 DEF Cancel, TypeOK
<1>9. CASE Revoke
  BY <1>9 DEF Revoke, TypeOK
<1>10. CASE UNCHANGED vars
  BY <1>10 DEF vars, TypeOK
<1> QED BY <1>1, <1>2, <1>3, <1>4, <1>5, <1>6, <1>7, <1>8, <1>9, <1>10
        DEF Next, Step

-----------------------------------------------------------------------------
(***************************************************************************)
(* The parts of the inductive invariant, one kind of step after the other. *)
(***************************************************************************)
Parts == /\ UrlsBoundedAndDistinct
         /\ UrlsAreSeen
         /\ LevelsInOrder
         /\ AllFound
         /\ LinksAccounted
         /\ NoneForgotten

\* What is known of the sequences of a state.
LEMMA Shapes ==
    ASSUME TypeOK
    PROVE  /\ Len(fetched) \in Nat /\ DOMAIN fetched = 1..Len(fetched)
           /\ Len(urls) \in Nat /\ DOMAIN urls = 1..Len(urls)
           /\ Len(queue) \in Nat /\ DOMAIN queue = 1..Len(queue)
           /\ \A i \in DOMAIN fetched : fetched[i].depth \in Nat
           /\ \A k \in DOMAIN queue : queue[k] \in Item /\ queue[k].depth \in Nat
           /\ item.depth \in Nat
<1>1. \A i \in DOMAIN fetched : fetched[i] \in Page
  BY DEF TypeOK
<1>2. \A k \in DOMAIN queue : queue[k] \in Item
  BY DEF TypeOK
<1> QED BY <1>1, <1>2 DEF TypeOK, Item, Page

\* Steps that touch neither the frontier nor the result nor the pages.
LEMMA QuietStep ==
    ASSUME TypeOK, Parts, UNCHANGED <<queue, seen, urls, item, links, fetched>>,
           pc' = "follow" => pc = "follow",
           pc = "follow" => pc' = "follow" \/ links = <<>>,
           (pc \in {"wait", "fetch"} \/ ret.err) =>
               (pc' \in {"wait", "fetch"} \/ ret'.err)
    PROVE  Parts'
<1>1. UrlsBoundedAndDistinct' /\ UrlsAreSeen' /\ LevelsInOrder'
  BY DEF Parts, UrlsBoundedAndDistinct, UrlsAreSeen, LevelsInOrder
<1>2. AllFound'
  BY DEF Parts, AllFound, FoundBy, FirstLink
<1>3. LinksAccounted'
  BY DEF Parts, LinksAccounted
<1>4. NoneForgotten'
  BY DEF Parts, NoneForgotten, Dropped, FirstLink
<1> QED BY <1>1, <1>2, <1>3, <1>4 DEF Parts

\* The next item is taken up, or dropped on the last level.
LEMMA TakeNextStep ==
    ASSUME TypeOK, Room, Parts, TakeNext
    PROVE  Parts'
<1>1. /\ pc = "loop" /\ queue # <<>> /\ queue \in Seq(Item)
      /\ item' = Head(queue) /\ queue' = Tail(queue)
      /\ UNCHANGED <<seen, urls, links, fetched, ret>> /\ ret = NilOutcome
      /\ pc' = IF item'.depth >= MaxDepth THEN "loop" ELSE "wait"
  BY DEF TakeNext, TypeOK, Room
<1>2. /\ 1 \in DOMAIN queue /\ queue[1] = item'
      /\ \A k \in DOMAIN queue' : k + 1 \in DOMAIN queue /\ queue'[k] = queue[k + 1]
      /\ \A k \in DOMAIN queue : k # 1 =>
            k - 1 \in DOMAIN queue' /\ queue'[k - 1] = queue[k]
  BY <1>1, HeadTail
<1>3. UrlsBoundedAndDistinct' /\ UrlsAreSeen'
  BY <1>1 DEF Parts, UrlsBoundedAndDistinct, UrlsAreSeen
<1>4. LevelsInOrder'
  <2>1. item'.depth \in {item.depth, item.depth + 1} /\ item.depth \in Nat
    BY <1>2, Shapes DEF Parts, LevelsInOrder
  <2>2. \A i \in DOMAIN fetched' : fetched'[i].depth <= item'.depth
    BY <1>1, <2>1, Shapes DEF Parts, LevelsInOrder
  <2>3. ASSUME NEW k \in DOMAIN queue'
        PROVE  queue'[k].depth \in {item'.depth, item'.depth + 1}
    <3>1. k + 1 \in DOMAIN queue /\ queue'[k] = queue[k + 1] /\ 1 <= k + 1
      BY <1>2, Shapes
    <3>2. queue[k + 1].depth >= item'.depth
      BY <1>2, <3>1, Shapes DEF Parts, LevelsInOrder
    <3>3. queue[k + 1].depth \in {item.depth, item.depth + 1}
      BY <3>1 DEF Parts, LevelsInOrder
    <3> QED BY <2>1, <3>1, <3>2, <3>3
  <2>4. ASSUME NEW k \in DOMAIN queue', NEW l \in DOMAIN queue', k <= l
        PROVE  queue'[k].depth <= queue'[l].depth
    <3>1. Tail(queue) \in Seq(Item)
      BY <1>1, HeadTail
    <3>2. k \in Nat /\ l \in Nat
      BY <1>1, <3>1
    <3>3. k + 1 <= l + 1
      BY ONLY <2>4, <3>2
    <3> QED BY <1>2, <3>3 DEF Parts, LevelsInOrder
  <2> QED BY <1>1, <2>2, <2>3, <2>4 DEF Parts, LevelsInOrder
<1>5. AllFound'
  BY <1>1, <1>2 DEF Parts, AllFound, FoundBy, FirstLink
<1>6. LinksAccounted'
  BY <1>1 DEF Parts, LinksAccounted
<1>7. NoneForgotten'
  <2> SUFFICES ASSUME Len(urls) < MaxURLs, NEW url \in seen
               PROVE  \/ \E q \in DOMAIN fetched' : fetched'[q].url = url
                      \/ pc' \in {"wait", "fetch"} /\ item'.url = url
                      \/ \E k \in DOMAIN queue' : queue'[k].url = url
                      \/ Dropped(url)
    BY <1>1 DEF NoneForgotten, Dropped, FirstLink
  <2>1. CASE \E k \in DOMAIN queue : queue[k].url = url
    <3>1. PICK k \in DOMAIN queue : queue[k].url = url
      BY <2>1
    <3>2. CASE k # 1
      BY <1>2, <3>1, <3>2
    <3>3. CASE k = 1 /\ item'.depth < MaxDepth
      BY <1>1, <1>2, <3>1, <3>3, Shapes, BoundsType
    <3>4. CASE k = 1 /\ item'.depth >= MaxDepth
      <4>1. FoundBy(queue[1], Len(fetched)) /\ queue[1].url = url
            /\ queue[1].depth >= MaxDepth
        BY <1>2, <3>1, <3>4 DEF Parts, AllFound
      <4>2. url = Seed => MaxDepth = 0
        BY <4>1, BoundsType DEF FoundBy
      <4>3. url # Seed => \E p \in DOMAIN fetched :
                             FirstLink(p, url) /\ fetched[p].depth + 1 >= MaxDepth
        BY <4>1, Shapes DEF FoundBy
      <4> QED BY <4>2, <4>3 DEF Dropped
    <3> QED BY <1>2, <3>2, <3>3, <3>4, Shapes, BoundsType
  <2> QED BY <1>1, <2>1 DEF Parts, NoneForgotten, NilOutcome
<1> QED BY <1>3, <1>4, <1>5, <1>6, <1>7 DEF Parts

\* A fetch, whatever it brings.
LEMMA FetchStep ==
    ASSUME TypeOK, Parts, NEW ok \in BOOLEAN, NEW anchors \in Seq(Links),
           pc = "fetch", fetched' = Append(fetched, PageOf(ok, anchors)),
           UNCHANGED <<queue, seen, urls, item>>,
           \/ pc' = "loop" /\ anchors = <<>>
           \/ pc' = "follow" /\ links' = anchors
    PROVE  Parts'
<1> DEFINE last == Len(fetched) + 1
           page == PageOf(ok, anchors)
<1>1. /\ page.url = item.url /\ page.depth = item.depth
      /\ page.links = anchors /\ page \in Page
  BY PageType DEF PageOf
<1> HIDE DEF page
<1>2. /\ Len(fetched) \in Nat /\ DOMAIN fetched = 1..Len(fetched)
      /\ Len(fetched') = last /\ DOMAIN fetched' = 1..last
      /\ fetched'[last] = page
      /\ \A p \in DOMAIN fetched : fetched'[p] = fetched[p]
      /\ \A p \in DOMAIN fetched' : p # last => p \in DOMAIN fetched
  BY <1>1, Appended DEF TypeOK, page
<1>3. UrlsBoundedAndDistinct' /\ UrlsAreSeen'
  BY DEF Parts, UrlsBoundedAndDistinct, UrlsAreSeen
<1>4. LevelsInOrder'
  <2>1. \A i \in DOMAIN fetched' : fetched'[i].depth <= item'.depth
    BY <1>1, <1>2, Shapes DEF Parts, LevelsInOrder
  <2>2. ASSUME NEW i \in DOMAIN fetched', NEW j \in DOMAIN fetched', i <= j
        PROVE  fetched'[i].depth <= fetched'[j].depth
    <3>1. CASE j = last
      BY <1>1, <1>2, <2>1, <3>1
    <3>2. CASE j # last
      <4>1. i \in DOMAIN fetched /\ j \in DOMAIN fetched
        BY <1>2, <2>2, <3>2
      <4> QED BY <1>2, <2>2, <4>1 DEF Parts, LevelsInOrder
    <3> QED BY <3>1, <3>2
  <2> QED BY <2>1, <2>2 DEF Parts, LevelsInOrder
<1>5. AllFound'
  <2>4. ASSUME NEW i \in DOMAIN fetched' PROVE FoundBy(fetched[i], i - 1)'
    <3>1. CASE i = last
      <4>1. FoundBy(item, Len(fetched)) /\ i - 1 = Len(fetched)
        BY <1>2, <3>1 DEF Parts, AllFound
      <4> QED BY <1>1, <1>2, <3>1, <4>1 DEF FoundBy, FirstLink
    <3>2. CASE i # last
      <4>1. i \in DOMAIN fetched /\ FoundBy(fetched[i], i - 1)
        BY <1>2, <3>2 DEF Parts, AllFound
      <4>2. \A p \in 1..(i - 1) : p \in DOMAIN fetched
        BY <1>2, <4>1
      <4>3. \A p \in 1..(i - 1) : \A q \in 1..(p - 1) : q \in DOMAIN fetched
        BY <1>2, <4>1
      <4> QED BY <1>2, <4>1, <4>2, <4>3 DEF FoundBy, FirstLink
    <3> QED BY <3>1, <3>2
  <2>5. FoundBy(item, Len(fetched))'
    <3>1. FoundBy(item, Len(fetched)) /\ item' = item
      BY DEF Parts, AllFound
    <3> QED BY <1>2, <3>1 DEF FoundBy, FirstLink
  <2>6. ASSUME NEW k \in DOMAIN queue PROVE FoundBy(queue[k], Len(fetched))'
    <3>1. FoundBy(queue[k], Len(fetched)) /\ queue' = queue
      BY DEF Parts, AllFound
    <3> QED BY <1>2, <3>1 DEF FoundBy, FirstLink
  <2> QED BY <2>4, <2>5, <2>6 DEF AllFound
<1>6. LinksAccounted'
  <2>1. pc' = "follow" => links' = fetched'[last].links /\ item' = item
    BY <1>1, <1>2
  <2>2. ASSUME Len(urls) < MaxURLs, NEW p \in DOMAIN fetched',
               NEW i \in DOMAIN fetched'[p].links
        PROVE  \/ Norm[fetched'[p].links[i]] \notin OnSite
               \/ Norm[fetched'[p].links[i]] \in seen
               \/ /\ pc' = "follow"
                  /\ p = last
                  /\ \E k \in DOMAIN links' : links'[k] = fetched'[p].links[i]
    <3>1. CASE p = last
      <4>1. anchors # <<>>
        BY <1>1, <1>2, <2>2, <3>1
      <4>2. pc' = "follow"
        BY <4>1
      <4> QED BY <2>1, <2>2, <3>1, <4>2
    <3>2. CASE p # last
      <4>1. p \in DOMAIN fetched /\ fetched'[p] = fetched[p]
        BY <1>2, <3>2
      <4> QED BY <2>2, <4>1 DEF Parts, LinksAccounted
    <3> QED BY <3>1, <3>2
  <2>3. pc' = "follow" =>
           /\ Len(fetched') > 0
           /\ item'.url = fetched'[Len(fetched')].url
           /\ item'.depth = fetched'[Len(fetched')].depth
           /\ \A k \in DOMAIN links' :
                 \E i \in DOMAIN fetched'[Len(fetched')].links :
                    links'[k] = fetched'[Len(fetched')].links[i]
    BY <1>1, <1>2, <2>1
  <2> HIDE DEF last
  <2> QED BY <1>2, <2>2, <2>3 DEF LinksAccounted
<1>7. NoneForgotten'
  <2>1. \A url : Dropped(url) => Dropped(url)'
    BY <1>2 DEF Dropped, FirstLink
  <2> SUFFICES ASSUME Len(urls) < MaxURLs, NEW url \in seen
               PROVE  \/ \E q \in DOMAIN fetched' : fetched'[q].url = url
                      \/ \E k \in DOMAIN queue' : queue'[k].url = url
                      \/ Dropped(url)'
    BY DEF NoneForgotten
  <2>2. CASE item.url = url
    BY <1>1, <1>2, <2>2
  <2>3. CASE \E q \in DOMAIN fetched : fetched[q].url = url
    BY <1>2, <2>3
  <2> QED BY <2>1, <2>2, <2>3 DEF Parts, NoneForgotten
<1> QED BY <1>3, <1>4, <1>5, <1>6, <1>7 DEF Parts

\* One link of the page in hand.
LEMMA FollowStep ==
    ASSUME TypeOK, Room, Parts, FollowLink
    PROVE  Parts'
<1> DEFINE url == Norm[Head(links)]
           last == Len(fetched)
<1>1. /\ pc = "follow" /\ links # <<>> /\ links' = Tail(links)
      /\ links \in Seq(Links)
      /\ UNCHANGED <<item, fetched, ret>>
  BY FollowKinds DEF TypeOK
<1>2. /\ last > 0 /\ Len(urls) < MaxURLs
      /\ item.url = fetched[last].url
      /\ item.depth = fetched[last].depth
      /\ \A k \in DOMAIN links : \E i \in DOMAIN fetched[last].links :
            links[k] = fetched[last].links[i]
  BY <1>1 DEF Parts, LinksAccounted, Room
<1>3. /\ 1 \in DOMAIN links
      /\ links[1] = Head(links)
      /\ \A k \in DOMAIN links' : k + 1 \in DOMAIN links /\ links'[k] = links[k + 1]
      /\ \A k \in DOMAIN links : k # 1 =>
            k - 1 \in DOMAIN links' /\ links'[k - 1] = links[k]
  BY <1>1, HeadTail
<1>4. \/ seen' = seen /\ (url \in OnSite => url \in seen)
      \/ seen' = seen \cup {url}
  BY FollowKinds
<1>5. ASSUME pc' = "follow" PROVE LinksAccounted'
  <2>1. ASSUME NEW k \in DOMAIN links'
        PROVE  \E i \in DOMAIN fetched[last].links : links'[k] = fetched[last].links[i]
    BY <1>2, <1>3
  <2>2. ASSUME NEW p \in DOMAIN fetched, NEW i \in DOMAIN fetched[p].links
        PROVE  \/ Norm[fetched[p].links[i]] \notin OnSite
               \/ Norm[fetched[p].links[i]] \in seen'
               \/ /\ p = last
                  /\ \E k \in DOMAIN links' : links'[k] = fetched[p].links[i]
    <3>1. \/ Norm[fetched[p].links[i]] \notin OnSite
          \/ Norm[fetched[p].links[i]] \in seen
          \/ /\ p = last
             /\ \E k \in DOMAIN links : links[k] = fetched[p].links[i]
      BY <1>2 DEF Parts, LinksAccounted
    <3>2. CASE p = last /\ \E k \in DOMAIN links : links[k] = fetched[p].links[i]
      <4>1. PICK k \in DOMAIN links : links[k] = fetched[p].links[i]
        BY <3>2
      <4>2. CASE k = 1
        BY <1>3, <1>4, <4>1, <4>2
      <4>3. CASE k # 1
        BY <1>3, <3>2, <4>1, <4>3
      <4> QED BY <4>2, <4>3
    <3> QED BY <1>4, <3>1, <3>2
  <2> QED BY <1>1, <1>2, <1>5, <2>1, <2>2 DEF LinksAccounted
<1>6. CASE /\ url \notin OnSite \/ url \in seen
           /\ UNCHANGED <<pc, queue, seen, urls>>
  <2>1. UrlsBoundedAndDistinct' /\ UrlsAreSeen' /\ LevelsInOrder'
    BY <1>1, <1>6 DEF Parts, UrlsBoundedAndDistinct, UrlsAreSeen, LevelsInOrder
  <2>2. AllFound' /\ NoneForgotten'
    BY <1>1, <1>6 DEF Parts, AllFound, FoundBy, FirstLink, NoneForgotten, Dropped
  <2> QED BY <1>1, <1>5, <1>6, <2>1, <2>2 DEF Parts
<1>7. CASE /\ url \in OnSite /\ url \notin seen
           /\ seen' = seen \cup {url} /\ urls' = Append(urls, url)
           /\ \/ /\ Len(urls) + 1 >= MaxURLs
                 /\ pc' = "loop" /\ queue' = queue
              \/ /\ ~(Len(urls) + 1 >= MaxURLs)
                 /\ pc' = pc /\ queue' = Append(queue, NewItem(url))
  <2>1. /\ Len(urls) \in Nat /\ DOMAIN urls = 1..Len(urls)
        /\ Len(urls') = Len(urls) + 1 /\ DOMAIN urls' = 1..(Len(urls) + 1)
        /\ urls'[Len(urls) + 1] = url
        /\ \A k \in DOMAIN urls : urls'[k] = urls[k]
        /\ \A k \in DOMAIN urls' : k # Len(urls) + 1 => k \in DOMAIN urls
    BY <1>7, Appended DEF TypeOK
  <2>2. \A k \in DOMAIN urls : urls[k] # url
    BY <1>7 DEF Parts, UrlsAreSeen
  <2>3. UrlsBoundedAndDistinct'
    <3>1. Len(urls') <= MaxURLs
      BY <1>2, <2>1, BoundsType
    <3>2. \A i, j \in DOMAIN urls' : urls'[i] = urls'[j] => i = j
      BY <2>1, <2>2 DEF Parts, UrlsBoundedAndDistinct
    <3> QED BY <3>1, <3>2 DEF UrlsBoundedAndDistinct
  <2>4. UrlsAreSeen'
    <3>1. seen = {urls[i] : i \in DOMAIN urls} /\ Seed \in seen
      BY DEF Parts, UrlsAreSeen
    <3>2. \A x \in seen' : \E i \in DOMAIN urls' : urls'[i] = x
      <4>1. Len(urls) + 1 \in DOMAIN urls' /\ DOMAIN urls \subseteq DOMAIN urls'
        BY <2>1
      <4> QED BY <1>7, <2>1, <3>1, <4>1
    <3>3. \A i \in DOMAIN urls' : urls'[i] \in seen'
      BY <1>7, <2>1, <3>1
    <3>4. seen' = {urls'[i] : i \in DOMAIN urls'}
      BY <3>2, <3>3
    <3>5. Seed \in seen'
      BY <1>7, <3>1
    <3> QED BY <3>4, <3>5 DEF UrlsAreSeen
  <2>5. CASE Len(urls) + 1 >= MaxURLs /\ pc' = "loop" /\ queue' = queue
    <3>1. LevelsInOrder' /\ AllFound'
      BY <1>1, <2>5 DEF Parts, LevelsInOrder, AllFound, FoundBy, FirstLink
    <3>2. ~(Len(urls') < MaxURLs)
      BY <2>1, <2>5, BoundsType
    <3>3. LinksAccounted' /\ NoneForgotten'
      BY <2>5, <3>2 DEF LinksAccounted, NoneForgotten
    <3> QED BY <2>3, <2>4, <3>1, <3>3 DEF Parts
  <2>6. CASE pc' = pc /\ queue' = Append(queue, NewItem(url))
    <3> DEFINE end == Len(queue) + 1
               new == NewItem(url)
    <3>1. new.url = url /\ new.depth = item.depth + 1 /\ new \in Item
      BY <1>7, NewItemType DEF NewItem
    <3> HIDE DEF new
    <3>2. /\ Len(queue) \in Nat /\ DOMAIN queue = 1..Len(queue)
          /\ DOMAIN queue' = 1..end /\ queue'[end] = new
          /\ \A k \in DOMAIN queue : queue'[k] = queue[k]
          /\ \A k \in DOMAIN queue' : k # end => k \in DOMAIN queue
      BY <2>6, <3>1, Appended DEF TypeOK, new
    <3>3. end \in DOMAIN queue' /\ DOMAIN queue \subseteq DOMAIN queue'
      BY <3>2
    <3>4. LevelsInOrder'
      <4>1. \A k \in DOMAIN queue' : queue'[k].depth \in {item'.depth, item'.depth + 1}
        BY <1>1, <3>1, <3>2 DEF Parts, LevelsInOrder
      <4>2. ASSUME NEW k \in DOMAIN queue', NEW l \in DOMAIN queue', k <= l
            PROVE  queue'[k].depth <= queue'[l].depth
        <5>1. CASE l = end
          <6>1. item.depth \in Nat
            BY Shapes
          <6>2. queue'[k].depth \in {item.depth, item.depth + 1}
            BY <1>1, <4>1
          <6>3. queue'[l].depth = item.depth + 1
            BY <3>1, <3>2, <5>1
          <6> QED BY ONLY <6>1, <6>2, <6>3
        <5>2. CASE l # end
          <6>1. k \in DOMAIN queue /\ l \in DOMAIN queue
            BY <3>2, <4>2, <5>2
          <6> QED BY <3>2, <4>2, <6>1 DEF Parts, LevelsInOrder
        <5> QED BY <5>1, <5>2
      <4>3. /\ \A i, j \in DOMAIN fetched' : i <= j => fetched'[i].depth <= fetched'[j].depth
            /\ \A i \in DOMAIN fetched' : fetched'[i].depth <= item'.depth
        BY <1>1 DEF Parts, LevelsInOrder
      <4> QED BY <4>1, <4>2, <4>3 DEF LevelsInOrder
    <3>5. FirstLink(last, url) /\ last \in 1..Len(fetched)
      <4>1. last \in 1..Len(fetched) /\ Len(fetched) \in Nat
        BY <1>2, Shapes
      <4>2. LinksTo(fetched[last], url)
        BY <1>2, <1>3 DEF LinksTo
      <4>3. ASSUME NEW q \in 1..(last - 1), LinksTo(fetched[q], url) PROVE FALSE
        <5>0. DOMAIN fetched = 1..Len(fetched)
          BY Shapes
        <5>1. q \in DOMAIN fetched /\ q # last
          <6>1. q \in 1..Len(fetched) /\ q # last
            BY ONLY <4>1, <4>3
          <6> QED BY <5>0, <6>1
        <5>2. PICK i \in DOMAIN fetched[q].links : Norm[fetched[q].links[i]] = url
          BY <4>3 DEF LinksTo
        <5> HIDE DEF url
        <5> QED BY <1>2, <1>7, <5>1, <5>2 DEF Parts, LinksAccounted
      <4> QED BY <4>1, <4>2, <4>3 DEF FirstLink
    <3>6. FoundBy(new, Len(fetched))
      <4>1. new.url # Seed
        BY <1>7, <3>1 DEF Parts, UrlsAreSeen
      <4> QED BY <1>2, <3>1, <3>5, <4>1 DEF FoundBy
    <3>7. AllFound'
      <4>1. /\ \A i \in DOMAIN fetched' : FoundBy(fetched[i], i - 1)'
            /\ FoundBy(item, Len(fetched))'
        BY <1>1 DEF Parts, AllFound, FoundBy, FirstLink
      <4>2. ASSUME NEW k \in DOMAIN queue' PROVE FoundBy(queue[k], Len(fetched))'
        <5>1. CASE k = end
          BY <1>1, <3>2, <3>6, <5>1 DEF FoundBy, FirstLink
        <5>2. CASE k # end
          <6>1. k \in DOMAIN queue /\ FoundBy(queue[k], Len(fetched))
            BY <3>2, <5>2 DEF Parts, AllFound
          <6> QED BY <1>1, <3>2, <6>1 DEF FoundBy, FirstLink
        <5> QED BY <5>1, <5>2
      <4> QED BY <4>1, <4>2 DEF AllFound
    <3>8. NoneForgotten'
      <4>1. \A u : Dropped(u) => Dropped(u)'
        BY <1>1 DEF Dropped, FirstLink
      <4> SUFFICES ASSUME NEW u \in seen'
                   PROVE  \/ \E q \in DOMAIN fetched' : fetched'[q].url = u
                          \/ (pc' \in {"wait", "fetch"} \/ ret'.err) /\ item'.url = u
                          \/ \E k \in DOMAIN queue' : queue'[k].url = u
                          \/ Dropped(u)'
        BY DEF NoneForgotten
      <4>2. CASE u = url
        BY <3>1, <3>2, <3>3, <4>2
      <4>3. CASE u # url
        <5>1. u \in seen
          BY <1>7, <4>3
        <5>2. \A k \in DOMAIN queue : k \in DOMAIN queue' /\ queue'[k] = queue[k]
          BY <3>2, <3>3
        <5> QED BY <1>1, <1>2, <2>6, <4>1, <5>1, <5>2 DEF Parts, NoneForgotten
      <4> QED BY <4>2, <4>3
    <3> QED BY <1>1, <1>5, <2>3, <2>4, <2>6, <3>4, <3>7, <3>8 DEF Parts
  <2> QED BY <1>7, <2>5, <2>6
<1> QED BY <1>6, <1>7, FollowKinds

-----------------------------------------------------------------------------
(***************************************************************************)
(* The inductive invariant.                                                *)
(***************************************************************************)
LEMMA InitInv == Init => IInv
<1> SUFFICES ASSUME Init PROVE IInv
  OBVIOUS
<1> DEFINE seed == [url |-> Seed, depth |-> 0]
<1>1. /\ pc = "loop" /\ queue = <<seed>> /\ seen = {Seed} /\ urls = <<Seed>>
      /\ item = seed /\ links = <<>> /\ fetched = <<>> /\ ret = NilOutcome
  BY DEF Init
<1>2. /\ DOMAIN fetched = {} /\ Len(fetched) = 0
      /\ Len(urls) = 1 /\ DOMAIN urls = {1} /\ urls[1] = Seed
      /\ DOMAIN queue = {1} /\ queue[1] = seed
      /\ seed.url = Seed /\ seed.depth = 0
  BY <1>1
<1> HIDE DEF seed
<1>3. TypeOK /\ Room
  BY <1>1, InitType DEF Room
<1>4. UrlsBoundedAndDistinct /\ UrlsAreSeen
  <2>1. UrlsBoundedAndDistinct
    BY <1>2, BoundsType DEF UrlsBoundedAndDistinct
  <2>2. UrlsAreSeen
    BY <1>1, <1>2 DEF UrlsAreSeen
  <2> QED BY <2>1, <2>2
<1>5. LevelsInOrder
  BY <1>1, <1>2 DEF LevelsInOrder
<1>6. AllFound
  BY <1>1, <1>2 DEF AllFound, FoundBy
<1>7. LinksAccounted /\ NoneForgotten
  BY <1>1, <1>2 DEF LinksAccounted, NoneForgotten
<1> QED BY <1>3, <1>4, <1>5, <1>6, <1>7 DEF IInv

LEMMA StepInv == IInv /\ [Next]_vars => IInv'
<1> SUFFICES ASSUME IInv, [Next]_vars PROVE IInv'
  OBVIOUS
<1>1. TypeOK /\ TypeOK' /\ Room /\ Parts
  BY StepType DEF IInv, Parts
<1>2. SUFFICES Room' /\ Parts'
  BY <1>1 DEF IInv, Parts
<1>3. CASE LeaveLoop
  <2>1. /\ UNCHANGED <<queue, seen, urls, item, links, fetched, ctx, revoked>>
        /\ pc = "loop" /\ pc' = "done" /\ ret' = Succeeded
        /\ queue = <<>> \/ Len(urls) >= MaxURLs \/ ctx = "cancelled" \/ revoked
    BY <1>3 DEF LeaveLoop, Finish, world
  <2>2. ret = NilOutcome /\ ~ret.err /\ ~ret'.err
    BY <1>1, <2>1 DEF Room, NilOutcome, Succeeded
  <2> QED BY <1>1, <2>1, <2>2, QuietStep DEF Room
<1>4. CASE TakeNext
  <2>1. /\ UNCHANGED <<urls, ret, ctx, revoked>> /\ pc = "loop"
        /\ pc' \in {"loop", "wait"} /\ Len(urls) < MaxURLs
    BY <1>4 DEF TakeNext, world
  <2>2. Room'
    BY <1>1, <2>1 DEF Room
  <2> QED BY <1>1, <1>4, <2>2, TakeNextStep
<1>5. CASE Wait
  <2>1. /\ UNCHANGED <<queue, seen, urls, item, links, fetched, ctx, revoked>>
        /\ pc = "wait"
        /\ \/ pc' = "fetch" /\ ret' = ret
           \/ pc' = "done" /\ ret' = FailedPartial /\ ctx = "cancelled"
    BY <1>5 DEF Wait, Finish, world
  <2>2. Room'
    BY <1>1, <2>1 DEF Room, FailedPartial, NilOutcome
  <2>3. Parts'
    BY <1>1, <2>1, QuietStep DEF FailedPartial
  <2> QED BY <2>2, <2>3
<1>6. CASE FetchFails
  <2>1. /\ UNCHANGED <<queue, seen, urls, item, ctx, revoked, ret>>
        /\ pc = "fetch" /\ pc' = "loop"
        /\ fetched' = Append(fetched, PageOf(FALSE, <<>>))
    BY <1>6 DEF FetchFails, Fetched, PageOf, world
  <2>2. <<>> \in Seq(Links) /\ FALSE \in BOOLEAN
    OBVIOUS
  <2>3. Parts'
    BY <1>1, <2>1, <2>2, FetchStep
  <2> QED BY <1>1, <2>1, <2>3 DEF Room
<1>7. CASE FetchWorks
  <2>1. PICK list \in PageLists :
           /\ UNCHANGED <<queue, seen, urls, item, ctx, revoked, ret>>
           /\ pc = "fetch" /\ pc' = "follow"
           /\ fetched' = Append(fetched, PageOf(TRUE, AnchorsOf(list, {"links"})))
           /\ links' = AnchorsOf(list, {"links"})
    BY <1>7 DEF FetchWorks, Fetched, PageOf, world
  <2>2. AnchorsOf(list, {"links"}) \in Seq(Links) /\ TRUE \in BOOLEAN
    BY AnchorsType
  <2>3. Parts'
    BY <1>1, <2>1, <2>2, FetchStep
  <2> QED BY <1>1, <2>1, <2>3 DEF Room
<1>8. CASE FollowLink
  <2>1. Len(urls') = Len(urls) + 1 \/ urls' = urls
    <3>1. \A u \in OnSite : Len(Append(urls, u)) = Len(urls) + 1
      BY <1>1, Appended DEF TypeOK
    <3> QED BY <1>1, <1>8, <3>1, FollowKinds
  <2>2. /\ pc = "follow" /\ UNCHANGED <<ctx, revoked, ret>>
        /\ \/ UNCHANGED <<pc, urls>>
           \/ pc' = "loop"
           \/ pc' = pc /\ ~(Len(urls) + 1 >= MaxURLs)
    BY <1>1, <1>8, FollowKinds
  <2>3. Room'
    <3>1. Len(urls) \in Nat /\ MaxURLs \in Nat
      BY <1>1, BoundsType DEF TypeOK
    <3> QED BY <1>1, <2>1, <2>2, <3>1 DEF Room
  <2> QED BY <1>1, <1>8, <2>3, FollowStep
<1>9. CASE NoLinksLeft
  <2>1. /\ UNCHANGED <<queue, seen, urls, item, links, fetched, ctx, revoked, ret>>
        /\ pc = "follow" /\ pc' = "loop" /\ links = <<>>
    BY <1>9 DEF NoLinksLeft, world
  <2>2. ret = NilOutcome /\ ~ret.err
    BY <1>1, <2>1 DEF Room, NilOutcome
  <2> QED BY <1>1, <2>1, <2>2, QuietStep DEF Room
<1>10. CASE Cancel \/ Revoke \/ UNCHANGED vars
  <2>1. /\ UNCHANGED <<pc, queue, seen, urls, item, links, fetched, ret>>
        /\ pc = "done" => UNCHANGED <<ctx, revoked>>
    BY <1>10 DEF Cancel, Revoke, vars
  <2>2. Room'
    BY <1>1, <2>1 DEF Room
  <2>3. Parts'
    BY <1>1, <2>1, QuietStep
  <2> QED BY <2>2, <2>3
<1> QED BY <1>3, <1>4, <1>5, <1>6, <1>7, <1>8, <1>9, <1>10 DEF Next, Step

\* The inductive invariant of a map: fetched pages, item and frontier in the
\* order of their levels, each found by the first page that links to it, and
\* no link or URL lost before the result is full.
THEOREM MapInductive == Spec => []IInv
  BY InitInv, StepInv, PTL DEF Spec

-----------------------------------------------------------------------------
(***************************************************************************)
(* What follows from it.                                                   *)
(***************************************************************************)

\* A map reports max_urls URLs at most, each once.
THEOREM MapIsBounded == Spec => []UrlsBoundedAndDistinct
  BY MapInductive, PTL DEF IInv

\* Pages are fetched level by level, one below the first that links to them.
THEOREM MapIsBreadthFirst == Spec => []FetchedLevelByLevel
<1>1. IInv => FetchedLevelByLevel
  <2> SUFFICES ASSUME IInv, NEW i \in DOMAIN fetched, fetched[i].url # Seed
               PROVE  \E p \in 1..(i - 1) :
                         /\ LinksTo(fetched[p], fetched[i].url)
                         /\ fetched[i].depth = fetched[p].depth + 1
                         /\ \A q \in 1..(p - 1) : ~LinksTo(fetched[q], fetched[i].url)
    BY DEF FetchedLevelByLevel, IInv, LevelsInOrder
  <2>1. FoundBy(fetched[i], i - 1)
    BY DEF IInv, AllFound
  <2> QED BY <2>1 DEF FoundBy, FirstLink
<1> QED BY <1>1, MapInductive, PTL

\* A map that was not cut short reports everything its pages link to, and
\* has fetched all of it above the last level.
THEOREM MapMissesNothing == Spec => []MapComplete
<1>1. IInv => MapComplete
  <2> SUFFICES ASSUME IInv, pc = "done", Len(urls) < MaxURLs, ctx = "live",
                      ~revoked, NEW p \in DOMAIN fetched, NEW url \in OnSite,
                      LinksTo(fetched[p], url)
               PROVE  /\ \E i \in DOMAIN urls : urls[i] = url
                      /\ fetched[p].depth + 1 < MaxDepth =>
                            \E q \in DOMAIN fetched : fetched[q].url = url
    BY DEF MapComplete
  <2>1. url \in seen
    <3>1. PICK i \in DOMAIN fetched[p].links : Norm[fetched[p].links[i]] = url
      BY DEF LinksTo
    <3> QED BY <3>1 DEF IInv, LinksAccounted
  <2>2. \E i \in DOMAIN urls : urls[i] = url
    BY <2>1 DEF IInv, UrlsAreSeen
  <2>3. queue = <<>> /\ ~ret.err
    <3>1. Len(urls) \in Nat /\ MaxURLs \in Nat
      BY BoundsType DEF IInv, TypeOK
    <3> QED BY <3>1 DEF IInv, Room
  <2>4. ASSUME fetched[p].depth + 1 < MaxDepth, Dropped(url) PROVE FALSE
    <3>1. TypeOK
      BY DEF IInv
    <3>2. fetched[p].depth \in Nat /\ p \in 1..Len(fetched) /\ Len(fetched) \in Nat
      BY <3>1, Shapes
    <3>3. MaxDepth # 0
      BY <2>4, <3>2, BoundsType
    <3>4. PICK f \in DOMAIN fetched :
             FirstLink(f, url) /\ fetched[f].depth + 1 >= MaxDepth
      BY <2>4, <3>3 DEF Dropped
    <3>5. f \in Nat /\ f <= p /\ fetched[f].depth \in Nat
      <4>1. f \in 1..Len(fetched) /\ fetched[f].depth \in Nat
        BY <3>1, Shapes
      <4>2. ~(p \in 1..(f - 1))
        BY <3>4 DEF FirstLink
      <4> QED BY <3>2, <4>1, <4>2
    <3>6. fetched[f].depth <= fetched[p].depth
      BY <3>5 DEF IInv, LevelsInOrder
    <3> QED BY <2>4, <3>2, <3>4, <3>5, <3>6, BoundsType
  <2>5. fetched[p].depth + 1 < MaxDepth =>
           \E q \in DOMAIN fetched : fetched[q].url = url
    <3>1. DOMAIN queue = {}
      BY <2>3
    <3> QED BY <2>1, <2>3, <2>4, <3>1 DEF IInv, NoneForgotten
  <2> QED BY <2>2, <2>5
<1> QED BY <1>1, MapInductive, PTL

\* What MapBFS returns is what the pipeline takes it to return.
THEOREM MapOutcomeAgrees == Spec => []OutcomeAgreed
<1>1. IInv => OutcomeAgreed
  BY DEF IInv, Room, OutcomeAgreed, CrawlOutcomes, Succeeded, FailedPartial
<1> QED BY <1>1, MapInductive, PTL

\* A cancellation lets nothing but the fetch under way finish.
THEOREM MapStopsOnCancel == Spec => CancelStops
<1>1. TypeOK /\ [Next]_vars =>
         (ctx = "cancelled" =>
            /\ Len(fetched') > Len(fetched) => pc = "fetch"
            /\ pc' \in {"wait", "fetch"} => pc' = pc)
  <2> SUFFICES ASSUME TypeOK, [Next]_vars, ctx = "cancelled"
               PROVE  /\ Len(fetched') > Len(fetched) => pc = "fetch"
                      /\ pc' \in {"wait", "fetch"} => pc' = pc
    OBVIOUS
  <2>1. Len(fetched) \in Nat
    BY DEF TypeOK
  <2>2. pc # "fetch" => fetched' = fetched
    BY DEF Next, Step, LeaveLoop, TakeNext, Wait, FetchFails, FetchWorks,
           FollowLink, NoLinksLeft, Cancel, Revoke, vars
  <2>3. pc' \in {"wait", "fetch"} => pc' = pc
    BY DEF Next, Step, LeaveLoop, TakeNext, Wait, FetchFails, FetchWorks, Finish,
           FollowLink, NoLinksLeft, Cancel, Revoke, vars
  <2> QED BY <2>1, <2>2, <2>3
<1>2. IInv => TypeOK
  BY DEF IInv
<1> QED BY <1>1, <1>2, MapInductive, PTL DEF Spec, CancelStops

-----------------------------------------------------------------------------
(***************************************************************************)
(* The variant.                                                            *)
(***************************************************************************)
LEMMA FirstThatDiffers ==
    ASSUME NEW a, NEW b, NEW c, NEW d, NEW e, NEW f,
           NEW g, NEW h,
           \/ a < e
           \/ a = e /\ b < f
           \/ a = e /\ b = f /\ c < g
           \/ a = e /\ b = f /\ c = g /\ d < h
    PROVE  Below(<<a, b, c, d>>, <<e, f, g, h>>)
<1> DEFINE r == <<a, b, c, d>>
           s == <<e, f, g, h>>
<1>1. /\ r[1] = a /\ r[2] = b /\ r[3] = c /\ r[4] = d
      /\ s[1] = e /\ s[2] = f /\ s[3] = g /\ s[4] = h
      /\ DOMAIN s = {1, 2, 3, 4}
  <2>1. 1..4 = {1, 2, 3, 4}
    OBVIOUS
  <2> QED BY <2>1
<1>2. /\ 1..(1 - 1) = {} /\ 1..(2 - 1) = {1} /\ 1..(3 - 1) = {1, 2}
      /\ 1..(4 - 1) = {1, 2, 3}
  OBVIOUS
<1> HIDE DEF r, s
<1>3. CASE a < e
  <2>1. 1 \in DOMAIN s /\ r[1] < s[1] /\ \A k \in 1..(1 - 1) : r[k] = s[k]
    BY <1>1, <1>2, <1>3
  <2> QED BY <2>1 DEF Below, r, s
<1>4. CASE a = e /\ b < f
  <2>1. 2 \in DOMAIN s /\ r[2] < s[2] /\ \A k \in 1..(2 - 1) : r[k] = s[k]
    BY <1>1, <1>2, <1>4
  <2> QED BY <2>1 DEF Below, r, s
<1>5. CASE a = e /\ b = f /\ c < g
  <2>1. 3 \in DOMAIN s /\ r[3] < s[3] /\ \A k \in 1..(3 - 1) : r[k] = s[k]
    BY <1>1, <1>2, <1>5
  <2> QED BY <2>1 DEF Below, r, s
<1>6. CASE a = e /\ b = f /\ c = g /\ d < h
  <2>1. 4 \in DOMAIN s /\ r[4] < s[4] /\ \A k \in 1..(4 - 1) : r[k] = s[k]
    BY <1>1, <1>2, <1>6
  <2> QED BY <2>1 DEF Below, r, s
<1> QED BY <1>3, <1>4, <1>5, <1>6

LEMMA RankType == IInv => Rank \in Nat \X Nat \X Nat \X Nat
<1> SUFFICES ASSUME IInv PROVE Rank \in Nat \X Nat \X Nat \X Nat
  OBVIOUS
<1>1. /\ Len(urls) \in Nat /\ Len(queue) \in Nat /\ Len(links) \in Nat
      /\ Len(urls) <= MaxURLs
  BY DEF IInv, TypeOK, UrlsBoundedAndDistinct
<1>2. MaxURLs - Len(urls) \in Nat
  BY <1>1, BoundsType
<1>3. Stage \in Nat
  BY DEF IInv, TypeOK, Stage
<1> QED BY <1>1, <1>2, <1>3 DEF Rank

\* Every step of the call brings its end nearer, for every site and all
\* options; what happens around it does not put the end off.
THEOREM MapWindsDown == Spec => WindsDown
<1>1. ASSUME IInv, Step PROVE Below(Rank', Rank)
  <2>1. Len(urls) \in Nat /\ Len(queue) \in Nat /\ Len(links) \in Nat
    BY <1>1 DEF IInv, TypeOK
  <2>2. \/ MaxURLs - Len(urls') < MaxURLs - Len(urls)
        \/ /\ urls' = urls
           /\ \/ Len(queue') < Len(queue)
              \/ queue' = queue /\ Stage' < Stage
              \/ queue' = queue /\ Stage' = Stage /\ Len(links') < Len(links)
    <3>1. CASE LeaveLoop \/ Wait \/ FetchFails \/ FetchWorks \/ NoLinksLeft
      <4>1. urls' = urls /\ queue' = queue
        BY <3>1 DEF LeaveLoop, Wait, FetchFails, FetchWorks, NoLinksLeft
      <4>2. \/ pc = "loop" /\ pc' = "done"
            \/ pc = "wait" /\ pc' \in {"fetch", "done"}
            \/ pc = "fetch" /\ pc' \in {"loop", "follow"}
            \/ pc = "follow" /\ pc' = "loop"
        BY <3>1 DEF LeaveLoop, Wait, FetchFails, FetchWorks, NoLinksLeft, Finish
      <4>3. Stage' < Stage
        BY <4>2 DEF Stage
      <4> QED BY <4>1, <4>3
    <3>2. CASE TakeNext
      <4>1. /\ queue \in Seq(Item) /\ queue # <<>> /\ queue' = Tail(queue)
            /\ urls' = urls
        BY <1>1, <3>2 DEF TakeNext, IInv, TypeOK
      <4>2. Len(queue') < Len(queue)
        BY <4>1
      <4> QED BY <4>1, <4>2
    <3>3. CASE FollowLink
      <4>1. /\ links \in Seq(Links) /\ links # <<>> /\ links' = Tail(links)
            /\ \/ \E url \in OnSite : urls' = Append(urls, url)
               \/ urls' = urls /\ queue' = queue /\ pc' = pc
        BY <1>1, <3>3, FollowKinds DEF IInv, TypeOK
      <4>2. CASE \E url \in OnSite : urls' = Append(urls, url)
        <5>1. Len(urls') = Len(urls) + 1
          BY <1>1, <4>2 DEF IInv, TypeOK
        <5> QED BY <2>1, <5>1, BoundsType
      <4>3. CASE urls' = urls /\ queue' = queue /\ pc' = pc
        <5>1. Len(links') < Len(links)
          BY <4>1
        <5>2. Stage' = Stage
          BY <4>3 DEF Stage
        <5> QED BY <4>3, <5>1, <5>2
      <4> QED BY <4>1, <4>2, <4>3
    <3> QED BY <1>1, <3>1, <3>2, <3>3 DEF Step
  <2>3. /\ urls' = urls => MaxURLs - Len(urls') = MaxURLs - Len(urls)
        /\ queue' = queue => Len(queue') = Len(queue)
    OBVIOUS
  <2> QED BY <2>2, <2>3, FirstThatDiffers DEF Rank
<1>2. ASSUME [Next]_vars, ~Step PROVE Rank' = Rank
  BY <1>2 DEF Next, Cancel, Revoke, vars, Rank, Stage
<1>3. IInv /\ [Next]_vars => IF Step THEN Below(Rank', Rank) ELSE Rank' = Rank
  BY <1>1, <1>2
<1> QED BY <1>3, RankType, MapInductive, PTL DEF Spec, WindsDown
=============================================================================
