---------------------------- MODULE ListingProofs ----------------------------
(***************************************************************************)
(* Proofs of the properties of JobListing, for any number of clients,      *)
(* addresses and jobs and every burst and page limit.                      *)
(***************************************************************************)
EXTENDS ListingProperties, FiniteSetTheorems, TLAPS

-----------------------------------------------------------------------------
(***************************************************************************)
(* Pages of a finite set of numbers in descending order: an element comes  *)
(* after as many others as are greater.                                    *)
(***************************************************************************)
Above(M, j) == {i \in M : i > j}

LEMMA AboveType ==
    ASSUME NEW M, IsFiniteSet(M), M \subseteq Nat, NEW j
    PROVE  IsFiniteSet(Above(M, j)) /\ Cardinality(Above(M, j)) \in Nat
<1>1. Above(M, j) \in SUBSET M
  BY DEF Above
<1> QED BY <1>1, FS_Subset, FS_CardinalityType

\* There are fewer before an element than there are elements.
LEMMA AboveBound ==
    ASSUME NEW M, IsFiniteSet(M), M \subseteq Nat, NEW j \in M
    PROVE  /\ Cardinality(M) \in Nat
           /\ Cardinality(Above(M, j)) \in 0..(Cardinality(M) - 1)
<1>1. Above(M, j) \in SUBSET M
  BY DEF Above
<1>2. j \notin Above(M, j)
  BY DEF Above
<1>3. /\ Cardinality(M) \in Nat /\ Cardinality(Above(M, j)) \in Nat
      /\ Cardinality(Above(M, j)) <= Cardinality(M)
      /\ Cardinality(Above(M, j)) # Cardinality(M)
  BY <1>1, <1>2, AboveType, FS_CardinalityType, FS_Subset
<1> QED BY <1>3

\* The lower comes later.
LEMMA LowerIsLater ==
    ASSUME NEW M, IsFiniteSet(M), M \subseteq Nat,
           NEW i \in M, NEW j \in M, i < j
    PROVE  Cardinality(Above(M, j)) < Cardinality(Above(M, i))
<1>1. i \in Nat /\ j \in Nat
  OBVIOUS
<1>2. Above(M, j) \in SUBSET Above(M, i)
  <2> SUFFICES ASSUME NEW k \in Above(M, j) PROVE k \in Above(M, i)
    OBVIOUS
  <2>1. k \in M /\ k \in Nat /\ k > j
    BY DEF Above
  <2>2. k > i
    BY <1>1, <2>1
  <2> QED BY <2>1, <2>2 DEF Above
<1>3. j \in Above(M, i) /\ j \notin Above(M, j)
  BY <1>1 DEF Above
<1>4. /\ Cardinality(Above(M, j)) <= Cardinality(Above(M, i))
      /\ Cardinality(Above(M, j)) # Cardinality(Above(M, i))
  BY <1>2, <1>3, AboveType, FS_Subset
<1>5. Cardinality(Above(M, j)) \in Nat /\ Cardinality(Above(M, i)) \in Nat
  BY AboveType
<1> QED BY <1>4, <1>5

\* So every place in the order is taken once.
LEMMA PlacesAreTaken ==
    ASSUME NEW M, IsFiniteSet(M), M \subseteq Nat
    PROVE  [j \in M |-> Cardinality(Above(M, j))]
               \in Bijection(M, 0..(Cardinality(M) - 1))
<1> DEFINE place == [j \in M |-> Cardinality(Above(M, j))]
           n == Cardinality(M)
<1>1. n \in Nat
  BY FS_CardinalityType
<1>2. place \in [M -> 0..(n - 1)]
  BY AboveBound
<1>3. ASSUME NEW i \in M, NEW j \in M, place[i] = place[j] PROVE i = j
  <2>1. i \in Nat /\ j \in Nat
    OBVIOUS
  <2>2. Cardinality(Above(M, i)) \in Nat /\ Cardinality(Above(M, j)) \in Nat
    BY AboveType
  <2>3. Cardinality(Above(M, i)) = Cardinality(Above(M, j))
    BY <1>3
  <2>4. i < j => Cardinality(Above(M, j)) < Cardinality(Above(M, i))
    BY LowerIsLater
  <2>5. j < i => Cardinality(Above(M, i)) < Cardinality(Above(M, j))
    BY LowerIsLater
  <2> QED BY ONLY <2>1, <2>2, <2>3, <2>4, <2>5
<1>4. place \in Injection(M, 0..(n - 1))
  BY <1>2, <1>3 DEF Injection, IsInjective
<1>5. IsFiniteSet(0..(n - 1)) /\ Cardinality(0..(n - 1)) = n
  <2>1. 0 \in Int /\ n - 1 \in Int
    BY <1>1
  <2>2. /\ IsFiniteSet(0..(n - 1))
        /\ Cardinality(0..(n - 1)) = IF 0 > n - 1 THEN 0 ELSE (n - 1) - 0 + 1
    BY <2>1, FS_Interval
  <2> QED BY <1>1, <2>2
<1>6. place \in Surjection(M, 0..(n - 1))
  BY <1>4, <1>5, FS_Injection
<1> QED BY <1>4, <1>6 DEF Bijection

\* When the set grows nothing comes forward.
LEMMA NothingComesForward ==
    ASSUME NEW M, NEW N, IsFiniteSet(N), N \subseteq Nat, M \subseteq N, NEW j
    PROVE  /\ Cardinality(M) \in Nat /\ Cardinality(N) \in Nat
           /\ Cardinality(M) <= Cardinality(N)
           /\ Cardinality(Above(M, j)) \in Nat /\ Cardinality(Above(N, j)) \in Nat
           /\ Cardinality(Above(M, j)) <= Cardinality(Above(N, j))
<1>1. /\ IsFiniteSet(M) /\ Cardinality(M) <= Cardinality(N)
      /\ Cardinality(M) \in Nat /\ Cardinality(N) \in Nat
  BY FS_Subset, FS_CardinalityType
<1>2. Above(M, j) \in SUBSET Above(N, j)
  BY DEF Above
<1>3. /\ IsFiniteSet(Above(N, j)) /\ Cardinality(Above(N, j)) \in Nat
      /\ Cardinality(Above(M, j)) \in Nat
  BY <1>1, AboveType
<1>4. Cardinality(Above(M, j)) <= Cardinality(Above(N, j))
  BY <1>2, <1>3, FS_Subset
<1> QED BY <1>1, <1>3, <1>4

\* The elements on the places of a page.
OnPage(M, limit, start) ==
    {j \in M : Cardinality(Above(M, j)) \in start..(start + limit - 1)}

\* A page is full, or ends with the last element, or lies behind it.
LEMMA PageSize ==
    ASSUME NEW M, IsFiniteSet(M), M \subseteq Nat,
           NEW limit \in Nat, NEW start \in Nat
    PROVE  /\ Cardinality(M) \in Nat
           /\ IsFiniteSet(OnPage(M, limit, start))
           /\ Cardinality(OnPage(M, limit, start)) =
                 IF start + limit <= Cardinality(M) THEN limit
                 ELSE IF start <= Cardinality(M) THEN Cardinality(M) - start
                 ELSE 0
<1> DEFINE n     == Cardinality(M)
           last  == IF start + limit <= n THEN start + limit - 1 ELSE n - 1
           place == [j \in M |-> Cardinality(Above(M, j))]
           page  == OnPage(M, limit, start)
           onPage == [j \in page |-> Cardinality(Above(M, j))]
<1>1. n \in Nat /\ last \in Int
  BY FS_CardinalityType
<1>2. place \in Bijection(M, 0..(n - 1))
  BY PlacesAreTaken
<1>3. page \in SUBSET M
  BY DEF OnPage
<1>4. \A j \in M : place[j] \in 0..(n - 1)
  BY <1>2 DEF Bijection, Injection, IsInjective
<1>5. \A j \in M : j \in page <=> place[j] \in start..(start + limit - 1)
  BY DEF OnPage
<1>6. \A k \in Nat : k \in 0..(n - 1) /\ k \in start..(start + limit - 1)
                         <=> k \in start..last
  BY <1>1
<1>7. onPage \in [page -> start..last]
  <2> SUFFICES ASSUME NEW j \in page PROVE place[j] \in start..last
    BY <1>3
  <2>1. place[j] \in 0..(n - 1) /\ place[j] \in start..(start + limit - 1)
    BY <1>3, <1>4, <1>5
  <2> QED BY <1>6, <2>1
<1>8. \A i, j \in page : onPage[i] = onPage[j] => i = j
  BY <1>2, <1>3 DEF Bijection, Injection, IsInjective
<1>9. \A k \in start..last : \E j \in page : onPage[j] = k
  <2> SUFFICES ASSUME NEW k \in start..last PROVE \E j \in page : onPage[j] = k
    OBVIOUS
  <2>1. k \in Nat
    BY <1>1
  <2>2. k \in 0..(n - 1) /\ k \in start..(start + limit - 1)
    BY <1>6, <2>1
  <2>3. PICK j \in M : place[j] = k
    BY <1>2, <2>2 DEF Bijection, Surjection
  <2>4. j \in page
    BY <1>5, <2>2, <2>3
  <2> QED BY <2>3, <2>4
<1>10. onPage \in Bijection(page, start..last)
  BY <1>7, <1>8, <1>9 DEF Bijection, Injection, Surjection, IsInjective
<1>11. IsFiniteSet(page) /\ Cardinality(page) = Cardinality(start..last)
  <2>1. IsFiniteSet(page)
    BY <1>3, FS_Subset
  <2>2. ExistsBijection(page, start..last)
    BY <1>10 DEF ExistsBijection
  <2> QED BY <2>1, <2>2, FS_Bijection
<1>12. Cardinality(start..last) = IF start > last THEN 0 ELSE last - start + 1
  <2> HIDE DEF last
  <2>1. start \in Int /\ last \in Int
    BY <1>1
  <2> QED BY <2>1, FS_Interval
<1> HIDE DEF page
<1>13. Cardinality(page) =
          IF start + limit <= n THEN limit
          ELSE IF start <= n THEN n - start ELSE 0
  BY <1>1, <1>11, <1>12
<1> QED BY <1>1, <1>11, <1>13 DEF page

USE LimiterAssumption, ListingAssumption DEF LimiterAssumption, ListingAssumption

-----------------------------------------------------------------------------
(***************************************************************************)
(* The lists of the table.                                                 *)
(***************************************************************************)
LEMMA MatchingFinite ==
    ASSUME NEW filter
    PROVE  /\ Matching(filter) \subseteq Jobs /\ Matching(filter) \subseteq Nat
           /\ IsFiniteSet(Matching(filter))
           /\ CountJobs(filter) \in Nat
<1>1. Matching(filter) \in SUBSET Jobs
  BY DEF Matching
<1> QED BY <1>1, FS_Subset, FS_CardinalityType DEF CountJobs

LEMMA SelectIsPage ==
    ASSUME NEW filter, NEW limit, NEW start
    PROVE  SelectJobs(filter, limit, start) =
               OnPage(Matching(filter), limit, start)
  BY DEF SelectJobs, OnPage, Above

\* What SelectJobs answers.
LEMMA SelectSize ==
    ASSUME NEW filter, NEW limit \in Nat, NEW start \in Nat
    PROVE  /\ Cardinality(SelectJobs(filter, limit, start)) \in Nat
           /\ Cardinality(SelectJobs(filter, limit, start)) =
                 IF start + limit <= CountJobs(filter) THEN limit
                 ELSE IF start <= CountJobs(filter) THEN CountJobs(filter) - start
                 ELSE 0
  BY MatchingFinite, SelectIsPage, PageSize, FS_CardinalityType DEF CountJobs

\* No statement takes a job out of a list that only grows.
LEMMA ListsGrow ==
    ASSUME NEW filter \in GrowingFilters, NEW j \in Jobs, TypeOK, Statement(j)
    PROVE  Matching(filter) \subseteq Matching(filter)'
<1>1. \E from \in {"absent", "queued", "processing"}, to \in RowStatus : Moves(j, from, to)
  BY DEF Statement, Insert, Claim, Cancel, Finish, RowStatus, Terminal
<1>2. /\ status[j] \notin Terminal
      /\ status'[j] \in RowStatus
      /\ \A i \in Jobs : i # j => status'[i] = status[i]
  BY <1>1 DEF Moves, TypeOK, RowStatus, Terminal
<1>3. ASSUME NEW i \in Matching(filter) PROVE i \in Matching(filter)'
  <2>1. i \in Jobs
    BY DEF Matching
  <2>2. CASE filter = "all"
    BY <1>2, <2>1, <2>2 DEF Matching
  <2>3. CASE filter \in Terminal
    <3>1. status[i] = filter /\ filter # "all"
      BY <2>3 DEF Matching, Terminal
    <3>2. status'[i] = filter
      BY <1>2, <2>1, <2>3, <3>1
    <3> QED BY <2>1, <3>1, <3>2 DEF Matching
  <2> QED BY <2>2, <2>3 DEF GrowingFilters
<1> QED BY <1>3

-----------------------------------------------------------------------------
(***************************************************************************)
(* The limiter.                                                            *)
(***************************************************************************)
LimiterType ==
    /\ at \in [Clients -> {"away", "holding", "inside"}]
    /\ visitors \in [Addresses -> Buckets \cup {None}]
    /\ tokens \in [Buckets -> 0..ApiBurst]
    /\ held \in [Clients -> Buckets \cup {None}]
    /\ current \subseteq Clients
    /\ recent \in [Addresses -> Nat]

LimiterInv ==
    /\ LimiterType
    /\ HeldFromTheTable
    /\ TokensAccountForGrants

\* Taking one of them out leaves a finite set that many functions can be
\* taken over.
LEMMA ImageOfTheOthers ==
    ASSUME NEW S, IsFiniteSet(S), NEW c \in S, NEW f
    PROVE  /\ IsFiniteSet({f[d] : d \in S \ {c}})
           /\ Cardinality({f[d] : d \in S \ {c}}) \in Nat
           /\ Cardinality({f[d] : d \in S \ {c}}) <= Cardinality(S) - 1
<1> DEFINE T == {f[d] : d \in S \ {c}}
           g == [d \in S \ {c} |-> f[d]]
<1>1. /\ IsFiniteSet(S \ {c}) /\ Cardinality(S \ {c}) = Cardinality(S) - 1
  BY FS_RemoveElement
<1>2. g \in Surjection(S \ {c}, T)
  BY DEF Surjection
<1>3. IsFiniteSet(T) /\ Cardinality(T) <= Cardinality(S \ {c})
  BY <1>1, <1>2, FS_Surjection
<1> QED BY <1>1, <1>3, FS_CardinalityType

\* There is a bucket to be had for whoever needs one.
LEMMA BucketToBeHad ==
    ASSUME LimiterInv, NEW c \in Clients, at[c] = "away",
           visitors[AddressOf[c]] = None
    PROVE  (CHOOSE b \in Unreferenced : TRUE) \in Unreferenced
<1> DEFINE inHands == {held[d] : d \in Clients \ {c}}
           inTable == {visitors[a] : a \in Addresses \ {AddressOf[c]}}
<1>1. /\ IsFiniteSet(inHands) /\ Cardinality(inHands) \in Nat
      /\ Cardinality(inHands) <= Cardinality(Clients) - 1
  <2>1. IsFiniteSet(Clients) /\ c \in Clients
    OBVIOUS
  <2> QED BY ONLY <2>1, ImageOfTheOthers
<1>2. AddressOf[c] \in Addresses
  OBVIOUS
<1>3. /\ IsFiniteSet(inTable) /\ Cardinality(inTable) \in Nat
      /\ Cardinality(inTable) <= Cardinality(Addresses) - 1
  BY <1>2, ImageOfTheOthers
<1>4. held[c] = None
  BY DEF LimiterInv, HeldFromTheTable
<1>5. \A b \in Buckets : b \notin inHands /\ b \notin inTable => b \in Unreferenced
  BY <1>2, <1>4 DEF Unreferenced
<1> HIDE DEF inHands, inTable
<1>6. /\ IsFiniteSet(inHands \cup inTable)
      /\ Cardinality(inHands \cup inTable) <=
            Cardinality(inHands) + Cardinality(inTable)
  <2>1. /\ IsFiniteSet(inHands \cap inTable)
        /\ Cardinality(inHands \cap inTable) \in Nat
    BY <1>1, FS_Intersection, FS_CardinalityType
  <2>2. /\ IsFiniteSet(inHands \cup inTable)
        /\ Cardinality(inHands \cup inTable) = Cardinality(inHands)
              + Cardinality(inTable) - Cardinality(inHands \cap inTable)
    BY <1>1, <1>3, FS_Union
  <2> QED BY <1>1, <1>3, <2>1, <2>2
<1>7. ~(Buckets \subseteq inHands \cup inTable)
  <2> SUFFICES ASSUME Buckets \subseteq inHands \cup inTable PROVE FALSE
    OBVIOUS
  <2>1. Cardinality(Buckets) <= Cardinality(inHands \cup inTable)
    BY <1>6, FS_Subset
  <2>2. /\ Cardinality(Buckets) \in Nat /\ Cardinality(Clients) \in Nat
        /\ Cardinality(Addresses) \in Nat
        /\ Cardinality(inHands \cup inTable) \in Nat
    BY <1>6, FS_CardinalityType
  <2>3. Cardinality(Buckets) >= Cardinality(Clients) + Cardinality(Addresses) - 1
    OBVIOUS
  <2> QED BY ONLY <1>1, <1>3, <1>6, <2>1, <2>2, <2>3
<1> QED BY <1>5, <1>7

LEMMA LimiterInit == InitLimiter => LimiterInv
  BY DEF InitLimiter, LimiterInv, LimiterType, HeldFromTheTable, TokensAccountForGrants

LEMMA GetLimiterKeeps ==
    ASSUME LimiterInv, NEW c \in Clients, GetLimiter(c)
    PROVE  LimiterInv'
<1>0. AddressOf[c] \in Addresses /\ at[c] = "away"
  BY DEF GetLimiter, MakeLimiter, Hold
<1>1. CASE visitors[AddressOf[c]] # None
  <2>1. /\ UNCHANGED <<visitors, tokens, recent>>
        /\ at' = [at EXCEPT ![c] = "holding"]
        /\ held' = [held EXCEPT ![c] = visitors[AddressOf[c]]]
        /\ current' = current \cup {c}
    BY <1>1 DEF GetLimiter, Hold
  <2>2. LimiterType'
    BY <1>0, <1>1, <2>1 DEF LimiterInv, LimiterType
  <2>3. HeldFromTheTable'
    BY <1>0, <1>1, <2>1 DEF LimiterInv, LimiterType, HeldFromTheTable
  <2>4. TokensAccountForGrants'
    BY <2>1 DEF LimiterInv, TokensAccountForGrants
  <2> QED BY <2>2, <2>3, <2>4 DEF LimiterInv
<1>2. CASE visitors[AddressOf[c]] = None
  <2> DEFINE new == CHOOSE b \in Unreferenced : TRUE
  <2>1. new \in Unreferenced
    BY <1>0, <1>2, BucketToBeHad
  <2>2. /\ recent' = recent
        /\ at' = [at EXCEPT ![c] = "holding"]
        /\ held' = [held EXCEPT ![c] = new]
        /\ current' = current \cup {c}
        /\ visitors' = [visitors EXCEPT ![AddressOf[c]] = new]
        /\ tokens' = [tokens EXCEPT ![new] = ApiBurst]
    BY <1>2 DEF GetLimiter, MakeLimiter, Hold
  <2> HIDE DEF new
  <2>3. /\ new \in Buckets /\ new # None
        /\ \A a \in Addresses : visitors[a] # new
        /\ \A d \in Clients : held[d] # new
    BY <2>1 DEF Unreferenced
  <2>4. LimiterType'
    BY <1>0, <2>2, <2>3 DEF LimiterInv, LimiterType
  <2>5. HeldFromTheTable'
    <3>1. \A d \in Clients : at'[d] = "holding" <=> held'[d] # None
      BY <1>0, <2>2, <2>3 DEF LimiterInv, LimiterType, HeldFromTheTable
    <3>2. ASSUME NEW d \in current'
          PROVE  held'[d] # None /\ held'[d] = visitors'[AddressOf[d]]
      <4>1. CASE d = c
        BY <1>0, <2>2, <2>3, <4>1 DEF LimiterInv, LimiterType
      <4>2. CASE d # c
        <5>1. /\ d \in current /\ d \in Clients /\ AddressOf[d] \in Addresses
              /\ held[d] # None /\ held[d] = visitors[AddressOf[d]]
          BY <2>2, <4>2 DEF LimiterInv, LimiterType, HeldFromTheTable
        <5>2. AddressOf[d] # AddressOf[c]
          BY <1>2, <5>1
        <5> QED BY <2>2, <4>2, <5>1, <5>2 DEF LimiterInv, LimiterType
      <4> QED BY <4>1, <4>2
    <3> QED BY <3>1, <3>2 DEF HeldFromTheTable
  <2>6. TokensAccountForGrants'
    <3> SUFFICES ASSUME NEW a \in Addresses
                 PROVE  /\ visitors'[a] = None => recent'[a] = 0
                        /\ visitors'[a] # None =>
                              recent'[a] + tokens'[visitors'[a]] <= ApiBurst
      BY DEF TokensAccountForGrants
    <3>1. CASE a = AddressOf[c]
      <4>1. /\ visitors'[a] = new /\ tokens'[new] = ApiBurst
            /\ recent'[a] = 0
        BY <1>2, <2>2, <2>3, <3>1
           DEF LimiterInv, LimiterType, TokensAccountForGrants
      <4> QED BY <2>3, <4>1
    <3>2. CASE a # AddressOf[c]
      <4>1. visitors'[a] = visitors[a] /\ visitors[a] # new
        BY <2>2, <2>3, <3>2 DEF LimiterInv, LimiterType
      <4>2. visitors[a] # None => tokens'[visitors[a]] = tokens[visitors[a]]
        BY <2>2, <4>1 DEF LimiterInv, LimiterType
      <4> QED BY <2>2, <4>1, <4>2 DEF LimiterInv, TokensAccountForGrants
    <3> QED BY <3>1, <3>2
  <2> QED BY <2>4, <2>5, <2>6 DEF LimiterInv
<1> QED BY <1>1, <1>2

LEMMA AdmitKeeps ==
    ASSUME LimiterInv, NEW c \in Clients, Admit(c)
    PROVE  LimiterInv'
<1> DEFINE b == held[c]
<1>1. /\ at[c] = "holding" /\ tokens[b] > 0
      /\ at' = [at EXCEPT ![c] = "inside"]
      /\ tokens' = [tokens EXCEPT ![b] = tokens[b] - 1]
      /\ recent' = IF c \in current
                      THEN [recent EXCEPT ![AddressOf[c]] = recent[AddressOf[c]] + 1]
                      ELSE recent
      /\ held' = [held EXCEPT ![c] = None]
      /\ current' = current \ {c}
      /\ visitors' = visitors
  BY DEF Admit, Drop
<1>2. b \in Buckets /\ tokens[b] \in Nat /\ AddressOf[c] \in Addresses
  BY <1>1 DEF LimiterInv, LimiterType, HeldFromTheTable
<1>3. c \in current => visitors[AddressOf[c]] = b
  BY DEF LimiterInv, HeldFromTheTable
<1> HIDE DEF b
<1>4. LimiterType'
  <2>1. tokens[b] - 1 \in 0..ApiBurst
    BY <1>1, <1>2 DEF LimiterInv, LimiterType
  <2>2. tokens' \in [Buckets -> 0..ApiBurst]
    BY <1>1, <1>2, <2>1 DEF LimiterInv, LimiterType
  <2>3. recent' \in [Addresses -> Nat]
    BY <1>1, <1>2 DEF LimiterInv, LimiterType
  <2> QED BY <1>1, <2>2, <2>3 DEF LimiterInv, LimiterType
<1>5. HeldFromTheTable'
  BY <1>1 DEF LimiterInv, LimiterType, HeldFromTheTable
<1>6. TokensAccountForGrants'
  <2> SUFFICES ASSUME NEW a \in Addresses
               PROVE  /\ visitors[a] = None => recent'[a] = 0
                      /\ visitors[a] # None =>
                            recent'[a] + tokens'[visitors[a]] <= ApiBurst
    BY <1>1 DEF TokensAccountForGrants
  <2>1. /\ visitors[a] = None => recent[a] = 0
        /\ visitors[a] # None => /\ visitors[a] \in Buckets
                                 /\ tokens[visitors[a]] \in Nat
                                 /\ recent[a] + tokens[visitors[a]] <= ApiBurst
        /\ recent[a] \in Nat
    BY DEF LimiterInv, LimiterType, TokensAccountForGrants
  <2>2. CASE c \in current /\ a = AddressOf[c]
    <3>1. recent'[a] = recent[a] + 1 /\ visitors[a] = b
      BY <1>1, <1>2, <1>3, <2>2 DEF LimiterInv, LimiterType
    <3>2. tokens'[b] = tokens[b] - 1
      BY <1>1, <1>2 DEF LimiterInv, LimiterType
    <3>3. b # None
      BY <1>2
    <3> QED BY <1>2, <2>1, <3>1, <3>2, <3>3
  <2>3. CASE ~(c \in current /\ a = AddressOf[c])
    <3>1. recent'[a] = recent[a]
      BY <1>1, <2>3 DEF LimiterInv, LimiterType
    <3>2. visitors[a] # None =>
             \/ tokens'[visitors[a]] = tokens[visitors[a]]
             \/ tokens'[visitors[a]] = tokens[visitors[a]] - 1
      BY <1>1, <2>1 DEF LimiterInv, LimiterType
    <3> QED BY <2>1, <3>1, <3>2
  <2> QED BY <2>2, <2>3
<1> QED BY <1>4, <1>5, <1>6 DEF LimiterInv

LEMMA RefuseOrLeaveKeeps ==
    ASSUME LimiterInv, NEW c \in Clients, Refuse(c) \/ Leave(c)
    PROVE  LimiterInv'
<1>1. CASE Refuse(c)
  BY <1>1 DEF Refuse, Drop, LimiterInv, LimiterType, HeldFromTheTable,
              TokensAccountForGrants
<1>2. CASE Leave(c)
  BY <1>2 DEF Leave, LimiterInv, LimiterType, HeldFromTheTable,
              TokensAccountForGrants
<1> QED BY <1>1, <1>2

LEMMA RefillKeeps == LimiterInv /\ Refill => LimiterInv'
<1> SUFFICES ASSUME LimiterInv, Refill PROVE LimiterInv'
  OBVIOUS
<1>1. LimiterType'
  <2>1. \A b \in Buckets : tokens'[b] \in 0..ApiBurst
    BY DEF Refill, LimiterInv, LimiterType
  <2>2. \A a \in Addresses : recent'[a] \in Nat
    BY DEF Refill, LimiterInv, LimiterType
  <2> QED BY <2>1, <2>2 DEF Refill, LimiterInv, LimiterType
<1>2. HeldFromTheTable'
  BY DEF Refill, LimiterInv, HeldFromTheTable
<1>3. TokensAccountForGrants'
  <2> SUFFICES ASSUME NEW a \in Addresses
               PROVE  /\ visitors[a] = None => recent'[a] = 0
                      /\ visitors[a] # None =>
                            recent'[a] + tokens'[visitors[a]] <= ApiBurst
    BY DEF Refill, TokensAccountForGrants
  <2>1. /\ recent[a] \in Nat
        /\ recent'[a] = IF recent[a] > 0 THEN recent[a] - 1 ELSE 0
        /\ visitors[a] = None => recent[a] = 0
    BY DEF Refill, LimiterInv, LimiterType, TokensAccountForGrants
  <2>2. visitors[a] # None =>
           /\ tokens[visitors[a]] \in 0..ApiBurst
           /\ tokens'[visitors[a]] = IF tokens[visitors[a]] < ApiBurst
                                        THEN tokens[visitors[a]] + 1
                                        ELSE tokens[visitors[a]]
           /\ recent[a] + tokens[visitors[a]] <= ApiBurst
    BY DEF Refill, LimiterInv, LimiterType, TokensAccountForGrants
  <2> QED BY <2>1, <2>2
<1> QED BY <1>1, <1>2, <1>3 DEF LimiterInv

LEMMA CleanupKeeps == LimiterInv /\ Cleanup => LimiterInv'
  BY DEF Cleanup, LimiterInv, LimiterType, HeldFromTheTable, TokensAccountForGrants

-----------------------------------------------------------------------------
(***************************************************************************)
(* The walks.                                                              *)
(***************************************************************************)
ListType == /\ status \in [Jobs -> Status]
            /\ walk \in [Clients -> Walk \cup {NoWalk}]

\* The list that a table of statuses st holds for a filter.
ListOf(st, filter) ==
    {j \in Jobs : st[j] \in (IF filter = "all" THEN RowStatus ELSE {filter})}

LEMMA ListOfMatching ==
    \A filter : /\ Matching(filter) = ListOf(status, filter)
                /\ Matching(filter)' = ListOf(status', filter)
  BY DEF Matching, ListOf

LEMMA ListOfFinite ==
    ASSUME NEW st, NEW filter
    PROVE  /\ IsFiniteSet(ListOf(st, filter))
           /\ ListOf(st, filter) \subseteq Nat /\ ListOf(st, filter) \subseteq Jobs
           /\ Cardinality(ListOf(st, filter)) \in Nat
<1>1. ListOf(st, filter) \in SUBSET Jobs
  BY DEF ListOf
<1> QED BY <1>1, FS_Subset, FS_CardinalityType

\* What the invariant says of one walk.
OnCourse(st, w) ==
    w.filter \in GrowingFilters =>
        /\ w.unseen \subseteq ListOf(st, w.filter)
        /\ \A j \in w.unseen :
              Cardinality(Above(ListOf(st, w.filter), j)) >= w.pages * w.limit
        /\ w.step = "select" => w.total <= Cardinality(ListOf(st, w.filter))
        /\ w.step = "over" => w.unseen = {}

AllOnCourse ==
    \A c \in Walkers : walk[c] # NoWalk => OnCourse(status, walk[c])

WalksKeepUp == UnseenIsBehind /\ TotalStillThere /\ WalkMissesNothing

LEMMA KeepingUpIsCourse == WalksKeepUp <=> AllOnCourse
<1>1. ASSUME NEW c \in Walkers, NEW j
      PROVE  Ahead(walk[c].filter, j) = Above(ListOf(status, walk[c].filter), j)
  BY DEF Ahead, Above, Matching, ListOf
<1>2. \A c \in Walkers :
         /\ Matching(walk[c].filter) = ListOf(status, walk[c].filter)
         /\ CountJobs(walk[c].filter) = Cardinality(ListOf(status, walk[c].filter))
  BY ListOfMatching DEF CountJobs
<1> QED BY <1>1, <1>2 DEF WalksKeepUp, UnseenIsBehind, TotalStillThere,
           WalkMissesNothing, AllOnCourse, OnCourse, Walking

ListInv == ListType /\ AllOnCourse

LEMMA WalkFields ==
    ASSUME NEW w \in Walk
    PROVE  /\ w.filter \in Filters /\ w.limit \in 1..MaxLimit /\ w.pages \in Nat
           /\ w.limit \in Nat /\ w.total \in Nat /\ w.unseen \subseteq Jobs
           /\ w.pages * w.limit \in Nat
           /\ (w.pages + 1) * w.limit = w.pages * w.limit + w.limit
<1>1. /\ w.filter \in Filters /\ w.limit \in 1..MaxLimit /\ w.pages \in Nat
      /\ w.limit \in Nat /\ w.total \in Nat /\ w.unseen \subseteq Jobs
  BY DEF Walk
<1>2. \A p, l \in Nat : p * l \in Nat /\ (p + 1) * l = p * l + l
  OBVIOUS
<1> QED BY <1>1, <1>2

\* A step that leaves the table alone and moves one walk.
LEMMA OneWalkMoves ==
    ASSUME ListInv, NEW c \in Walkers, NEW w \in Walk \cup {NoWalk},
           walk' = [walk EXCEPT ![c] = w], status' = status,
           w # NoWalk => OnCourse(status, w)
    PROVE  ListInv'
<1>1. c \in Clients
  OBVIOUS
<1>2. ListType'
  BY DEF ListInv, ListType
<1>3. ASSUME NEW d \in Walkers, walk'[d] # NoWalk
      PROVE  OnCourse(status', walk'[d])
  <2>1. d \in Clients
    OBVIOUS
  <2>2. walk'[d] = IF d = c THEN w ELSE walk[d]
    BY <1>1, <2>1 DEF ListInv, ListType
  <2>3. status' = status
    OBVIOUS
  <2> QED BY <1>3, <2>2, <2>3 DEF ListInv, AllOnCourse
<1>4. AllOnCourse'
  BY <1>3 DEF AllOnCourse
<1> QED BY <1>2, <1>4 DEF ListInv

LEMMA ListInit == Init => ListInv
<1> SUFFICES ASSUME Init PROVE ListInv
  OBVIOUS
<1>1. ListType
  BY DEF Init, ListType, Status
<1>2. AllOnCourse
  BY DEF Init, AllOnCourse
<1> QED BY <1>1, <1>2 DEF ListInv

LEMMA StatementKeeps ==
    ASSUME TypeOK, ListInv, NEW j \in Jobs, Statement(j)
    PROVE  ListInv'
<1>1. ListType'
  <2>1. \E from, to \in Status : Moves(j, from, to)
    BY DEF Statement, Insert, Claim, Cancel, Finish, Status, RowStatus, Terminal
  <2> QED BY <2>1 DEF Statement, ListInv, ListType, Moves
<1>2. ASSUME NEW d \in Walkers, walk'[d] # NoWalk
      PROVE  OnCourse(status', walk'[d])
  <2>0. walk' = walk
    BY DEF Statement
  <2>1. PICK w \in Walk : w = walk[d]
    BY <1>2, <2>0 DEF ListInv, ListType
  <2>2. OnCourse(status, w)
    BY <1>2, <2>0, <2>1 DEF ListInv, AllOnCourse
  <2> DEFINE M == ListOf(status, w.filter)
             N == ListOf(status', w.filter)
  <2> SUFFICES ASSUME w.filter \in GrowingFilters PROVE OnCourse(status', w)
    BY <2>0, <2>1 DEF OnCourse
  <2>3. M \subseteq N
    BY ListsGrow, ListOfMatching
  <2>4. IsFiniteSet(N) /\ N \subseteq Nat
    BY ListOfFinite
  <2>5. w.total \in Nat /\ w.pages * w.limit \in Nat
    BY WalkFields
  <2>6. /\ w.unseen \subseteq M
        /\ \A i \in w.unseen : Cardinality(Above(M, i)) >= w.pages * w.limit
        /\ w.step = "select" => w.total <= Cardinality(M)
        /\ w.step = "over" => w.unseen = {}
    BY <2>2 DEF OnCourse
  <2> HIDE DEF M, N
  <2>7. \A i \in w.unseen : Cardinality(Above(N, i)) >= w.pages * w.limit
    <3> SUFFICES ASSUME NEW i \in w.unseen
                 PROVE  Cardinality(Above(N, i)) >= w.pages * w.limit
      OBVIOUS
    <3> DEFINE offset == w.pages * w.limit
    <3>1. /\ Cardinality(Above(M, i)) \in Nat /\ Cardinality(Above(N, i)) \in Nat
          /\ Cardinality(Above(M, i)) <= Cardinality(Above(N, i))
      BY <2>3, <2>4, NothingComesForward
    <3>2. offset \in Nat /\ Cardinality(Above(M, i)) >= offset
      BY <2>5, <2>6
    <3> HIDE DEF offset
    <3>3. Cardinality(Above(N, i)) >= offset
      BY <3>1, <3>2
    <3> QED BY <3>3 DEF offset
  <2>8. w.step = "select" => w.total <= Cardinality(N)
    <3>1. /\ Cardinality(M) \in Nat /\ Cardinality(N) \in Nat
          /\ Cardinality(M) <= Cardinality(N)
      BY <2>3, <2>4, NothingComesForward
    <3> QED BY <2>5, <2>6, <3>1
  <2> QED BY <2>3, <2>6, <2>7, <2>8 DEF OnCourse, N
<1>3. AllOnCourse'
  BY <1>2 DEF AllOnCourse
<1> QED BY <1>1, <1>3 DEF ListInv

LEMMA BeginWalkKeeps ==
    ASSUME ListInv, NEW c \in Walkers, BeginWalk(c)
    PROVE  ListInv'
<1>1. PICK filter \in Filters, asked \in Limits :
         walk' = [walk EXCEPT ![c] =
                     [filter  |-> filter, limit |-> ClampLimit(asked),
                      pages   |-> 0, step |-> "ask",
                      total   |-> 0, unseen |-> Matching(filter)]]
  BY DEF BeginWalk
<1> DEFINE w == [filter  |-> filter, limit |-> ClampLimit(asked),
                 pages   |-> 0, step |-> "ask",
                 total   |-> 0, unseen |-> Matching(filter)]
<1>2. ClampLimit(asked) \in 1..MaxLimit
  BY DEF ClampLimit
<1>3. Matching(filter) = ListOf(status, filter) /\ Matching(filter) \subseteq Jobs
  BY ListOfMatching, ListOfFinite
<1>4. w \in Walk
  BY <1>2, <1>3 DEF Walk
<1>5. OnCourse(status, w)
  <2>1. 0 * ClampLimit(asked) = 0
    BY <1>2
  <2>2. \A j : Cardinality(Above(ListOf(status, filter), j)) >= 0
    BY ListOfFinite, AboveType
  <2> QED BY <1>3, <2>1, <2>2 DEF OnCourse
<1> HIDE DEF w
<1>6. status' = status /\ walk' = [walk EXCEPT ![c] = w]
  BY <1>1 DEF BeginWalk, w
<1> QED BY <1>4, <1>5, <1>6, OneWalkMoves

LEMMA CountKeeps ==
    ASSUME ListInv, NEW c \in Walkers, Count(c)
    PROVE  ListInv'
<1>1. PICK old \in Walk : old = walk[c] /\ old # NoWalk
  BY DEF Count, Walking, ListInv, ListType
<1> DEFINE w == [old EXCEPT !.step = "select", !.total = CountJobs(old.filter)]
<1>2. CountJobs(old.filter) = Cardinality(ListOf(status, old.filter))
  BY ListOfMatching DEF CountJobs
<1>3. CountJobs(old.filter) \in Nat
  BY <1>2, ListOfFinite
<1>4. w \in Walk
  BY <1>3 DEF Walk
<1>5. /\ w.filter = old.filter /\ w.unseen = old.unseen /\ w.pages = old.pages
      /\ w.limit = old.limit /\ w.step = "select"
      /\ w.total = Cardinality(ListOf(status, old.filter))
  BY <1>2 DEF Walk
<1>6. status' = status /\ walk' = [walk EXCEPT ![c] = w]
  BY <1>1 DEF Count, ListInv, ListType
<1> HIDE DEF w
<1>7. OnCourse(status, old)
  BY <1>1 DEF ListInv, AllOnCourse
<1>8. Cardinality(ListOf(status, old.filter)) <= Cardinality(ListOf(status, old.filter))
  BY ListOfFinite
<1>9. OnCourse(status, w)
  BY <1>5, <1>7, <1>8 DEF OnCourse
<1> QED BY <1>4, <1>6, <1>9, OneWalkMoves

LEMMA ListFailsKeeps ==
    ASSUME ListInv, NEW c \in Walkers, ListFails(c)
    PROVE  ListInv'
<1>1. PICK old \in Walk : old = walk[c] /\ old # NoWalk
  BY DEF ListFails, ListInv, ListType
<1> DEFINE w == [old EXCEPT !.step = "ask", !.total = 0]
<1>2. w \in Walk
  BY DEF Walk
<1>3. /\ w.filter = old.filter /\ w.unseen = old.unseen /\ w.pages = old.pages
      /\ w.limit = old.limit /\ w.step = "ask"
  BY DEF Walk
<1>4. status' = status /\ walk' = [walk EXCEPT ![c] = w]
  BY <1>1 DEF ListFails, ListInv, ListType
<1> HIDE DEF w
<1>5. OnCourse(status, old)
  BY <1>1 DEF ListInv, AllOnCourse
<1>6. OnCourse(status, w)
  BY <1>3, <1>5 DEF OnCourse
<1> QED BY <1>2, <1>4, <1>6, OneWalkMoves

\* What was behind the page that is read is on it or behind the next one, and
\* on it when it was not full.
LEMMA PageIsPassed ==
    ASSUME NEW M, IsFiniteSet(M), M \subseteq Nat, NEW limit \in Nat,
           NEW start \in Nat, NEW j \in M, Cardinality(Above(M, j)) >= start,
           j \notin OnPage(M, limit, start)
    PROVE  /\ Cardinality(Above(M, j)) >= start + limit
           /\ ~(Cardinality(OnPage(M, limit, start)) < limit)
<1> DEFINE place == Cardinality(Above(M, j))
           n == Cardinality(M)
<1>1. n \in Nat /\ place \in 0..(n - 1)
  BY AboveBound
<1>2. place \notin start..(start + limit - 1) /\ place >= start
  BY DEF OnPage
<1>3. Cardinality(OnPage(M, limit, start)) =
         IF start + limit <= n THEN limit
         ELSE IF start <= n THEN n - start ELSE 0
  BY PageSize
<1> HIDE DEF place, n
<1>4. place >= start + limit
  BY <1>1, <1>2
<1>5. start + limit <= n
  BY <1>1, <1>4
<1>6. ~(Cardinality(OnPage(M, limit, start)) < limit)
  BY <1>3, <1>5
<1> QED BY <1>4, <1>6 DEF place

LEMMA SelectKeeps ==
    ASSUME ListInv, NEW c \in Walkers, Select(c)
    PROVE  ListInv'
<1>1. PICK old \in Walk : old = walk[c] /\ old # NoWalk
  BY DEF Select, Walking, ListInv, ListType
<1> DEFINE start == old.pages * old.limit
           M     == ListOf(status, old.filter)
           page  == OnPage(M, old.limit, start)
           next  == IF Cardinality(page) < old.limit THEN "over" ELSE "ask"
           w     == [old EXCEPT !.pages = old.pages + 1, !.total = 0,
                                !.unseen = old.unseen \ page, !.step = next]
<1>2. SelectJobs(old.filter, old.limit, start) = page
  BY SelectIsPage, ListOfMatching
<1>3. old.unseen \subseteq Jobs /\ old.pages \in Nat
  BY WalkFields
<1>4. next \in {"ask", "select", "over"}
  OBVIOUS
<1>5. status' = status /\ walk' = [walk EXCEPT ![c] = w]
  BY <1>1, <1>2 DEF Select
<1> HIDE DEF page, next
<1>6. w \in Walk
  <2>1. old.unseen \ page \in SUBSET Jobs /\ old.pages + 1 \in Nat /\ 0 \in Nat
    BY <1>3
  <2> QED BY <1>4, <2>1 DEF Walk
<1>7. /\ w.filter = old.filter /\ w.unseen = old.unseen \ page
      /\ w.pages = old.pages + 1 /\ w.limit = old.limit /\ w.step = next
  BY DEF Walk
<1> HIDE DEF w
<1>8. ASSUME w.filter \in GrowingFilters PROVE OnCourse(status, w)
  <2>1. /\ old.unseen \subseteq M
        /\ \A j \in old.unseen : Cardinality(Above(M, j)) >= start
    BY <1>1, <1>7, <1>8 DEF ListInv, AllOnCourse, OnCourse
  <2>2. /\ IsFiniteSet(M) /\ M \subseteq Nat
        /\ old.limit \in Nat /\ start \in Nat
        /\ w.pages * w.limit = start + old.limit
    BY <1>7, ListOfFinite, WalkFields
  <2> HIDE DEF M, start
  <2>3. ASSUME NEW j \in w.unseen
        PROVE  /\ j \in M /\ Cardinality(Above(M, j)) >= start + old.limit
               /\ next # "over"
    <3>1. j \in M /\ Cardinality(Above(M, j)) >= start /\ j \notin page
      BY <1>7, <2>1
    <3>2. /\ Cardinality(Above(M, j)) >= start + old.limit
          /\ ~(Cardinality(page) < old.limit)
      BY <2>2, <3>1, PageIsPassed DEF page
    <3> QED BY <3>1, <3>2 DEF next
  <2>4. w.step # "select" /\ (w.step = "over" => w.unseen = {})
    BY <1>7, <2>3 DEF next
  <2> QED BY <1>7, <2>2, <2>3, <2>4 DEF OnCourse, M
<1>9. OnCourse(status, w)
  BY <1>8 DEF OnCourse
<1> QED BY <1>5, <1>6, <1>9, OneWalkMoves

LEMMA EndWalkKeeps ==
    ASSUME ListInv, NEW c \in Walkers, EndWalk(c)
    PROVE  ListInv'
  BY OneWalkMoves DEF EndWalk

LEMMA NoWalkMoves ==
    ASSUME ListInv, UNCHANGED <<status, walk>>
    PROVE  ListInv'
  BY DEF ListInv, ListType, AllOnCourse

-----------------------------------------------------------------------------
(***************************************************************************)
(* Every step keeps the invariant.                                         *)
(***************************************************************************)
LEMMA InvParts == IInv <=> LimiterInv /\ ListType /\ WalksKeepUp
  BY DEF IInv, TypeOK, LimiterInv, LimiterType, ListType, WalksKeepUp

LEMMA InvIs == IInv <=> LimiterInv /\ ListInv
  BY InvParts, KeepingUpIsCourse DEF ListInv

LEMMA InitInv == Init => IInv
  BY InvIs, LimiterInit, ListInit DEF Init

LEMMA StepInv == IInv /\ [Next]_vars => IInv'
<1> SUFFICES ASSUME IInv, [Next]_vars PROVE IInv'
  OBVIOUS
<1>1. LimiterInv /\ ListInv /\ TypeOK
  BY InvIs DEF IInv
<1>2. LimiterInv' /\ ListInv'
  <2>0. Walkers \subseteq Clients
    OBVIOUS
  <2>1. CASE UNCHANGED limiterVars
    <3>1. LimiterInv'
      BY <1>1, <2>1 DEF limiterVars, LimiterInv, LimiterType, HeldFromTheTable,
                        TokensAccountForGrants
    <3>2. CASE \E j \in Jobs : Statement(j)
      BY <1>1, <3>1, <3>2, StatementKeeps
    <3>3. CASE \E c \in Walkers : BeginWalk(c) \/ Count(c) \/ EndWalk(c)
      BY <1>1, <3>1, <3>3, BeginWalkKeeps, CountKeeps, EndWalkKeeps
    <3>4. CASE \E c \in Walkers : Select(c)
      BY <1>1, <3>1, <3>4, SelectKeeps
    <3>5. CASE \E c \in Walkers : ListFails(c)
      BY <1>1, <3>1, <3>5, ListFailsKeeps
    <3>6. CASE UNCHANGED <<status, walk>>
      BY <1>1, <3>1, <3>6, NoWalkMoves
    <3> QED BY <3>2, <3>3, <3>4, <3>5, <3>6
            DEF Next, vars, Ask, OtherRequest, Middleware
  <2>2. CASE \E c \in Walkers : Select(c)
    BY <1>1, <2>0, <2>2, SelectKeeps, RefuseOrLeaveKeeps DEF Select
  <2>3. CASE \E c \in Walkers : ListFails(c)
    BY <1>1, <2>0, <2>3, ListFailsKeeps, RefuseOrLeaveKeeps DEF ListFails
  <2>4. CASE \E c \in Walkers : Ask(c)
    BY <1>1, <2>0, <2>4, NoWalkMoves, GetLimiterKeeps DEF Ask
  <2>5. CASE \E c \in Clients \ Walkers : OtherRequest(c)
    BY <1>1, <2>5, NoWalkMoves, GetLimiterKeeps, RefuseOrLeaveKeeps
       DEF OtherRequest
  <2>6. CASE Middleware
    BY <1>1, <2>6, NoWalkMoves, AdmitKeeps, RefuseOrLeaveKeeps, RefillKeeps,
       CleanupKeeps DEF Middleware
  <2> QED BY <2>1, <2>2, <2>3, <2>4, <2>5, <2>6
          DEF Next, vars, Statement, BeginWalk, Count, EndWalk
<1>3. (IInv <=> LimiterInv /\ ListInv)'
  BY InvIs, PTL
<1> QED BY <1>2, <1>3

\* The parts of the invariant hold in every state.
THEOREM ListingInductive == Spec => []IInv
  BY InitInv, StepInv, PTL DEF Spec

-----------------------------------------------------------------------------
(***************************************************************************)
(* The properties.                                                         *)
(***************************************************************************)
LEMMA RateFollows == IInv => ClientRateBounded
<1> SUFFICES ASSUME IInv, NEW a \in Addresses PROVE recent[a] <= ApiBurst
  BY DEF ClientRateBounded
<1>1. /\ visitors[a] = None => recent[a] = 0
      /\ visitors[a] # None => /\ tokens[visitors[a]] \in 0..ApiBurst
                               /\ recent[a] + tokens[visitors[a]] <= ApiBurst
      /\ recent[a] \in Nat
  BY DEF IInv, TypeOK, TokensAccountForGrants
<1> QED BY <1>1

\* Between two clean-ups no address is granted more than the burst and a
\* token per tick, through however many requests at once.
THEOREM RateIsBounded == Spec => []ClientRateBounded
  BY ListingInductive, RateFollows, PTL

\* Who reads a list that only grows to its end has seen every job it had.
THEOREM WalkIsComplete == Spec => []WalkMissesNothing
<1>1. IInv => WalkMissesNothing
  BY DEF IInv
<1> QED BY <1>1, ListingInductive, PTL

\* A page of such a list is full or reaches as far as its total says.
THEOREM PageAgreesWithTotal == Spec => PageAsTotalSays
<1> DEFINE PageOfTotal(c) ==
              LET w     == walk[c]
                  start == w.pages * w.limit
                  shown == Cardinality(SelectJobs(w.filter, w.limit, start))
              IN  shown = w.limit \/ shown >= w.total - start
<1>1. ASSUME IInv, NEW c \in Walkers, Select(c), walk[c].filter \in GrowingFilters
      PROVE  PageOfTotal(c)
  <2>1. PICK w \in Walk : w = walk[c] /\ w # NoWalk /\ w.step = "select"
    BY <1>1 DEF Select, Walking, IInv, TypeOK
  <2> DEFINE start == w.pages * w.limit
             shown == Cardinality(SelectJobs(w.filter, w.limit, start))
             n     == CountJobs(w.filter)
  <2>2. w.limit \in Nat /\ w.total \in Nat /\ start \in Nat
    BY WalkFields
  <2>3. w.total <= n /\ n \in Nat
    BY <1>1, <2>1, MatchingFinite DEF IInv, TotalStillThere, Walking
  <2>4. shown = IF start + w.limit <= n THEN w.limit
                ELSE IF start <= n THEN n - start ELSE 0
    BY <2>2, SelectSize
  <2>5. PageOfTotal(c) <=> shown = w.limit \/ shown >= w.total - start
    BY <2>1
  <2> HIDE DEF start, shown, n, PageOfTotal
  <2>6. shown = w.limit \/ shown >= w.total - start
    BY <2>2, <2>3, <2>4
  <2> QED BY <2>5, <2>6
<1>2. IInv /\ [Next]_vars =>
         [\A c \in Walkers :
             Select(c) /\ walk[c].filter \in GrowingFilters => PageOfTotal(c)]_vars
  BY <1>1
<1> QED BY <1>2, ListingInductive, PTL DEF Spec, PageAsTotalSays
=============================================================================
