---------------------------- MODULE ScrapeProofs ----------------------------
(***************************************************************************)
(* Proofs of the safety properties of ScrapeWorkers, for any number of     *)
(* workers, hosts, browser slots and attempts, every burst and limit of    *)
(* redirects.                                                              *)
(***************************************************************************)
EXTENDS ScrapeProperties, FiniteSetTheorems, TLAPS

USE WorkersAssumption DEF WorkersAssumption

LEMMA OutcomesType ==
    /\ {NilOutcome, Succeeded, FailedPartial, FailedNil} \subseteq Outcome
    /\ ~Succeeded.err /\ FailedPartial.err /\ FailedNil.err
  BY DEF Outcome, NilOutcome, Succeeded, FailedPartial, FailedNil

LEMMA RequestType ==
    ASSUME NEW r \in Requests
    PROVE  /\ r.host \in Hosts
           /\ r.retries \in Nat
           /\ r.render \in BOOLEAN
           /\ r.follow \in BOOLEAN
  BY DEF Request

LEMMA TokensType == TypeOK => \A h \in Hosts : TokensOf(h) \in Int
  BY DEF TypeOK, TokensOf

LEMMA RenderingFinite == IsFiniteSet(Rendering) /\ Cardinality(Rendering) \in Nat
  BY FS_Subset, FS_CardinalityType DEF Rendering

LEMMA InitInv == Init => IInv
  <1> SUFFICES ASSUME Init PROVE IInv
    OBVIOUS
  <1>1. TypeOK
    BY OutcomesType DEF Init, TypeOK
  <1>2. NoSlotLeaked
    <2>1. Rendering = {}
      BY DEF Init, Rendering
    <2> QED  BY <2>1, FS_EmptySet DEF Init, NoSlotLeaked
  <1>3. Progress
    BY DEF Init, Progress, ProgressOf, Attempting
  <1>4. ReturnTruthful
    BY DEF Init, ReturnTruthful
  <1>5. Reserved
    BY DEF Init, Reserved, AdmissionsCovered, WaitsReserved, WaitsDiffer, TokensOf
  <1> QED  BY <1>1, <1>2, <1>3, <1>4, <1>5 DEF IInv

-----------------------------------------------------------------------------
(***************************************************************************)
(* What a step of one worker leaves alone.                                 *)
(***************************************************************************)
Alone(w) ==
    \A v \in Workers \ {w} :
        /\ pc'[v] = pc[v]
        /\ req'[v] = req[v]
        /\ made'[v] = made[v]
        /\ cause'[v] = cause[v]
        /\ ret'[v] = ret[v]
        /\ due'[v] = due[v]

LEMMA EndAttemptAlone ==
    ASSUME TypeOK, NEW w \in Workers, NEW outcome, EndAttempt(w, outcome),
           UNCHANGED <<req, due>>, UNCHANGED cause \/ \E what : Blame(w, what)
    PROVE  Alone(w)
  BY DEF EndAttempt, Goto, Return, Blame, TypeOK, Alone

LEMMA ContinueAlone ==
    ASSUME TypeOK, NEW w \in Workers, Continue(w)
    PROVE  /\ Alone(w)
           /\ UNCHANGED <<limiters, chrome, ctx, load>>
  <1>1. CASE Admitted(w)
    BY <1>1 DEF Admitted, Goto, Return, TypeOK, Alone, shared
  <1>2. CASE LimitCut(w) \/ HandOver(w)
    BY <1>2 DEF LimitCut, HandOver, Reset, TypeOK, Alone, shared
  <1>3. CASE BackoffOver(w) \/ BackoffCut(w)
    BY <1>3 DEF BackoffOver, BackoffCut, Goto, Return, TypeOK, Alone, shared
  <1>4. CASE ResolveWorks(w) \/ HttpWorks(w) \/ Redirected(w) \/ TakeSlot(w)
               \/ RenderWorks(w)
    BY <1>4 DEF ResolveWorks, HttpWorks, Redirected, TakeSlot, RenderWorks,
                Goto, Blame, TypeOK, Alone, shared, fetching
  <1>5. CASE URLRefused(w) \/ LookupFails(w) \/ NoBrowser(w) \/ HttpFails(w)
               \/ SlotCut(w) \/ ParseWorks(w) \/ ParseFails(w) \/ RedirectRefused(w)
               \/ RenderFails(w)
    BY <1>5, EndAttemptAlone
       DEF URLRefused, LookupFails, NoBrowser, HttpFails, SlotCut, ParseWorks, ParseFails,
           RedirectRefused, RenderFails, shared
  <1> QED  BY <1>1, <1>2, <1>3, <1>4, <1>5 DEF Continue, Fetch

\* Fetching steps of a worker end an attempt or go on with it.
EndsAttempt(w) ==
    \E outcome \in {Succeeded, FailedPartial, FailedNil} :
        EndAttempt(w, outcome)

GoesOn(w) ==
    /\ pc' = [pc EXCEPT ![w] = pc'[w]]
    /\ pc'[w] \in Attempting \ {"backoff"}
    /\ UNCHANGED <<made, ret>>

LEMMA FetchSteps ==
    ASSUME TypeOK, NEW w \in Workers, Fetch(w)
    PROVE  /\ pc[w] \in Attempting \ {"backoff"}
           /\ UNCHANGED <<req, due>>
           /\ EndsAttempt(w) \/ GoesOn(w)
  <1>1. CASE ResolveWorks(w) \/ HttpWorks(w) \/ Redirected(w) \/ TakeSlot(w)
               \/ RenderWorks(w)
    BY <1>1 DEF ResolveWorks, HttpWorks, Redirected, TakeSlot, RenderWorks,
                Goto, TypeOK, GoesOn, Attempting, shared, fetching
  <1>2. CASE URLRefused(w) \/ LookupFails(w) \/ NoBrowser(w) \/ HttpFails(w)
               \/ SlotCut(w) \/ ParseWorks(w) \/ ParseFails(w) \/ RedirectRefused(w)
               \/ RenderFails(w)
    BY <1>2 DEF URLRefused, LookupFails, NoBrowser, HttpFails, SlotCut, ParseWorks,
                ParseFails, RedirectRefused, RenderFails, EndsAttempt, Attempting
  <1> QED  BY <1>1, <1>2 DEF Fetch

-----------------------------------------------------------------------------
(***************************************************************************)
(* Types.                                                                  *)
(***************************************************************************)
LEMMA EndAttemptType ==
    ASSUME TypeOK, NEW w \in Workers,
           NEW outcome \in {Succeeded, FailedPartial, FailedNil},
           EndAttempt(w, outcome)
    PROVE  /\ pc' \in [Workers -> {"idle", "limit", "resolve", "http", "slot",
                                   "render", "parse", "backoff", "done"}]
           /\ made' \in [Workers -> Seq(Outcome)]
           /\ ret' \in [Workers -> Outcome]
  <1>1. Append(made[w], outcome) \in Seq(Outcome)
    BY OutcomesType DEF TypeOK
  <1>2. made' \in [Workers -> Seq(Outcome)]
    BY <1>1 DEF TypeOK, EndAttempt
  <1>3. CASE Goto(w, "backoff") /\ UNCHANGED ret
    BY <1>2, <1>3 DEF TypeOK, Goto
  <1>4. CASE Return(w, outcome)
    BY <1>2, <1>4, OutcomesType DEF TypeOK, Return
  <1> QED  BY <1>3, <1>4 DEF EndAttempt

LEMMA SlotTaken ==
    ASSUME NoSlotLeaked, NEW w \in Workers, pc[w] = "render"
    PROVE  sem \in Nat /\ sem - 1 \in Nat
  <1>1. Rendering # {}
    BY DEF Rendering
  <1> QED  BY <1>1, RenderingFinite, FS_EmptySet DEF NoSlotLeaked

LEMMA FetchType ==
    ASSUME TypeOK, NoSlotLeaked, NEW w \in Workers, Fetch(w)
    PROVE  TypeOK'
  <1>1. CASE ResolveWorks(w)
    <2>1. 1 \in 0..RedirectLimit
      OBVIOUS
    <2>2. via' \in [Workers -> 0..RedirectLimit]
      BY <1>1, <2>1 DEF ResolveWorks, TypeOK
    <2>3. PICK label \in {"http", "slot"} : Goto(w, label)
      BY <1>1 DEF ResolveWorks
    <2>4. cause' \in [Workers -> {"other", "redirects", "refused"}]
      BY <1>1 DEF ResolveWorks, Blame, TypeOK
    <2> QED  BY <1>1, <2>2, <2>3, <2>4 DEF ResolveWorks, Goto, TypeOK, shared
  <1>2. CASE HttpWorks(w)
    BY <1>2 DEF HttpWorks, Goto, TypeOK, shared, fetching
  <1>3. CASE Redirected(w)
    BY <1>3 DEF Redirected, TypeOK, shared
  <1>4. CASE TakeSlot(w)
    BY <1>4 DEF TakeSlot, Goto, TypeOK, fetching
  <1>5. CASE RenderWorks(w)
    BY <1>5, SlotTaken DEF RenderWorks, Goto, TypeOK, fetching
  <1>6. CASE URLRefused(w) \/ LookupFails(w)
    BY <1>6, EndAttemptType DEF URLRefused, LookupFails, Blame, TypeOK, shared
  <1>7. CASE NoBrowser(w) \/ HttpFails(w) \/ SlotCut(w) \/ ParseFails(w)
    BY <1>7, EndAttemptType DEF NoBrowser, HttpFails, SlotCut, ParseFails, Blame,
                                TypeOK, shared
  <1>8. CASE ParseWorks(w)
    BY <1>8, EndAttemptType DEF ParseWorks, TypeOK, shared
  <1>9. CASE RedirectRefused(w)
    BY <1>9, EndAttemptType DEF RedirectRefused, Blame, TypeOK, shared
  <1>10. CASE RenderFails(w)
    BY <1>10, EndAttemptType, SlotTaken DEF RenderFails, TypeOK
  <1> QED  BY <1>1, <1>2, <1>3, <1>4, <1>5, <1>6, <1>7, <1>8, <1>9, <1>10
           DEF Fetch

LEMMA ResetType ==
    ASSUME TypeOK, NEW w \in Workers, Reset(w), UNCHANGED shared
    PROVE  TypeOK'
  BY OutcomesType DEF Reset, TypeOK, shared

LEMMA StartType ==
    ASSUME TypeOK, NEW w \in Workers, Start(w)
    PROVE  TypeOK'
  <1>1. PICK r \in Requests :
           /\ req' = [req EXCEPT ![w] = r]
           /\ Reserve(r.host)
           /\ \/ load' = [load EXCEPT ![r.host] = @ + 1] /\ UNCHANGED due
              \/ /\ 0 - limiters'[r.host] > 0
                 /\ due' = [due EXCEPT ![w] = 0 - limiters'[r.host]]
                 /\ UNCHANGED load
    BY DEF Start
  <1>2. r.host \in Hosts /\ TokensOf(r.host) - 1 \in Int
    BY RequestType, TokensType
  <1>3. /\ limiters' \in [Hosts -> Int \cup {None}]
        /\ limiters'[r.host] = TokensOf(r.host) - 1
    BY <1>1, <1>2 DEF Reserve, TypeOK
  <1>4. due' \in [Workers -> Nat]
    <2> DEFINE wait == 0 - limiters'[r.host]
    <2>1. wait \in Int
      BY <1>2, <1>3
    <2>2. CASE UNCHANGED due
      BY <2>2 DEF TypeOK
    <2>3. CASE wait > 0 /\ due' = [due EXCEPT ![w] = wait]
      <3> HIDE DEF wait
      <3>1. wait \in Nat
        BY <2>1, <2>3
      <3> QED  BY <2>3, <3>1 DEF TypeOK
    <2> QED  BY <1>1, <2>2, <2>3
  <1>5. load' \in [Hosts -> Nat]
    <2>1. load[r.host] + 1 \in Nat
      BY <1>2 DEF TypeOK
    <2> QED  BY <1>1, <1>2, <2>1 DEF TypeOK
  <1> QED  BY <1>1, <1>3, <1>4, <1>5 DEF Start, TypeOK, fetching

LEMMA AdmittedFinite ==
    \A h \in Hosts : IsFiniteSet(AdmittedBy(h)) /\ Cardinality(AdmittedBy(h)) \in Nat
  <1> TAKE h \in Hosts
  <1>1. AdmittedBy(h) \in SUBSET Workers
    BY DEF AdmittedBy
  <1> QED  BY <1>1, FS_Subset, FS_CardinalityType

LEMMA TickType == TypeOK /\ Tick => TypeOK'
  <1> SUFFICES ASSUME TypeOK, Tick PROVE TypeOK'
    OBVIOUS
  <1>1. limiters' \in [Hosts -> Int \cup {None}]
    BY DEF Tick, TypeOK
  <1>2. due' \in [Workers -> Nat]
    BY DEF Tick, TypeOK
  <1>3. load' \in [Hosts -> Nat]
    BY AdmittedFinite DEF Tick, TypeOK
  <1> QED  BY <1>1, <1>2, <1>3 DEF Tick, TypeOK, fetching

LEMMA ContinueType ==
    ASSUME TypeOK, NoSlotLeaked, NEW w \in Workers, Continue(w)
    PROVE  TypeOK'
  <1>1. CASE Admitted(w)
    <2>1. CASE Goto(w, "resolve") /\ UNCHANGED ret
      BY <1>1, <2>1 DEF Admitted, Goto, TypeOK, shared
    <2>2. CASE Return(w, NilOutcome)
      BY <1>1, <2>2, OutcomesType DEF Admitted, Return, TypeOK, shared
    <2> QED  BY <1>1, <2>1, <2>2 DEF Admitted
  <1>2. CASE LimitCut(w) \/ HandOver(w)
    BY <1>2, ResetType DEF LimitCut, HandOver
  <1>3. CASE BackoffOver(w)
    BY <1>3 DEF BackoffOver, Goto, TypeOK, shared
  <1>4. CASE BackoffCut(w)
    BY <1>4, OutcomesType DEF BackoffCut, Return, TypeOK, shared
  <1>5. CASE Fetch(w)
    BY <1>5, FetchType
  <1> QED  BY <1>1, <1>2, <1>3, <1>4, <1>5 DEF Continue

-----------------------------------------------------------------------------
(***************************************************************************)
(* The semaphore.                                                          *)
(***************************************************************************)
LEMMA SlotsKept ==
    ASSUME NoSlotLeaked, UNCHANGED sem,
           \A v \in Workers : pc'[v] = "render" <=> pc[v] = "render"
    PROVE  NoSlotLeaked'
  <1>1. Rendering' = Rendering
    BY DEF Rendering
  <1> QED  BY <1>1 DEF NoSlotLeaked

LEMMA SlotReleased ==
    ASSUME NoSlotLeaked, NEW w \in Workers, Alone(w), pc[w] = "render",
           pc'[w] # "render", sem' = sem - 1
    PROVE  NoSlotLeaked'
  <1>1. Rendering' = Rendering \ {w}
    BY DEF Rendering, Alone
  <1>2. w \in Rendering
    BY DEF Rendering
  <1>3. Cardinality(Rendering') = Cardinality(Rendering) - 1
    BY <1>1, <1>2, RenderingFinite, FS_RemoveElement
  <1> QED  BY <1>3, RenderingFinite DEF NoSlotLeaked

LEMMA EndAttemptLeaves ==
    ASSUME TypeOK, NEW w \in Workers, NEW outcome, EndAttempt(w, outcome)
    PROVE  pc'[w] \in {"backoff", "done"}
  BY DEF EndAttempt, Goto, Return, TypeOK

LEMMA FetchSlots ==
    ASSUME TypeOK, NoSlotLeaked, NEW w \in Workers, Fetch(w), Alone(w)
    PROVE  NoSlotLeaked'
  <1>1. CASE ResolveWorks(w) \/ HttpWorks(w) \/ Redirected(w)
    BY <1>1, SlotsKept DEF ResolveWorks, HttpWorks, Redirected, Goto, TypeOK,
                           shared
  <1>2. CASE TakeSlot(w)
    <2>1. Rendering' = Rendering \cup {w} /\ w \notin Rendering
      BY <1>2 DEF TakeSlot, Goto, TypeOK, Rendering
    <2>2. Cardinality(Rendering') = Cardinality(Rendering) + 1
      BY <2>1, RenderingFinite, FS_AddElement
    <2> QED  BY <1>2, <2>2, RenderingFinite DEF TakeSlot, NoSlotLeaked
  <1>3. CASE RenderWorks(w)
    BY <1>3, SlotReleased DEF RenderWorks, Goto, TypeOK
  <1>4. CASE RenderFails(w)
    <2>1. pc'[w] # "render"
      BY <1>4, EndAttemptLeaves DEF RenderFails
    <2> QED  BY <1>4, <2>1, SlotReleased DEF RenderFails
  <1>5. CASE URLRefused(w) \/ LookupFails(w) \/ NoBrowser(w) \/ HttpFails(w)
               \/ SlotCut(w) \/ ParseWorks(w) \/ ParseFails(w) \/ RedirectRefused(w)
    <2>1. pc'[w] # "render" /\ pc[w] # "render" /\ UNCHANGED sem
      BY <1>5, EndAttemptLeaves
         DEF URLRefused, LookupFails, NoBrowser, HttpFails, SlotCut, ParseWorks,
             ParseFails, RedirectRefused, shared
    <2> QED  BY <2>1, SlotsKept DEF Alone
  <1> QED  BY <1>1, <1>2, <1>3, <1>4, <1>5 DEF Fetch

LEMMA StepSlots == TypeOK /\ NoSlotLeaked /\ [Next]_vars => NoSlotLeaked'
  <1> SUFFICES ASSUME TypeOK, NoSlotLeaked, [Next]_vars PROVE NoSlotLeaked'
    OBVIOUS
  <1>1. CASE Tick \/ Cancel \/ UNCHANGED vars
    BY <1>1, SlotsKept DEF Tick, Cancel, vars
  <1>2. ASSUME NEW w \in Workers, Start(w) PROVE NoSlotLeaked'
    BY <1>2, SlotsKept DEF Start, TypeOK
  <1>3. ASSUME NEW w \in Workers, Continue(w) PROVE NoSlotLeaked'
    <2>1. CASE Fetch(w)
      BY <1>3, <2>1, FetchSlots, ContinueAlone
    <2>2. CASE Admitted(w) \/ BackoffOver(w) \/ BackoffCut(w)
      BY <2>2, SlotsKept DEF Admitted, BackoffOver, BackoffCut, Goto, Return,
                             TypeOK, shared
    <2>3. CASE LimitCut(w) \/ HandOver(w)
      BY <2>3, SlotsKept DEF LimitCut, HandOver, Reset, TypeOK, shared
    <2> QED  BY <1>3, <2>1, <2>2, <2>3 DEF Continue
  <1> QED  BY <1>1, <1>2, <1>3 DEF Next

-----------------------------------------------------------------------------
(***************************************************************************)
(* Attempts and what is told of them.                                      *)
(***************************************************************************)
LEMMA OthersKeep ==
    ASSUME Progress, ReturnTruthful, NEW w \in Workers, Alone(w), UNCHANGED ctx,
           ProgressOf(w)', pc'[w] = "done" => Told(w)'
    PROVE  Progress' /\ ReturnTruthful'
  <1>1. ASSUME NEW v \in Workers \ {w}
        PROVE  ProgressOf(v)' /\ (pc'[v] = "done" => Told(v)')
    <2>1. ProgressOf(v) /\ (pc[v] = "done" => Told(v))
      BY DEF Progress, ReturnTruthful
    <2>2. /\ pc'[v] = pc[v] /\ req'[v] = req[v] /\ made'[v] = made[v]
          /\ ret'[v] = ret[v] /\ due'[v] = due[v] /\ cause'[v] = cause[v]
      BY DEF Alone
    <2>3. ProgressOf(v)'
      BY <2>1, <2>2 DEF ProgressOf
    <2>4. pc'[v] = "done" => Told(v)'
      BY <2>1, <2>2 DEF Told
    <2> QED  BY <2>3, <2>4
  <1> QED  BY <1>1 DEF Progress, ReturnTruthful

LEMMA AttemptEnds ==
    ASSUME TypeOK, NEW w \in Workers, ProgressOf(w), pc[w] \in Attempting,
           NEW outcome \in {Succeeded, FailedPartial, FailedNil},
           EndAttempt(w, outcome), UNCHANGED <<req, due>>
    PROVE  ProgressOf(w)' /\ (pc'[w] = "done" => Told(w)')
  <1> DEFINE n == Len(made[w])
  <1>1. /\ made[w] \in Seq(Outcome)
        /\ n \in Nat
        /\ req[w] \in Requests
        /\ req[w].retries \in Nat
        /\ n < req[w].retries
        /\ \A i \in 1..n : made[w][i].err
        /\ due[w] = 0
    BY RequestType DEF TypeOK, ProgressOf, Attempting
  <1>2. made'[w] = Append(made[w], outcome)
    BY DEF EndAttempt, TypeOK
  <1>3. /\ Len(made'[w]) = n + 1
        /\ made'[w][n + 1] = outcome
        /\ \A i \in 1..n : made'[w][i] = made[w][i]
    BY <1>1, <1>2
  <1>4. CASE outcome.err /\ n + 1 < req[w].retries
    <2>1. pc'[w] = "backoff"
      BY <1>4 DEF EndAttempt, Goto, TypeOK
    <2>2. \A i \in 1..(n + 1) : made'[w][i].err
      BY <1>1, <1>3, <1>4
    <2> HIDE DEF n
    <2> QED  BY <1>1, <1>3, <1>4, <2>1, <2>2 DEF ProgressOf
  <1>5. CASE ~(outcome.err /\ n + 1 < req[w].retries)
    <2>1. pc'[w] = "done" /\ ret'[w] = outcome
      BY <1>5 DEF EndAttempt, Return, TypeOK
    <2>2. ProgressOf(w)'
      BY <1>1, <2>1 DEF ProgressOf, Attempting
    <2> HIDE DEF n
    <2>3. \A i \in 1..n : made'[w][i].err
      BY <1>1, <1>3
    <2>4. ret'[w] \in ScrapeOutcomes(req'[w].retries)
      BY <1>1, <2>1 DEF ScrapeOutcomes
    <2>5. n + 1 < req[w].retries => ~outcome.err
      BY <1>5 DEF n
    <2>6. Told(w)'
      BY <1>1, <1>3, <2>1, <2>3, <2>4, <2>5 DEF Told
    <2> QED  BY <2>2, <2>6
  <1> QED  BY <1>4, <1>5

LEMMA ContinueProgress ==
    ASSUME TypeOK, Progress, ReturnTruthful, NEW w \in Workers, Continue(w)
    PROVE  Progress' /\ ReturnTruthful'
  <1>1. ProgressOf(w) /\ (pc[w] = "done" => Told(w))
    BY DEF Progress, ReturnTruthful
  <1>2. Alone(w) /\ UNCHANGED ctx
    BY ContinueAlone
  <1> SUFFICES ProgressOf(w)' /\ (pc'[w] = "done" => Told(w)')
    BY <1>2, OthersKeep
  <1>3. CASE Admitted(w)
    <2>1. made[w] = <<>> /\ made'[w] = <<>> /\ req'[w] = req[w] /\ due'[w] = 0
      BY <1>1, <1>3 DEF Admitted, ProgressOf
    <2>2. req[w] \in Requests /\ req[w].retries \in Nat
      BY <1>1, <1>3, RequestType DEF Admitted, ProgressOf
    <2>3. CASE req[w].retries > 0 /\ Goto(w, "resolve")
      BY <2>1, <2>2, <2>3 DEF Goto, TypeOK, ProgressOf, Attempting
    <2>4. CASE req[w].retries = 0 /\ Return(w, NilOutcome)
      <3>1. pc'[w] = "done" /\ ret'[w] = NilOutcome
        BY <2>4 DEF Return, TypeOK
      <3> QED  BY <2>1, <2>2, <2>4, <3>1
               DEF ProgressOf, Attempting, Told, ScrapeOutcomes
    <2> QED  BY <1>3, <2>3, <2>4 DEF Admitted
  <1>4. CASE LimitCut(w) \/ HandOver(w)
    BY <1>4 DEF LimitCut, HandOver, Reset, TypeOK, ProgressOf, Attempting
  <1>5. CASE BackoffOver(w)
    BY <1>1, <1>5 DEF BackoffOver, Goto, TypeOK, ProgressOf, Attempting, shared
  <1>6. CASE BackoffCut(w)
    <2> DEFINE n == Len(made[w])
    <2>1. /\ made'[w] = made[w] /\ req'[w] = req[w] /\ due'[w] = due[w]
          /\ pc'[w] = "done" /\ ret'[w] = FailedNil
          /\ ctx' = "cancelled"
      BY <1>6 DEF BackoffCut, Return, TypeOK, shared
    <2>2. /\ n \in Nat /\ n > 0 /\ n < req[w].retries
          /\ req[w] \in Requests /\ req[w].retries \in Nat /\ due[w] = 0
          /\ \A i \in 1..n : made[w][i].err
      <3>1. pc[w] = "backoff"
        BY <1>6 DEF BackoffCut
      <3>2. req[w] \in Requests /\ due[w] = 0 /\ n > 0
        BY <1>1, <3>1 DEF ProgressOf
      <3>3. n < req[w].retries /\ \A i \in 1..n : made[w][i].err
        BY <1>1, <3>1 DEF ProgressOf, Attempting
      <3>4. n \in Nat
        BY DEF TypeOK
      <3> QED  BY <3>2, <3>3, <3>4, RequestType
    <2>3. ProgressOf(w)'
      BY <2>1, <2>2 DEF ProgressOf, Attempting
    <2>4. FailedNil \in ScrapeOutcomes(req[w].retries)
      BY <2>2 DEF ScrapeOutcomes
    <2>5. Told(w)'
      BY <2>1, <2>2, <2>4 DEF Told
    <2> QED  BY <2>3, <2>5
  <1>7. CASE Fetch(w)
    <2>1. /\ pc[w] \in Attempting \ {"backoff"}
          /\ UNCHANGED <<req, due>>
      BY <1>7, FetchSteps
    <2>2. CASE EndsAttempt(w)
      BY <1>1, <2>1, <2>2, AttemptEnds DEF EndsAttempt
    <2>3. CASE GoesOn(w)
      BY <1>1, <2>1, <2>3 DEF GoesOn, ProgressOf, Attempting
    <2> QED  BY <1>7, <2>2, <2>3, FetchSteps
  <1> QED  BY <1>3, <1>4, <1>5, <1>6, <1>7 DEF Continue

LEMMA StartAlone ==
    ASSUME TypeOK, NEW w \in Workers, Start(w)
    PROVE  /\ Alone(w)
           /\ pc[w] = "idle" /\ pc'[w] = "limit" /\ req'[w] \in Requests
           /\ UNCHANGED <<made, ctx>>
  BY DEF Start, TypeOK, Alone, fetching

LEMMA StepProgress ==
    ASSUME TypeOK, Progress, ReturnTruthful, [Next]_vars
    PROVE  Progress' /\ ReturnTruthful'
  <1>1. CASE Tick
    <2>1. ASSUME NEW v \in Workers PROVE ProgressOf(v)'
      <3>1. ProgressOf(v) /\ due'[v] = IF due[v] > 0 THEN due[v] - 1 ELSE 0
        BY <1>1 DEF Progress, Tick
      <3> QED  BY <1>1, <3>1 DEF ProgressOf, Tick, fetching
    <2>2. ASSUME NEW v \in Workers, pc'[v] = "done" PROVE Told(v)'
      BY <1>1, <2>2 DEF ReturnTruthful, Told, Tick, fetching
    <2> QED  BY <2>1, <2>2 DEF Progress, ReturnTruthful
  <1>2. CASE Cancel
    <2>1. Progress'
      BY <1>2 DEF Progress, ProgressOf, Cancel, fetching
    <2>2. ASSUME NEW v \in Workers, pc'[v] = "done" PROVE Told(v)'
      BY <1>2, <2>2 DEF ReturnTruthful, Told, Cancel, fetching
    <2> QED  BY <2>1, <2>2 DEF ReturnTruthful
  <1>3. CASE UNCHANGED vars
    BY <1>3 DEF vars, Progress, ProgressOf, ReturnTruthful, Told
  <1>4. ASSUME NEW w \in Workers, Start(w) PROVE Progress' /\ ReturnTruthful'
    <2>1. ProgressOf(w)
      BY DEF Progress
    <2>2. ProgressOf(w)' /\ pc'[w] # "done"
      BY <1>4, <2>1, StartAlone DEF ProgressOf, Attempting
    <2> QED  BY <1>4, <2>2, StartAlone, OthersKeep
  <1>5. ASSUME NEW w \in Workers, Continue(w) PROVE Progress' /\ ReturnTruthful'
    BY <1>5, ContinueProgress
  <1> QED  BY <1>1, <1>2, <1>3, <1>4, <1>5 DEF Next

-----------------------------------------------------------------------------
(***************************************************************************)
(* The limiters.                                                           *)
(***************************************************************************)

\* Leaving the limiter's line takes nothing from those who stay in it.
LEMMA ContinueReserved ==
    ASSUME TypeOK, Progress, Reserved, NEW w \in Workers, Continue(w)
    PROVE  Reserved'
  <1>1. Alone(w) /\ UNCHANGED <<limiters, load>>
    BY ContinueAlone
  <1>2. \A h \in Hosts : TokensOf(h)' = TokensOf(h)
    BY <1>1 DEF TokensOf
  <1>3. due'[w] = 0
    <2>1. CASE Admitted(w) \/ BackoffOver(w) \/ BackoffCut(w)
      BY <2>1 DEF Admitted, BackoffOver, BackoffCut, Progress, ProgressOf
    <2>2. CASE LimitCut(w) \/ HandOver(w)
      BY <2>2 DEF LimitCut, HandOver, Reset, TypeOK
    <2>3. CASE Fetch(w)
      BY <2>3, FetchSteps DEF Progress, ProgressOf, Attempting
    <2> QED  BY <2>1, <2>2, <2>3 DEF Continue
  <1>4. \A v \in Workers : due'[v] > 0 =>
            v # w /\ due'[v] = due[v] /\ req'[v] = req[v]
    BY <1>1, <1>3 DEF Alone
  <1>5. AdmissionsCovered'
    BY <1>1, <1>2 DEF Reserved, AdmissionsCovered
  <1>6. WaitsReserved'
    BY <1>2, <1>4 DEF Reserved, WaitsReserved
  <1>7. WaitsDiffer'
    BY <1>4 DEF Reserved, WaitsDiffer
  <1> QED  BY <1>5, <1>6, <1>7 DEF Reserved

\* The host of a worker that waits.
LEMMA WaitsForHost ==
    ASSUME TypeOK, Progress, NEW w \in Workers, due[w] > 0
    PROVE  pc[w] = "limit" /\ req[w] \in Requests /\ req[w].host \in Hosts
  BY RequestType DEF TypeOK, Progress, ProgressOf

LEMMA StartReserved ==
    ASSUME TypeOK, Progress, Reserved, NEW w \in Workers, Start(w)
    PROVE  Reserved'
  <1>1. PICK r \in Requests :
           /\ req' = [req EXCEPT ![w] = r]
           /\ limiters' = [limiters EXCEPT ![r.host] = TokensOf(r.host) - 1]
           /\ \/ /\ 0 - limiters'[r.host] <= 0
                 /\ load' = [load EXCEPT ![r.host] = @ + 1]
                 /\ UNCHANGED due
              \/ /\ 0 - limiters'[r.host] > 0
                 /\ due' = [due EXCEPT ![w] = 0 - limiters'[r.host]]
                 /\ UNCHANGED load
    BY DEF Start, Reserve
  <1> DEFINE host == r.host
             left == TokensOf(host) - 1
  <1>2. host \in Hosts /\ left \in Int /\ TokensOf(host) = left + 1
    BY RequestType, TokensType
  <1>3. limiters'[host] = left
    BY <1>1, <1>2 DEF TypeOK
  <1>4. \A h \in Hosts : TokensOf(h)' = IF h = host THEN left ELSE TokensOf(h)
    BY <1>1, <1>2 DEF TokensOf, TypeOK
  <1>5. due[w] = 0
    BY DEF Start, Progress, ProgressOf
  <1>6. \A v \in Workers \ {w} : req'[v] = req[v] /\ due'[v] = due[v]
    BY <1>1 DEF TypeOK
  <1>7. req'[w] = r
    BY <1>1 DEF TypeOK
  <1>8. \A h \in Hosts : TokensOf(h) \in Int /\ load[h] \in Nat
    BY TokensType DEF TypeOK
  <1>9. \A v \in Workers : due[v] \in Nat
    BY DEF TypeOK
  <1>10. (due' = due /\ left >= 0) \/ (left < 0 /\ due'[w] = 0 - left)
    BY <1>1, <1>2, <1>3 DEF TypeOK
  <1> HIDE DEF host, left
  <1>11. AdmissionsCovered'
    <2> SUFFICES ASSUME NEW h \in Hosts
                 PROVE  /\ TokensOf(h)' <= Burst
                        /\ load'[h] <= Burst
                        /\ TokensOf(h)' > 0 => load'[h] <= Burst - TokensOf(h)'
      BY DEF AdmissionsCovered
    <2>1. CASE h # host
      <3>1. TokensOf(h)' = TokensOf(h) /\ load'[h] = load[h]
        BY <1>1, <1>2, <1>4, <2>1 DEF TypeOK, host
      <3> QED  BY <3>1 DEF Reserved, AdmissionsCovered
    <2>2. CASE h = host
      <3>1. TokensOf(h)' = left
        BY <1>4, <2>2
      <3>2. \/ left >= 0 /\ load'[h] = load[h] + 1
            \/ left < 0 /\ load'[h] = load[h]
        BY <1>1, <1>2, <1>3, <2>2 DEF TypeOK, host
      <3>3. /\ TokensOf(h) <= Burst
            /\ load[h] <= Burst
            /\ TokensOf(h) > 0 => load[h] <= Burst - TokensOf(h)
        BY DEF Reserved, AdmissionsCovered
      <3> QED  BY <1>2, <1>8, <2>2, <3>1, <3>2, <3>3
    <2> QED  BY <2>1, <2>2
  <1>12. WaitsReserved'
    <2> SUFFICES ASSUME NEW h \in Hosts, NEW v \in Workers,
                        due'[v] > 0, req'[v].host = h
                 PROVE  due'[v] <= 0 - TokensOf(h)'
      BY DEF WaitsReserved
    <2>1. CASE v = w
      <3>1. h = host /\ left < 0 /\ due'[w] = 0 - left
        BY <1>5, <1>7, <1>10, <2>1 DEF host
      <3>2. TokensOf(h)' = left
        BY <1>4, <3>1
      <3> QED  BY <1>2, <2>1, <3>1, <3>2
    <2>2. CASE v # w
      <3>1. due'[v] = due[v] /\ req[v].host = h /\ due[v] > 0
        BY <1>6, <2>2
      <3>2. due[v] <= 0 - TokensOf(h)
        BY <3>1 DEF Reserved, WaitsReserved
      <3>3. TokensOf(h)' \in Int /\ TokensOf(h)' <= TokensOf(h)
        BY <1>2, <1>4, <1>8
      <3> QED  BY <1>8, <1>9, <3>1, <3>2, <3>3
    <2> QED  BY <2>1, <2>2
  <1>13. ASSUME NEW v \in Workers \ {w}, due'[v] > 0, req'[v].host = host
         PROVE  due'[v] # due'[w]
    <2>1. due'[v] = due[v] /\ due[v] > 0 /\ req[v].host = host
      BY <1>6, <1>13
    <2>2. due[v] <= 0 - (left + 1)
      BY <1>2, <2>1 DEF Reserved, WaitsReserved
    <2> QED  BY <1>2, <1>5, <1>9, <1>10, <2>1, <2>2
  <1>14. WaitsDiffer'
    <2> SUFFICES ASSUME NEW u \in Workers, NEW v \in Workers, due'[u] > 0,
                        due'[u] = due'[v], req'[u].host = req'[v].host
                 PROVE  u = v
      BY DEF WaitsDiffer
    <2>1. CASE u = w
      BY <1>7, <1>13, <2>1 DEF host
    <2>2. CASE v = w
      BY <1>7, <1>13, <2>2 DEF host
    <2>3. CASE u # w /\ v # w
      BY <1>6, <2>3 DEF Reserved, WaitsDiffer
    <2> QED  BY <2>1, <2>2, <2>3
  <1> QED  BY <1>11, <1>12, <1>14 DEF Reserved

\* A tick admits at most one of those who wait for a host, and none but the
\* head of the line.
LEMMA OneAdmitted ==
    ASSUME TypeOK, Reserved, NEW h \in Hosts
    PROVE  \/ Cardinality(AdmittedBy(h)) = 0
           \/ Cardinality(AdmittedBy(h)) = 1 /\ TokensOf(h) < 0
  <1>1. CASE AdmittedBy(h) = {}
    BY <1>1, FS_EmptySet
  <1>2. CASE AdmittedBy(h) # {}
    <2>1. PICK v \in Workers : due[v] = 1 /\ req[v].host = h
      BY <1>2 DEF AdmittedBy
    <2>2. AdmittedBy(h) = {v}
      BY <2>1 DEF AdmittedBy, Reserved, WaitsDiffer
    <2>3. Cardinality(AdmittedBy(h)) = 1
      BY <2>2, FS_Singleton
    <2>4. 1 <= 0 - TokensOf(h)
      BY <2>1 DEF Reserved, WaitsReserved
    <2> QED  BY <2>3, <2>4, TokensType
  <1> QED  BY <1>1, <1>2

LEMMA TickReserved ==
    ASSUME TypeOK, Progress, Reserved, Tick
    PROVE  Reserved'
  <1>1. \A h \in Hosts : TokensOf(h) \in Int /\ load[h] \in Nat
    BY TokensType DEF TypeOK
  <1>2. \A h \in Hosts :
            TokensOf(h)' = IF TokensOf(h) = Burst THEN Burst ELSE TokensOf(h) + 1
    BY DEF Tick, TokensOf, TypeOK
  <1>3. \A v \in Workers :
            /\ due[v] \in Nat
            /\ due'[v] = IF due[v] > 0 THEN due[v] - 1 ELSE 0
            /\ req'[v] = req[v]
    BY DEF Tick, TypeOK
  <1>4. AdmissionsCovered'
    <2> SUFFICES ASSUME NEW h \in Hosts
                 PROVE  /\ TokensOf(h)' <= Burst
                        /\ load'[h] <= Burst
                        /\ TokensOf(h)' > 0 => load'[h] <= Burst - TokensOf(h)'
      BY DEF AdmissionsCovered
    <2>1. load'[h] = (IF load[h] > 0 THEN load[h] - 1 ELSE 0)
                     + Cardinality(AdmittedBy(h))
      BY DEF Tick
    <2>2. /\ TokensOf(h) <= Burst
          /\ load[h] <= Burst
          /\ TokensOf(h) > 0 => load[h] <= Burst - TokensOf(h)
      BY DEF Reserved, AdmissionsCovered
    <2>3. TokensOf(h)' = IF TokensOf(h) = Burst THEN Burst ELSE TokensOf(h) + 1
      BY <1>2
    <2>4. CASE Cardinality(AdmittedBy(h)) = 0
      BY <1>1, <2>1, <2>2, <2>3, <2>4
    <2>5. CASE Cardinality(AdmittedBy(h)) = 1 /\ TokensOf(h) < 0
      BY <1>1, <2>1, <2>2, <2>3, <2>5
    <2> QED  BY <2>4, <2>5, OneAdmitted
  <1>5. WaitsReserved'
    <2> SUFFICES ASSUME NEW h \in Hosts, NEW v \in Workers,
                        due'[v] > 0, req'[v].host = h
                 PROVE  due'[v] <= 0 - TokensOf(h)'
      BY DEF WaitsReserved
    <2>1. due[v] > 0 /\ due'[v] = due[v] - 1 /\ req[v].host = h
      BY <1>3
    <2>2. due[v] <= 0 - TokensOf(h)
      BY <2>1 DEF Reserved, WaitsReserved
    <2>3. TokensOf(h)' = TokensOf(h) + 1
      BY <1>1, <1>2, <1>3, <2>1, <2>2
    <2> QED  BY <1>1, <1>3, <2>1, <2>2, <2>3
  <1>6. WaitsDiffer'
    <2> SUFFICES ASSUME NEW u \in Workers, NEW v \in Workers, due'[u] > 0,
                        due'[u] = due'[v], req'[u].host = req'[v].host
                 PROVE  u = v
      BY DEF WaitsDiffer
    <2>1. due[u] > 0 /\ due[u] = due[v] /\ req[u].host = req[v].host
      BY <1>3
    <2> QED  BY <2>1 DEF Reserved, WaitsDiffer
  <1> QED  BY <1>4, <1>5, <1>6 DEF Reserved

LEMMA StepReserved ==
    ASSUME TypeOK, Progress, Reserved, [Next]_vars
    PROVE  Reserved'
  <1>1. CASE Cancel \/ UNCHANGED vars
    <2>1. UNCHANGED <<limiters, load, due, req>>
      BY <1>1 DEF Cancel, vars
    <2>2. \A h \in Hosts : TokensOf(h)' = TokensOf(h)
      BY <2>1 DEF TokensOf
    <2>3. AdmissionsCovered' /\ WaitsReserved'
      BY <2>1, <2>2 DEF Reserved, AdmissionsCovered, WaitsReserved
    <2>4. WaitsDiffer'
      BY <2>1 DEF Reserved, WaitsDiffer
    <2> QED  BY <2>3, <2>4 DEF Reserved
  <1> QED  BY <1>1, StartReserved, ContinueReserved, TickReserved DEF Next

LEMMA StepType ==
    ASSUME TypeOK, NoSlotLeaked, [Next]_vars
    PROVE  TypeOK'
  <1>1. CASE Cancel \/ UNCHANGED vars
    BY <1>1 DEF Cancel, vars, TypeOK, fetching
  <1> QED  BY <1>1, StartType, TickType, ContinueType DEF Next

-----------------------------------------------------------------------------
(***************************************************************************)
(* The theorems.                                                           *)
(***************************************************************************)

\* However many workers share the limiters and the semaphore, and whenever
\* the pool's context is cancelled, each part of the invariant keeps.
THEOREM ScrapeInductive == Spec => []IInv
  <1>1. Init => IInv
    BY InitInv
  <1>2. IInv /\ [Next]_vars => IInv'
    BY StepType, StepSlots, StepProgress, StepReserved DEF IInv
  <1> QED  BY <1>1, <1>2, PTL DEF Spec

\* Browser slots are neither lost nor handed out twice (fetcher.go
\* 107-113).
THEOREM SlotsSafe == Spec => []NoSlotLeaked
  <1>1. IInv => NoSlotLeaked
    BY DEF IInv
  <1> QED  BY <1>1, ScrapeInductive, PTL

\* What executeWithRetry returns is what its attempts were
\* (cmd/worker/main.go 207-228).
THEOREM ReturnSafe == Spec => []ReturnTruthful
  <1>1. IInv => ReturnTruthful
    BY DEF IInv
  <1> QED  BY <1>1, ScrapeInductive, PTL

\* No host is scraped faster than its limiter allows
\* (cmd/worker/main.go 41-56).
THEOREM RateSafe == Spec => []AdmissionsBounded
  <1>1. IInv => AdmissionsBounded
    BY DEF IInv, Reserved, AdmissionsCovered, AdmissionsBounded
  <1> QED  BY <1>1, ScrapeInductive, PTL
-----------------------------------------------------------------------------
(***************************************************************************)
(* The variant.                                                            *)
(***************************************************************************)
LEMMA FirstThatDiffers ==
    ASSUME NEW a, NEW b, NEW c, NEW d, NEW e, NEW f,
           a < d \/ (a = d /\ b < e) \/ (a = d /\ b = e /\ c < f)
    PROVE  Below(<<a, b, c>>, <<d, e, f>>)
<1> DEFINE r == <<a, b, c>>
           s == <<d, e, f>>
<1>1. /\ r[1] = a /\ r[2] = b /\ r[3] = c /\ s[1] = d /\ s[2] = e /\ s[3] = f
      /\ DOMAIN s = {1, 2, 3}
  <2>1. 1..3 = {1, 2, 3}
    OBVIOUS
  <2> QED BY <2>1
<1>2. 1..(1 - 1) = {} /\ 1..(2 - 1) = {1} /\ 1..(3 - 1) = {1, 2}
  OBVIOUS
<1> HIDE DEF r, s
<1>3. CASE a < d
  <2>1. 1 \in DOMAIN s /\ r[1] < s[1] /\ \A k \in 1..(1 - 1) : r[k] = s[k]
    BY <1>1, <1>2, <1>3
  <2> QED BY <2>1 DEF Below, r, s
<1>4. CASE a = d /\ b < e
  <2>1. 2 \in DOMAIN s /\ r[2] < s[2] /\ \A k \in 1..(2 - 1) : r[k] = s[k]
    BY <1>1, <1>2, <1>4
  <2> QED BY <2>1 DEF Below, r, s
<1>5. CASE a = d /\ b = e /\ c < f
  <2>1. 3 \in DOMAIN s /\ r[3] < s[3] /\ \A k \in 1..(3 - 1) : r[k] = s[k]
    BY <1>1, <1>2, <1>5
  <2> QED BY <2>1 DEF Below, r, s
<1> QED BY <1>3, <1>4, <1>5


LEMMA RankType == IInv => \A w \in Workers : Rank(w) \in Nat \X Nat \X Nat
<1> SUFFICES ASSUME IInv, NEW w \in Workers PROVE Rank(w) \in Nat \X Nat \X Nat
  OBVIOUS
<1>1. /\ pc[w] \in {"idle", "limit", "resolve", "http", "slot", "render",
                    "parse", "backoff", "done"}
      /\ Len(made[w]) \in Nat /\ via[w] \in 0..RedirectLimit
      /\ pc[w] = "limit" => Len(made[w]) = 0
  BY DEF IInv, TypeOK, Progress, ProgressOf
<1>2. Stage(w) \in Nat
  BY <1>1 DEF Stage
<1>3. RedirectLimit - via[w] \in Nat
  BY <1>1
<1>4. AttemptsLeft(w) \in Nat
  <2>1. CASE pc[w] = "idle"
    BY <2>1 DEF AttemptsLeft
  <2>2. CASE pc[w] # "idle"
    <3>1. req[w].retries \in Nat
      BY <2>2, RequestType DEF IInv, Progress, ProgressOf
    <3>2. Len(made[w]) <= req[w].retries
      BY <1>1, <2>2, <3>1 DEF IInv, Progress, ProgressOf, Attempting,
                              ReturnTruthful, Told
    <3> QED BY <1>1, <2>2, <3>1, <3>2 DEF AttemptsLeft
  <2> QED BY <2>1, <2>2
<1> QED BY <1>2, <1>3, <1>4 DEF Rank

\* The step of a busy worker.
LEMMA ContinueLowers ==
    ASSUME IInv, NEW w \in Workers, Continue(w)
    PROVE  Below(Rank(w)', Rank(w))
<1>1. /\ TypeOK
      /\ ProgressOf(w)
      /\ pc[w] = "done" => Told(w)
      /\ Rank(w) \in Nat \X Nat \X Nat
      /\ Len(made[w]) \in Nat /\ via[w] \in 0..RedirectLimit
  BY RankType DEF IInv, TypeOK, Progress, ReturnTruthful
<1>2. AttemptsLeft(w) \in Nat
  BY <1>1 DEF Rank
<1>3. \/ AttemptsLeft(w)' < AttemptsLeft(w)
      \/ AttemptsLeft(w)' = AttemptsLeft(w) /\ Stage(w)' < Stage(w)
      \/ /\ AttemptsLeft(w)' = AttemptsLeft(w) /\ Stage(w)' = Stage(w)
         /\ RedirectLimit - via'[w] < RedirectLimit - via[w]
  <2>1. CASE LimitCut(w) \/ HandOver(w)
    <3>1. pc[w] \in {"limit", "done"} /\ pc'[w] = "idle"
      BY <1>1, <2>1 DEF LimitCut, HandOver, Reset, TypeOK
    <3>2. AttemptsLeft(w)' = 0
      BY <3>1 DEF AttemptsLeft
    <3>3. Stage(w)' < Stage(w)
      BY <3>1 DEF Stage
    <3> QED BY <1>2, <3>2, <3>3
  <2>2. CASE \E outcome : EndAttempt(w, outcome) /\ UNCHANGED req
    <3>0. pc[w] # "idle"
      BY <2>2 DEF Continue, Admitted, LimitCut, HandOver, BackoffOver, BackoffCut,
            Fetch, URLRefused, LookupFails, ResolveWorks, NoBrowser, HttpWorks, HttpFails,
            Redirected, RedirectRefused, TakeSlot, SlotCut, RenderWorks,
            RenderFails, ParseWorks, ParseFails
    <3>1. PICK outcome : EndAttempt(w, outcome) /\ req' = req
      BY <2>2
    <3>2. made'[w] = Append(made[w], outcome) /\ pc'[w] \in {"backoff", "done"}
      BY <1>1, <3>1 DEF EndAttempt, Goto, Return, TypeOK
    <3>3. made[w] \in Seq(Outcome)
      BY <1>1 DEF TypeOK
    <3>4. Len(made'[w]) = Len(made[w]) + 1
      BY <3>2, <3>3
    <3>5. req[w].retries \in Nat
      BY <1>1, <3>0, RequestType DEF ProgressOf
    <3>6. /\ AttemptsLeft(w) = req[w].retries - Len(made[w])
          /\ AttemptsLeft(w)' = req[w].retries - Len(made'[w])
      BY <3>0, <3>1, <3>2 DEF AttemptsLeft
    <3> QED BY <1>1, <3>4, <3>5, <3>6
  <2>3. CASE /\ UNCHANGED <<req, made>>
             /\ \/ pc[w] = "limit" /\ pc'[w] \in {"resolve", "done"}
                \/ pc[w] = "backoff" /\ pc'[w] \in {"resolve", "done"}
                \/ pc[w] = "resolve" /\ pc'[w] \in {"http", "slot"}
                \/ pc[w] = "http" /\ pc'[w] = "parse"
                \/ pc[w] = "slot" /\ pc'[w] = "render"
                \/ pc[w] = "render" /\ pc'[w] = "parse"
    <3>1. AttemptsLeft(w)' = AttemptsLeft(w)
      BY <2>3 DEF AttemptsLeft
    <3>2. Stage(w)' < Stage(w)
      BY <2>3 DEF Stage
    <3> QED BY <3>1, <3>2
  <2>4. CASE Redirected(w)
    <3>1. AttemptsLeft(w)' = AttemptsLeft(w) /\ Stage(w)' = Stage(w)
      BY <2>4 DEF Redirected, AttemptsLeft, Stage
    <3>2. via'[w] = via[w] + 1
      BY <1>1, <2>4 DEF Redirected, TypeOK
    <3> QED BY <1>1, <3>1, <3>2
  <2>5. CASE Admitted(w) \/ BackoffOver(w) \/ BackoffCut(w)
    BY <1>1, <2>3, <2>5 DEF Admitted, BackoffOver, BackoffCut, Goto, Return, TypeOK
  <2>6. CASE ResolveWorks(w) \/ HttpWorks(w) \/ TakeSlot(w) \/ RenderWorks(w)
    BY <1>1, <2>3, <2>6 DEF ResolveWorks, HttpWorks, TakeSlot, RenderWorks, Goto,
                            TypeOK, fetching
  <2>7. CASE URLRefused(w) \/ LookupFails(w) \/ NoBrowser(w) \/ HttpFails(w)
               \/ SlotCut(w) \/ ParseWorks(w) \/ ParseFails(w) \/ RedirectRefused(w)
               \/ RenderFails(w)
    BY <2>2, <2>7 DEF URLRefused, LookupFails, NoBrowser, HttpFails, SlotCut, ParseWorks,
                      ParseFails, RedirectRefused, RenderFails
  <2> QED BY <2>1, <2>4, <2>5, <2>6, <2>7 DEF Continue, Fetch
<1> QED BY <1>3, FirstThatDiffers DEF Rank

\* The steps of the others.
LEMMA OthersLeaveRank ==
    ASSUME IInv, NEW w \in Workers, [Next]_vars, ~Continue(w), ~Start(w)
    PROVE  Rank(w)' = Rank(w)
<1>1. TypeOK
  BY DEF IInv
<1>2. /\ pc'[w] = pc[w] /\ req'[w] = req[w] /\ made'[w] = made[w]
      /\ via'[w] = via[w]
  <2>1. CASE \E v \in Workers : Continue(v)
    <3>1. PICK v \in Workers : Continue(v)
      BY <2>1
    <3>2. v # w
      BY <3>1
    <3>3. Alone(v)
      BY <1>1, <3>1, ContinueAlone
    <3>4. via'[w] = via[w]
      BY <1>1, <3>1, <3>2
         DEF TypeOK, Continue, Admitted, LimitCut, HandOver, Reset, BackoffOver,
             BackoffCut, Fetch, URLRefused, LookupFails, ResolveWorks, NoBrowser, HttpWorks,
             HttpFails, Redirected, RedirectRefused, TakeSlot, SlotCut,
             RenderWorks, RenderFails, ParseWorks, ParseFails, fetching
    <3> QED BY <3>2, <3>3, <3>4 DEF Alone
  <2>2. CASE \E v \in Workers : Start(v)
    BY <1>1, <2>2 DEF Start, TypeOK, fetching
  <2>3. CASE Tick \/ Cancel \/ UNCHANGED vars
    BY <2>3 DEF Tick, Cancel, vars, fetching
  <2> QED BY <2>1, <2>2, <2>3 DEF Next
<1> QED BY <1>2 DEF Rank, AttemptsLeft, Stage

\* Every step of a busy worker brings the end of its scrape nearer, however
\* many attempts and redirects it has; nobody else puts that end off.
THEOREM ScrapeWindsDown == Spec => WindsDown
<1>1. IInv /\ [Next]_vars =>
         \A w \in Workers :
             IF Continue(w) THEN Below(Rank(w)', Rank(w))
             ELSE Start(w) \/ Rank(w)' = Rank(w)
  BY ContinueLowers, OthersLeaveRank
<1> QED BY <1>1, RankType, ScrapeInductive, PTL DEF Spec, WindsDown
=============================================================================
