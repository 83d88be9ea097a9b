--------------------------- MODULE LifecycleProofs ---------------------------
(***************************************************************************)
(* JobPipeline implements JobLifecycle, and strands a job only where       *)
(* something fails.  Both follow from the inductive invariant of           *)
(* JobPipelineProofs and from one lemma that says what a step may do to    *)
(* the rows and to the hands of the workers.                               *)
(***************************************************************************)
EXTENDS JobPipelineProofs

OwnersOf(j) == {w \in Workers : held[w] = j /\ Owns(w)}

\* The rows and the hands of the workers but w are as before.
OnlyRow(j)   == \A k \in Jobs \ {j} : rows'[k] = rows[k]
OnlyHands(w) == \A v \in Workers \ {w} : pc'[v] = pc[v] /\ held'[v] = held[v]

\* The five things a step may do, seen from the rows and the hands.
HandsEmptied ==
    /\ rows' = rows
    /\ \A j \in Jobs : OwnersOf(j)' \subseteq OwnersOf(j)

RowInserted(j) ==
    /\ rows[j] = NoRow /\ rows'[j] = InsertRow /\ OnlyRow(j)
    /\ UNCHANGED <<pc, held>>

RowCancelled(j) ==
    /\ rows[j].status = "queued" /\ rows'[j] = CancelRow(rows[j]) /\ OnlyRow(j)
    /\ UNCHANGED <<pc, held>>

RowClaimed(j, w) ==
    /\ pc[w] = "claim" /\ held[w] = j /\ OnlyHands(w)
    /\ rows[j].status = "queued" /\ rows'[j] = ClaimRow(rows[j]) /\ OnlyRow(j)
    /\ \/ pc'[w] \in {"wait", "run"} /\ held'[w] = j
       \/ pc'[w] = "loop"

RowSettled(j, w) ==
    /\ pc[w] = "persist" /\ held[w] = j /\ OnlyHands(w) /\ pc'[w] = "loop"
    /\ out[w] \in Results \ {NilOutcome}
    /\ rows'[j] = ResultRow(rows[j], out[w]) /\ OnlyRow(j)

\* Whatever a worker does short of claiming and persisting, nobody comes to
\* own a job.
LEMMA WorkEmptiesHands ==
    ASSUME IInv, NEW w \in Workers, Work(w), rows' = rows
    PROVE  HandsEmptied
<1>1. SUFFICES \A v \in Workers : Owns(v)' => Owns(v) /\ held'[v] = held[v]
  BY <1>1 DEF HandsEmptied, OwnersOf
<1>2. CASE PanicOnNilResult(w)
  BY <1>2 DEF PanicOnNilResult, Die, IInv, TypeOK, Owns
<1>3. CASE ~PanicOnNilResult(w)
  <2>1. OnlyHands(w)
    BY <1>3 DEF Work, CheckCtx, Dequeue, DequeueEmpty, DequeueError, Claim,
       RateWait, Execute, Persist, Goto, Return, OnlyHands, IInv, TypeOK
  <2>2. Owns(w)' => Owns(w) /\ held'[w] = held[w]
    <3>1. CASE Claim(w)
      <4>1. held[w] \in Jobs
        BY <3>1 DEF Claim, IInv, TypeOK, Hands
      <4>2. Claimable(rows[held[w]]) =>
               rows # [rows EXCEPT ![held[w]] = ClaimRow(@)]
        BY <4>1, RowFacts DEF Claimable, IInv, TypeOK
      <4>3. Return(w)
        BY <3>1, <4>2 DEF Claim
      <4> QED BY <4>3 DEF Return, Goto, Owns, IInv, TypeOK
    <3>2. CASE Persist(w)
      BY <3>2 DEF Persist, Return, Goto, Owns, IInv, TypeOK
    <3>3. CASE RateWait(w) \/ Execute(w)
      BY <3>3 DEF RateWait, Execute, Return, Goto, Owns, IInv, TypeOK
    <3>4. CASE CheckCtx(w) \/ Dequeue(w) \/ DequeueEmpty(w) \/ DequeueError(w)
      BY <3>4 DEF CheckCtx, Dequeue, DequeueEmpty, DequeueError, Goto, Owns,
         IInv, TypeOK
    <3> QED BY <1>3, <3>1, <3>2, <3>3, <3>4 DEF Work
  <2> QED BY <2>1, <2>2 DEF OnlyHands, Owns
<1> QED BY <1>2, <1>3

\* A step of JobPipeline does one of the five things.
LEMMA StepKinds ==
    ASSUME IInv, [Next]_vars
    PROVE  \/ HandsEmptied
           \/ \E j \in Jobs : RowInserted(j) \/ RowCancelled(j)
           \/ \E j \in Jobs, w \in Workers : RowClaimed(j, w) \/ RowSettled(j, w)
<1>1. CASE UNCHANGED vars
  BY <1>1 DEF vars, HandsEmptied, OwnersOf, Owns
<1>2. ASSUME NEW j \in Jobs, Post(j) PROVE HandsEmptied \/ RowInserted(j)
  <2>1. UNCHANGED <<pc, held>>
    BY <1>2 DEF Post, CreateJob, Enqueue, Respond, worker
  <2>2. CASE rows' = rows
    BY <2>1, <2>2 DEF HandsEmptied, OwnersOf, Owns
  <2>3. CASE rows' # rows
    <3>1. rows[j] = NoRow /\ rows' = [rows EXCEPT ![j] = InsertRow]
      BY <1>2, <2>3 DEF Post, CreateJob, Enqueue, Respond, IInv, Progress
    <3> QED BY <2>1, <3>1 DEF RowInserted, OnlyRow, IInv, TypeOK
  <2> QED BY <2>2, <2>3
<1>3. ASSUME NEW d \in Deleters, Delete(d)
      PROVE  HandsEmptied \/ \E j \in Jobs : RowCancelled(j)
  <2>1. UNCHANGED <<pc, held>>
    BY <1>3 DEF Delete, DeleteUpdate, DeleteSelect, worker
  <2>2. CASE rows' = rows
    BY <2>1, <2>2 DEF HandsEmptied, OwnersOf, Owns
  <2>3. CASE rows' # rows
    <3>1. PICK j \in Jobs : DeleteUpdate(d, j)
      BY <1>3, <2>3 DEF Delete, DeleteSelect
    <3>2. /\ rows[j].status = "queued"
          /\ rows' = [rows EXCEPT ![j] = CancelRow(rows[j])]
      BY <2>3, <3>1 DEF DeleteUpdate, Cancellable
    <3> QED BY <2>1, <3>2 DEF RowCancelled, OnlyRow, IInv, TypeOK
  <2> QED BY <2>2, <2>3
<1>4. CASE ApiCrash
  BY <1>4 DEF ApiCrash, worker, HandsEmptied, OwnersOf, Owns
<1>5. ASSUME NEW p \in Procs, Manage(p) PROVE HandsEmptied
  <2>1. rows' = rows
    BY <1>5 DEF Manage, Crash, Stop, StopDone, Restart
  <2>2. \A v \in Workers : Owns(v)' => Owns(v) /\ held'[v] = held[v]
    BY <1>5 DEF Manage, Crash, Die, Stop, StopDone, Restart, worker, Owns,
       IInv, TypeOK
  <2> QED BY <2>1, <2>2 DEF HandsEmptied, OwnersOf
<1>6. ASSUME NEW w \in Workers, Work(w)
      PROVE  HandsEmptied \/ \E j \in Jobs : RowClaimed(j, w) \/ RowSettled(j, w)
  <2>1. CASE rows' = rows
    BY <1>6, <2>1, WorkEmptiesHands
  <2>2. CASE rows' # rows
    <3>1. Claim(w) \/ Persist(w)
      BY <1>6, <2>2 DEF Work, CheckCtx, Dequeue, DequeueEmpty, DequeueError,
         RateWait, Execute, PanicOnNilResult
    <3>2. held[w] \in Jobs
      BY <3>1 DEF Claim, Persist, IInv, TypeOK, Hands
    <3>3. CASE Claim(w)
      BY <2>2, <3>2, <3>3 DEF Claim, Claimable, Goto, Return, RowClaimed,
         OnlyHands, OnlyRow, IInv, TypeOK
    <3>4. CASE Persist(w)
      BY <2>2, <3>2, <3>4 DEF Persist, Goto, Return, RowSettled, OnlyHands,
         OnlyRow, IInv, TypeOK, Hands
    <3> QED BY <3>1, <3>2, <3>3, <3>4
  <2> QED BY <2>1, <2>2
<1> QED BY <1>1, <1>2, <1>3, <1>4, <1>5, <1>6 DEF Next

-----------------------------------------------------------------------------
(***************************************************************************)
(* The refinement.                                                         *)
(***************************************************************************)


ExecutorsKnown ==
    \A j \in Jobs : /\ OwnersOf(j) = {} => ExecutorOf(j) = None
                    /\ \A w \in OwnersOf(j) : OwnersOf(j) = {w} /\ ExecutorOf(j) = w

\* The executor of a job is its only owner.
LEMMA ExecutorMeaning == IInv => ExecutorsKnown
<1> SUFFICES ASSUME IInv, NEW j \in Jobs
             PROVE  /\ OwnersOf(j) = {} => ExecutorOf(j) = None
                    /\ \A w \in OwnersOf(j) : OwnersOf(j) = {w} /\ ExecutorOf(j) = w
  BY DEF ExecutorsKnown
<1>1. OwnersOf(j) = {} => ExecutorOf(j) = None
  BY DEF OwnersOf, ExecutorOf
<1>2. ASSUME NEW w \in OwnersOf(j)
      PROVE  OwnersOf(j) = {w} /\ ExecutorOf(j) = w
  <2>1. OwnersOf(j) = {w}
    BY DEF OwnersOf, IInv, OneOwner
  <2>2. ExecutorOf(j) = CHOOSE v \in {w} : TRUE
    BY <2>1 DEF OwnersOf, ExecutorOf
  <2> QED BY <2>1, <2>2
<1> QED BY <1>1, <1>2

\* In the next state as well, and a job nobody executes has executor None.
LEMMA ExecutorStep ==
    ASSUME IInv, IInv', NEW j \in Jobs
    PROVE  /\ ExecutorOf(j) = None <=> OwnersOf(j) = {}
           /\ \A w \in Workers : ExecutorOf(j) = w <=> w \in OwnersOf(j)
           /\ ExecutorOf(j)' = None <=> OwnersOf(j)' = {}
           /\ \A w \in Workers : ExecutorOf(j)' = w <=> w \in OwnersOf(j)'
<1>1. ExecutorsKnown
  BY ExecutorMeaning
<1>2. ExecutorsKnown'
  BY ExecutorMeaning, PTL
<1>3. OwnersOf(j) \subseteq Workers /\ OwnersOf(j)' \subseteq Workers
  BY DEF OwnersOf
<1>4. \A w \in Workers : w # None
  BY NoneAssumption DEF NoneAssumption
<1> QED BY <1>1, <1>2, <1>3, <1>4 DEF ExecutorsKnown

\* The phase of a row that no DELETE cancelled is its status.
PhaseOfRow(row) ==
    IF row.status = "failed" /\ row.error = "cancelled" THEN "cancelled" ELSE row.status

LEMMA PhaseStep ==
    ASSUME NEW j \in Jobs
    PROVE  PhaseOf(j) = PhaseOfRow(rows[j]) /\ PhaseOf(j)' = PhaseOfRow(rows'[j])
  BY DEF PhaseOf, Cancelled, PhaseOfRow

\* What the statements do to the phase.
LEMMA PhaseFacts ==
    /\ PhaseOfRow(NoRow) = "absent" /\ PhaseOfRow(InsertRow) = "queued"
    /\ \A row \in Row :
          row.status = "queued" =>
             /\ PhaseOfRow(row) = "queued"
             /\ PhaseOfRow(CancelRow(row)) = "cancelled"
             /\ PhaseOfRow(ClaimRow(row)) = "processing"
    /\ \A row \in Row, o \in Results \ {NilOutcome} :
          row.status = "processing" /\ row.error = "none" =>
             /\ PhaseOfRow(row) = "processing"
             /\ PhaseOfRow(ResultRow(row, o)) \in {"completed", "failed"}
  BY RowFacts DEF PhaseOfRow

Phases    == [j \in Jobs |-> PhaseOf(j)]
Executors == [j \in Jobs |-> ExecutorOf(j)]

\* One phase changes where one row does.
LEMMA PhaseMove ==
    ASSUME NEW j \in Jobs, OnlyRow(j), NEW from, NEW to,
           PhaseOfRow(rows[j]) = from, PhaseOfRow(rows'[j]) = to
    PROVE  Phases[j] = from /\ Phases' = [Phases EXCEPT ![j] = to]
<1>1. \A k \in Jobs : PhaseOf(k) = PhaseOfRow(rows[k]) /\ PhaseOf(k)' = PhaseOfRow(rows'[k])
  BY PhaseStep
<1>2. \A k \in Jobs \ {j} : PhaseOf(k)' = PhaseOf(k)
  BY <1>1 DEF OnlyRow
<1> QED BY <1>1, <1>2 DEF Phases

\* Where no owner is gained and the rows stay, workers abandon jobs at most.
LEMMA EmptiedRefines ==
    ASSUME IInv, IInv', HandsEmptied
    PROVE  L!Abandon
<1>1. Phases' = Phases
  <2>1. \A k \in Jobs : PhaseOf(k)' = PhaseOf(k)
    BY PhaseStep DEF HandsEmptied
  <2> QED BY <2>1 DEF Phases
<1>2. \A j \in Jobs : ExecutorOf(j)' = ExecutorOf(j) \/ ExecutorOf(j)' = None
  <2> SUFFICES ASSUME NEW j \in Jobs, ExecutorOf(j)' # None
               PROVE  ExecutorOf(j)' = ExecutorOf(j)
    OBVIOUS
  <2>1. PICK w \in OwnersOf(j)' : TRUE
    BY ExecutorStep
  <2>2. w \in Workers /\ w \in OwnersOf(j)
    BY <2>1 DEF HandsEmptied, OwnersOf
  <2> QED BY <2>1, <2>2, ExecutorStep
<1>3. \E gone \in SUBSET {j \in Jobs : Executors[j] # None} :
         Executors' = [j \in Jobs |-> IF j \in gone THEN None ELSE Executors[j]]
  <2> DEFINE gone == {j \in Jobs : ExecutorOf(j) # None /\ ExecutorOf(j)' = None}
  <2>1. gone \in SUBSET {j \in Jobs : Executors[j] # None}
    BY DEF Executors
  <2>2. Executors' = [j \in Jobs |-> IF j \in gone THEN None ELSE Executors[j]]
    BY <1>2 DEF Executors
  <2> QED BY <2>1, <2>2
<1> QED BY <1>1, <1>3 DEF L!Abandon, Phases, Executors

\* Where neither pc nor hands change, nor do the executors.
LEMMA SameExecutors ==
    ASSUME UNCHANGED <<pc, held>>
    PROVE  Executors' = Executors
  BY DEF Executors, ExecutorOf, Owns

LEMMA InsertedRefines ==
    ASSUME IInv, NEW j \in Jobs, RowInserted(j)
    PROVE  L!Accept(j)
<1>1. Phases[j] = "absent" /\ Phases' = [Phases EXCEPT ![j] = "queued"]
  BY PhaseMove, PhaseFacts DEF RowInserted
<1>2. Executors' = Executors
  BY SameExecutors DEF RowInserted
<1> QED BY <1>1, <1>2 DEF L!Accept, L!Move, Phases, Executors

LEMMA CancelledRefines ==
    ASSUME IInv, NEW j \in Jobs, RowCancelled(j)
    PROVE  L!Cancel(j)
<1>0. rows[j] \in Row
  BY DEF IInv, TypeOK
<1>1. Phases[j] = "queued" /\ Phases' = [Phases EXCEPT ![j] = "cancelled"]
  BY <1>0, PhaseMove, PhaseFacts DEF RowCancelled
<1>2. Executors' = Executors
  BY SameExecutors DEF RowCancelled
<1> QED BY <1>1, <1>2 DEF L!Cancel, L!Move, Phases, Executors

\* A claim starts a job on a worker that has none, or marks it for nobody.
LEMMA ClaimedRefines ==
    ASSUME IInv, IInv', NEW j \in Jobs, NEW w \in Workers, RowClaimed(j, w)
    PROVE  L!Start(j, w) \/ L!StartUnaware(j)
<1>0. rows[j] \in Row
  BY DEF IInv, TypeOK
<1>1. Phases[j] = "queued" /\ Phases' = [Phases EXCEPT ![j] = "processing"]
  BY <1>0, PhaseMove, PhaseFacts DEF RowClaimed
<1>2. \A k \in Jobs : ExecutorOf(k) # w
  BY ExecutorStep DEF RowClaimed, OwnersOf, Owns
<1>3. OwnersOf(j) = {}
  <2>1. \A v \in Workers : Owns(v) /\ held[v] = j => rows[j].status = "processing"
    BY DEF IInv, OwnedIsProcessing
  <2> QED BY <2>1 DEF RowClaimed, OwnersOf
<1>4. \A k \in Jobs : OwnersOf(k) \ {w} = OwnersOf(k)' \ {w}
  BY DEF RowClaimed, OnlyHands, OwnersOf, Owns
<1>5. \A k \in Jobs : w \notin OwnersOf(k)
  BY DEF RowClaimed, OwnersOf, Owns
<1>6. CASE pc'[w] \in {"wait", "run"} /\ held'[w] = j
  <2>1. /\ w \in OwnersOf(j)'
        /\ \A k \in Jobs \ {j} : OwnersOf(k)' = OwnersOf(k)
    BY <1>4, <1>5, <1>6 DEF OwnersOf, Owns
  <2>2. /\ ExecutorOf(j)' = w
        /\ \A k \in Jobs \ {j} : ExecutorOf(k)' = ExecutorOf(k)
    <3>1. ExecutorOf(j)' = w
      BY <2>1, ExecutorStep
    <3>2. ASSUME NEW k \in Jobs \ {j} PROVE ExecutorOf(k)' = ExecutorOf(k)
      <4>1. CASE OwnersOf(k) = {}
        BY <2>1, <4>1, ExecutorStep
      <4>2. ASSUME NEW v \in OwnersOf(k) PROVE ExecutorOf(k)' = ExecutorOf(k)
        <5>1. v \in Workers /\ v \in OwnersOf(k)'
          BY <2>1 DEF OwnersOf
        <5> QED BY <5>1, ExecutorStep
      <4> QED BY <4>1, <4>2
    <3> QED BY <3>1, <3>2
  <2>3. Executors' = [Executors EXCEPT ![j] = w]
    BY <2>2 DEF Executors
  <2> QED BY <1>1, <1>2, <2>3 DEF L!Start, L!Move, Phases, Executors
<1>7. CASE pc'[w] = "loop"
  <2>1. \A k \in Jobs : OwnersOf(k)' = OwnersOf(k)
    BY <1>4, <1>5, <1>7 DEF OwnersOf, Owns
  <2>2. ASSUME NEW k \in Jobs PROVE ExecutorOf(k)' = ExecutorOf(k)
    <3>1. CASE OwnersOf(k) = {}
      BY <2>1, <3>1, ExecutorStep
    <3>2. ASSUME NEW v \in OwnersOf(k) PROVE ExecutorOf(k)' = ExecutorOf(k)
      <4>1. v \in Workers /\ v \in OwnersOf(k)'
        BY <2>1 DEF OwnersOf
      <4> QED BY <4>1, ExecutorStep
    <3> QED BY <3>1, <3>2
  <2>3. Executors' = Executors
    BY <2>2 DEF Executors
  <2> QED BY <1>1, <2>3 DEF L!StartUnaware, L!Move, Phases, Executors
<1> QED BY <1>6, <1>7 DEF RowClaimed

\* UpdateJob finishes the job of the one worker that executes it.
LEMMA SettledRefines ==
    ASSUME IInv, IInv', NEW j \in Jobs, NEW w \in Workers, RowSettled(j, w)
    PROVE  L!Finish(j)
<1>1. /\ rows[j] \in Row /\ rows[j].status = "processing"
      /\ rows[j].error = "none"
  BY DEF RowSettled, IInv, TypeOK, OwnedIsProcessing, Owns, PollConsistent,
     Finished, Terminal
<1>2. /\ Phases[j] = "processing"
      /\ \E to \in {"completed", "failed"} : Phases' = [Phases EXCEPT ![j] = to]
  BY <1>1, PhaseMove, PhaseFacts DEF RowSettled
<1>3. w \in OwnersOf(j) /\ OwnersOf(j) = {w}
  BY DEF RowSettled, OwnersOf, Owns, IInv, OneOwner
<1>4. OwnersOf(j)' = {} /\ \A k \in Jobs \ {j} : OwnersOf(k)' = OwnersOf(k)
  BY <1>3 DEF RowSettled, OnlyHands, OwnersOf, Owns
<1>5. ExecutorOf(j) # None /\ ExecutorOf(j)' = None
  BY <1>3, <1>4, ExecutorStep
<1>6. ASSUME NEW k \in Jobs \ {j} PROVE ExecutorOf(k)' = ExecutorOf(k)
  <2>1. CASE OwnersOf(k) = {}
    BY <1>4, <2>1, ExecutorStep
  <2>2. ASSUME NEW v \in OwnersOf(k) PROVE ExecutorOf(k)' = ExecutorOf(k)
    <3>1. v \in Workers /\ v \in OwnersOf(k)'
      BY <1>4 DEF OwnersOf
    <3> QED BY <3>1, ExecutorStep
  <2> QED BY <2>1, <2>2
<1>7. Executors[j] # None
  BY <1>5 DEF Executors
<1>8. Executors' = [Executors EXCEPT ![j] = None]
  <2>1. \A k \in Jobs : ExecutorOf(k)' = IF k = j THEN None ELSE ExecutorOf(k)
    BY <1>5, <1>6
  <2> QED BY <2>1 DEF Executors
<1> QED BY <1>2, <1>7, <1>8 DEF L!Finish, L!Move, Phases, Executors

\* Every step of JobPipeline is a step of JobLifecycle or changes nothing in
\* its state.
LEMMA StepRefines == IInv /\ IInv' /\ [Next]_vars => [L!Next]_(L!vars)
<1> SUFFICES ASSUME IInv, IInv', [Next]_vars PROVE L!Next
  OBVIOUS
<1>1. CASE HandsEmptied
  BY <1>1, EmptiedRefines DEF L!Next
<1>2. ASSUME NEW j \in Jobs, RowInserted(j) \/ RowCancelled(j) PROVE L!Next
  BY <1>2, InsertedRefines, CancelledRefines DEF L!Next
<1>3. ASSUME NEW j \in Jobs, NEW w \in Workers, RowClaimed(j, w) PROVE L!Next
  BY <1>3, ClaimedRefines DEF L!Next
<1>4. ASSUME NEW j \in Jobs, NEW w \in Workers, RowSettled(j, w) PROVE L!Next
  BY <1>4, SettledRefines DEF L!Next
<1> QED BY <1>1, <1>2, <1>3, <1>4, StepKinds

LEMMA InitRefines == Init => L!Init
<1> SUFFICES ASSUME Init PROVE L!Init
  OBVIOUS
<1>1. \A j \in Jobs : PhaseOf(j) = "absent"
  BY RowFacts DEF Init, PhaseOf, Cancelled
<1>2. \A j \in Jobs : ExecutorOf(j) = None
  BY DEF Init, ExecutorOf, Owns
<1> QED BY <1>1, <1>2 DEF L!Init

\* JobPipeline implements JobLifecycle: whatever fails, is repeated or is
\* restarted, a client that polls sees a job move from absent to queued and
\* on to its one end, executed by one worker at most.
THEOREM LifecycleImplemented == Spec => Lifecycle
<1>1. Init => L!Init
  BY InitRefines
<1>2. IInv /\ IInv' /\ [Next]_vars => [L!Next]_(L!vars)
  BY StepRefines
<1> QED BY <1>1, <1>2, Inductive, PTL DEF Spec, Lifecycle, L!Spec

-----------------------------------------------------------------------------
(***************************************************************************)
(* Who is to move a job on, and which steps take it out of his hands.      *)
(***************************************************************************)
Excused(j) ==
    \/ faults' > faults
    \/ \E w \in Workers : held[w] = j /\ proc'[Home[w]] # "up"

Awaits(w, j) == pc[w] = "claim" /\ held[w] = j

LEMMA FaultsGrow == TypeOK /\ Fault => faults' > faults
  BY DEF TypeOK, Fault

\* A handler that has written the row pushes the payload or fails.
LEMMA CreatedMovesOn ==
    ASSUME IInv, [Next]_vars, NEW j \in Jobs,
           accept[j] = "created", accept'[j] # "created", ~(faults' > faults)
    PROVE  InQueue(j)'
<1>1. ~Fault
  BY FaultsGrow DEF IInv
<1>2. \E k \in Jobs : Post(k)
  <2>1. UNCHANGED vars => accept' = accept
    BY DEF vars
  <2>2. \A d \in Deleters : Delete(d) => accept' = accept
    BY DEF Delete, DeleteUpdate, DeleteSelect
  <2>3. ~ApiCrash
    BY <1>1 DEF ApiCrash
  <2>4. \A w \in Workers : Work(w) => accept' = accept
    BY DEF Work, CheckCtx, Dequeue, DequeueEmpty, DequeueError, Claim,
       RateWait, Execute, Persist, PanicOnNilResult, api
  <2>5. \A p \in Procs : Manage(p) => accept' = accept
    BY DEF Manage, Crash, Stop, StopDone, Restart, api
  <2> QED BY <2>1, <2>2, <2>3, <2>4, <2>5 DEF Next
<1>3. PICK k \in Jobs : Post(k)
  BY <1>2
<1>4. k = j /\ Enqueue(j)
  BY <1>3 DEF Post, CreateJob, Enqueue, Respond, SetAccept, IInv, TypeOK
<1>5. queue' = Append(queue, j)
  BY <1>1, <1>4 DEF Enqueue
<1>6. Len(queue) \in Nat /\ Len(queue) + 1 \in DOMAIN Append(queue, j)
      /\ Append(queue, j)[Len(queue) + 1] = j
  BY DEF IInv, TypeOK
<1> QED BY <1>5, <1>6 DEF InQueue

\* A payload leaves Redis in the hands of a worker, or a reply was lost.
LEMMA PoppedIsHeld ==
    ASSUME IInv, [Next]_vars, NEW j \in Jobs,
           InQueue(j), ~InQueue(j)', ~(faults' > faults)
    PROVE  \E w \in Workers : Awaits(w, j)'
<1>1. ~Fault
  BY FaultsGrow DEF IInv
<1>2. queue' # queue
  BY DEF InQueue
<1>3. ASSUME NEW k \in Jobs, Post(k) PROVE FALSE
  <2>1. queue' = Append(queue, k)
    BY <1>1, <1>2, <1>3 DEF Post, CreateJob, Enqueue, Respond
  <2>2. PICK i \in DOMAIN queue : queue[i] = j
    BY DEF InQueue
  <2>3. i \in DOMAIN Append(queue, k) /\ Append(queue, k)[i] = j
    BY <2>2 DEF IInv, TypeOK
  <2> QED BY <2>1, <2>3 DEF InQueue
<1>4. ASSUME NEW w \in Workers, Work(w) PROVE Awaits(w, j)'
  <2>1. Dequeue(w)
    BY <1>1, <1>2, <1>4 DEF Work, CheckCtx, Dequeue, DequeueEmpty,
       DequeueError, CallLosesReply, Claim, RateWait, Execute, Persist,
       PanicOnNilResult
  <2>2. /\ queue # <<>> /\ queue' = Tail(queue) /\ pc'[w] = "claim"
        /\ held'[w] = Head(queue)
    BY <2>1 DEF Dequeue, Goto, IInv, TypeOK
  <2>3. PICK i \in DOMAIN queue : queue[i] = j
    BY DEF InQueue
  <2>4. i = 1
    <3>1. i # 1 => i - 1 \in DOMAIN Tail(queue) /\ Tail(queue)[i - 1] = j
      BY <2>2, <2>3 DEF IInv, TypeOK
    <3> QED BY <2>2, <3>1 DEF InQueue
  <2> QED BY <2>2, <2>3, <2>4 DEF Awaits, IInv, TypeOK
<1>5. ASSUME NEW d \in Deleters, Delete(d) PROVE FALSE
  BY <1>2, <1>5 DEF Delete, DeleteUpdate, DeleteSelect
<1>6. ASSUME NEW p \in Procs, Manage(p) PROVE FALSE
  BY <1>2, <1>6 DEF Manage, Crash, Stop, StopDone, Restart
<1>7. ~ApiCrash /\ ~UNCHANGED vars
  BY <1>2 DEF ApiCrash, vars
<1> QED BY <1>3, <1>4, <1>5, <1>6, <1>7 DEF Next

\* What a worker has at hand, to claim or to work on, the steps of others
\* leave to it unless its process dies.
LEMMA OthersKeepHands ==
    ASSUME IInv, [Next]_vars, NEW w \in Workers, ~Work(w),
           pc[w] # "stopped", held[w] \in Jobs
    PROVE  \/ pc'[w] = pc[w] /\ held'[w] = held[w]
           \/ proc'[Home[w]] # "up"
<1>0. Home[w] \in Procs
  BY HomeAssumption DEF HomeAssumption
<1>1. ASSUME NEW v \in Workers, Work(v), v # w
      PROVE  \/ pc'[w] = pc[w] /\ held'[w] = held[w]
             \/ proc'[Home[w]] # "up"
  <2>1. CASE PanicOnNilResult(v)
    BY <1>0, <2>1 DEF PanicOnNilResult, Die, IInv, TypeOK
  <2>2. CASE ~PanicOnNilResult(v)
    BY <1>1, <2>2 DEF Work, CheckCtx, Dequeue, DequeueEmpty, DequeueError,
       Claim, RateWait, Execute, Persist, Goto, Return, IInv, TypeOK
  <2> QED BY <2>1, <2>2
<1>2. ASSUME NEW p \in Procs, Manage(p)
      PROVE  \/ pc'[w] = pc[w] /\ held'[w] = held[w]
             \/ proc'[Home[w]] # "up"
  <2>1. CASE Crash(p)
    BY <1>0, <2>1 DEF Crash, Die, IInv, TypeOK
  <2>2. CASE Stop(p) \/ StopDone(p)
    BY <2>2 DEF Stop, StopDone, worker
  <2>3. CASE Restart(p)
    BY <2>3 DEF Restart, IInv, TypeOK, Exited
  <2> QED BY <1>2, <2>1, <2>2, <2>3 DEF Manage
<1>3. ASSUME NEW d \in Deleters, Delete(d) PROVE UNCHANGED <<pc, held>>
  BY <1>3 DEF Delete, DeleteUpdate, DeleteSelect, worker
<1>4. ASSUME NEW k \in Jobs, Post(k) PROVE UNCHANGED <<pc, held>>
  BY <1>4 DEF Post, CreateJob, Enqueue, Respond, worker
<1>5. ApiCrash \/ UNCHANGED vars => UNCHANGED <<pc, held>>
  BY DEF ApiCrash, vars, worker
<1> QED BY <1>1, <1>2, <1>3, <1>4, <1>5 DEF Next

\* A worker drops a queued job it is about to claim only in its shutdown.
LEMMA AwaitedIsClaimed ==
    ASSUME IInv, [Next]_vars, NEW j \in Jobs, NEW w \in Workers, Awaits(w, j),
           rows[j].status = "queued", rows'[j].status = "queued", ~Excused(j)
    PROVE  Awaits(w, j)'
<1>1. ~Fault
  BY FaultsGrow DEF IInv, Excused
<1>2. ASSUME Work(w) PROVE FALSE
  <2>1. Claim(w)
    BY <1>2 DEF Awaits, Work, CheckCtx, Dequeue, DequeueEmpty, DequeueError,
       Claim, RateWait, Execute, Persist, PanicOnNilResult
  <2>2. rows[j] \in Row /\ rows \in [Jobs -> Row] /\ ClaimRow(rows[j]).status = "processing"
    BY RowFacts DEF IInv, TypeOK
  <2>3. CallFails(w) /\ proc' = proc
    BY <1>1, <2>1, <2>2 DEF Awaits, Claim, Claimable, CallLosesReply
  <2>4. proc'[Home[w]] # "up"
    BY <1>1, <2>3 DEF CallFails, Stopping
  <2> QED BY <2>4 DEF Awaits, Excused
<1>3. CASE ~Work(w)
  <2>1. pc[w] = "claim" /\ held[w] \in Jobs
    BY DEF Awaits
  <2>2. pc'[w] = pc[w] /\ held'[w] = held[w]
    BY <1>3, <2>1, OthersKeepHands DEF Awaits, Excused
  <2> QED BY <2>2 DEF Awaits
<1> QED BY <1>2, <1>3

\* A worker leaves a job processing only in its shutdown.
LEMMA OwnedIsFinished ==
    ASSUME IInv, [Next]_vars, NEW j \in Jobs, NEW w \in Workers,
           Owns(w), held[w] = j, rows'[j].status = "processing", ~Excused(j)
    PROVE  Owns(w)' /\ held'[w] = j
<1>1. ~Fault
  BY FaultsGrow DEF IInv, Excused
<1>2. CASE Work(w)
  <2>1. Home[w] \in Procs
    BY HomeAssumption DEF HomeAssumption
  <2>2. RateWait(w) \/ Execute(w) \/ Persist(w) \/ PanicOnNilResult(w)
    BY <1>2 DEF Owns, Work, CheckCtx, Dequeue, DequeueEmpty, DequeueError, Claim
  <2>3. CASE RateWait(w)
    <3>1. Up(w) /\ Goto(w, "run") /\ UNCHANGED held
      BY <2>3 DEF RateWait, Excused, Stopping
    <3> QED BY <3>1 DEF Goto, Owns, IInv, TypeOK
  <2>4. CASE Execute(w)
    BY <2>4 DEF Execute, Goto, Owns, IInv, TypeOK
  <2>5. CASE Persist(w)
    <3>1. /\ rows \in [Jobs -> Row] /\ rows[j] \in Row
          /\ rows[j].error = "none" /\ out[w] \in Results \ {NilOutcome}
      BY <2>5 DEF Persist, IInv, TypeOK, Hands, OwnedIsProcessing,
         PollConsistent, Finished, Terminal
    <3>2. ResultRow(rows[j], out[w]).status # "processing"
      BY <3>1, RowFacts
    <3>3. CallFails(w) /\ proc' = proc
      BY <1>1, <2>5, <3>1, <3>2 DEF Persist, CallLosesReply
    <3>4. proc'[Home[w]] # "up"
      BY <1>1, <3>3 DEF CallFails, Stopping
    <3> QED BY <3>4 DEF Excused
  <2>6. CASE PanicOnNilResult(w)
    BY <2>1, <2>6 DEF PanicOnNilResult, Die, IInv, TypeOK, Excused
  <2> QED BY <2>2, <2>3, <2>4, <2>5, <2>6
<1>3. CASE ~Work(w)
  <2>1. pc[w] # "stopped" /\ held[w] \in Jobs
    BY DEF Owns
  <2>2. pc'[w] = pc[w] /\ held'[w] = held[w]
    BY <1>3, <2>1, OthersKeepHands DEF Excused
  <2> QED BY <2>2 DEF Owns
<1> QED BY <1>2, <1>3

\* A row that becomes queued has a handler that will push it; one that
\* becomes processing has a worker.
LEMMA NewlyMovable ==
    ASSUME IInv, [Next]_vars, NEW j \in Jobs, rows'[j] # rows[j],
           ~(faults' > faults)
    PROVE  /\ rows'[j].status = "queued" => accept'[j] = "created"
           /\ rows'[j].status = "processing" =>
                 \E w \in Workers : Owns(w)' /\ held'[w] = j
<1>1. ~Fault
  BY FaultsGrow DEF IInv
<1>2. rows[j] \in Row
  BY DEF IInv, TypeOK
<1>3. ASSUME CreateJob(j), rows'[j] = InsertRow
      PROVE  rows'[j].status # "processing" /\ accept'[j] = "created"
  BY <1>1, <1>3, RowFacts DEF CreateJob, SetAccept, IInv, TypeOK
<1>4. ASSUME rows'[j] = CancelRow(rows[j])
      PROVE  rows'[j].status \notin {"queued", "processing"}
  BY <1>2, <1>4, RowFacts
<1>5. ASSUME NEW w \in Workers, held[w] = j, Claim(w),
             rows'[j] = ClaimRow(rows[j])
      PROVE  rows'[j].status # "queued" /\ Owns(w)' /\ held'[w] = j
  <2>1. rows'[j].status = "processing"
    BY <1>2, <1>5, RowFacts
  <2>2. held'[w] = j /\ (Goto(w, "wait") \/ Goto(w, "run"))
    BY <1>1, <1>5 DEF Claim, CallLosesReply
  <2> QED BY <2>1, <2>2 DEF Goto, Owns, IInv, TypeOK
<1>6. ASSUME NEW w \in Workers, held[w] = j, Persist(w),
             rows[j].status = "processing", rows'[j] = ResultRow(rows[j], out[w])
      PROVE  rows'[j].status \notin {"queued", "processing"}
  <2>1. rows[j].error = "none" /\ out[w] \in Results \ {NilOutcome}
    BY <1>6 DEF Persist, IInv, Hands, PollConsistent, Finished, Terminal
  <2> QED BY <1>2, <1>6, <2>1, RowFacts
<1> QED BY <1>3, <1>4, <1>5, <1>6, RowWriters

\* A job gets stuck only where something fails, or a process with a worker
\* that holds the job shuts down or dies.
THEOREM OnlyFailuresStrand == Spec => StrandedOnlyByFailure
<1>1. IInv /\ [Next]_vars =>
          [\A j \in Jobs : ~Stranded(j) /\ Stranded(j)' =>
             \/ faults' > faults
             \/ \E w \in Workers : held[w] = j /\ proc'[Home[w]] # "up"]_vars
  <2> SUFFICES ASSUME IInv, [Next]_vars, NEW j \in Jobs,
                      ~Stranded(j), Stranded(j)', ~Excused(j)
               PROVE  FALSE
    BY DEF Excused
  <2>0. ~(faults' > faults)
    BY DEF Excused
  <2>1. CASE rows'[j].status = "queued"
    <3>1. accept'[j] # "created" /\ ~InQueue(j)' /\ \A w \in Workers : ~Awaits(w, j)'
      BY <2>1 DEF Stranded, Awaits
    <3>2. rows[j].status = "queued"
      BY <2>0, <2>1, <3>1, NewlyMovable
    <3>3. \/ accept[j] = "created" \/ InQueue(j)
          \/ \E w \in Workers : Awaits(w, j)
      BY <3>2 DEF Stranded, Awaits
    <3> QED BY <2>0, <2>1, <3>1, <3>2, <3>3, CreatedMovesOn, PoppedIsHeld,
               AwaitedIsClaimed
  <2>2. CASE rows'[j].status = "processing"
    <3>1. \A w \in Workers : ~(Owns(w)' /\ held'[w] = j)
      BY <2>2 DEF Stranded
    <3>2. rows[j].status = "processing"
      BY <2>0, <2>2, <3>1, NewlyMovable
    <3>3. \E w \in Workers : Owns(w) /\ held[w] = j
      BY <3>2 DEF Stranded
    <3> QED BY <2>2, <3>1, <3>3, OwnedIsFinished
  <2> QED BY <2>1, <2>2 DEF Stranded
<1> QED BY <1>1, Inductive, PTL DEF Spec, StrandedOnlyByFailure
=============================================================================
