-------------------------- MODULE JobPipelineProofs --------------------------
(***************************************************************************)
(* Proofs about JobPipeline for every set of jobs, workers, processes and  *)
(* DELETE handlers, every assignment of workers to processes, of kinds and *)
(* retries to jobs, and every bound on faults and stops.                   *)
(***************************************************************************)
EXTENDS JobProperties, TLAPS

USE HomeAssumption, KindAssumption, RetriesAssumption, NoneAssumption,
    BoundsAssumption DEF HomeAssumption, KindAssumption, RetriesAssumption,
    NoneAssumption, BoundsAssumption

-----------------------------------------------------------------------------
(***************************************************************************)
(* Rows and outcomes.                                                      *)
(***************************************************************************)

\* Every statement of the store leaves a well-formed row.
LEMMA RowOpsType ==
    /\ NoRow \in Row /\ InsertRow \in Row
    /\ \A row \in Row : ClaimRow(row) \in Row /\ CancelRow(row) \in Row
    /\ \A row \in Row, o \in Outcome : ResultRow(row, o) \in Row
<1>1. NoRow \in Row /\ InsertRow \in Row
  BY DEF NoRow, InsertRow, Row, Status, RowStatus, Terminal, ResultVal, ErrorVal
<1>2. \A row \in Row : ClaimRow(row) \in Row /\ CancelRow(row) \in Row
  BY DEF ClaimRow, CancelRow, Row, Status, RowStatus, Terminal, ErrorVal
<1>3. \A row \in Row, o \in Outcome : ResultRow(row, o) \in Row
  BY DEF ResultRow, UpdateRow, Coalesce, RetriesUsed, Outcome,
         Row, Status, RowStatus, Terminal, ResultVal, ErrorVal
<1> QED BY <1>1, <1>2, <1>3

\* Whatever the kind of the job, an execution returns one of four pairs.
LEMMA OutcomesAreResults ==
    /\ Results \subseteq Outcome
    /\ \A kind, n, c : Outcomes(kind, n, c) \subseteq Results
<1>1. Results \subseteq Outcome
  BY DEF Results, Outcome, NilOutcome, Succeeded, FailedPartial, FailedNil
<1>2. \A kind, n, c : Outcomes(kind, n, c) \subseteq Results
  BY DEF Results, Outcomes, ScrapeOutcomes, CrawlOutcomes
<1> QED BY <1>1, <1>2

-----------------------------------------------------------------------------
(***************************************************************************)
(* Type correctness.                                                       *)
(***************************************************************************)
LEMMA InitType == Init => TypeOK
  BY RowOpsType DEF Init, TypeOK, AcceptState, Reply, NoReply, ReplyCode,
     Status, ProcState, PC, Outcome, NilOutcome

\* The pieces the worker's actions are made of.
LEMMA PieceTypes ==
    ASSUME TypeOK, NEW w \in Workers
    PROVE  /\ \A label \in PC : Goto(w, label) => pc' \in [Workers -> PC]
           /\ Return(w) => /\ pc' \in [Workers -> PC]
                           /\ held' \in [Workers -> Jobs \cup {None}]
                           /\ out' \in [Workers -> Outcome]
           /\ StartRun(held[w]) => runs' \in [Jobs -> Nat]
           /\ Fault \/ Works => faults' \in 0..MaxFaults
<1>1. \A label \in PC : Goto(w, label) => pc' \in [Workers -> PC]
  BY DEF TypeOK, Goto
<1>2. Return(w) => pc' \in [Workers -> PC]
  BY DEF TypeOK, Return, Goto, PC
<1>3. Return(w) => held' \in [Workers -> Jobs \cup {None}]
  BY DEF TypeOK, Return
<1>4. Return(w) => out' \in [Workers -> Outcome]
  BY OutcomesAreResults DEF TypeOK, Return, Results
<1>5. StartRun(held[w]) => runs' \in [Jobs -> Nat]
  <2>1. CASE held[w] \in Jobs
    BY <2>1 DEF TypeOK, StartRun
  <2>2. CASE held[w] \notin Jobs
    <3>1. [runs EXCEPT ![held[w]] = @ + 1] = [j \in Jobs |-> runs[j]]
      BY <2>2 DEF TypeOK
    <3> QED BY <3>1 DEF TypeOK, StartRun
  <2> QED BY <2>1, <2>2
<1>6. Fault \/ Works => faults' \in 0..MaxFaults
  BY DEF TypeOK, Fault, Works
<1> QED BY <1>1, <1>2, <1>3, <1>4, <1>5, <1>6

\* The handlers of the API server keep the types.
LEMMA ApiType ==
    ASSUME TypeOK, (\E j \in Jobs : Post(j)) \/ (\E d \in Deleters : Delete(d)) \/ ApiCrash
    PROVE  TypeOK'
<1>0. Fault \/ Works => faults' \in 0..MaxFaults
  BY DEF TypeOK, Fault, Works
<1>1. ASSUME NEW j \in Jobs, CreateJob(j) PROVE TypeOK'
  <2>1. accept' \in [Jobs -> AcceptState]
    BY <1>1 DEF TypeOK, CreateJob, SetAccept, AcceptState
  <2>2. rows' \in [Jobs -> Row]
    BY <1>1, RowOpsType DEF TypeOK, CreateJob
  <2> QED BY <1>0, <1>1, <2>1, <2>2 DEF TypeOK, CreateJob, worker
<1>2. ASSUME NEW j \in Jobs, Enqueue(j) PROVE TypeOK'
  <2>1. accept' \in [Jobs -> AcceptState]
    BY <1>2 DEF TypeOK, Enqueue, SetAccept, AcceptState
  <2>2. Append(queue, j) \in Seq(Jobs) /\ Append(Append(queue, j), j) \in Seq(Jobs)
    BY DEF TypeOK
  <2>3. queue' \in Seq(Jobs)
    BY <1>2, <2>2 DEF TypeOK, Enqueue
  <2> QED BY <1>0, <1>2, <2>1, <2>3 DEF TypeOK, Enqueue, worker
<1>3. ASSUME NEW j \in Jobs, Respond(j) PROVE TypeOK'
  BY <1>3 DEF TypeOK, Respond, SetAccept, AcceptState, worker
<1>4. ASSUME NEW d \in Deleters, NEW j \in Jobs, DeleteUpdate(d, j) PROVE TypeOK'
  <2>1. rows' \in [Jobs -> Row]
    BY <1>4, RowOpsType DEF TypeOK, DeleteUpdate
  <2>2. del' \in [Deleters -> Jobs \cup {None}]
    BY <1>4 DEF TypeOK, DeleteUpdate
  <2>3. reply' \in [Deleters -> Reply]
    <3>1. \A code \in ReplyCode, seen \in Status :
             Answer(d, code, j, seen) => reply' \in [Deleters -> Reply]
      BY DEF TypeOK, Answer, Reply
    <3>2. {"200", "500"} \subseteq ReplyCode /\ {"failed", "absent"} \subseteq Status
      BY DEF ReplyCode, Status, RowStatus, Terminal
    <3> QED BY <1>4, <3>1, <3>2 DEF TypeOK, DeleteUpdate
  <2> QED BY <1>0, <1>4, <2>1, <2>2, <2>3 DEF TypeOK, DeleteUpdate, worker
<1>5. ASSUME NEW d \in Deleters, DeleteSelect(d) PROVE TypeOK'
  <2>1. del' \in [Deleters -> Jobs \cup {None}]
    BY <1>5 DEF TypeOK, DeleteSelect
  <2>2. del[d] \in Jobs
    BY <1>5 DEF TypeOK, DeleteSelect
  <2>3. rows[del[d]].status \in Status /\ "absent" \in Status
    BY <2>2 DEF TypeOK, Row, Status
  <2>4. reply' \in [Deleters -> Reply]
    BY <1>5, <2>2, <2>3 DEF TypeOK, DeleteSelect, Answer, Reply, ReplyCode
  <2> QED BY <1>0, <1>5, <2>1, <2>4 DEF TypeOK, DeleteSelect, worker
<1>6. CASE ApiCrash
  <2>1. accept' \in [Jobs -> AcceptState]
    BY <1>6 DEF TypeOK, ApiCrash, AcceptState
  <2>2. del' \in [Deleters -> Jobs \cup {None}]
    BY <1>6 DEF TypeOK, ApiCrash
  <2> QED BY <1>0, <1>6, <2>1, <2>2 DEF TypeOK, ApiCrash, worker
<1> QED BY <1>1, <1>2, <1>3, <1>4, <1>5, <1>6 DEF Post, Delete

\* So do the workers ...
LEMMA WorkType ==
    ASSUME TypeOK, NEW w \in Workers, Work(w)
    PROVE  TypeOK'
<1> USE PieceTypes DEF CallWorks, CallFails, CallLosesReply
<1>0. PC = {"loop", "pop", "claim", "wait", "run", "persist", "stopped"}
  BY DEF PC
<1>1. CASE CheckCtx(w)
  BY <1>0, <1>1 DEF CheckCtx, TypeOK, api
<1>2. CASE Dequeue(w)
  <2>1. held' \in [Workers -> Jobs \cup {None}] /\ queue' \in Seq(Jobs)
    BY <1>2 DEF Dequeue, TypeOK
  <2> QED BY <1>0, <1>2, <2>1 DEF Dequeue, TypeOK, api
<1>3. CASE DequeueEmpty(w)
  BY <1>0, <1>3 DEF DequeueEmpty, TypeOK, api
<1>4. CASE DequeueError(w)
  <2>1. queue # <<>> => Tail(queue) \in Seq(Jobs)
    BY DEF TypeOK
  <2>2. queue' \in Seq(Jobs)
    BY <1>4, <2>1 DEF DequeueError, TypeOK
  <2> QED BY <1>0, <1>4, <2>2 DEF DequeueError, TypeOK, api
<1>5. CASE Claim(w)
  <2>1. rows' \in [Jobs -> Row]
    <3>1. \A j : [rows EXCEPT ![j] = ClaimRow(@)] \in [Jobs -> Row]
      BY RowOpsType DEF TypeOK
    <3> QED BY <1>5, <3>1 DEF Claim, TypeOK
  <2>2. /\ pc' \in [Workers -> PC]
        /\ held' \in [Workers -> Jobs \cup {None}]
        /\ out' \in [Workers -> Outcome]
    BY <1>0, <1>5 DEF Claim, TypeOK
  <2>3. runs' \in [Jobs -> Nat]
    BY <1>5 DEF Claim, TypeOK
  <2> QED BY <1>5, <2>1, <2>2, <2>3 DEF Claim, TypeOK, api
<1>6. CASE RateWait(w)
  BY <1>0, <1>6 DEF RateWait, TypeOK, api
<1>7. CASE Execute(w)
  <2>1. out' \in [Workers -> Outcome]
    BY <1>7, OutcomesAreResults DEF Execute, TypeOK
  <2> QED BY <1>0, <1>7, <2>1 DEF Execute, TypeOK, api
<1>8. CASE Persist(w)
  <2>1. rows' \in [Jobs -> Row]
    <3>1. out[w] \in Outcome
      BY DEF TypeOK
    <3>2. \A j : [rows EXCEPT ![j] = ResultRow(@, out[w])] \in [Jobs -> Row]
      BY <3>1, RowOpsType DEF TypeOK
    <3> QED BY <1>8, <3>2 DEF Persist, TypeOK
  <2> QED BY <1>8, <2>1 DEF Persist, TypeOK, api
<1>9. CASE PanicOnNilResult(w)
  <2>1. proc' \in [Procs -> ProcState]
    BY <1>9 DEF PanicOnNilResult, Die, TypeOK, ProcState
  <2>2. pc' \in [Workers -> PC]
    BY <1>0, <1>9 DEF PanicOnNilResult, Die, TypeOK
  <2>3. /\ held' \in [Workers -> Jobs \cup {None}]
        /\ out' \in [Workers -> Outcome]
    BY <1>9, OutcomesAreResults DEF PanicOnNilResult, Die, TypeOK, Results
  <2> QED BY <1>9, <2>1, <2>2, <2>3 DEF PanicOnNilResult, TypeOK, api
<1> QED BY <1>1, <1>2, <1>3, <1>4, <1>5, <1>6, <1>7, <1>8, <1>9 DEF Work

\* ... and what happens to their processes.
LEMMA ManageType ==
    ASSUME TypeOK, NEW p \in Procs, Manage(p)
    PROVE  TypeOK'
<1> USE OutcomesAreResults DEF TypeOK, Fault, api, worker, ProcState, PC, Results
<1>1. CASE Crash(p)
  BY <1>1 DEF Crash, Die
<1>2. CASE Stop(p)
  BY <1>2 DEF Stop
<1>3. CASE StopDone(p)
  BY <1>3 DEF StopDone
<1>4. CASE Restart(p)
  BY <1>4 DEF Restart
<1> QED BY <1>1, <1>2, <1>3, <1>4 DEF Manage

\* JobPipeline keeps every variable in its type: the row columns, the queue
\* and the places and hands of the workers.
THEOREM TypeCorrect == Spec => []TypeOK
<1>1. Init => TypeOK
  BY InitType
<1>2. TypeOK /\ [Next]_vars => TypeOK'
  <2> SUFFICES ASSUME TypeOK, [Next]_vars PROVE TypeOK'
    OBVIOUS
  <2>1. CASE UNCHANGED vars
    BY <2>1 DEF vars, TypeOK
  <2>2. CASE Next
    BY <2>2, ApiType, WorkType, ManageType DEF Next
  <2> QED BY <2>1, <2>2
<1> QED BY <1>1, <1>2, PTL DEF Spec

-----------------------------------------------------------------------------
(***************************************************************************)
(* The inductive invariant.                                                *)
(***************************************************************************)

\* What the statements do to the columns the invariant speaks of.
LEMMA RowFacts ==
    /\ NoRow.status = "absent" /\ NoRow.error = "none" /\ NoRow.result = "none"
    /\ NoRow.completedAt = FALSE
    /\ InsertRow.status = "queued" /\ InsertRow.error = "none"
    /\ InsertRow.result = "none" /\ InsertRow.completedAt = FALSE
    /\ \A row \in Row :
          LET c == ClaimRow(row) IN
          /\ c.status = "processing" /\ c.error = row.error
          /\ c.result = row.result /\ c.completedAt = row.completedAt
    /\ \A row \in Row :
          LET c == CancelRow(row) IN
          /\ c.status = "failed" /\ c.error = "cancelled"
          /\ c.result = row.result /\ c.completedAt = row.completedAt
    /\ \A row \in Row, o \in Results \ {NilOutcome} :
          LET r == ResultRow(row, o) IN
          row.error = "none" =>
             /\ r.completedAt = TRUE
             /\ \/ r.status = "completed" /\ r.result = "full" /\ r.error = "none"
                \/ r.status = "failed" /\ r.error = "failure"
<1>1. /\ NoRow.status = "absent" /\ NoRow.error = "none" /\ NoRow.result = "none"
      /\ NoRow.completedAt = FALSE
      /\ InsertRow.status = "queued" /\ InsertRow.error = "none"
      /\ InsertRow.result = "none" /\ InsertRow.completedAt = FALSE
  BY DEF NoRow, InsertRow
<1>2. ASSUME NEW row \in Row
      PROVE  LET c == ClaimRow(row) IN
             /\ c.status = "processing" /\ c.error = row.error
             /\ c.result = row.result /\ c.completedAt = row.completedAt
  BY DEF ClaimRow, Row
<1>3. ASSUME NEW row \in Row
      PROVE  LET c == CancelRow(row) IN
             /\ c.status = "failed" /\ c.error = "cancelled"
             /\ c.result = row.result /\ c.completedAt = row.completedAt
  BY DEF CancelRow, Row
<1>4. ASSUME NEW row \in Row, NEW o \in Results \ {NilOutcome}, row.error = "none"
      PROVE  LET r == ResultRow(row, o) IN
             /\ r.completedAt = TRUE
             /\ \/ r.status = "completed" /\ r.result = "full" /\ r.error = "none"
                \/ r.status = "failed" /\ r.error = "failure"
  <2>1. CASE o = Succeeded
    BY <1>4, <2>1 DEF ResultRow, UpdateRow, Coalesce, Succeeded, Terminal
  <2>2. CASE o = FailedPartial
    BY <1>4, <2>2 DEF ResultRow, UpdateRow, Coalesce, FailedPartial, Terminal
  <2>3. CASE o = FailedNil
    BY <1>4, <2>3 DEF ResultRow, UpdateRow, Coalesce, FailedNil, Terminal
  <2> QED BY <2>1, <2>2, <2>3 DEF Results
<1> QED BY <1>1, <1>2, <1>3, <1>4

LEMMA InitInv == Init => IInv
<1> SUFFICES ASSUME Init PROVE IInv
  OBVIOUS
<1>1. TypeOK
  BY InitType
<1>2. Hands
  BY DEF Init, Hands, Results
<1>3. Progress /\ Exited
  BY RowFacts DEF Init, Progress, Exited, Cancelled
<1>4. PendingDeletes /\ CancelConfirmed /\ ConflictTruthful
  BY DEF Init, PendingDeletes, CancelConfirmed, ConflictTruthful, NoReply
<1>5. OneOwner /\ OwnedIsProcessing
  BY DEF Init, OneOwner, OwnedIsProcessing, Owns
<1>6. AtMostOneExecution
  BY DEF Init, AtMostOneExecution
<1>7. PollConsistent
  BY RowFacts DEF Init, PollConsistent, PollReply, Finished, Cancelled, Terminal
<1> QED BY <1>1, <1>2, <1>3, <1>4, <1>5, <1>6, <1>7 DEF IInv

\* A step that leaves rows, hands and runs alone can disturb only what is
\* said of handlers.
LEMMA Frame ==
    ASSUME IInv, TypeOK', UNCHANGED <<rows, worker, runs, proc>>,
           \A j \in Jobs : accept'[j] = "idle" => accept[j] = "idle",
           PendingDeletes', CancelConfirmed', ConflictTruthful'
    PROVE  IInv'
<1> USE DEF worker
<1>1. Hands' /\ Exited'
  BY DEF IInv, Hands, Exited
<1>2. Progress'
  BY DEF IInv, Progress, Cancelled
<1>3. OneOwner' /\ OwnedIsProcessing'
  BY DEF IInv, OneOwner, OwnedIsProcessing, Owns
<1>4. AtMostOneExecution' /\ PollConsistent'
  BY DEF IInv, AtMostOneExecution, PollConsistent, Finished, Cancelled
<1> QED BY <1>1, <1>2, <1>3, <1>4 DEF IInv

\* The steps of acceptJob.
LEMMA PostInv ==
    ASSUME IInv, TypeOK', NEW j \in Jobs, Post(j)
    PROVE  IInv'
<1>1. CASE CreateJob(j)
  <2>1. UNCHANGED <<held, pc, out, runs, del, reply, proc>>
    BY <1>1 DEF CreateJob, worker
  <2>2. /\ rows[j] = NoRow /\ rows[j].status = "absent"
        /\ runs[j] = 0
    BY <1>1, RowFacts DEF CreateJob, IInv, Progress
  <2>3. /\ accept' = [accept EXCEPT ![j] = accept'[j]]
        /\ accept'[j] # "idle" \/ rows' = rows
        /\ accept'[j] # "idle"
        /\ \A k \in Jobs : k # j => rows'[k] = rows[k] /\ accept'[k] = accept[k]
        /\ rows'[j] \in {NoRow, InsertRow}
    BY <1>1, <2>2 DEF CreateJob, SetAccept, IInv, TypeOK
  <2>4. \A w \in Workers : Owns(w) => held[w] \in Jobs /\ held[w] # j
    BY <2>2 DEF IInv, TypeOK, Hands, Owns, OwnedIsProcessing
  <2>5. Hands' /\ Exited' /\ OneOwner' /\ AtMostOneExecution' /\ ConflictTruthful'
    BY <2>1 DEF IInv, Hands, Exited, OneOwner, Owns, AtMostOneExecution,
       ConflictTruthful
  <2>6. OwnedIsProcessing'
    BY <2>1, <2>3, <2>4 DEF IInv, OwnedIsProcessing, Owns
  <2>7. Progress'
    BY <2>1, <2>2, <2>3, RowFacts DEF IInv, Progress, Cancelled
  <2>8. PendingDeletes'
    <3>1. \A d \in Deleters : del[d] # None => del[d] \in Jobs /\ del[d] # j
      BY <2>2 DEF IInv, TypeOK, PendingDeletes, Terminal
    <3> QED BY <2>1, <2>3, <3>1 DEF IInv, PendingDeletes
  <2>9. PollConsistent'
    BY <2>1, <2>3, RowFacts
    DEF IInv, PollConsistent, PollReply, Finished, Cancelled, Terminal
  <2>10. CancelConfirmed'
    BY <2>1, <2>2, <2>3 DEF IInv, PendingDeletes, CancelConfirmed, Cancelled
  <2> QED BY <2>5, <2>6, <2>7, <2>8, <2>9, <2>10 DEF IInv
<1>2. CASE Enqueue(j) \/ Respond(j)
  <2>1. UNCHANGED <<rows, worker, runs, proc, del, reply>>
    BY <1>2 DEF Enqueue, Respond
  <2>2. \A k \in Jobs : accept'[k] = "idle" => accept[k] = "idle"
    BY <1>2 DEF Enqueue, Respond, SetAccept, IInv, TypeOK
  <2>3. PendingDeletes' /\ CancelConfirmed' /\ ConflictTruthful'
    BY <2>1 DEF IInv, PendingDeletes, CancelConfirmed, ConflictTruthful, Cancelled
  <2> QED BY <2>1, <2>2, <2>3, Frame
<1> QED BY <1>1, <1>2 DEF Post

\* CancelJob's UPDATE: it takes effect only on a queued job, which no worker
\* owns and which has not run.
LEMMA DeleteUpdateInv ==
    ASSUME IInv, TypeOK', NEW d \in Deleters, NEW j \in Jobs, DeleteUpdate(d, j)
    PROVE  IInv'
<1>1. UNCHANGED <<accept, worker, held, pc, out, runs, proc>>
  BY DEF DeleteUpdate, worker
<1>2. CASE /\ UNCHANGED <<rows, reply>> /\ ~Cancellable(rows[j])
           /\ rows[j].status # "absent" /\ del' = [del EXCEPT ![d] = j]
  <2>1. rows[j].status \in {"processing"} \cup Terminal
    BY <1>2 DEF IInv, TypeOK, Cancellable, Row, Status, RowStatus
  <2>2. PendingDeletes'
    BY <1>2, <2>1 DEF IInv, TypeOK, PendingDeletes
  <2>3. CancelConfirmed' /\ ConflictTruthful'
    BY <1>1, <1>2 DEF IInv, CancelConfirmed, ConflictTruthful, Cancelled
  <2> QED BY <1>1, <1>2, <2>2, <2>3, Frame
<1>3. CASE UNCHANGED <<rows, del>> /\ Answer(d, "500", j, "absent")
  <2>1. /\ \A e \in Deleters \ {d} : reply'[e] = reply[e]
        /\ reply'[d].code = "500"
    BY <1>3 DEF Answer, IInv, TypeOK
  <2>2. PendingDeletes' /\ CancelConfirmed' /\ ConflictTruthful'
    BY <1>1, <1>3, <2>1 DEF IInv, PendingDeletes, CancelConfirmed,
       ConflictTruthful, Cancelled
  <2> QED BY <1>1, <1>3, <2>2, Frame
<1>4. CASE /\ rows' = [rows EXCEPT ![j] = CancelRow(@)] /\ Cancellable(rows[j])
           /\ UNCHANGED del
           /\ Answer(d, "200", j, "failed") \/ Answer(d, "500", j, "absent")
  <2>1. /\ rows[j] \in Row /\ rows[j].status = "queued" /\ runs[j] = 0
        /\ rows[j].completedAt = FALSE /\ rows[j].result = "none"
    BY <1>4 DEF Cancellable, IInv, TypeOK, Progress, PollConsistent, Finished,
       Terminal, Row
  <2>2. /\ rows'[j].status = "failed" /\ rows'[j].error = "cancelled"
        /\ rows'[j].result = "none" /\ rows'[j].completedAt = FALSE
        /\ \A k \in Jobs : k # j => rows'[k] = rows[k]
    BY <1>4, <2>1, RowFacts DEF IInv, TypeOK
  <2>3. \A w \in Workers : Owns(w) => held[w] \in Jobs /\ held[w] # j
    BY <2>1 DEF IInv, TypeOK, Hands, Owns, OwnedIsProcessing
  <2>4. Hands' /\ Exited' /\ OneOwner' /\ AtMostOneExecution'
    BY <1>1 DEF IInv, Hands, Exited, OneOwner, Owns, AtMostOneExecution
  <2>5. OwnedIsProcessing'
    BY <1>1, <2>2, <2>3 DEF IInv, OwnedIsProcessing, Owns
  <2>6. Progress'
    BY <1>1, <2>1, <2>2, RowFacts DEF IInv, Progress, Cancelled
  <2>7. /\ \A e \in Deleters \ {d} : reply'[e] = reply[e]
        /\ reply'[d].code \in {"200", "500"} /\ reply'[d].job = j
    BY <1>4 DEF Answer, IInv, TypeOK
  <2>8. PendingDeletes'
    <3>1. \A e \in Deleters : del[e] # None => del[e] \in Jobs /\ del[e] # j
      BY <2>1 DEF IInv, TypeOK, PendingDeletes, Terminal
    <3> QED BY <1>4, <2>2, <2>7, <3>1 DEF IInv, PendingDeletes
  <2>9. PollConsistent'
    BY <1>1, <2>2 DEF IInv, PollConsistent, PollReply, Finished, Cancelled, Terminal
  <2>10. CancelConfirmed' /\ ConflictTruthful'
    <3>1. \A e \in Deleters \ {d} :
             reply[e].code = "200" => reply[e].job \in Jobs /\ reply[e].job # j
      BY <2>1 DEF IInv, PendingDeletes, CancelConfirmed, Cancelled
    <3> QED BY <1>1, <2>1, <2>2, <2>7, <3>1
        DEF IInv, CancelConfirmed, ConflictTruthful, Cancelled
  <2> QED BY <2>4, <2>5, <2>6, <2>8, <2>9, <2>10 DEF IInv
<1> QED BY <1>2, <1>3, <1>4 DEF DeleteUpdate

\* The other steps of the API server.
LEMMA ApiInv ==
    ASSUME IInv, TypeOK', (\E d \in Deleters : DeleteSelect(d)) \/ ApiCrash
    PROVE  IInv'
<1>1. ASSUME NEW d \in Deleters, DeleteSelect(d) PROVE IInv'
  <2>1. UNCHANGED <<rows, worker, runs, proc, accept>>
    BY <1>1 DEF DeleteSelect
  <2>2. /\ del[d] \in Jobs
        /\ rows[del[d]].status \in {"processing"} \cup Terminal
    BY <1>1 DEF DeleteSelect, IInv, TypeOK, PendingDeletes
  <2>3. PendingDeletes'
    BY <1>1, <2>1, <2>2 DEF DeleteSelect, Answer, IInv, TypeOK, PendingDeletes
  <2>4. /\ \A e \in Deleters \ {d} : reply'[e] = reply[e]
        /\ \/ reply'[d].code = "500"
           \/ /\ reply'[d].code = "409"
              /\ reply'[d].seen \in {"processing"} \cup Terminal
    BY <1>1, <2>2 DEF DeleteSelect, Answer, IInv, TypeOK
  <2>5. CancelConfirmed' /\ ConflictTruthful'
    BY <2>1, <2>4 DEF IInv, CancelConfirmed, ConflictTruthful, Cancelled
  <2> QED BY <2>1, <2>3, <2>5, Frame
<1>2. CASE ApiCrash
  <2>1. UNCHANGED <<rows, worker, runs, proc, reply>> /\ del' = [d \in Deleters |-> None]
    BY <1>2 DEF ApiCrash
  <2>2. \A k \in Jobs : accept'[k] = "idle" => accept[k] = "idle"
    BY <1>2 DEF ApiCrash
  <2>3. PendingDeletes' /\ CancelConfirmed' /\ ConflictTruthful'
    BY <2>1 DEF IInv, PendingDeletes, CancelConfirmed, ConflictTruthful, Cancelled
  <2> QED BY <2>1, <2>2, <2>3, Frame
<1> QED BY <1>1, <1>2

\* A step that only moves workers, and in which no worker comes to own a job
\* it did not own, keeps everything that is said of rows and runs.
LEMMA HandsStep ==
    ASSUME IInv, TypeOK', Hands', Exited', UNCHANGED <<rows, runs, api>>,
           \A v \in Workers : Owns(v)' => /\ Owns(v) /\ held'[v] = held[v]
                                          /\ pc'[v] = "wait" <=> pc[v] = "wait"
    PROVE  IInv'
<1> USE DEF api
<1>1. OneOwner' /\ OwnedIsProcessing'
  BY DEF IInv, OneOwner, OwnedIsProcessing
<1>2. Progress'
  BY DEF IInv, Progress, Cancelled, Owns
<1>3. PendingDeletes' /\ CancelConfirmed' /\ ConflictTruthful'
  BY DEF IInv, PendingDeletes, CancelConfirmed, ConflictTruthful, Cancelled
<1>4. AtMostOneExecution' /\ PollConsistent'
  BY DEF IInv, AtMostOneExecution, PollConsistent, Finished, Cancelled
<1> QED BY <1>1, <1>2, <1>3, <1>4 DEF IInv

\* What a return from processJob leaves in the hands of the workers.
LEMMA ReturnHands ==
    ASSUME TypeOK, Hands, NEW w \in Workers, Return(w)
    PROVE  /\ Hands'
           /\ pc'[w] = "loop" /\ ~Owns(w)'
           /\ \A v \in Workers \ {w} : pc'[v] = pc[v] /\ held'[v] = held[v]
<1>1. /\ pc'[w] = "loop" /\ held'[w] = None /\ out'[w] = NilOutcome
      /\ \A v \in Workers \ {w} :
            pc'[v] = pc[v] /\ held'[v] = held[v] /\ out'[v] = out[v]
  BY DEF TypeOK, Return, Goto
<1> QED BY <1>1 DEF Hands, Results, Owns

\* Steps of the worker that change neither rows nor runs.
LEMMA IdleWorkInv ==
    ASSUME IInv, TypeOK', NEW w \in Workers,
           \/ CheckCtx(w) \/ Dequeue(w) \/ DequeueEmpty(w) \/ DequeueError(w)
           \/ Execute(w)
    PROVE  IInv'
<1>1. UNCHANGED <<rows, runs, api, proc>>
  BY DEF CheckCtx, Dequeue, DequeueEmpty, DequeueError, Execute
<1>2. CASE CheckCtx(w) \/ DequeueEmpty(w) \/ DequeueError(w)
  <2>1. /\ pc[w] \in {"loop", "pop"} /\ pc'[w] \in {"loop", "pop", "stopped"}
        /\ UNCHANGED <<held, out>>
        /\ \A v \in Workers \ {w} : pc'[v] = pc[v]
    BY <1>2 DEF CheckCtx, DequeueEmpty, DequeueError, Goto, IInv, TypeOK
  <2>2. Hands' /\ Exited'
    BY <1>1, <2>1 DEF IInv, Hands, Exited
  <2> QED BY <1>1, <2>1, <2>2, HandsStep DEF Owns
<1>3. CASE Dequeue(w)
  <2>1. /\ pc[w] = "pop" /\ pc'[w] = "claim" /\ held'[w] \in Jobs
        /\ UNCHANGED out
        /\ \A v \in Workers \ {w} : pc'[v] = pc[v] /\ held'[v] = held[v]
    BY <1>3 DEF Dequeue, Goto, IInv, TypeOK
  <2>2. Hands' /\ Exited'
    BY <1>1, <2>1 DEF IInv, Hands, Exited
  <2> QED BY <1>1, <2>1, <2>2, HandsStep DEF Owns
<1>4. CASE Execute(w)
  <2>1. /\ pc[w] = "run" /\ pc'[w] = "persist" /\ UNCHANGED held
        /\ \A v \in Workers \ {w} : pc'[v] = pc[v] /\ out'[v] = out[v]
    BY <1>4 DEF Execute, Goto, IInv, TypeOK
  <2>2. out'[w] \in Results
    BY <1>4, OutcomesAreResults DEF Execute, IInv, TypeOK
  <2>3. Hands' /\ Exited'
    BY <1>1, <2>1, <2>2 DEF IInv, Hands, Exited
  <2> QED BY <1>1, <2>1, <2>3, HandsStep DEF Owns
<1> QED BY <1>2, <1>3, <1>4

\* What happens to processes, the panic included.
LEMMA ProcessInv ==
    ASSUME IInv, TypeOK',
           \/ \E w \in Workers : PanicOnNilResult(w)
           \/ \E p \in Procs : Manage(p)
    PROVE  IInv'
<1>1. UNCHANGED <<rows, runs, api>>
  BY DEF PanicOnNilResult, Manage, Crash, Stop, StopDone, Restart
<1>2. ASSUME NEW p \in Procs, Die(p) PROVE IInv'
  <2>1. \A v \in Workers :
           \/ pc'[v] = "stopped" /\ held'[v] = None /\ out'[v] = NilOutcome
           \/ /\ pc'[v] = pc[v] /\ held'[v] = held[v] /\ out'[v] = out[v]
              /\ proc'[Home[v]] = proc[Home[v]]
    BY <1>2 DEF Die, IInv, TypeOK
  <2>2. Hands' /\ Exited'
    BY <2>1 DEF IInv, Hands, Exited, Results
  <2> QED BY <1>1, <2>1, <2>2, HandsStep DEF Owns
<1>3. ASSUME NEW p \in Procs, Stop(p) \/ StopDone(p) PROVE IInv'
  <2>1. /\ UNCHANGED <<pc, held, out>>
        /\ \A v \in Workers : proc'[Home[v]] = "down" =>
              proc[Home[v]] = "down" \/ pc[v] = "stopped"
    BY <1>3 DEF Stop, StopDone, worker, IInv, TypeOK
  <2>2. Hands' /\ Exited'
    BY <2>1 DEF IInv, Hands, Exited
  <2> QED BY <1>1, <2>1, <2>2, HandsStep DEF Owns
<1>4. ASSUME NEW p \in Procs, Restart(p) PROVE IInv'
  <2>1. /\ UNCHANGED <<held, out>>
        /\ \A v \in Workers :
              \/ pc[v] = "stopped" /\ pc'[v] = "loop" /\ proc'[Home[v]] = "up"
              \/ pc'[v] = pc[v] /\ proc'[Home[v]] = proc[Home[v]]
    BY <1>4 DEF Restart, IInv, TypeOK, Exited
  <2>2. Hands' /\ Exited'
    BY <2>1 DEF IInv, Hands, Exited
  <2> QED BY <1>1, <2>1, <2>2, HandsStep DEF Owns
<1> QED BY <1>2, <1>3, <1>4 DEF PanicOnNilResult, Manage, Crash

\* What a worker step that returns from processJob without touching rows or
\* runs keeps.
LEMMA GiveUpInv ==
    ASSUME IInv, TypeOK', NEW w \in Workers, Up(w) \/ Stopping(w), Return(w),
           UNCHANGED <<rows, runs, api, proc>>
    PROVE  IInv'
<1>1. Hands' /\ \A v \in Workers : Owns(v)' => Owns(v) /\ held'[v] = held[v]
                                               /\ pc'[v] = pc[v]
  BY ReturnHands DEF IInv, Owns
<1>2. Exited'
  BY ReturnHands DEF IInv, Exited, Up, Stopping
<1> QED BY <1>1, <1>2, HandsStep

\* ClaimJob.  Only a queued job is claimed, which nobody owns and which has
\* not run.
LEMMA ClaimInv ==
    ASSUME IInv, TypeOK', NEW w \in Workers, Claim(w)
    PROVE  IInv'
<1> DEFINE j == held[w]
<1>1. j \in Jobs /\ pc[w] = "claim" /\ UNCHANGED <<accept, del, reply, proc, api>>
  BY DEF Claim, IInv, TypeOK, Hands, api
<1>2. Up(w) \/ Stopping(w)
  BY DEF Claim, CallWorks, CallFails, CallLosesReply
<1>3. CASE Return(w) /\ UNCHANGED <<rows, runs>>
  BY <1>1, <1>2, <1>3, GiveUpInv
<1>4. CASE /\ Claimable(rows[j])
           /\ rows' = [rows EXCEPT ![j] = ClaimRow(@)]
           /\ \/ Goto(w, "wait") /\ UNCHANGED <<runs, held, out>>
              \/ Goto(w, "run") /\ StartRun(j) /\ UNCHANGED <<held, out>>
              \/ Return(w) /\ UNCHANGED runs
  <2>1. /\ rows[j] \in Row /\ rows[j].status = "queued" /\ runs[j] = 0
        /\ rows[j].completedAt = FALSE /\ rows[j].result = "none"
        /\ rows[j].error = "none" /\ accept[j] # "idle"
    BY <1>1, <1>4, RowFacts DEF Claimable, IInv, TypeOK, Progress,
       PollConsistent, Finished, Terminal, Row
  <2>2. /\ rows'[j].status = "processing" /\ rows'[j].error = "none"
        /\ rows'[j].result = "none" /\ rows'[j].completedAt = FALSE
        /\ \A k \in Jobs \ {j} : rows'[k] = rows[k]
    BY <1>1, <1>4, <2>1, RowFacts DEF IInv, TypeOK
  <2>3. \A v \in Workers : Owns(v) => held[v] \in Jobs /\ held[v] # j
    BY <2>1 DEF IInv, TypeOK, Hands, Owns, OwnedIsProcessing
  <2>4. /\ \A k \in Jobs \ {j} : runs'[k] = runs[k]
        /\ \A v \in Workers \ {w} : pc'[v] = pc[v] /\ held'[v] = held[v]
        /\ \/ pc'[w] = "wait" /\ runs'[j] = 0 /\ UNCHANGED <<held, out>>
           \/ pc'[w] = "run" /\ runs'[j] = 1 /\ UNCHANGED <<held, out>>
           \/ pc'[w] = "loop" /\ runs'[j] = 0 /\ Return(w)
    BY <1>1, <1>4, <2>1 DEF Goto, StartRun, Return, IInv, TypeOK
  <2>5. Hands'
    <3>1. CASE pc'[w] \in {"wait", "run"} /\ UNCHANGED <<held, out>>
      BY <1>1, <2>4, <3>1 DEF IInv, Hands
    <3>2. CASE Return(w)
      BY <3>2, ReturnHands DEF IInv
    <3> QED BY <2>4, <3>1, <3>2
  <2>6. Exited'
    BY <1>1, <1>2, <2>4 DEF IInv, Exited, Up, Stopping
  <2>7. OneOwner' /\ OwnedIsProcessing'
    BY <1>1, <2>2, <2>3, <2>4 DEF IInv, OneOwner, OwnedIsProcessing, Owns
  <2>8. Progress'
    <3>1. \A k \in Jobs : accept'[k] = "idle" => rows'[k] = NoRow
      BY <1>1, <2>1, <2>2 DEF IInv, Progress
    <3>2. \A k \in Jobs : rows'[k].status \in {"absent", "queued"} \/ Cancelled(k)'
                             => runs'[k] = 0
      BY <2>2, <2>4 DEF IInv, Progress, Cancelled
    <3>3. \A v \in Workers : /\ pc'[v] = "wait" => runs'[held'[v]] = 0
                             /\ pc'[v] \in {"run", "persist"} => runs'[held'[v]] = 1
      BY <2>3, <2>4 DEF IInv, Progress, Owns
    <3> QED BY <3>1, <3>2, <3>3 DEF Progress
  <2>9. PendingDeletes'
    BY <1>1, <2>2 DEF IInv, TypeOK, PendingDeletes
  <2>10. AtMostOneExecution'
    BY <2>4 DEF IInv, AtMostOneExecution
  <2>11. PollConsistent'
    BY <2>2, <2>4
    DEF IInv, PollConsistent, PollReply, Finished, Cancelled, Terminal
  <2>12. CancelConfirmed' /\ ConflictTruthful'
    BY <1>1, <2>1, <2>2, <2>4 DEF IInv, PendingDeletes, CancelConfirmed,
       ConflictTruthful, Cancelled
  <2> QED BY <2>5, <2>6, <2>7, <2>8, <2>9, <2>10, <2>11, <2>12 DEF IInv
<1> QED BY <1>3, <1>4 DEF Claim

\* The rate limiter lets the worker go on: the job's one execution starts.
LEMMA RateWaitInv ==
    ASSUME IInv, TypeOK', NEW w \in Workers, RateWait(w)
    PROVE  IInv'
<1> DEFINE j == held[w]
<1>1. j \in Jobs /\ pc[w] = "wait" /\ UNCHANGED <<accept, del, reply, proc, api, rows>>
  BY DEF RateWait, IInv, TypeOK, Hands, api
<1>2. CASE Stopping(w) /\ Return(w) /\ UNCHANGED runs
  BY <1>1, <1>2, GiveUpInv
<1>3. CASE Up(w) /\ Goto(w, "run") /\ StartRun(j) /\ UNCHANGED <<held, out>>
  <2>1. /\ rows[j].status = "processing" /\ runs[j] = 0
        /\ rows[j].error = "none"
    BY <1>1 DEF IInv, OwnedIsProcessing, Owns, Progress, PollConsistent,
       Finished, Terminal
  <2>2. /\ runs'[j] = 1 /\ \A k \in Jobs \ {j} : runs'[k] = runs[k]
        /\ pc'[w] = "run" /\ \A v \in Workers \ {w} : pc'[v] = pc[v]
    BY <1>1, <1>3, <2>1 DEF Goto, StartRun, IInv, TypeOK
  <2>3. Hands' /\ Exited'
    BY <1>1, <1>3, <2>2 DEF IInv, Hands, Exited, Up
  <2>4. OneOwner' /\ OwnedIsProcessing'
    BY <1>1, <1>3, <2>2 DEF IInv, OneOwner, OwnedIsProcessing, Owns
  <2>5. \A v \in Workers \ {w} : Owns(v) => held[v] \in Jobs \ {j}
    BY <1>1 DEF IInv, TypeOK, Hands, OneOwner, Owns
  <2>6. Progress'
    BY <1>1, <1>3, <2>1, <2>2, <2>5 DEF IInv, Progress, Owns, Cancelled
  <2>7. PendingDeletes' /\ ConflictTruthful'
    BY <1>1 DEF IInv, PendingDeletes, ConflictTruthful
  <2>8. AtMostOneExecution' /\ PollConsistent'
    BY <1>1, <2>1, <2>2 DEF IInv, AtMostOneExecution, PollConsistent,
       PollReply, Finished, Cancelled, Terminal
  <2>9. CancelConfirmed'
    BY <1>1, <2>1, <2>2 DEF IInv, PendingDeletes, CancelConfirmed, Cancelled
  <2> QED BY <2>3, <2>4, <2>6, <2>7, <2>8, <2>9 DEF IInv
<1> QED BY <1>2, <1>3 DEF RateWait

\* UpdateJob writes a row that is still the worker's own.
LEMMA PersistInv ==
    ASSUME IInv, TypeOK', NEW w \in Workers, Persist(w)
    PROVE  IInv'
<1> DEFINE j == held[w]
<1>1. /\ j \in Jobs /\ pc[w] = "persist" /\ Return(w)
      /\ UNCHANGED <<accept, del, reply, proc, api, runs>>
  BY DEF Persist, IInv, TypeOK, Hands, api
<1>2. Up(w) \/ Stopping(w)
  BY DEF Persist, CallWorks, CallFails, CallLosesReply
<1>3. CASE UNCHANGED rows
  BY <1>1, <1>2, <1>3, GiveUpInv
<1>4. CASE rows' = [rows EXCEPT ![j] = ResultRow(@, out[w])]
  <2>1. /\ rows[j] \in Row /\ rows[j].status = "processing"
        /\ rows[j].error = "none" /\ runs[j] = 1 /\ accept[j] # "idle"
    BY <1>1, RowFacts DEF IInv, TypeOK, OwnedIsProcessing, Owns, Progress,
       PollConsistent, Finished, Terminal
  <2>2. out[w] \in Results \ {NilOutcome}
    BY DEF Persist, IInv, Hands
  <2>3. /\ rows'[j].completedAt = TRUE
        /\ \/ /\ rows'[j].status = "completed" /\ rows'[j].result = "full"
              /\ rows'[j].error = "none"
           \/ rows'[j].status = "failed" /\ rows'[j].error = "failure"
        /\ \A k \in Jobs \ {j} : rows'[k] = rows[k]
    BY <1>1, <1>4, <2>1, <2>2, RowFacts DEF IInv, TypeOK
  <2>4. /\ Hands' /\ ~Owns(w)'
        /\ \A v \in Workers \ {w} : pc'[v] = pc[v] /\ held'[v] = held[v]
        /\ pc'[w] = "loop"
    BY <1>1, ReturnHands DEF IInv
  <2>5. \A v \in Workers \ {w} : Owns(v) => held[v] \in Jobs \ {j}
    BY <1>1 DEF IInv, TypeOK, Hands, OneOwner, Owns
  <2>6. Exited' /\ OneOwner' /\ OwnedIsProcessing'
    BY <1>1, <1>2, <2>3, <2>4, <2>5 DEF IInv, Exited, OneOwner,
       OwnedIsProcessing, Owns, Up, Stopping
  <2>7. Progress'
    <3>1. \A k \in Jobs : accept'[k] = "idle" => rows'[k] = NoRow
      BY <1>1, <2>1, <2>3 DEF IInv, Progress
    <3>2. \A k \in Jobs : rows'[k].status \in {"absent", "queued"} \/ Cancelled(k)'
                             => runs'[k] = 0
      BY <1>1, <2>3 DEF IInv, Progress, Cancelled
    <3>3. \A v \in Workers : /\ pc'[v] = "wait" => runs'[held'[v]] = 0
                             /\ pc'[v] \in {"run", "persist"} => runs'[held'[v]] = 1
      BY <1>1, <2>4 DEF IInv, Progress
    <3> QED BY <3>1, <3>2, <3>3 DEF Progress
  <2>8. PendingDeletes'
    BY <1>1, <2>3 DEF IInv, TypeOK, PendingDeletes, Terminal
  <2>9. AtMostOneExecution' /\ ConflictTruthful'
    BY <1>1 DEF IInv, AtMostOneExecution, ConflictTruthful
  <2>10. PollConsistent'
    BY <1>1, <2>1, <2>3
    DEF IInv, PollConsistent, PollReply, Finished, Cancelled, Terminal
  <2>11. CancelConfirmed'
    BY <1>1, <2>1, <2>3 DEF IInv, PendingDeletes, CancelConfirmed, Cancelled
  <2> QED BY <2>4, <2>6, <2>7, <2>8, <2>9, <2>10, <2>11 DEF IInv
<1> QED BY <1>3, <1>4 DEF Persist

-----------------------------------------------------------------------------
\* IInv holds initially and every step keeps it.
THEOREM Inductive == Spec => []IInv
<1>1. Init => IInv
  BY InitInv
<1>2. IInv /\ [Next]_vars => IInv'
  <2> SUFFICES ASSUME IInv, [Next]_vars PROVE IInv'
    OBVIOUS
  <2>1. TypeOK
    BY DEF IInv
  <2>2. CASE UNCHANGED vars
    BY <2>2 DEF vars, IInv, TypeOK, Hands, Exited, Progress, PendingDeletes,
       OneOwner, OwnedIsProcessing, Owns, AtMostOneExecution, PollConsistent,
       PollReply, Finished, Cancelled, CancelConfirmed, ConflictTruthful
  <2>3. CASE \/ \E j \in Jobs : Post(j)
             \/ \E d \in Deleters : Delete(d)
             \/ ApiCrash
    <3>1. TypeOK'
      BY <2>1, <2>3, ApiType
    <3> QED BY <2>3, <3>1, PostInv, DeleteUpdateInv, ApiInv DEF Delete
  <2>4. ASSUME NEW w \in Workers, Work(w) PROVE IInv'
    <3>1. TypeOK'
      BY <2>1, <2>4, WorkType
    <3> QED BY <2>4, <3>1, IdleWorkInv, ClaimInv, RateWaitInv, PersistInv,
               ProcessInv DEF Work
  <2>5. ASSUME NEW p \in Procs, Manage(p) PROVE IInv'
    <3>1. TypeOK'
      BY <2>1, <2>5, ManageType
    <3> QED BY <2>5, <3>1, ProcessInv
  <2> QED BY <2>2, <2>3, <2>4, <2>5 DEF Next
<1> QED BY <1>1, <1>2, PTL DEF Spec

\* ClaimJob gives a job to one worker at most.
THEOREM ExclusiveClaim == Spec => []OneOwner
  BY Inductive, PTL DEF IInv

\* A job in the hands of a worker says processing.
THEOREM OwnedRowIsProcessing == Spec => []OwnedIsProcessing
  BY Inductive, PTL DEF IInv

\* No job is executed twice.
THEOREM ExecutedAtMostOnce == Spec => []AtMostOneExecution
  BY Inductive, PTL DEF IInv

\* DELETE's 200 is final.
THEOREM CancelIsFinal == Spec => []CancelConfirmed
  BY Inductive, PTL DEF IInv

\* DELETE's 409 never quotes "queued".
THEOREM ConflictIsTruthful == Spec => []ConflictTruthful
  BY Inductive, PTL DEF IInv

\* The columns a poll shows agree with each other and with the execution.
THEOREM PollIsConsistent == Spec => []PollConsistent
  BY Inductive, PTL DEF IInv

-----------------------------------------------------------------------------
(***************************************************************************)
(* Action properties.                                                      *)
(***************************************************************************)

\* The only steps that write an existing row are CancelJob's UPDATE, ClaimJob
\* and UpdateJob; each of them finds the row in the status it leaves.
LEMMA RowWriters ==
    ASSUME IInv, [Next]_vars, NEW j \in Jobs, rows'[j] # rows[j]
    PROVE  \/ /\ CreateJob(j) /\ rows[j] = NoRow /\ rows'[j] = InsertRow
           \/ /\ \E d \in Deleters : DeleteUpdate(d, j)
              /\ rows[j].status = "queued" /\ rows'[j] = CancelRow(rows[j])
           \/ \E w \in Workers :
                 /\ held[w] = j
                 /\ \/ /\ Claim(w) /\ rows[j].status = "queued"
                       /\ rows'[j] = ClaimRow(rows[j])
                    \/ /\ Persist(w) /\ rows[j].status = "processing"
                       /\ rows'[j] = ResultRow(rows[j], out[w])
<1>1. CASE UNCHANGED vars
  BY <1>1 DEF vars
<1>2. ASSUME NEW k \in Jobs, Post(k)
      PROVE  CreateJob(j) /\ rows[j] = NoRow /\ rows'[j] = InsertRow
  BY <1>2 DEF Post, CreateJob, Enqueue, Respond, IInv, TypeOK, Progress
<1>3. ASSUME NEW d \in Deleters, Delete(d)
      PROVE  /\ DeleteUpdate(d, j)
             /\ rows[j].status = "queued" /\ rows'[j] = CancelRow(rows[j])
  <2>1. PICK k \in Jobs : DeleteUpdate(d, k)
    BY <1>3 DEF Delete, DeleteSelect
  <2> QED BY <2>1 DEF DeleteUpdate, Cancellable, IInv, TypeOK
<1>4. ASSUME ApiCrash \/ \E p \in Procs : Manage(p) PROVE FALSE
  BY <1>4 DEF ApiCrash, Manage, Crash, Stop, StopDone, Restart
<1>5. ASSUME NEW w \in Workers, Work(w)
      PROVE  /\ held[w] = j
             /\ \/ /\ Claim(w) /\ rows[j].status = "queued"
                   /\ rows'[j] = ClaimRow(rows[j])
                \/ /\ Persist(w) /\ rows[j].status = "processing"
                   /\ rows'[j] = ResultRow(rows[j], out[w])
  <2>1. Claim(w) \/ Persist(w)
    BY <1>5 DEF Work, CheckCtx, Dequeue, DequeueEmpty, DequeueError, RateWait,
       Execute, PanicOnNilResult
  <2>2. CASE Claim(w)
    BY <2>2 DEF Claim, Claimable, IInv, TypeOK
  <2>3. CASE Persist(w)
    BY <2>3 DEF Persist, IInv, TypeOK, OwnedIsProcessing, Owns
  <2> QED BY <2>1, <2>2, <2>3
<1> QED BY <1>1, <1>2, <1>3, <1>4, <1>5 DEF Next

\* A terminal row is never written again.
THEOREM TerminalIsFrozen == Spec => TerminalFrozen
<1>1. IInv /\ [Next]_vars =>
          [\A j \in Jobs : Finished(j) => rows'[j] = rows[j]]_vars
  <2> SUFFICES ASSUME IInv, [Next]_vars, NEW j \in Jobs, Finished(j)
               PROVE  rows'[j] = rows[j]
    OBVIOUS
  <2> QED BY RowWriters, RowFacts DEF Finished, Terminal
<1> QED BY <1>1, Inductive, PTL DEF Spec, TerminalFrozen
=============================================================================
