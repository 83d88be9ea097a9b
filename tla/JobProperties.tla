---------------------------- MODULE JobProperties ----------------------------
(***************************************************************************)
(* What is claimed of JobPipeline: the type invariant, safety invariants,  *)
(* action properties, the refinement of JobLifecycle and liveness.         *)
(***************************************************************************)
EXTENDS JobPipeline

TypeOK ==
    /\ rows \in [Jobs -> Row]
    /\ queue \in Seq(Jobs)
    /\ accept \in [Jobs -> AcceptState]
    /\ del \in [Deleters -> Jobs \cup {None}]
    /\ reply \in [Deleters -> Reply]
    /\ proc \in [Procs -> ProcState]
    /\ pc \in [Workers -> PC]
    /\ held \in [Workers -> Jobs \cup {None}]
    /\ out \in [Workers -> Outcome]
    /\ runs \in [Jobs -> Nat]
    /\ faults \in 0..MaxFaults
    /\ stops \in 0..MaxStops

-----------------------------------------------------------------------------
\* Worker w is between a successful ClaimJob and its return from processJob.
Owns(w) == pc[w] \in {"wait", "run", "persist"}

Finished(j)  == rows[j].status \in Terminal
Cancelled(j) == rows[j].status = "failed" /\ rows[j].error = "cancelled"

InQueue(j) == \E i \in DOMAIN queue : queue[i] = j

\* Nobody will ever move job j on: it is queued in the table but its payload
\* is neither in Redis, nor on its way there, nor in the hands of a worker
\* about to claim it; or it is processing and no worker executes it.
Stranded(j) ==
    \/ /\ rows[j].status = "queued"
       /\ accept[j] # "created"
       /\ ~InQueue(j)
       /\ \A w \in Workers : ~(pc[w] = "claim" /\ held[w] = j)
    \/ /\ rows[j].status = "processing"
       /\ \A w \in Workers : ~(Owns(w) /\ held[w] = j)

-----------------------------------------------------------------------------
(***************************************************************************)
(* Safety.                                                                 *)
(***************************************************************************)

\* No two workers are executing the same job, even when its payload sits in
\* Redis twice: ClaimJob's WHERE status = 'queued' lets one of them through.
OneOwner ==
    \A v, w \in Workers :
        Owns(v) /\ Owns(w) /\ held[v] = held[w] => v = w

\* While a worker executes a job its row says processing: neither a DELETE,
\* nor another worker, nor a late UPDATE takes it away.  It is also why the
\* cancelCheck that processJob hands to CrawlBFS and MapBFS never fires.
OwnedIsProcessing ==
    \A w \in Workers : Owns(w) => rows[held[w]].status = "processing"

\* A job is executed at most once, whatever is lost, repeated or restarted.
AtMostOneExecution == \A j \in Jobs : runs[j] <= 1

\* DELETE's 200 is final: the job it answered for is cancelled, was never
\* started and never will be, although its payload stays in Redis.
CancelConfirmed ==
    \A d \in Deleters : reply[d].code = "200" =>
        LET j == reply[d].job IN Cancelled(j) /\ runs[j] = 0

\* DELETE's 409 never quotes "queued": between the UPDATE that matched no
\* row and the SELECT that explains it, no job returns to the queue.
ConflictTruthful ==
    \A d \in Deleters : reply[d].code = "409" =>
        reply[d].seen \in {"processing"} \cup Terminal

\* What polling shows hangs together: a completed job carries the whole
\* result of the one execution it had, a failed one always has an error,
\* completed_at is set exactly when an execution ended, and an unfinished
\* job carries nothing yet.
PollConsistent ==
    \A j \in Jobs :
        LET row == rows[j]
            ans == PollReply(row)
        IN  /\ ans.status = "completed" => /\ ans.results = "full"
                                           /\ row.error = "none"
                                           /\ runs[j] = 1
            /\ ans.status = "failed" => ans.error # "none"
            /\ row.completedAt <=> Finished(j) /\ ~Cancelled(j)
            /\ ~Finished(j) => row.result = "none" /\ row.error = "none"

-----------------------------------------------------------------------------
(***************************************************************************)
(* The inductive invariant behind the safety properties: what ties the     *)
(* hands of the workers and the pending DELETEs to the rows.               *)
(***************************************************************************)

\* The pairs an execution can return.
Results == {NilOutcome, Succeeded, FailedPartial, FailedNil}

\* A worker holds a job from the pop to the return, an outcome between
\* execution and persisting.
Hands ==
    \A w \in Workers :
        /\ held[w] = None <=> pc[w] \in {"loop", "pop", "stopped"}
        /\ out[w] \in Results
        /\ pc[w] # "persist" => out[w] = NilOutcome

\* Nothing runs in a process that is down.
Exited == \A w \in Workers : proc[Home[w]] = "down" => pc[w] = "stopped"

\* A job not yet claimed or cancelled has not run; one that is executed has
\* run before exactly if its worker is past the rate limiter.
Progress ==
    /\ \A j \in Jobs :
          /\ accept[j] = "idle" => rows[j] = NoRow
          /\ rows[j].status \in {"absent", "queued"} \/ Cancelled(j) => runs[j] = 0
    /\ \A w \in Workers :
          /\ pc[w] = "wait" => runs[held[w]] = 0
          /\ pc[w] \in {"run", "persist"} => runs[held[w]] = 1

\* A DELETE between its two statements has seen a job leave the queue for
\* good; an answer names a job.
PendingDeletes ==
    \A d \in Deleters :
        /\ del[d] # None => rows[del[d]].status \in {"processing"} \cup Terminal
        /\ reply[d].code \in {"200", "409"} => reply[d].job \in Jobs

IInv ==
    /\ TypeOK
    /\ Hands
    /\ Exited
    /\ Progress
    /\ PendingDeletes
    /\ OneOwner
    /\ OwnedIsProcessing
    /\ AtMostOneExecution
    /\ PollConsistent
    /\ CancelConfirmed
    /\ ConflictTruthful

-----------------------------------------------------------------------------
(***************************************************************************)
(* What a step may never do.                                               *)
(***************************************************************************)

\* A terminal row is never written again.  UpdateJob has no guard on the
\* status it finds, so this rests on the claim being exclusive.
TerminalFrozen ==
    [][\A j \in Jobs : Finished(j) => rows'[j] = rows[j]]_vars

\* A job gets stuck only in a step that is a failure (a failed call, a lost
\* reply or a crash, all counted in faults), or in one that a worker holding
\* it takes while its process shuts down or dies.
StrandedOnlyByFailure ==
    [][\A j \in Jobs : ~Stranded(j) /\ Stranded(j)' =>
          \/ faults' > faults
          \/ \E w \in Workers : held[w] = j /\ proc'[Home[w]] # "up"]_vars

\* JobPipeline implements JobLifecycle.
PhaseOf(j) == IF Cancelled(j) THEN "cancelled" ELSE rows[j].status

ExecutorOf(j) ==
    LET owners == {w \in Workers : held[w] = j /\ Owns(w)}
    IN  IF owners = {} THEN None ELSE CHOOSE w \in owners : TRUE

L == INSTANCE JobLifecycle WITH
        Nobody   <- None,
        phase    <- [j \in Jobs |-> PhaseOf(j)],
        executor <- [j \in Jobs |-> ExecutorOf(j)]

Lifecycle == L!Spec

-----------------------------------------------------------------------------
(***************************************************************************)
(* Liveness, under Fairness.                                               *)
(***************************************************************************)

\* A job whose client got the 202 ends up completed, failed or cancelled.
AcceptedJobFinishes ==
    \A j \in Jobs : accept[j] = "accepted" ~> Finished(j)

\* With failures and shutdowns: it does, unless it got stuck.
AcceptedJobSettles ==
    \A j \in Jobs : accept[j] = "accepted" ~> Finished(j) \/ Stranded(j)

\* workerPool.Stop returns: no worker waits for ever, whatever it was doing
\* when the context was cancelled.
StopReturns ==
    \A p \in Procs : proc[p] = "stopping" ~> proc[p] # "stopping"

-----------------------------------------------------------------------------
(***************************************************************************)
(* What the documentation says and the code does not do.                   *)
(***************************************************************************)

\* docs/explanation/architecture.md:28: every job must be processed at least
\* once.
NoAcceptedJobLost ==
    \A j \in Jobs : accept[j] = "accepted" => ~Stranded(j)
=============================================================================
