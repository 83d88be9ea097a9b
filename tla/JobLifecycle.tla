---------------------------- MODULE JobLifecycle ----------------------------
(***************************************************************************)
(* What the service promises about a job, without queue, table, handlers   *)
(* or processes: a job is executed by one worker at most, once at most; it *)
(* can be cancelled only before that; what it ends as, it stays.  A worker *)
(* may vanish, and the job it was executing is then never taken up again.  *)
(* JobPipeline implements this specification (JobProperties!Lifecycle).    *)
(***************************************************************************)
CONSTANTS Jobs, Workers, Nobody

VARIABLES
    phase,     \* what a client that polls can tell about a job
    executor   \* the worker that is executing it, or Nobody

vars == <<phase, executor>>

Phase == {"absent", "queued", "processing", "completed", "failed", "cancelled"}

Init ==
    /\ phase = [j \in Jobs |-> "absent"]
    /\ executor = [j \in Jobs |-> Nobody]

Move(j, from, to) ==
    /\ phase[j] = from
    /\ phase' = [phase EXCEPT ![j] = to]

Accept(j) == Move(j, "absent", "queued") /\ UNCHANGED executor

Cancel(j) == Move(j, "queued", "cancelled") /\ UNCHANGED executor

\* A worker with no other job starts this one ...
Start(j, w) ==
    /\ \A k \in Jobs : executor[k] # w
    /\ Move(j, "queued", "processing")
    /\ executor' = [executor EXCEPT ![j] = w]

\* ... or marks it and never learns that it did.
StartUnaware(j) == Move(j, "queued", "processing") /\ UNCHANGED executor

Finish(j) ==
    /\ executor[j] # Nobody
    /\ \E to \in {"completed", "failed"} : Move(j, "processing", to)
    /\ executor' = [executor EXCEPT ![j] = Nobody]

\* Workers give up, or die holding, some of the jobs.
Abandon ==
    /\ UNCHANGED phase
    /\ \E gone \in SUBSET {j \in Jobs : executor[j] # Nobody} :
          executor' = [j \in Jobs |-> IF j \in gone THEN Nobody ELSE executor[j]]

Next ==
    \/ Abandon
    \/ \E j \in Jobs : Accept(j) \/ Cancel(j) \/ StartUnaware(j) \/ Finish(j)
    \/ \E j \in Jobs, w \in Workers : Start(j, w)

Spec == Init /\ [][Next]_vars
=============================================================================
