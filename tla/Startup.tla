------------------------------ MODULE Startup ------------------------------
(***************************************************************************)
(* The start of the API process and the worker processes.  Both mains do   *)
(* the same: connect to PostgreSQL and keep trying for a minute            *)
(* (store.New), apply the schema (Migrate), connect to Redis (queue.New);  *)
(* any failure is exit code 1.  They are started together, so they may     *)
(* find an empty database together.  Until the signal handler is set up,   *)
(* at the end, a SIGTERM simply kills them.                                *)
(***************************************************************************)
EXTENDS Integers

CONSTANTS
    Procs,
    Api,               \* the API process; the others are workers
    ConnectDeadline,   \* ticks until store.New stops trying: 60 s
    MaxFaults          \* bound: servers away, a port taken, kills, clients leaving

ASSUME StartupAssumption ==
    /\ Api \in Procs
    /\ ConnectDeadline \in Nat
    /\ MaxFaults \in Nat

VARIABLES
    phase,     \* where a process is, see Phase
    clock,     \* ticks it has been connecting, or draining
    schema,    \* whether the table jobs is committed
    dbUp,
    redisUp,
    outage,    \* history: a server was away, or the port was taken
    faults     \* spent of MaxFaults

servers == <<dbUp, redisUp, outage, faults>>
procs   == <<phase, clock>>
boot    == <<phase, clock, schema, dbUp, redisUp, outage, faults>>

Booting == {"connecting", "migrating", "creating", "dialing", "listening"}
Running == {"running", "stopping", "serving", "draining"}
Exited  == {"failed", "killed", "panicked", "stopped", "forced"}
Phase   == Booting \cup Running \cup Exited

StartupInit ==
    /\ phase   = [p \in Procs |-> "connecting"]
    /\ clock   = [p \in Procs |-> 0]
    /\ schema \in BOOLEAN
    /\ dbUp \in BOOLEAN
    /\ redisUp = TRUE
    /\ outage = ~dbUp
    /\ faults \in 0..MaxFaults
    /\ faults = IF dbUp THEN 0 ELSE 1

Fault == faults < MaxFaults /\ faults' = faults + 1

Enter(p, from, to) == phase[p] = from /\ phase' = [phase EXCEPT ![p] = to]

-----------------------------------------------------------------------------
\* Mutant: no deadline; the loop ends with the first ping that works.
ConnectForever(p) ==
    /\ dbUp /\ Enter(p, "connecting", "migrating")
    /\ clock' = [clock EXCEPT ![p] = 0]
    /\ UNCHANGED <<schema, servers>>

\* store.New: the ping works, or it fails with the deadline behind it.
Connect(p) ==
    /\ IF dbUp THEN Enter(p, "connecting", "migrating")
               ELSE clock[p] >= ConnectDeadline /\ Enter(p, "connecting", "failed")
    /\ clock' = [clock EXCEPT ![p] = 0]
    /\ UNCHANGED <<schema, servers>>

\* Migrate: CREATE TABLE IF NOT EXISTS looks in the catalog first ...
FindSchema(p) ==
    /\ dbUp
    /\ Enter(p, "migrating", IF schema THEN "dialing" ELSE "creating")
    /\ UNCHANGED <<clock, schema, servers>>

\* ... and only its transaction tells whether it was the first: another that
\* committed meanwhile makes it fail on the unique index of pg_type.
CreateSchema(p) ==
    /\ dbUp
    /\ Enter(p, "creating", IF schema THEN "failed" ELSE "dialing")
    /\ schema' = TRUE
    /\ UNCHANGED <<clock, servers>>

\* The server is gone; a COMMIT under way may have been applied.
MigrateFails(p) ==
    /\ ~dbUp
    /\ \E from \in {"migrating", "creating"} :
          /\ Enter(p, from, "failed")
          /\ schema' \in {schema, schema \/ (from = "creating")}
    /\ UNCHANGED <<clock, servers>>

\* queue.New pings once.  The worker then starts its goroutines, the API
\* its listener.
Dial(p) ==
    /\ Enter(p, "dialing", IF ~redisUp THEN "failed"
                           ELSE IF p = Api THEN "listening" ELSE "running")
    /\ UNCHANGED <<clock, schema, servers>>

Listen == Enter(Api, "listening", "serving") /\ UNCHANGED <<clock, schema, servers>>

\* The port is taken: ListenAndServe fails and the goroutine exits.
PortTaken ==
    /\ Fault
    /\ outage' = TRUE
    /\ Enter(Api, "listening", "failed")
    /\ UNCHANGED <<clock, schema, dbUp, redisUp>>

\* A SIGTERM before the handler is set up, or a SIGKILL.  PostgreSQL may
\* still commit what a killed process had sent.
Killed(p) ==
    /\ Fault
    /\ phase[p] \in Booting \cup Running
    /\ phase'  = [phase EXCEPT ![p] = "killed"]
    /\ schema' \in {schema, schema \/ (dbUp /\ phase[p] = "creating")}
    /\ UNCHANGED <<clock, dbUp, redisUp, outage>>

Boot(p) ==
    \/ Connect(p) \/ FindSchema(p) \/ CreateSchema(p) \/ MigrateFails(p) \/ Dial(p)
    \/ p = Api /\ Listen

ServerFails ==
    /\ Fault
    /\ outage' = TRUE
    /\ \/ dbUp /\ dbUp' = FALSE /\ UNCHANGED redisUp
       \/ redisUp /\ redisUp' = FALSE /\ UNCHANGED dbUp
    /\ UNCHANGED <<procs, schema>>

ServerReturns ==
    /\ \/ ~dbUp /\ dbUp' = TRUE /\ UNCHANGED redisUp
       \/ ~redisUp /\ redisUp' = TRUE /\ UNCHANGED dbUp
    /\ UNCHANGED <<procs, schema, outage, faults>>

StartupNext ==
    \/ \E p \in Procs : Boot(p) \/ Killed(p)
    \/ PortTaken \/ ServerFails \/ ServerReturns
=============================================================================
