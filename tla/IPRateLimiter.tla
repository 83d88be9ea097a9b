---------------------------- MODULE IPRateLimiter ----------------------------
(***************************************************************************)
(* The per-address rate limiter every request passes before its handler.   *)
(* The lookup of a limiter and its use are two steps, and between them the *)
(* clean-up may throw the whole table away: the limiter at hand then lives *)
(* on for that request only.                                               *)
(*                                                                         *)
(* Time is counted in ticks, one token of a limiter each.                  *)
(***************************************************************************)
EXTENDS Integers, FiniteSets

CONSTANTS
    Clients,        \* who has at most one request under way
    Addresses,
    AddressOf,      \* the address a client's requests come from
    Buckets,        \* places in memory for a *rate.Limiter
    ApiBurst,       \* API_RATE_BURST
    None

ASSUME LimiterAssumption ==
    /\ IsFiniteSet(Clients) /\ IsFiniteSet(Addresses) /\ IsFiniteSet(Buckets)
    /\ AddressOf \in [Clients -> Addresses]
    /\ ApiBurst \in Nat
    /\ None \notin Buckets
    \* Memory does not run out: a bucket that nothing refers to is collected,
    \* and a client in want of a new one holds none.
    /\ Cardinality(Buckets) >= Cardinality(Clients) + Cardinality(Addresses) - 1

VARIABLES
    at,        \* a client's request: "away", "holding" or "inside"
    visitors,  \* the table: the limiter of each address, or None
    tokens,    \* what each limiter has left
    held,      \* the limiter a request looked up and has not used, or None
    current,   \* history: the requests that hold one of the present table
    recent     \* history: an address's admissions by the present table, one
               \* forgotten at each tick

limiterVars == <<at, visitors, tokens, held, current, recent>>

InitLimiter ==
    /\ at       = [c \in Clients |-> "away"]
    /\ visitors = [a \in Addresses |-> None]
    /\ tokens   = [b \in Buckets |-> ApiBurst]
    /\ held     = [c \in Clients |-> None]
    /\ current  = {}
    /\ recent   = [a \in Addresses |-> 0]

-----------------------------------------------------------------------------
Unreferenced ==
    {b \in Buckets : /\ \A a \in Addresses : visitors[a] # b
                     /\ \A c \in Clients : held[c] # b}

Hold(c, b) ==
    /\ at[c] = "away"
    /\ at'      = [at EXCEPT ![c] = "holding"]
    /\ held'    = [held EXCEPT ![c] = b]
    /\ current' = current \cup {c}
    /\ UNCHANGED recent

MakeLimiter(c) ==
    LET new == CHOOSE b \in Unreferenced : TRUE IN
    /\ Hold(c, new)
    /\ visitors' = [visitors EXCEPT ![AddressOf[c]] = new]
    /\ tokens'   = [tokens EXCEPT ![new] = ApiBurst]

\* Mutant: a limiter that was used up is replaced.
GetLimiterRenewing(c) ==
    LET found == visitors[AddressOf[c]] IN
    IF found = None \/ tokens[found] = 0
       THEN MakeLimiter(c)
       ELSE Hold(c, found) /\ UNCHANGED <<visitors, tokens>>

\* A request arrives: getLimiter, under the lock.
GetLimiter(c) ==
    LET found == visitors[AddressOf[c]] IN
    \/ found = None /\ MakeLimiter(c)
    \/ found # None /\ Hold(c, found) /\ UNCHANGED <<visitors, tokens>>

Drop(c) ==
    /\ held'    = [held EXCEPT ![c] = None]
    /\ current' = current \ {c}

\* Allow takes a token, and the handler runs.
Admit(c) ==
    /\ at[c] = "holding"
    /\ tokens[held[c]] > 0
    /\ at'     = [at EXCEPT ![c] = "inside"]
    /\ tokens' = [tokens EXCEPT ![held[c]] = @ - 1]
    /\ recent' = IF c \in current THEN [recent EXCEPT ![AddressOf[c]] = @ + 1]
                                  ELSE recent
    /\ Drop(c)
    /\ UNCHANGED visitors

\* 429.
Refuse(c) ==
    /\ at[c] = "holding"
    /\ tokens[held[c]] = 0
    /\ at' = [at EXCEPT ![c] = "away"]
    /\ Drop(c)
    /\ UNCHANGED <<visitors, tokens, recent>>

\* The handler has answered.
Leave(c) ==
    /\ at[c] = "inside"
    /\ at' = [at EXCEPT ![c] = "away"]
    /\ UNCHANGED <<visitors, tokens, held, current, recent>>

-----------------------------------------------------------------------------
\* A token's worth of time passes.
Refill ==
    /\ tokens' = [b \in Buckets |-> IF tokens[b] < ApiBurst THEN tokens[b] + 1
                                                            ELSE tokens[b]]
    /\ recent' = [a \in Addresses |-> IF recent[a] > 0 THEN recent[a] - 1 ELSE 0]
    /\ UNCHANGED <<at, visitors, held, current>>

\* cleanupLoop: the table is replaced, limiters in use included.
Cleanup ==
    /\ visitors' = [a \in Addresses |-> None]
    /\ current'  = {}
    /\ recent'   = [a \in Addresses |-> 0]
    /\ UNCHANGED <<at, tokens, held>>
=============================================================================
