--------------------------- MODULE CircuitBreaker ---------------------------
(***************************************************************************)
(* One sliding-window breaker of hardening.py (class CircuitBreaker) and   *)
(* the calls that circuit_breaker_call guards with it.  Calls overlap: a   *)
(* call is admitted, awaits its coroutine while other calls come and go,   *)
(* and records its result on whatever state the breaker is in by then.     *)
(*                                                                         *)
(* Time is kept as ages, not as dates: every timestamp is only ever        *)
(* compared with one duration, so its age saturates there and nothing is   *)
(* lost.  The wall clock is taken to be monotonic.                         *)
(***************************************************************************)
EXTENDS Naturals, Sequences, FiniteSets

CONSTANTS
    Calls,             \* slots for concurrent calls through the breaker
    FailureThreshold,  \* failures in the window that trip it (5)
    RecoveryTimeout,   \* ticks it stays OPEN before it probes (30 s)
    HalfOpenMax,       \* half_open_max_requests (3)
    Window             \* window_seconds (60 s)

ASSUME BreakerAssumption ==
    /\ FailureThreshold \in Nat \ {0}
    /\ RecoveryTimeout \in Nat \ {0}
    /\ HalfOpenMax \in Nat \ {0}
    /\ Window \in Nat \ {0}

VARIABLES
    state,         \* _state
    failures,      \* _failures, oldest first, each timestamp as its age
    openFor,       \* age of _open_since; it is read in OPEN only, else 0
    halfOpenUsed,  \* _half_open_used
    calls,         \* for each slot: idle, or the state that admitted its call
    streak         \* history: failures since the last success or reset, at
                   \* most FailureThreshold (no counterpart in the code)

breakerVars == <<state, failures, openFor, halfOpenUsed>>
vars == <<state, failures, openFor, halfOpenUsed, calls, streak>>

States == {"CLOSED", "OPEN", "HALF_OPEN"}

AtMost(n, limit) == IF n < limit THEN n ELSE limit

Init ==
    /\ state = "CLOSED"
    /\ failures = <<>>
    /\ openFor = 0
    /\ halfOpenUsed = 0
    /\ calls = [c \in Calls |-> "idle"]
    /\ streak = 0

(***************************************************************************)
(* The list is in time order, so the entries the comprehension filters out *)
(* are a prefix of it.                                                     *)
(***************************************************************************)
Expired(list) == {i \in DOMAIN list : list[i] >= Window}

Prune(list) == SubSeq(list, Cardinality(Expired(list)) + 1, Len(list))

-----------------------------------------------------------------------------
(* CircuitBreaker.allow_request: true, with its effect.                    *)

PassClosed ==
    /\ state = "CLOSED"
    /\ failures' = Prune(failures)
    /\ UNCHANGED <<state, openFor, halfOpenUsed>>

(* Mutated: probing also waits for a window nothing prunes while OPEN.      *)
StartProbingOnEmptyWindow ==
    /\ state = "OPEN"
    /\ openFor >= RecoveryTimeout
    /\ failures = <<>>
    /\ state' = "HALF_OPEN"
    /\ halfOpenUsed' = 0
    /\ openFor' = 0
    /\ UNCHANGED failures

StartProbing ==
    /\ state = "OPEN"
    /\ openFor >= RecoveryTimeout
    /\ state' = "HALF_OPEN"
    /\ halfOpenUsed' = 0
    /\ openFor' = 0
    /\ UNCHANGED failures

(* Mutated: one probe too many.                                            *)
PassProbeOffByOne ==
    /\ state = "HALF_OPEN"
    /\ halfOpenUsed <= HalfOpenMax
    /\ halfOpenUsed' = halfOpenUsed + 1
    /\ UNCHANGED <<state, failures, openFor>>

PassProbe ==
    /\ state = "HALF_OPEN"
    /\ halfOpenUsed < HalfOpenMax
    /\ halfOpenUsed' = halfOpenUsed + 1
    /\ UNCHANGED <<state, failures, openFor>>

AllowRequest == PassClosed \/ StartProbing \/ PassProbe

(* CircuitBreaker.allow_request: false.                                    *)
Blocked ==
    \/ state = "OPEN" /\ openFor < RecoveryTimeout
    \/ state = "HALF_OPEN" /\ halfOpenUsed >= HalfOpenMax

(* Mutated: a success closes the breaker but leaves its window alone.       *)
RecordSuccessKeepsWindow ==
    /\ state' = "CLOSED"
    /\ halfOpenUsed' = 0
    /\ openFor' = 0
    /\ streak' = 0
    /\ UNCHANGED failures

RecordSuccess ==
    /\ state' = "CLOSED"
    /\ failures' = <<>>
    /\ halfOpenUsed' = 0
    /\ openFor' = 0
    /\ streak' = 0

(* Only a CLOSED breaker trips.                                            *)
RecordFailure ==
    LET recent == Prune(Append(failures, 0))
        trips == state = "CLOSED" /\ Len(recent) >= FailureThreshold
    IN
    /\ failures' = recent
    /\ state' = IF trips THEN "OPEN" ELSE state
    /\ openFor' = IF trips THEN 0 ELSE openFor
    /\ streak' = AtMost(streak + 1, FailureThreshold)
    /\ UNCHANGED halfOpenUsed

-----------------------------------------------------------------------------
(* circuit_breaker_call, and the other entry points.                       *)

(* The call passes allow_request and awaits its coroutine.                 *)
Begin(c) ==
    /\ calls[c] = "idle"
    /\ AllowRequest
    /\ calls' = [calls EXCEPT ![c] = state']
    /\ UNCHANGED streak

Succeed(c) ==
    /\ calls[c] # "idle"
    /\ RecordSuccess
    /\ calls' = [calls EXCEPT ![c] = "idle"]

(* The coroutine raised, or wait_for's timeout expired.                    *)
Fail(c) ==
    /\ calls[c] # "idle"
    /\ RecordFailure
    /\ calls' = [calls EXCEPT ![c] = "idle"]

(* POST /v1/circuit-breakers/reset.                                        *)
Reset ==
    /\ state' = "CLOSED"
    /\ failures' = <<>>
    /\ openFor' = 0
    /\ halfOpenUsed' = 0
    /\ streak' = 0
    /\ UNCHANGED calls

(* GET /v1/circuit-breakers prunes the window of every breaker.            *)
Stats ==
    /\ failures' = Prune(failures)
    /\ UNCHANGED <<state, openFor, halfOpenUsed, calls, streak>>

(* One unit of time passes.                                                *)
Tick ==
    /\ failures' = [i \in 1..Len(failures) |-> AtMost(failures[i] + 1, Window)]
    /\ openFor' = IF state = "OPEN" THEN AtMost(openFor + 1, RecoveryTimeout)
                  ELSE openFor
    /\ UNCHANGED <<state, halfOpenUsed, calls, streak>>

Next ==
    \/ \E c \in Calls : Begin(c) \/ Succeed(c) \/ Fail(c)
    \/ Reset
    \/ Stats
    \/ Tick

Spec == Init /\ [][Next]_vars

(***************************************************************************)
(* Every guarded coroutine ends, because both wait_for calls around it have *)
(* a timeout; time passes; and, the one assumption about clients, requests *)
(* keep being made.                                                        *)
(***************************************************************************)
Fairness ==
    /\ WF_vars(Tick)
    /\ \A c \in Calls : WF_vars(Begin(c)) /\ WF_vars(Succeed(c) \/ Fail(c))

FairSpec == Spec /\ Fairness

-----------------------------------------------------------------------------
(* Every variable has its type; the ages never exceed what they are        *)
(* compared with, and the probes counted never exceed the quota.           *)
TypeOK ==
    /\ state \in States
    /\ failures \in Seq(0..Window)
    /\ openFor \in 0..RecoveryTimeout
    /\ halfOpenUsed \in 0..HalfOpenMax
    /\ calls \in [Calls -> {"idle", "CLOSED", "HALF_OPEN"}]
    /\ streak \in 0..FailureThreshold

(* The breaker is away from CLOSED only if FailureThreshold calls in a row *)
(* failed: failures from before a success never add up with later ones,    *)
(* however the calls overlap.                                              *)
TripNeedsStreak ==
    state # "CLOSED" => streak = FailureThreshold

(* While requests keep coming an OPEN breaker does not stay OPEN: late     *)
(* failures do not push the recovery time back.                            *)
OpenEventuallyProbes ==
    state = "OPEN" ~> state # "OPEN"

(* hardening.py:117 "HALF_OPEN (probing) -> CLOSED or OPEN": probing ends *)
(* one way or the other, however the probes end.                            *)
ProbingEnds ==
    state = "HALF_OPEN" ~> state # "HALF_OPEN"
=============================================================================
