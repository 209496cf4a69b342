---------------------------- MODULE RateLimiter ----------------------------
(***************************************************************************)
(* The token bucket of rate_limiter.rs for one client address, which       *)
(* several requests of that client use at the same time.                   *)
(*                                                                         *)
(* Time advances in ticks, TicksPerSecond of them a second, and tokens are *)
(* counted in units: a token is worth 60 * TicksPerSecond units, so that   *)
(* requests_per_minute units flow back each tick.  The code computes with  *)
(* f64; the model is exact, so what f64 rounds away is not in it, only the *)
(* floors, the ceilings and the cap are.  The limiter is enabled.          *)
(***************************************************************************)
EXTENDS Integers

CONSTANTS
    Requests,            \* requests of the client that may wait at one time
    None,                \* "no value"
    RequestsPerMinute,   \* requests_per_minute
    BurstSize,           \* burst_size
    TicksPerSecond       \* resolution of the clock

\* The code checks neither number: it divides by a rate of 0, and with a burst of
\* 0 it refuses every request.
ASSUME LimiterAssumption ==
    /\ None \notin Int
    /\ RequestsPerMinute \in Nat \ {0}
    /\ BurstSize \in Nat \ {0}
    /\ TicksPerSecond \in Nat \ {0}

VARIABLES
    now,           \* the clock
    arrival,       \* arrival[r]: when r asked for the mutex, or None
    tokens,        \* info.tokens, in units
    last,          \* info.last_update, None while the client is unknown
    told,          \* the last answer: what the client may rely on
    from,          \* start of the window that an observer watches, or None
    admitted       \* requests admitted in that window

bucket == <<tokens, last>>
window == <<from, admitted>>
vars == <<now, arrival, bucket, told, window>>

Token == 60 * TicksPerSecond
Full == BurstSize * Token

\* "remaining" requests may follow at once, or a retry at tick "at".
NoAnswer == [kind |-> "none", remaining |-> 0, at |-> 0]

TypeOK ==
    /\ now \in Nat
    /\ arrival \in [Requests -> Nat \cup {None}]
    /\ tokens \in 0..Full
    /\ last \in Nat \cup {None}
    /\ told \in [kind : {"none", "admitted", "refused"}, remaining : Nat, at : Nat]
    /\ from \in Nat \cup {None}
    /\ admitted \in Nat

Init ==
    /\ now = 0
    /\ arrival = [r \in Requests |-> None]
    /\ tokens = Full
    /\ last = None
    /\ told = NoAnswer
    /\ from = None
    /\ admitted = 0

-----------------------------------------------------------------------------
Tick ==
    /\ now' = now + 1
    /\ UNCHANGED <<arrival, bucket, told, window>>

\* The observer's window opens at any time, once.
Watch ==
    /\ from = None
    /\ from' = now
    /\ UNCHANGED <<now, arrival, bucket, told, admitted>>

\* Request r arrives and waits for the mutex of the clients' map.
Arrive(r) ==
    /\ arrival[r] = None
    /\ arrival' = [arrival EXCEPT ![r] = now]
    /\ UNCHANGED <<now, bucket, told, window>>

\* Mutant: the clock is read before the mutex is taken.
ClockAtArrival(r) == arrival[r]

\* Instant::now(), read under the mutex.
Clock(r) == now

\* duration_since() saturates at 0; a new client has no past.
Elapsed(t) == IF last = None \/ t < last THEN 0 ELSE t - last

Least(a, b) == IF a < b THEN a ELSE b

\* Mutant: the refill is not capped at burst_size.
RefilledUncapped(t) == tokens + RequestsPerMinute * Elapsed(t)

\* The bucket at time t, before a token is taken.
Refilled(t) == Least(tokens + RequestsPerMinute * Elapsed(t), Full)

\* Mutant: the client is told to wait for one token, rounded down.
SecondsToOneToken(units) ==
    (Token - units) \div (RequestsPerMinute * TicksPerSecond)

\* reset_seconds when no whole token is left: ceil of the time to a full bucket.
ResetSeconds(units) ==
    LET flow == RequestsPerMinute * TicksPerSecond
    IN (Full - units + flow - 1) \div flow

\* Mutant: the count is taken before the token is.
RemainingBefore(units) == units \div Token

\* X-RateLimit-Remaining of an admitted request.
Remaining(units) == (units - Token) \div Token

\* check_rate_limit() for request r lets it pass.
Admit(r) ==
    LET t == Clock(r) IN
    /\ arrival[r] # None
    /\ Refilled(t) >= Token
    /\ tokens' = Refilled(t) - Token
    /\ last' = t
    /\ told' = [kind |-> "admitted", remaining |-> Remaining(Refilled(t)), at |-> 0]
    /\ admitted' = IF from = None THEN 0 ELSE admitted + 1
    /\ arrival' = [arrival EXCEPT ![r] = None]
    /\ UNCHANGED <<now, from>>

\* check_rate_limit() for request r refuses it: 429 with Retry-After.
Refuse(r) ==
    LET t == Clock(r) IN
    /\ arrival[r] # None
    /\ Refilled(t) < Token
    /\ tokens' = Refilled(t)
    /\ last' = t
    /\ told' = [kind |-> "refused", remaining |-> 0,
                at |-> now + TicksPerSecond * ResetSeconds(Refilled(t))]
    /\ arrival' = [arrival EXCEPT ![r] = None]
    /\ UNCHANGED <<now, window>>

Next ==
    \/ Tick
    \/ Watch
    \/ \E r \in Requests : Arrive(r) \/ Admit(r) \/ Refuse(r)

Spec == Init /\ [][Next]_vars

-----------------------------------------------------------------------------
\* However its requests are spaced and however long they wait for the mutex,
\* a client is admitted at most BurstSize times plus its rate in any window.
WindowBound ==
    from # None => admitted * Token <= Full + RequestsPerMinute * (now - from)

\* A client that was refused and comes back, as its next request, when the
\* Retry-After it was told is over is not refused again.
RetryAfterSuffices ==
    [][\A r \in Requests :
         told.kind = "refused" /\ now >= told.at => ~Refuse(r)]_vars

\* A client that was told that requests remain is not refused its next one.
RemainingIsHonest ==
    [][\A r \in Requests :
         told.kind = "admitted" /\ told.remaining > 0 => ~Refuse(r)]_vars

-----------------------------------------------------------------------------
\* What the tokens in the bucket and the answers given have in common with
\* the clock: the inductive invariant behind the three properties.
Balance ==
    /\ last = None => tokens = Full /\ told = NoAnswer /\ admitted = 0
    /\ last # None => last <= now
    /\ from = None => admitted = 0
    /\ from # None =>
         /\ from <= now
         /\ admitted = 0 \/ (/\ last # None
                             /\ from <= last
                             /\ admitted * Token + tokens
                                  <= Full + RequestsPerMinute * (last - from))
    /\ told.kind = "refused" =>
         tokens + RequestsPerMinute * (told.at - last) >= Token
    /\ told.kind = "admitted" => told.remaining * Token <= tokens

\* No refill, admission or refusal, in whatever order handlers get the lock,
\* lets the bucket and the answers drift from the clock.
BucketIsSound == TypeOK /\ Balance
=============================================================================
