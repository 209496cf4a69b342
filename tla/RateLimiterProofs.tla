------------------------- MODULE RateLimiterProofs -------------------------
(***************************************************************************)
(* The rate limiter keeps its bound, and the headers it sends can be       *)
(* relied on, for every rate, burst and resolution of the clock.           *)
(***************************************************************************)
EXTENDS RateLimiter, TLAPS

\* Time that passes in two pieces refills what it refills in one.
LEMMA RateIsLinear ==
    ASSUME NEW k \in Int, NEW a \in Int, NEW b \in Int, NEW c \in Int
    PROVE  k * (c - a) = k * (c - b) + k * (b - a)
OBVIOUS

\* One more admission takes one more token.
LEMMA OneMore ==
    ASSUME NEW n \in Int, NEW k \in Int
    PROVE  (n + 1) * k = n * k + k
OBVIOUS

\* A longer time refills no less.
LEMMA RateIsMonotone ==
    ASSUME NEW k \in Nat, NEW a \in Int, NEW b \in Int, a <= b
    PROVE  k * a <= k * b
OBVIOUS

\* The floor of a division.
LEMMA FloorBounds ==
    ASSUME NEW n \in Nat, NEW d \in Nat \ {0}
    PROVE  /\ n \div d \in Nat
           /\ (n \div d) * d <= n
           /\ n < (n \div d) * d + d
OBVIOUS

\* A token and a full bucket are worth a positive number of units.
LEMMA Sizes ==
    /\ Token \in Nat \ {0}
    /\ Full \in Nat
    /\ Full >= Token
    /\ RequestsPerMinute * TicksPerSecond \in Nat \ {0}
BY LimiterAssumption DEF Token, Full

-----------------------------------------------------------------------------
\* What a refill of the bucket at the current time comes to.
LEMMA RefillBounds ==
    ASSUME TypeOK, Balance
    PROVE  /\ Refilled(now) \in 0..Full
           /\ Refilled(now) >= tokens
           /\ last # None =>
                /\ Refilled(now) <= tokens + RequestsPerMinute * (now - last)
                /\ \/ Refilled(now) = Full
                   \/ Refilled(now) = tokens + RequestsPerMinute * (now - last)
<1> DEFINE flow == RequestsPerMinute * Elapsed(now)
<1>1. now \in Nat /\ tokens \in 0..Full /\ last \in Nat \cup {None}
  BY DEF TypeOK
<1>2. last # None => last \in Nat /\ last <= now
  BY <1>1 DEF Balance
<1>3. Elapsed(now) \in Nat /\ (last # None => Elapsed(now) = now - last)
  BY <1>1, <1>2 DEF Elapsed
<1>4. flow \in Nat
  BY <1>3, LimiterAssumption
<1> HIDE DEF flow
<1>5. Refilled(now) = Least(tokens + flow, Full)
  BY DEF Refilled, flow
<1>6. last # None => flow = RequestsPerMinute * (now - last)
  BY <1>3 DEF flow
<1> QED
  BY <1>1, <1>4, <1>5, <1>6, Sizes DEF Least

\* The bucket starts full and nobody has been told anything.
LEMMA InitBalanced == Init => TypeOK /\ Balance
BY Sizes, LimiterAssumption DEF Init, TypeOK, Balance, NoAnswer

\* Every step keeps the balance.
LEMMA StepBalanced == TypeOK /\ Balance /\ [Next]_vars => TypeOK' /\ Balance'
<1> SUFFICES ASSUME TypeOK, Balance, [Next]_vars
             PROVE  TypeOK' /\ Balance'
  OBVIOUS
<1> USE LimiterAssumption
<1>t. /\ now \in Nat
      /\ tokens \in 0..Full
      /\ last \in Nat \cup {None}
      /\ from \in Nat \cup {None}
      /\ admitted \in Nat
      /\ RequestsPerMinute \in Nat
      /\ Token \in Nat
      /\ Full \in Nat
  BY Sizes DEF TypeOK
<1>1. CASE Tick
  BY <1>1, <1>t DEF Tick, TypeOK, Balance, bucket, window
<1>2. CASE Watch
  BY <1>2, <1>t DEF Watch, TypeOK, Balance, bucket
<1>3. ASSUME NEW r \in Requests, Arrive(r)
      PROVE  TypeOK' /\ Balance'
  BY <1>3, <1>t DEF Arrive, TypeOK, Balance, bucket, window
<1>4. ASSUME NEW r \in Requests, Admit(r)
      PROVE  TypeOK' /\ Balance'
  <2> DEFINE units == Refilled(now)
  <2>1. /\ units \in 0..Full
        /\ units >= Token
        /\ last # None => units <= tokens + RequestsPerMinute * (now - last)
    BY <1>4, RefillBounds DEF Admit, Clock
  <2>2. /\ tokens' = units - Token
        /\ last' = now
        /\ now' = now
        /\ from' = from
        /\ told' = [kind |-> "admitted", remaining |-> Remaining(units), at |-> 0]
        /\ admitted' = IF from = None THEN 0 ELSE admitted + 1
        /\ arrival' = [arrival EXCEPT ![r] = None]
    BY <1>4 DEF Admit, Clock
  <2> HIDE DEF units
  <2>3. Remaining(units) \in Nat /\ Remaining(units) * Token <= units - Token
    <3>1. units - Token \in Nat
      BY <2>1, <1>t
    <3> QED
      BY <3>1, Sizes, FloorBounds DEF Remaining
  <2>4. TypeOK'
    BY <2>1, <2>2, <2>3, <1>t DEF TypeOK
  <2>5. ASSUME from # None
        PROVE  /\ from <= now
               /\ (admitted + 1) * Token + (units - Token)
                    <= Full + RequestsPerMinute * (now - from)
    <3>1. from \in Nat /\ from <= now
      BY <2>5, <1>t DEF Balance
    <3>2. RequestsPerMinute * (now - from) \in Nat
      BY <3>1, <1>t
    <3>3. (admitted + 1) * Token = admitted * Token + Token
      BY <1>t, OneMore
    <3>4. CASE admitted = 0
      BY <2>1, <3>1, <3>2, <3>3, <3>4, <1>t
    <3>5. CASE admitted # 0
      <4>1. /\ last \in Nat /\ from <= last
            /\ admitted * Token + tokens <= Full + RequestsPerMinute * (last - from)
        BY <2>5, <3>5, <1>t DEF Balance
      <4>2. RequestsPerMinute * (now - from)
              = RequestsPerMinute * (now - last) + RequestsPerMinute * (last - from)
        BY <3>1, <4>1, <1>t, RateIsLinear
      <4>3. /\ RequestsPerMinute * (now - last) \in Int
            /\ RequestsPerMinute * (last - from) \in Int
            /\ admitted * Token \in Nat
        BY <3>1, <4>1, <1>t
      <4>4. units <= tokens + RequestsPerMinute * (now - last)
        BY <2>1, <4>1
      <4> QED
        BY <2>1, <3>1, <3>3, <4>1, <4>2, <4>3, <4>4, <1>t
    <3> QED
      BY <3>4, <3>5
  <2>6. Balance'
    BY <2>2, <2>3, <2>5, <1>t DEF Balance
  <2> QED
    BY <2>4, <2>6
<1>5. ASSUME NEW r \in Requests, Refuse(r)
      PROVE  TypeOK' /\ Balance'
  <2> DEFINE units == Refilled(now)
             wait == TicksPerSecond * ResetSeconds(units)
  <2>1. /\ units \in 0..Full
        /\ units >= tokens
        /\ last # None => units <= tokens + RequestsPerMinute * (now - last)
    BY RefillBounds
  <2>2. /\ tokens' = units
        /\ last' = now
        /\ now' = now
        /\ from' = from
        /\ admitted' = admitted
        /\ told' = [kind |-> "refused", remaining |-> 0, at |-> now + wait]
        /\ arrival' = [arrival EXCEPT ![r] = None]
    BY <1>5 DEF Refuse, Clock, window
  <2> HIDE DEF units
  <2>3. wait \in Nat /\ units + RequestsPerMinute * wait >= Token
    <3> DEFINE flow == RequestsPerMinute * TicksPerSecond
               missing == Full - units + flow - 1
    <3>1. flow \in Nat \ {0} /\ missing \in Nat
      BY <2>1, Sizes, <1>t
    <3>2. ResetSeconds(units) = missing \div flow
      BY DEF ResetSeconds
    <3>3. missing \div flow \in Nat /\ missing < (missing \div flow) * flow + flow
      BY <3>1, FloorBounds
    <3>4. RequestsPerMinute * wait = (missing \div flow) * flow
      BY <3>2, <3>3
    <3>5. wait \in Nat
      BY <3>2, <3>3
    <3>6. (missing \div flow) * flow \in Nat
      BY <3>1, <3>3
    <3> HIDE DEF flow, wait
    <3> QED
      BY <2>1, <3>1, <3>3, <3>4, <3>5, <3>6, Sizes, <1>t
  <2> HIDE DEF wait
  <2>4. TypeOK'
    BY <2>1, <2>2, <2>3, <1>t DEF TypeOK
  <2>5. ASSUME from # None, admitted # 0
        PROVE  /\ from <= now
               /\ admitted * Token + units <= Full + RequestsPerMinute * (now - from)
    <3>1. /\ from \in Nat /\ last \in Nat /\ from <= last /\ last <= now
          /\ admitted * Token + tokens <= Full + RequestsPerMinute * (last - from)
      BY <2>5, <1>t DEF Balance
    <3>2. RequestsPerMinute * (now - from)
            = RequestsPerMinute * (now - last) + RequestsPerMinute * (last - from)
      BY <3>1, <1>t, RateIsLinear
    <3>3. /\ RequestsPerMinute * (now - last) \in Int
          /\ RequestsPerMinute * (last - from) \in Int
          /\ admitted * Token \in Nat
      BY <3>1, <1>t
    <3>4. units <= tokens + RequestsPerMinute * (now - last)
      BY <2>1, <3>1
    <3> QED
      BY <2>1, <3>1, <3>2, <3>3, <3>4, <1>t
  <2>6. now + wait - now = wait
    BY <2>3, <1>t
  <2>7. from # None => from <= now
    BY DEF Balance
  <2>8. from = None => admitted = 0
    BY DEF Balance
  <2>9. Balance'
    BY <2>2, <2>3, <2>5, <2>6, <2>7, <2>8, <1>t DEF Balance
  <2> QED
    BY <2>4, <2>9
<1>6. CASE UNCHANGED vars
  BY <1>6 DEF vars, TypeOK, Balance, bucket, window
<1> QED
  BY <1>1, <1>2, <1>3, <1>4, <1>5, <1>6 DEF Next

\* The inductive invariant holds in every behaviour.
THEOREM Balanced == Spec => []BucketIsSound
<1>1. BucketIsSound <=> TypeOK /\ Balance
  BY DEF BucketIsSound
<1> QED
  BY <1>1, InitBalanced, StepBalanced, PTL DEF Spec

\* A client is never admitted more often, in any window of time, than its
\* burst and its rate allow: the tokens it spent were in the bucket when the
\* window opened or flowed in since.
THEOREM WindowsAreBounded == Spec => []WindowBound
<1>1. TypeOK /\ Balance => WindowBound
  <2> SUFFICES ASSUME TypeOK, Balance, from # None
               PROVE  admitted * Token <= Full + RequestsPerMinute * (now - from)
    BY DEF WindowBound
  <2>1. /\ now \in Nat /\ from \in Nat /\ from <= now
        /\ tokens \in Nat /\ admitted \in Nat /\ Token \in Nat /\ Full \in Nat
        /\ RequestsPerMinute \in Nat
    BY Sizes, LimiterAssumption DEF TypeOK, Balance
  <2>2. CASE admitted = 0
    <3>1. RequestsPerMinute * (now - from) \in Nat
      BY <2>1
    <3> QED
      BY <2>1, <2>2, <3>1
  <2>3. CASE admitted # 0
    <3>1. /\ last \in Nat /\ from <= last /\ last <= now
          /\ admitted * Token + tokens <= Full + RequestsPerMinute * (last - from)
      BY <2>3 DEF TypeOK, Balance
    <3>2. RequestsPerMinute * (last - from) <= RequestsPerMinute * (now - from)
      BY <2>1, <3>1, RateIsMonotone
    <3>3. /\ admitted * Token \in Int
          /\ RequestsPerMinute * (last - from) \in Int
          /\ RequestsPerMinute * (now - from) \in Int
      BY <2>1, <3>1
    <3> QED
      BY <2>1, <3>1, <3>2, <3>3
  <2> QED
    BY <2>2, <2>3
<1> QED
  BY <1>1, Balanced, PTL DEF BucketIsSound

\* Whoever waits as long as the Retry-After said is admitted, if that is the
\* client's next request.
THEOREM RetryAfterIsEnough == Spec => RetryAfterSuffices
<1>1. TypeOK /\ Balance =>
        [\A r \in Requests :
           told.kind = "refused" /\ now >= told.at => ~Refuse(r)]_vars
  <2> SUFFICES ASSUME TypeOK, Balance, NEW r \in Requests,
                      told.kind = "refused", now >= told.at, Refuse(r)
               PROVE  FALSE
    OBVIOUS
  <2>1. Refilled(now) < Token
    BY DEF Refuse, Clock
  <2>2. last # None
    BY DEF Balance, NoAnswer
  <2>3. /\ now \in Nat /\ last \in Nat /\ tokens \in Nat /\ told.at \in Nat
        /\ RequestsPerMinute \in Nat /\ Full \in Nat /\ Token \in Nat /\ Full >= Token
    BY <2>2, Sizes, LimiterAssumption DEF TypeOK
  <2>4. tokens + RequestsPerMinute * (told.at - last) >= Token
    BY DEF Balance
  <2>5. RequestsPerMinute * (told.at - last) <= RequestsPerMinute * (now - last)
    BY <2>3, RateIsMonotone
  <2>6. \/ Refilled(now) = Full
        \/ Refilled(now) = tokens + RequestsPerMinute * (now - last)
    BY <2>2, RefillBounds
  <2>7. /\ RequestsPerMinute * (told.at - last) \in Int
        /\ RequestsPerMinute * (now - last) \in Int
    BY <2>3
  <2> QED
    BY <2>1, <2>3, <2>4, <2>5, <2>6, <2>7
<1> QED
  BY <1>1, Balanced, PTL DEF BucketIsSound, RetryAfterSuffices

\* Whoever is told that requests remain is admitted with the next one.
THEOREM RemainingCanBeUsed == Spec => RemainingIsHonest
<1>1. TypeOK /\ Balance =>
        [\A r \in Requests :
           told.kind = "admitted" /\ told.remaining > 0 => ~Refuse(r)]_vars
  <2> SUFFICES ASSUME TypeOK, Balance, NEW r \in Requests,
                      told.kind = "admitted", told.remaining > 0, Refuse(r)
               PROVE  FALSE
    OBVIOUS
  <2>1. Refilled(now) < Token
    BY DEF Refuse, Clock
  <2>2. told.remaining * Token <= tokens
    BY DEF Balance
  <2>3. told.remaining \in Nat /\ tokens \in Nat /\ Token \in Nat
    BY Sizes DEF TypeOK
  <2>4. 1 * Token <= told.remaining * Token
    BY <2>3
  <2>5. Refilled(now) >= tokens /\ Refilled(now) \in Int
    BY RefillBounds
  <2> QED
    BY <2>1, <2>2, <2>3, <2>4, <2>5
<1> QED
  BY <1>1, Balanced, PTL DEF BucketIsSound, RemainingIsHonest
=============================================================================
