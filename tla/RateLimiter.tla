----------------------------- MODULE RateLimiter -----------------------------
(***************************************************************************)
(* The rate limiter of the ingest service (checkRateLimit of               *)
(* services/ingest/src/app.ts): a counter per API key in the memory of the *)
(* process, begun anew by the first request that comes after the window of *)
(* the last one has passed.  A refused request is counted too.             *)
(*                                                                         *)
(* The clock is taken to be monotone: Date.now() is not, and while it is   *)
(* set back the window lasts that much longer.                             *)
(***************************************************************************)
EXTENDS Naturals, Sequences, FiniteSets

CONSTANTS
  Keys,
  Window,        \* RATE_LIMIT_WINDOW_MS
  Max,           \* RATE_LIMIT_MAX_REQUESTS
  MaxTime,       \* end of the clock (a bound)
  MaxArrivals    \* requests between two starts of the service (a bound)

RateLimiterAssumption ==
  /\ Window \in Nat /\ Max \in Nat \ {0}
  /\ MaxTime \in Nat /\ MaxArrivals \in Nat

VARIABLES
  now,
  buckets,    \* rateLimitBuckets; a count of 0 stands for no entry
  arrivals    \* history since the service started: key, time and fate of each request

vars == <<now, buckets, arrivals>>

NoBucket == [count |-> 0, windowStart |-> 0]

Init ==
  /\ now = 0
  /\ buckets = [k \in Keys |-> NoBucket]
  /\ arrivals = <<>>

Tick ==
  /\ now < MaxTime
  /\ now' = now + 1
  /\ UNCHANGED <<buckets, arrivals>>

\* Faulty: the window begins anew with every request.
CountedSliding(b) ==
  IF b.count = 0 \/ now - b.windowStart > Window
  THEN [count |-> 1, windowStart |-> now]
  ELSE [count |-> b.count + 1, windowStart |-> now]

\* The bucket with one more request.
Counted(b) ==
  IF b.count = 0 \/ now - b.windowStart > Window
  THEN [count |-> 1, windowStart |-> now]
  ELSE [b EXCEPT !.count = @ + 1]

\* Faulty: the count before this request is compared.
PassesAsBefore(b) == b.count - 1 <= Max

Passes(b) == b.count <= Max

Request(k) ==
  /\ Len(arrivals) < MaxArrivals
  /\ LET b == Counted(buckets[k])
     IN  /\ buckets' = [buckets EXCEPT ![k] = b]
         /\ arrivals' = Append(arrivals, [key |-> k, at |-> now, passed |-> Passes(b)])
  /\ UNCHANGED now

\* The buckets are in memory only.
Restart ==
  /\ arrivals # <<>>
  /\ buckets' = [k \in Keys |-> NoBucket]
  /\ arrivals' = <<>>
  /\ UNCHANGED now

Next ==
  \/ Tick
  \/ \E k \in Keys : Request(k)
  \/ Restart

Spec == Init /\ [][Next]_vars

-----------------------------------------------------------------------------
(***************************************************************************)
(* Properties                                                              *)
(***************************************************************************)

Of(k) == {i \in 1..Len(arrivals) : arrivals[i].key = k}

Passed(k) == {i \in Of(k) : arrivals[i].passed}

Within(from, to) == {i \in 1..Len(arrivals) : arrivals[i].at \in from..to}

\* The fixed windows of app.ts:85 let through up to twice the limit around the
\* boundary of two of them, and never more, however the requests are timed.
TwiceAtMost ==
  \A k \in Keys, t \in 0..MaxTime :
    Cardinality(Passed(k) \cap Within(t, t + Window)) <= 2 * Max

\* A key is refused for its own requests alone: it made as many as the limit in the
\* window before.  In particular one that was quiet for a window is served.
RefusedOnlyBusy ==
  \A k \in Keys : \A i \in Of(k) \ Passed(k) :
    LET t == arrivals[i].at
    IN  Cardinality({j \in Of(k) : j < i /\ arrivals[j].at + Window >= t}) >= Max

=============================================================================
