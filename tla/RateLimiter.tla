---------------------------- MODULE RateLimiter ----------------------------
(***************************************************************************)
(* FixedWindowRateLimiter.allow for one namespace and one client address:  *)
(* a call takes the time and hence a bucket, increments the bucket's key   *)
(* in Redis, gives the key a time to live if it has just created it, and   *)
(* compares the count with the limit.  When Redis fails the call is let    *)
(* through.                                                                *)
(*                                                                         *)
(* Calls run in the API's threads, so they interleave, and a call may be   *)
(* late: its INCR may reach Redis after its bucket is over.  INCR and      *)
(* EXPIRE are two commands.                                                *)
(***************************************************************************)
EXTENDS Naturals, FiniteSets

CONSTANTS
  Calls,    \* requests of one client in one namespace
  Limit,    \* search_rate_limit or sync_rate_limit
  Window,   \* search_rate_window_seconds or sync_rate_window_seconds
  MaxTime   \* bound of the clock

ASSUME LimiterAssumption ==
  /\ IsFiniteSet(Calls)
  /\ Limit \in Nat
  /\ Window \in Nat \ {0}
  /\ MaxTime \in Nat

Buckets == 0..MaxTime
Never == MaxTime + Window + 1    \* later than any deadline

VARIABLES
  clock,
  counter,    \* Redis: the value of each bucket's key, 0 when there is no key
  deadline,   \* Redis: when the key expires, Never when it has no time to live
  call        \* each call: where it is, when it began, its bucket, its count

vars == <<clock, counter, deadline, call>>

-----------------------------------------------------------------------------
Pcs == {"idle", "incr", "expire", "allowed", "denied", "open", "lost"}

CallType == [pc : Pcs, start : 0..MaxTime, bucket : Buckets, count : Nat]

Init ==
  /\ clock = 0
  /\ counter = [b \in Buckets |-> 0]
  /\ deadline = [b \in Buckets |-> Never]
  /\ call = [c \in Calls |-> [pc |-> "idle", start |-> 0, bucket |-> 0, count |-> 0]]

\* Mutants, here and below, are definitions changed as a plausible bug would.

\* Mutant: the key does not name the bucket.
MutOneBucket(time) == 0

Bucket(time) == time \div Window

Verdict(count) == IF count <= Limit THEN "allowed" ELSE "denied"

Begin(c) ==
  /\ call[c].pc = "idle"
  /\ call' = [call EXCEPT ![c].pc = "incr", ![c].start = clock,
                          ![c].bucket = Bucket(clock)]
  /\ UNCHANGED <<clock, counter, deadline>>

\* Mutant: the time to live is set by the call that reaches the limit.
MutExpireAtLimit(c) ==
  LET b == call[c].bucket  n == counter[b] + 1 IN
  /\ call[c].pc = "incr"
  /\ counter' = [counter EXCEPT ![b] = n]
  /\ call' = [call EXCEPT ![c].count = n,
                          ![c].pc = IF n = Limit THEN "expire" ELSE Verdict(n)]
  /\ UNCHANGED <<clock, deadline>>

\* INCR creates the key, without a time to live, when there is none.
Incr(c) ==
  LET b == call[c].bucket  n == counter[b] + 1 IN
  /\ call[c].pc = "incr"
  /\ counter' = [counter EXCEPT ![b] = n]
  /\ call' = [call EXCEPT ![c].count = n,
                          ![c].pc = IF n = 1 THEN "expire" ELSE Verdict(n)]
  /\ UNCHANGED <<clock, deadline>>

\* Mutant: the key lives twice as long.
MutDoubleLife(b) ==
  IF counter[b] = 0 THEN deadline ELSE [deadline EXCEPT ![b] = clock + (2 * Window)]

\* Mutant: the key lives half as long.
MutShortLife(b) ==
  IF counter[b] = 0 THEN deadline ELSE [deadline EXCEPT ![b] = clock + (Window \div 2)]

\* EXPIRE runs from now for a whole window; it does nothing without the key.
Expiring(b) ==
  IF counter[b] = 0 THEN deadline ELSE [deadline EXCEPT ![b] = clock + Window]

Expire(c) ==
  /\ call[c].pc = "expire"
  /\ deadline' = Expiring(call[c].bucket)
  /\ call' = [call EXCEPT ![c].pc = Verdict(call[c].count)]
  /\ UNCHANGED <<clock, counter>>

\* A RedisError: the command may have been executed all the same.
IncrFails(c) ==
  /\ call[c].pc = "incr"
  /\ \/ UNCHANGED counter
     \/ counter' = [counter EXCEPT ![call[c].bucket] = @ + 1]
  /\ call' = [call EXCEPT ![c].pc = "open"]
  /\ UNCHANGED <<clock, deadline>>

ExpireFails(c) ==
  /\ call[c].pc = "expire"
  /\ deadline' \in {deadline, Expiring(call[c].bucket)}
  /\ call' = [call EXCEPT ![c].pc = "open"]
  /\ UNCHANGED <<clock, counter>>

\* The API process stops.
Crash(c) ==
  /\ call[c].pc \in {"incr", "expire"}
  /\ call' = [call EXCEPT ![c].pc = "lost"]
  /\ UNCHANGED <<clock, counter, deadline>>

\* Time passes, and Redis drops the keys whose deadline is reached.
Tick ==
  /\ clock < MaxTime
  /\ clock' = clock + 1
  /\ counter'  = [b \in Buckets |-> IF deadline[b] <= clock' THEN 0 ELSE counter[b]]
  /\ deadline' = [b \in Buckets |-> IF deadline[b] <= clock' THEN Never ELSE deadline[b]]
  /\ UNCHANGED call

Next ==
  \/ \E c \in Calls :
       \/ Begin(c) \/ Incr(c) \/ Expire(c)
       \/ IncrFails(c) \/ ExpireFails(c) \/ Crash(c)
  \/ Tick

Spec == Init /\ [][Next]_vars

-----------------------------------------------------------------------------
(* Properties *)

\* Every variable holds a value of its kind.
TypeOK ==
  /\ clock \in 0..MaxTime
  /\ counter \in [Buckets -> Nat]
  /\ deadline \in [Buckets -> 0..Never]
  /\ call \in [Calls -> CallType]

\* The calls of the window w, by the time at which they began.
Of(w) == {c \in Calls : call[c].pc # "idle" /\ call[c].start \div Window = w}

\* Until a window is over, at most Limit of its calls were let through by the
\* count, wherever failures strike: the key outlives the window, because its
\* time to live starts inside the window and is as long.
WindowBound ==
  \A w \in Buckets :
    clock < (w + 1) * Window =>
      Cardinality({c \in Of(w) : call[c].pc = "allowed"}) <= Limit

\* A 429 is deserved: at least Limit other calls were made in the same window.
\* A key that was left without a time to live locks nobody out later.
DenialJustified ==
  \A c \in Calls :
    call[c].pc = "denied" =>
      Cardinality(Of(call[c].start \div Window) \ {c}) >= Limit

\* A key stays in Redis for good only if the call that created it failed
\* before EXPIRE: its reply was lost, EXPIRE failed, or the process stopped.
LeakNeedsFault ==
  \A b \in Buckets :
    counter[b] > 0 /\ deadline[b] = Never =>
      \E c \in Calls : call[c].bucket = b /\ call[c].pc \in {"expire", "open", "lost"}
=============================================================================
