------------------------ MODULE ProviderFanOutProofs ------------------------
(***************************************************************************)
(* A search uses sound results and answers in time, for any number of      *)
(* kinds and attempts and any time-outs.                                   *)
(*                                                                         *)
(* The argument is an account: Spent is the time that a thread may have    *)
(* used when it is at a request of an attempt, had each request been one   *)
(* operation; Granted adds what its requests took beyond that.  No thread  *)
(* is later than that, because the search starts none that is queued once  *)
(* it has given up.                                                        *)
(***************************************************************************)
EXTENDS ProviderFanOut, FiniteSetTheorems, TLAPS

K == Len(Kinds)

\* The time used when n requests of attempt a have ended.
Spent(a, n) == ((a - 1) * K + n) * OpTimeout + (a - 1) * Backoff

\* The time from which a thread's account is reckoned.
Granted(t) == Deadline + t.more * OpTimeout

\* A thread at a time and a phase is where its pc says, and no later than it may be.
Punctual(t, at, ph) ==
  /\ t.since <= at
  /\ t.pc = "queued" => ph = "waiting"
  /\ t.pc \in RunningPcs => t.attempt \in 1..MaxAttempts
  /\ t.pc = "calling" => /\ t.asked < K
                         /\ at <= t.since + OpTimeout
                         /\ t.since <= Granted(t) + Spent(t.attempt, t.asked)
  /\ t.pc = "backoff" => /\ t.attempt < MaxAttempts
                         /\ at <= t.since + Backoff
                         /\ t.since <= Granted(t) + Spent(t.attempt, K)

\* All hits of a list are of one attempt.
AllOf(hits, a) == \A i \in DOMAIN hits : hits[i][2] = a

\* Its hits are of its last attempt, and an answer is of all requests.
OneAttempt(t) ==
  /\ AllOf(t.hits, t.attempt)
  /\ t.pc = "queued" => t.attempt = 0
  /\ t.pc = "answered" => t.asked = K

\* The search is late only as one of the threads is that it has given up.
LateAsOne ==
  /\ phase = "waiting" => now <= Deadline
  /\ phase # "waiting" /\ now > Deadline =>
       \E p \in missing : now <= Granted(call[p]) + Budget

IInv ==
  /\ TypeOK /\ LateAsOne /\ ResultsAreSound
  /\ \A p \in configured : Punctual(call[p], now, phase) /\ OneAttempt(call[p])

-----------------------------------------------------------------------------
(* The account. *)

LEMMA Settings ==
  /\ K \in Nat /\ K >= 1 /\ MaxAttempts \in Nat /\ MaxAttempts >= 1 /\ Limit \in Nat
  /\ OpTimeout \in Nat /\ Backoff \in Nat /\ Deadline \in Nat /\ MaxMore \in Nat
  /\ \A i \in 1..K : Kinds[i] \in ToSet(Kinds)
<1>1. K \in Nat /\ K >= 1 /\ DOMAIN Kinds = 1..K
  BY FanOutAssumption DEF K
<1>. QED BY <1>1, FanOutAssumption DEF ToSet

LEMMA GrantedIsNat ==
  ASSUME NEW t \in Thread PROVE Granted(t) \in Nat /\ Granted(t) >= Deadline
<1>1. PICK m \in Nat : m = t.more
  BY Settings DEF Thread
<1>2. m * OpTimeout \in Nat
  BY Settings
<1>. QED BY <1>1, <1>2, Settings DEF Granted

LEMMA ProductGrows ==
  ASSUME NEW x \in Nat, NEW y \in Nat, NEW z \in Nat, x <= y
  PROVE  x * z <= y * z /\ x * z \in Nat /\ y * z \in Nat
OBVIOUS

LEMMA SpentIsNat ==
  ASSUME NEW a \in 1..MaxAttempts, NEW n \in 0..K
  PROVE  Spent(a, n) \in Nat
<1>1. PICK b \in Nat : b = a - 1
  BY Settings
<1>2. b * K \in Nat /\ b * Backoff \in Nat
  BY Settings
<1>3. PICK q \in Nat : q = b * K + n
  BY <1>2
<1>4. q * OpTimeout \in Nat
  BY Settings
<1>. QED BY <1>1, <1>2, <1>3, <1>4 DEF Spent

LEMMA NoneSpent == Spent(1, 0) = 0
BY Settings DEF Spent

LEMMA RequestSpends ==
  ASSUME NEW a \in 1..MaxAttempts, NEW n \in 0..K
  PROVE  Spent(a, n + 1) = Spent(a, n) + OpTimeout
<1>1. PICK q \in Nat : q = (a - 1) * K + n
  <2>1. (a - 1) * K \in Nat
    BY Settings
  <2>. QED BY <2>1
<1>2. (q + 1) * OpTimeout = q * OpTimeout + OpTimeout
  BY Settings
<1>3. (a - 1) * K + (n + 1) = q + 1
  BY <1>1, Settings
<1>4. q * OpTimeout \in Nat /\ (a - 1) * Backoff \in Nat
  BY Settings
<1>. QED BY <1>1, <1>2, <1>3, <1>4, Settings DEF Spent

LEMMA SpentGrows ==
  ASSUME NEW a \in 1..MaxAttempts, NEW m \in 0..K, NEW n \in 0..K, m <= n
  PROVE  Spent(a, m) <= Spent(a, n)
<1>1. (a - 1) * K \in Nat /\ (a - 1) * Backoff \in Nat
  BY Settings
<1>2. PICK q \in Nat, r \in Nat : q = (a - 1) * K + m /\ r = (a - 1) * K + n
  BY <1>1
<1>3. q <= r
  BY <1>1, <1>2
<1>4. q * OpTimeout <= r * OpTimeout /\ q * OpTimeout \in Nat /\ r * OpTimeout \in Nat
  BY <1>3, Settings, ProductGrows
<1>. QED BY <1>1, <1>2, <1>4 DEF Spent

LEMMA PauseSpends ==
  ASSUME NEW a \in 1..MaxAttempts
  PROVE  Spent(a + 1, 0) = Spent(a, K) + Backoff
<1>1. PICK b \in Nat : b = a - 1 /\ (a + 1) - 1 = b + 1
  BY Settings
<1>2. (b + 1) * K = b * K + K /\ (b + 1) * Backoff = b * Backoff + Backoff
  BY Settings
<1>3. b * Backoff \in Nat /\ b * K \in Nat
  BY Settings
<1>4. PICK q \in Nat : q = b * K + K /\ q = (b + 1) * K + 0
  BY <1>2, <1>3, Settings
<1>5. q * OpTimeout \in Nat
  BY Settings
<1>6. Spent(a + 1, 0) = q * OpTimeout + (b + 1) * Backoff
  BY <1>1, <1>4 DEF Spent
<1>7. Spent(a, K) = q * OpTimeout + b * Backoff
  BY <1>1, <1>4 DEF Spent
<1>. QED BY <1>2, <1>3, <1>5, <1>6, <1>7, Settings

LEMMA BudgetSpent ==
  ASSUME NEW a \in 1..MaxAttempts
  PROVE  Spent(a, K) <= Budget
<1>1. PICK b \in Nat, d \in Nat : b = a - 1 /\ d = MaxAttempts - 1 /\ b <= d
  BY Settings
<1>2. b * K <= d * K /\ b * K \in Nat /\ d * K \in Nat
  BY <1>1, Settings, ProductGrows
<1>3. b * Backoff <= d * Backoff /\ b * Backoff \in Nat /\ d * Backoff \in Nat
  BY <1>1, Settings, ProductGrows
<1>4. PICK q \in Nat, r \in Nat : q = b * K + K /\ r = MaxAttempts * K /\ q <= r
  <2>1. (d + 1) * K = d * K + K /\ MaxAttempts = d + 1
    BY <1>1, Settings
  <2>. QED BY <1>2, <2>1, Settings
<1>5. q * OpTimeout <= r * OpTimeout /\ q * OpTimeout \in Nat /\ r * OpTimeout \in Nat
  BY <1>4, Settings, ProductGrows
<1>6. Spent(a, K) = q * OpTimeout + b * Backoff
  BY <1>1, <1>4 DEF Spent
<1>7. Budget = r * OpTimeout + d * Backoff
  BY <1>1, <1>4 DEF Budget, K
<1>. QED BY <1>3, <1>5, <1>6, <1>7

LEMMA BudgetIsNat == Budget \in Nat
<1>1. Spent(MaxAttempts, K) \in Nat /\ Spent(MaxAttempts, K) <= Budget
  BY SpentIsNat, BudgetSpent, Settings
<1>2. (MaxAttempts * K) \in Nat /\ (MaxAttempts - 1) * Backoff \in Nat
  BY Settings
<1>3. (MaxAttempts * K) * OpTimeout \in Nat
  BY <1>2, Settings
<1>. QED BY <1>2, <1>3 DEF Budget, K

-----------------------------------------------------------------------------
(* A step of a thread. *)

LEMMA ThreadFacts ==
  ASSUME IInv, NEW p \in configured
  PROVE  /\ call[p] \in Thread /\ now \in Nat
         /\ call[p].attempt \in 0..MaxAttempts /\ call[p].asked \in 0..K
         /\ call[p].since \in Nat /\ call[p].hits \in Seq(ToSet(Kinds) \X Nat)
         /\ call[p].pc \in {"queued", "hung"} \cup RunningPcs \cup EndPcs
         /\ call[p].more \in 0..MaxMore /\ Granted(call[p]) \in Nat
         /\ Punctual(call[p], now, phase) /\ OneAttempt(call[p])
BY GrantedIsNat DEF IInv, TypeOK, Thread, K

\* A thread that has not ended may become any that is punctual.
LEMMA ThreadStep ==
  ASSUME IInv, NEW p \in configured, ~ Ended(p), NEW t \in Thread,
         UNCHANGED <<now, configured, phase, results, missing>>,
         call' = [call EXCEPT ![p] = t], t.more \in {call[p].more, call[p].more + 1},
         Punctual(t, now, phase), OneAttempt(t)
  PROVE  IInv'
<1>1. /\ call' \in [configured -> Thread] /\ call'[p] = t
      /\ \A q \in configured \ {p} : call'[q] = call[q]
  BY DEF IInv, TypeOK
<1>2. TypeOK'
  BY <1>1 DEF IInv, TypeOK
<1>3. LateAsOne'
  <2>1. ASSUME NEW q \in missing, now <= Granted(call[q]) + Budget
        PROVE  now <= Granted(call'[q]) + Budget
    <3>1. q \in configured
      BY DEF IInv, TypeOK
    <3>2. CASE q # p
      BY <1>1, <2>1, <3>1, <3>2
    <3>3. CASE q = p
      <4>1. PICK m \in Nat, n \in Nat : m = call[p].more /\ n = t.more /\ m <= n
        <5>1. call[p].more \in Nat
          BY ThreadFacts, Settings
        <5>. QED BY <5>1
      <4>2. m * OpTimeout <= n * OpTimeout /\ m * OpTimeout \in Nat /\ n * OpTimeout \in Nat
        BY <4>1, Settings, ProductGrows
      <4>3. Granted(call[p]) <= Granted(t) /\ Granted(call[p]) \in Nat /\ Granted(t) \in Nat
        BY <4>1, <4>2, Settings DEF Granted
      <4>. QED BY <1>1, <2>1, <3>3, <4>3, ThreadFacts, BudgetIsNat
    <3>. QED BY <3>2, <3>3
  <2>2. \A q \in missing : now <= Granted(call[q]) + Budget => now <= Granted(call'[q]) + Budget
    BY <2>1
  <2>. QED BY <2>2 DEF IInv, LateAsOne, Granted, Budget
<1>4. ResultsAreSound'
  <2>1. phase # "waiting" => \A q \in results : q \in configured /\ q # p
    BY DEF IInv, TypeOK, ResultsAreSound, UsedWereInTime, Ended, EndPcs
  <2>. QED BY <1>1, <2>1 DEF IInv, ResultsAreSound, EveryPlatformAccounted, UsedWereInTime,
                            OneWholeAttempt
<1>5. \A q \in configured' : Punctual(call[q], now, phase)' /\ OneAttempt(call[q])'
  <2>1. \A q \in configured : Punctual(call'[q], now, phase) /\ OneAttempt(call'[q])
    BY <1>1 DEF IInv
  <2>. QED BY <2>1 DEF Punctual, OneAttempt
<1>. QED BY <1>2, <1>3, <1>4, <1>5 DEF IInv

\* What a thread is when it starts an attempt.
LEMMA AttemptFacts ==
  ASSUME IInv, NEW p \in configured, call[p].attempt < MaxAttempts
  PROVE  /\ Attempt(p) \in Thread /\ Attempt(p).pc = "calling"
         /\ Attempt(p).attempt = call[p].attempt + 1 /\ Attempt(p).asked = 0
         /\ Attempt(p).hits = <<>> /\ Attempt(p).since = now
         /\ Attempt(p).more = call[p].more
<1>1. call[p].attempt + 1 \in 0..MaxAttempts /\ 0 \in 0..Len(Kinds) /\ <<>> \in Seq(ToSet(Kinds) \X Nat)
  BY ThreadFacts, Settings DEF K
<1>2. now \in Nat /\ call[p] \in Thread
  BY ThreadFacts
<1>. QED BY <1>1, <1>2 DEF Attempt, Thread, RunningPcs

\* An attempt may start when what is spent so far allows for it.
LEMMA AttemptKeeps ==
  ASSUME IInv, NEW p \in configured, ~ Ended(p), call[p].attempt < MaxAttempts,
         UNCHANGED <<now, configured, phase, results, missing>>,
         call' = [call EXCEPT ![p] = Attempt(p)],
         now <= Granted(call[p]) + Spent(call[p].attempt + 1, 0)
  PROVE  IInv'
<1>1. now \in Nat /\ call[p].attempt \in 0..MaxAttempts /\ call[p].more \in Nat
  BY ThreadFacts
<1>2. PICK t \in Thread : t = Attempt(p)
  BY AttemptFacts
<1>3. /\ t.pc = "calling" /\ t.attempt = call[p].attempt + 1 /\ t.asked = 0 /\ t.hits = <<>>
      /\ t.since = now /\ t.more = call[p].more /\ Granted(t) = Granted(call[p])
  BY <1>2, AttemptFacts DEF Granted
<1>4. t.attempt \in 1..MaxAttempts
  BY <1>1, <1>3, Settings
<1>5. Punctual(t, now, phase)
  BY <1>1, <1>3, <1>4, Settings DEF Punctual, RunningPcs
<1>6. OneAttempt(t)
  BY <1>3 DEF OneAttempt, AllOf
<1>. QED BY <1>1, <1>2, <1>3, <1>5, <1>6, ThreadStep

LEMMA StartKeeps == ASSUME IInv, NEW p \in configured, Start(p) PROVE IInv'
<1>1. call[p].pc = "queued" /\ call[p].attempt = 0 /\ phase = "waiting" /\ ~ Ended(p)
  BY ThreadFacts DEF Start, Punctual, OneAttempt, Ended, EndPcs
<1>2. now <= Granted(call[p]) + Spent(call[p].attempt + 1, 0)
  <2>1. /\ now <= Deadline /\ now \in Nat /\ Spent(0 + 1, 0) = 0
        /\ Granted(call[p]) \in Nat /\ Granted(call[p]) >= Deadline
    BY <1>1, NoneSpent, ThreadFacts, GrantedIsNat DEF IInv, LateAsOne, TypeOK
  <2>. QED BY <1>1, <2>1, Settings
<1>3. call[p].attempt < MaxAttempts
  BY <1>1, Settings
<1>. QED BY <1>1, <1>2, <1>3, AttemptKeeps DEF Start

LEMMA RetryKeeps == ASSUME IInv, NEW p \in configured, Retry(p) PROVE IInv'
<1>1. /\ call[p].pc = "backoff" /\ ~ Ended(p) /\ call[p].attempt \in 1..MaxAttempts
      /\ call[p].attempt < MaxAttempts
  BY ThreadFacts DEF Retry, Punctual, RunningPcs, Ended, EndPcs
<1>2. now <= Granted(call[p]) + Spent(call[p].attempt + 1, 0)
  <2>1. PICK a \in 1..MaxAttempts, u \in Nat, n \in Nat :
          a = call[p].attempt /\ u = call[p].since /\ n = now
    BY <1>1, ThreadFacts
  <2>2. /\ u <= Granted(call[p]) + Spent(a, K) /\ n = u + Backoff
        /\ Granted(call[p]) \in Nat
    BY <1>1, <2>1, ThreadFacts DEF Punctual, Retry
  <2>3. Spent(a + 1, 0) = Spent(a, K) + Backoff /\ Spent(a, K) \in Nat
    BY PauseSpends, SpentIsNat, Settings
  <2>. QED BY <2>1, <2>2, <2>3, Settings
<1>. QED BY <1>1, <1>2, AttemptKeeps DEF Retry

\* A request ends within its account, by an answer or by an error.
LEMMA RequestInTime ==
  ASSUME IInv, NEW p \in configured, call[p].pc = "calling"
  PROVE  /\ ~ Ended(p) /\ call[p].attempt \in 1..MaxAttempts /\ call[p].asked < K
         /\ now <= Granted(call[p]) + Spent(call[p].attempt, call[p].asked + 1)
         /\ now <= Granted(call[p]) + Spent(call[p].attempt, K)
<1>1. /\ ~ Ended(p) /\ call[p].attempt \in 1..MaxAttempts /\ call[p].asked < K
  BY ThreadFacts DEF Punctual, RunningPcs, Ended, EndPcs
<1>2. PICK a \in 1..MaxAttempts, n \in 0..K, u \in Nat, m \in Nat, g \in Nat :
        /\ a = call[p].attempt /\ n = call[p].asked /\ u = call[p].since /\ m = now
        /\ g = Granted(call[p])
  BY <1>1, ThreadFacts
<1>3. m <= u + OpTimeout /\ u <= g + Spent(a, n) /\ n < K
  BY <1>1, <1>2, ThreadFacts DEF Punctual
<1>4. Spent(a, n + 1) = Spent(a, n) + OpTimeout /\ n + 1 \in 0..K
  BY <1>3, RequestSpends, Settings
<1>5. Spent(a, n) \in Nat /\ Spent(a, K) \in Nat /\ Spent(a, n + 1) <= Spent(a, K)
  BY <1>3, <1>4, SpentIsNat, SpentGrows, Settings
<1>6. m <= g + Spent(a, n + 1)
  BY <1>3, <1>4, <1>5, Settings
<1>. QED BY <1>1, <1>2, <1>4, <1>5, <1>6, Settings

LEMMA FailsKeeps == ASSUME IInv, NEW p \in configured, RequestFails(p) PROVE IInv'
<1>1. call[p].pc = "calling" /\ UNCHANGED <<now, configured, phase, results, missing>>
  BY DEF RequestFails
<1>2. /\ call[p] \in Thread /\ now \in Nat /\ call[p].hits \in Seq(ToSet(Kinds) \X Nat)
      /\ call[p].attempt \in 1..MaxAttempts /\ ~ Ended(p) /\ OneAttempt(call[p])
      /\ now <= Granted(call[p]) + Spent(call[p].attempt, K)
      /\ call[p].more \in Nat
  BY <1>1, RequestInTime, ThreadFacts
<1>3. CASE call[p].attempt = MaxAttempts
  <2>1. PICK t : t = [call[p] EXCEPT !.pc = "raised", !.since = now]
    OBVIOUS
  <2>2. call' = [call EXCEPT ![p] = t]
    BY <1>3, <2>1 DEF RequestFails
  <2>3. t \in Thread /\ t.pc = "raised" /\ t.since = now /\ t.hits = call[p].hits /\ t.attempt = call[p].attempt
        /\ t.more = call[p].more
    BY <1>2, <2>1 DEF Thread, EndPcs
  <2>4. Punctual(t, now, phase) /\ OneAttempt(t)
    BY <1>2, <2>3 DEF Punctual, OneAttempt, RunningPcs
  <2>. QED BY <1>1, <1>2, <2>2, <2>3, <2>4, ThreadStep
<1>4. CASE call[p].attempt # MaxAttempts /\ Backoff > 0
  <2>1. PICK t : t = [call[p] EXCEPT !.pc = "backoff", !.since = now]
    OBVIOUS
  <2>2. call' = [call EXCEPT ![p] = t]
    BY <1>4, <2>1 DEF RequestFails
  <2>3. t \in Thread /\ t.pc = "backoff" /\ t.since = now /\ t.hits = call[p].hits /\ t.attempt = call[p].attempt
        /\ t.more = call[p].more /\ Granted(t) = Granted(call[p])
    BY <1>2, <2>1 DEF Thread, RunningPcs, Granted
  <2>4. Punctual(t, now, phase)
    <3>1. t.attempt < MaxAttempts /\ now <= now + Backoff
      BY <1>2, <1>4, <2>3, Settings
    <3>. QED BY <1>2, <2>3, <3>1 DEF Punctual
  <2>5. OneAttempt(t)
    BY <1>2, <2>3 DEF OneAttempt
  <2>. QED BY <1>1, <1>2, <2>2, <2>3, <2>4, <2>5, ThreadStep
<1>5. CASE call[p].attempt # MaxAttempts /\ ~ (Backoff > 0)
  <2>1. PICK a \in 1..MaxAttempts : a = call[p].attempt /\ a < MaxAttempts
    BY <1>2, <1>5, Settings
  <2>2. Spent(a + 1, 0) = Spent(a, K)
    BY <1>5, PauseSpends, SpentIsNat, Settings
  <2>3. call' = [call EXCEPT ![p] = Attempt(p)]
    BY <1>5 DEF RequestFails
  <2>. QED BY <1>1, <1>2, <2>1, <2>2, <2>3, AttemptKeeps
<1>. QED BY <1>3, <1>4, <1>5

\* What holds of all hits of two lists holds of the list of both ...
LEMMA ConcatAll ==
  ASSUME NEW S, NEW a, NEW u \in Seq(S), NEW v \in Seq(S), AllOf(u, a), AllOf(v, a)
  PROVE  u \o v \in Seq(S) /\ AllOf(u \o v, a)
<1>1. u \o v \in Seq(S) /\ DOMAIN (u \o v) = 1..(Len(u) + Len(v))
  OBVIOUS
<1>2. ASSUME NEW i \in 1..(Len(u) + Len(v)) PROVE (u \o v)[i][2] = a
  <2>1. CASE i <= Len(u)
    <3>1. (u \o v)[i] = u[i] /\ i \in DOMAIN u
      BY <2>1
    <3>. QED BY <3>1 DEF AllOf
  <2>2. CASE ~ (i <= Len(u))
    <3>1. (u \o v)[i] = v[i - Len(u)] /\ i - Len(u) \in DOMAIN v
      BY <2>2
    <3>. QED BY <3>1 DEF AllOf
  <2>. QED BY <2>1, <2>2
<1>. QED BY <1>1, <1>2 DEF AllOf

\* ... and of what is left of it.
LEMMA TruncatedAll ==
  ASSUME NEW S, NEW a, NEW u \in Seq(S), AllOf(u, a)
  PROVE  Truncated(u) \in Seq(S) /\ AllOf(Truncated(u), a)
<1>1. CASE Len(u) <= Limit
  BY <1>1 DEF Truncated
<1>2. CASE ~ (Len(u) <= Limit)
  <2>1. Truncated(u) = SubSeq(u, 1, Limit) /\ Limit <= Len(u) /\ Limit \in Nat
    BY <1>2, Settings DEF Truncated
  <2>2. /\ SubSeq(u, 1, Limit) \in Seq(S) /\ DOMAIN SubSeq(u, 1, Limit) = 1..Limit
        /\ \A i \in 1..Limit : SubSeq(u, 1, Limit)[i] = u[i] /\ i \in DOMAIN u
    BY <2>1
  <2>. QED BY <2>1, <2>2 DEF AllOf
<1>. QED BY <1>1, <1>2

LEMMA ReplyKeeps == ASSUME IInv, NEW p \in configured, Reply(p) PROVE IInv'
<1>1. call[p].pc = "calling" /\ UNCHANGED <<now, configured, phase, results, missing>>
  BY DEF Reply
<1>2. /\ call[p] \in Thread /\ now \in Nat /\ call[p].hits \in Seq(ToSet(Kinds) \X Nat)
      /\ call[p].attempt \in 1..MaxAttempts /\ ~ Ended(p) /\ OneAttempt(call[p])
      /\ call[p].asked \in 0..K /\ call[p].asked < K
      /\ now <= Granted(call[p]) + Spent(call[p].attempt, call[p].asked + 1)
      /\ call[p].more \in Nat
  BY <1>1, RequestInTime, ThreadFacts
<1>3. PICK items \in BoundedSeq(Item, Limit) :
        call' = [call EXCEPT ![p] = Replied(p, Cardinality(Hits(p, items)))]
  BY DEF Reply
<1>4. PICK n : n = Cardinality(Hits(p, items))
  OBVIOUS
<1>5. n \in Nat
  <2>1. PICK m \in Nat : DOMAIN items = 1..m
    BY DEF BoundedSeq, SeqOf
  <2>2. IsFiniteSet(1..m)
    BY FS_Interval
  <2>3. Hits(p, items) \in SUBSET (1..m)
    BY <2>1 DEF Hits
  <2>. QED BY <1>4, <2>2, <2>3, FS_Subset, FS_CardinalityType
<1>6. PICK kind, a : kind = Kinds[call[p].asked + 1] /\ a = call[p].attempt
  OBVIOUS
<1>7. kind \in ToSet(Kinds) /\ a \in Nat
  BY <1>2, <1>6, Settings
<1>8. PICK found : found = [i \in 1..n |-> <<kind, a>>]
  OBVIOUS
<1>9. /\ found \in Seq(ToSet(Kinds) \X Nat)
      /\ AllOf(found, a)
  BY <1>5, <1>7, <1>8 DEF AllOf
<1>10. PICK old, hits : old = call[p].hits /\ hits = old \o found
  OBVIOUS
<1>11. /\ hits \in Seq(ToSet(Kinds) \X Nat)
       /\ AllOf(hits, a)
  <2>1. old \in Seq(ToSet(Kinds) \X Nat) /\ AllOf(old, a)
    BY <1>2, <1>6, <1>10 DEF OneAttempt
  <2>2. old \o found \in Seq(ToSet(Kinds) \X Nat) /\ AllOf(old \o found, a)
    BY <1>9, <2>1, ConcatAll, Zenon
  <2>. QED BY <1>10, <2>2
<1>12. PICK kept : kept = IF call[p].asked + 1 = K THEN Truncated(hits) ELSE hits
  OBVIOUS
<1>13. kept \in Seq(ToSet(Kinds) \X Nat) /\ AllOf(kept, a)
  <2>1. Truncated(hits) \in Seq(ToSet(Kinds) \X Nat) /\ AllOf(Truncated(hits), a)
    BY <1>11, TruncatedAll, Zenon
  <2>. QED BY <1>11, <1>12, <2>1
<1>14. PICK t : t = Replied(p, n)
  OBVIOUS
<1>15. call' = [call EXCEPT ![p] = t]
  BY <1>3, <1>4, <1>14
<1>16. /\ t.pc = (IF call[p].asked + 1 = K THEN "answered" ELSE "calling")
       /\ t.asked = call[p].asked + 1 /\ t.since = now /\ t.hits = kept
       /\ t.attempt = call[p].attempt /\ t.more = call[p].more /\ t \in Thread
  <2>1. t = [call[p] EXCEPT !.pc = IF call[p].asked + 1 = K THEN "answered" ELSE "calling",
                            !.asked = call[p].asked + 1, !.since = now, !.hits = kept]
    BY <1>1, <1>6, <1>8, <1>10, <1>12, <1>14 DEF Replied, K
  <2>2. call[p].asked + 1 \in 0..Len(Kinds)
    BY <1>2, Settings DEF K
  <2>. QED BY <1>1, <1>2, <1>13, <2>1, <2>2 DEF Thread, EndPcs
<1>17. Punctual(t, now, phase)
  <2>1. t.asked \in 0..K /\ (t.asked = K <=> t.pc = "answered") /\ t.pc \in {"answered", "calling"}
    BY <1>2, <1>16, Settings
  <2>2. now <= now + OpTimeout
    BY <1>2, Settings
  <2>3. t.pc = "calling" => t.asked < K
    BY <2>1, Settings
  <2>4. Granted(t) = Granted(call[p])
    BY <1>16 DEF Granted
  <2>. QED BY <1>2, <1>16, <2>1, <2>2, <2>3, <2>4 DEF Punctual, RunningPcs
<1>18. OneAttempt(t)
  BY <1>2, <1>6, <1>13, <1>16 DEF OneAttempt
<1>. QED BY <1>1, <1>2, <1>15, <1>16, <1>17, <1>18, ThreadStep

\* An operation more is granted to the thread that takes it.
LEMMA TrickleKeeps == ASSUME IInv, NEW p \in configured, Trickle(p) PROVE IInv'
<1>1. /\ call[p].pc = "calling" /\ call[p].more < MaxMore
      /\ UNCHANGED <<now, configured, phase, results, missing>>
  BY DEF Trickle
<1>2. /\ call[p] \in Thread /\ now \in Nat /\ call[p].more \in Nat
      /\ ~ Ended(p) /\ Punctual(call[p], now, phase) /\ OneAttempt(call[p])
  BY <1>1, ThreadFacts DEF Ended, EndPcs
<1>3. PICK t : t = [call[p] EXCEPT !.more = call[p].more + 1, !.since = now]
  OBVIOUS
<1>4. call' = [call EXCEPT ![p] = t]
  BY <1>3 DEF Trickle
<1>5. /\ t \in Thread /\ t.pc = "calling" /\ t.since = now /\ t.hits = call[p].hits
      /\ t.attempt = call[p].attempt /\ t.asked = call[p].asked
      /\ t.more = call[p].more + 1
  <2>1. call[p].more + 1 \in 0..MaxMore
    BY <1>1, <1>2, Settings
  <2>. QED BY <1>1, <1>2, <1>3, <2>1 DEF Thread
<1>6. Punctual(t, now, phase)
  <2>1. Granted(t) = Granted(call[p]) + OpTimeout
    <3>1. PICK m \in Nat : m = call[p].more
      BY <1>2
    <3>2. (m + 1) * OpTimeout = m * OpTimeout + OpTimeout /\ m * OpTimeout \in Nat
      BY Settings
    <3>. QED BY <1>5, <3>1, <3>2, Settings DEF Granted
  <2>2. call[p].attempt \in 1..MaxAttempts /\ call[p].asked \in 0..K /\ call[p].asked < K
    BY <1>1, RequestInTime, ThreadFacts
  <2>3. PICK s \in Nat, g \in Nat, u \in Nat :
          /\ s = Spent(call[p].attempt, call[p].asked)
          /\ g = Granted(call[p]) /\ u = call[p].since
    BY <2>2, SpentIsNat, ThreadFacts
  <2>4. u <= g + s /\ now <= u + OpTimeout
    BY <1>1, <1>2, <2>3 DEF Punctual
  <2>5. now <= Granted(t) + s
    BY <1>2, <2>1, <2>3, <2>4, Settings
  <2>6. now <= now + OpTimeout
    BY <1>2, Settings
  <2>. QED BY <1>2, <1>5, <2>2, <2>3, <2>5, <2>6 DEF Punctual
<1>7. OneAttempt(t)
  BY <1>2, <1>5 DEF OneAttempt
<1>. QED BY <1>1, <1>2, <1>4, <1>5, <1>6, <1>7, ThreadStep

LEMMA HangKeeps == ASSUME IInv, NEW p \in configured, Hang(p) PROVE IInv'
<1>1. call[p].pc = "calling" /\ UNCHANGED <<now, configured, phase, results, missing>>
  BY DEF Hang
<1>2. /\ call[p] \in Thread /\ now \in Nat /\ call[p].more \in Nat
      /\ ~ Ended(p) /\ Punctual(call[p], now, phase) /\ OneAttempt(call[p])
  BY <1>1, ThreadFacts DEF Ended, EndPcs
<1>3. PICK t : t = [call[p] EXCEPT !.pc = "hung"]
  OBVIOUS
<1>4. call' = [call EXCEPT ![p] = t]
  BY <1>3 DEF Hang
<1>5. /\ t \in Thread /\ t.pc = "hung" /\ t.since = call[p].since
      /\ t.hits = call[p].hits /\ t.attempt = call[p].attempt /\ t.more = call[p].more
  BY <1>2, <1>3 DEF Thread
<1>6. Punctual(t, now, phase) /\ OneAttempt(t)
  BY <1>2, <1>5 DEF Punctual, OneAttempt, RunningPcs
<1>. QED BY <1>1, <1>2, <1>4, <1>5, <1>6, ThreadStep

-----------------------------------------------------------------------------
(* The steps of the search. *)

\* Whenever the search settles its results they are sound.
LEMMA SettledIsSound ==
  ASSUME IInv, phase = "waiting", UNCHANGED <<now, configured>>, phase' # "waiting",
         results' = Answered(configured), missing' = configured \ Answered(configured),
         \A p \in configured : call[p].pc = "answered" => call'[p] = call[p]
  PROVE  ResultsAreSound'
<1>1. now <= Deadline
  BY DEF IInv, LateAsOne
<1>2. ASSUME NEW p \in results'
      PROVE  /\ p \in configured /\ call'[p] = call[p] /\ call[p].pc = "answered"
             /\ call[p].since <= Deadline /\ call[p].asked = K /\ AllOf(call[p].hits, call[p].attempt)
  <2>1. p \in configured /\ call'[p] = call[p] /\ call[p].pc = "answered"
    BY DEF Answered
  <2>2. call[p].since <= now /\ call[p].since \in Nat /\ now \in Nat /\ OneAttempt(call[p])
    BY <2>1, ThreadFacts DEF Punctual
  <2>3. call[p].since <= Deadline
    BY <1>1, <2>2, Settings
  <2>. QED BY <2>1, <2>2, <2>3 DEF OneAttempt
<1>3. EveryPlatformAccounted'
  BY DEF EveryPlatformAccounted, Answered
<1>4. UsedWereInTime' /\ OneWholeAttempt'
  BY <1>2 DEF UsedWereInTime, OneWholeAttempt, AllOf, K
<1>. QED BY <1>3, <1>4 DEF ResultsAreSound

LEMMA WaitedInTime ==
  ASSUME IInv, phase = "waiting", UNCHANGED now, phase' # "waiting" PROVE LateAsOne'
<1>1. now <= Deadline /\ now \in Nat
  BY DEF IInv, LateAsOne, TypeOK
<1>. QED BY <1>1, Settings DEF LateAsOne

LEMMA CollectKeeps == ASSUME IInv, CollectAll PROVE IInv'
<1>1. /\ phase = "waiting" /\ phase' = "answered" /\ UNCHANGED <<now, configured, call>>
      /\ \A p \in configured : Ended(p)
      /\ results' = Answered(configured) /\ missing' = configured \ Answered(configured)
  BY DEF CollectAll
<1>2. TypeOK'
  BY <1>1 DEF IInv, TypeOK, Answered
<1>3. LateAsOne'
  BY <1>1, WaitedInTime
<1>4. ResultsAreSound'
  BY <1>1, SettledIsSound
<1>5. \A p \in configured : Punctual(call[p], now, phase') /\ OneAttempt(call[p])
  BY <1>1 DEF IInv, Punctual, Ended, EndPcs
<1>6. \A p \in configured' : Punctual(call[p], now, phase)' /\ OneAttempt(call[p])'
  BY <1>1, <1>5 DEF Punctual, OneAttempt, AllOf, Spent, Granted
<1>. QED BY <1>2, <1>3, <1>4, <1>6 DEF IInv

LEMMA GiveUpKeeps == ASSUME IInv, GiveUp PROVE IInv'
<1>1. /\ phase = "waiting" /\ phase' = "joining" /\ UNCHANGED <<now, configured>>
      /\ results' = Answered(configured) /\ missing' = configured \ Answered(configured)
      /\ call' = [p \in configured |-> IF call[p].pc = "queued"
                                      THEN [call[p] EXCEPT !.pc = "cancelled"] ELSE call[p]]
  BY DEF GiveUp
<1>2. ASSUME NEW p \in configured
      PROVE  /\ call'[p] \in Thread /\ Punctual(call'[p], now, phase') /\ OneAttempt(call'[p])
             /\ call[p].pc = "answered" => call'[p] = call[p]
  <2>1. CASE call[p].pc = "queued"
    <3>1. PICK t : t = [call[p] EXCEPT !.pc = "cancelled"]
      OBVIOUS
    <3>2. call'[p] = t
      BY <1>1, <2>1, <3>1
    <3>3. /\ t \in Thread /\ t.pc = "cancelled" /\ t.since = call[p].since
          /\ t.hits = call[p].hits /\ t.attempt = call[p].attempt
      BY <3>1, ThreadFacts DEF Thread, EndPcs
    <3>4. Punctual(t, now, phase') /\ OneAttempt(t)
      BY <3>3, ThreadFacts DEF Punctual, OneAttempt, RunningPcs
    <3>. QED BY <2>1, <3>2, <3>3, <3>4
  <2>2. CASE call[p].pc # "queued"
    <3>1. call'[p] = call[p]
      BY <1>1, <2>2
    <3>. QED BY <2>2, <3>1, ThreadFacts DEF Punctual
  <2>. QED BY <2>1, <2>2
<1>3. call' \in [configured -> Thread]
  BY <1>1, <1>2
<1>4. TypeOK'
  BY <1>1, <1>3 DEF IInv, TypeOK, Answered
<1>5. LateAsOne'
  BY <1>1, WaitedInTime
<1>6. ResultsAreSound'
  BY <1>1, <1>2, SettledIsSound
<1>7. \A p \in configured' : Punctual(call[p], now, phase)' /\ OneAttempt(call[p])'
  BY <1>1, <1>2 DEF Punctual, OneAttempt, AllOf, Spent, Granted
<1>. QED BY <1>4, <1>5, <1>6, <1>7 DEF IInv

LEMMA JoinKeeps == ASSUME IInv, Join PROVE IInv'
<1>1. /\ phase = "joining" /\ phase' = "answered" /\ \A p \in configured : Ended(p)
      /\ UNCHANGED <<now, configured, call, results, missing>>
  BY DEF Join
<1>2. TypeOK' /\ LateAsOne' /\ ResultsAreSound'
  BY <1>1 DEF IInv, TypeOK, LateAsOne, ResultsAreSound, EveryPlatformAccounted,
              UsedWereInTime, OneWholeAttempt, Budget, Granted
<1>3. \A p \in configured : Punctual(call[p], now, phase') /\ OneAttempt(call[p])
  BY <1>1 DEF IInv, Punctual, Ended, EndPcs
<1>4. \A p \in configured' : Punctual(call[p], now, phase)' /\ OneAttempt(call[p])'
  BY <1>1, <1>3 DEF Punctual, OneAttempt, AllOf, Spent, Granted
<1>. QED BY <1>2, <1>4 DEF IInv

\* Time that passes is on the account of a thread that has not ended.
LEMMA TickInTime ==
  ASSUME IInv, TimeMayPass, NEW p \in configured, Running(p)
  PROVE  now + 1 <= Granted(call[p]) + Budget
<1>1. call[p].pc \in {"calling", "backoff"}
  BY DEF Running, RunningPcs
<1>2. PICK a \in 1..MaxAttempts, u \in Nat, n \in Nat, g \in Nat :
        /\ a = call[p].attempt /\ u = call[p].since /\ n = now
        /\ g = Granted(call[p])
  BY <1>1, ThreadFacts DEF Punctual, RunningPcs
<1>3. Spent(a, K) \in Nat /\ Spent(a, K) <= Budget /\ Budget \in Nat
  BY SpentIsNat, BudgetSpent, BudgetIsNat, Settings
<1>4. CASE call[p].pc = "calling"
  <2>1. PICK m \in 0..K : m = call[p].asked
    BY ThreadFacts
  <2>2. m < K /\ u <= g + Spent(a, m) /\ n < u + OpTimeout
    BY <1>2, <1>4, <2>1, ThreadFacts DEF Punctual, TimeMayPass
  <2>3. Spent(a, m) \in Nat /\ Spent(a, m + 1) = Spent(a, m) + OpTimeout
        /\ Spent(a, m + 1) <= Spent(a, K)
    BY <2>2, SpentIsNat, RequestSpends, SpentGrows, Settings
  <2>. QED BY <1>2, <1>3, <2>2, <2>3, Settings
<1>5. CASE call[p].pc = "backoff"
  <2>1. a < MaxAttempts /\ u <= g + Spent(a, K) /\ n < u + Backoff
    BY <1>2, <1>5, ThreadFacts DEF Punctual, TimeMayPass
  <2>2. Spent(a + 1, 0) = Spent(a, K) + Backoff
    BY PauseSpends
  <2>3. a + 1 \in 1..MaxAttempts
    BY <2>1, Settings
  <2>4. Spent(a + 1, 0) \in Nat /\ Spent(a + 1, 0) <= Spent(a + 1, K) /\ Spent(a + 1, K) \in Nat
    BY <2>3, SpentIsNat, SpentGrows, Settings
  <2>5. Spent(a + 1, K) <= Budget
    BY <2>3, BudgetSpent
  <2>. QED BY <1>2, <1>3, <2>1, <2>2, <2>4, <2>5, Settings
<1>. QED BY <1>1, <1>4, <1>5

LEMMA TickKeeps == ASSUME IInv, Tick PROVE IInv'
<1>1. TimeMayPass /\ now' = now + 1 /\ UNCHANGED <<configured, phase, call, results, missing>>
  BY DEF Tick
<1>2. TypeOK' /\ now \in Nat
  BY <1>1 DEF IInv, TypeOK
<1>3. /\ phase # "answered" /\ (phase = "waiting" => now < Deadline)
      /\ phase = "joining" => \E p \in configured : Running(p)
  BY <1>1 DEF TimeMayPass
<1>4. LateAsOne'
  <2>1. CASE phase = "waiting"
    BY <1>1, <1>2, <1>3, <2>1, Settings DEF LateAsOne
  <2>2. CASE phase = "joining"
    <3>1. PICK p \in configured : Running(p)
      BY <1>3, <2>2
    <3>2. now + 1 <= Granted(call[p]) + Budget
      BY <1>1, <3>1, TickInTime
    <3>3. p \in missing
      BY <2>2, <3>1 DEF IInv, ResultsAreSound, EveryPlatformAccounted, UsedWereInTime,
                        Running, RunningPcs
    <3>. QED BY <1>1, <2>2, <3>2, <3>3 DEF LateAsOne, Granted, Budget
  <2>. QED BY <1>3, <2>1, <2>2 DEF IInv, TypeOK
<1>5. ResultsAreSound'
  BY <1>1 DEF IInv, ResultsAreSound, EveryPlatformAccounted, UsedWereInTime, OneWholeAttempt
<1>6. ASSUME NEW p \in configured
      PROVE  Punctual(call[p], now + 1, phase) /\ OneAttempt(call[p])
  <2>1. PICK u \in Nat, n \in Nat : u = call[p].since /\ n = now
    BY <1>2, ThreadFacts
  <2>2. /\ u <= n
        /\ call[p].pc = "calling" => n < u + OpTimeout
        /\ call[p].pc = "backoff" => n < u + Backoff
    BY <1>1, <2>1, ThreadFacts DEF Punctual, TimeMayPass
  <2>3. /\ u <= n + 1
        /\ call[p].pc = "calling" => n + 1 <= u + OpTimeout
        /\ call[p].pc = "backoff" => n + 1 <= u + Backoff
    BY <2>2, Settings
  <2>. QED BY <2>1, <2>3, ThreadFacts DEF Punctual
<1>7. \A p \in configured' : Punctual(call[p], now, phase)' /\ OneAttempt(call[p])'
  BY <1>1, <1>6 DEF Punctual, OneAttempt, AllOf, Spent, Granted
<1>. QED BY <1>2, <1>4, <1>5, <1>7 DEF IInv

-----------------------------------------------------------------------------
LEMMA InitIInv == Init => IInv
<1> SUFFICES ASSUME Init PROVE IInv
  OBVIOUS
<1>1. PICK t : t = [pc |-> "queued", attempt |-> 0, asked |-> 0, hits |-> <<>>, since |-> 0,
                 more |-> 0]
  OBVIOUS
<1>2. t \in Thread
  <2>1. 0 \in 0..MaxAttempts /\ 0 \in 0..Len(Kinds) /\ <<>> \in Seq(ToSet(Kinds) \X Nat)
        /\ 0 \in 0..MaxMore
    BY Settings DEF K
  <2>. QED BY <1>1, <2>1 DEF Thread
<1>3. call = [p \in configured |-> t]
  BY <1>1 DEF Init
<1>4. TypeOK
  BY <1>2, <1>3 DEF Init, TypeOK
<1>5. LateAsOne /\ ResultsAreSound
  BY Settings DEF Init, LateAsOne, ResultsAreSound
<1>6. Punctual(t, now, phase) /\ OneAttempt(t)
  BY <1>1 DEF Init, Punctual, OneAttempt, AllOf, RunningPcs
<1>. QED BY <1>3, <1>4, <1>5, <1>6 DEF IInv

LEMMA NextIInv == IInv /\ [Next]_vars => IInv'
<1> SUFFICES ASSUME IInv, [Next]_vars PROVE IInv'
  OBVIOUS
<1>1. CASE UNCHANGED vars
  <2>1. UNCHANGED <<now, configured, phase, call, results, missing>>
    BY <1>1 DEF vars
  <2>2. TypeOK' /\ LateAsOne' /\ ResultsAreSound'
    BY <2>1 DEF IInv, TypeOK, LateAsOne, ResultsAreSound, EveryPlatformAccounted,
                UsedWereInTime, OneWholeAttempt, Granted, Budget
  <2>3. \A p \in configured' : Punctual(call[p], now, phase)' /\ OneAttempt(call[p])'
    BY <2>1 DEF IInv, Punctual, OneAttempt, AllOf, Spent, Granted
  <2>. QED BY <2>2, <2>3 DEF IInv
<1>2. ASSUME NEW p \in configured,
             \/ Start(p) \/ Reply(p) \/ RequestFails(p) \/ Retry(p)
             \/ Trickle(p) \/ Hang(p)
      PROVE IInv'
  BY <1>2, StartKeeps, ReplyKeeps, FailsKeeps, RetryKeeps, TrickleKeeps, HangKeeps
<1>. QED BY <1>1, <1>2, CollectKeeps, GiveUpKeeps, JoinKeeps, TickKeeps DEF Next

\* The inductive invariant: no thread exceeds its account.
THEOREM Inductive == Spec => []IInv
BY InitIInv, NextIInv, PTL DEF Spec

\* Whatever the providers do, a thread makes no attempt and no request too many.
THEOREM TypeCorrect == Spec => []TypeOK
<1>1. IInv => TypeOK
  BY DEF IInv
<1>. QED BY <1>1, Inductive, PTL

\* For all settings and however many operations the requests take: the search
\* waits no longer than its deadline, and answers no later than the attempts,
\* pauses and operations of one thread that it gave up allow for.
THEOREM AnswersInTime == Spec => []AnswerInTime
<1>1. IInv => AnswerInTime
  <2> SUFFICES ASSUME IInv PROVE AnswerInTime
    OBVIOUS
  <2>1. ASSUME NEW p \in missing, now <= Granted(call[p]) + Budget
        PROVE  now <= Deadline + Budget + call[p].more * OpTimeout
    <3>1. p \in configured
      BY DEF IInv, TypeOK
    <3>2. PICK m \in Nat : m = call[p].more
      BY <3>1, ThreadFacts
    <3>3. m * OpTimeout \in Nat
      BY Settings
    <3>. QED BY <2>1, <3>2, <3>3, Settings, BudgetIsNat DEF Granted
  <2>. QED BY <2>1 DEF IInv, LateAsOne, AnswerInTime
<1>. QED BY <1>1, Inductive, PTL

\* Used results were there in time, are of one whole attempt, and every platform
\* without one is called missing.
THEOREM ResultsStaySound == Spec => []ResultsAreSound
<1>1. IInv => ResultsAreSound
  BY DEF IInv
<1>. QED BY <1>1, Inductive, PTL
=============================================================================
