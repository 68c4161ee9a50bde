------------------------- MODULE RateLimiterProofs -------------------------
(***************************************************************************)
(* Proofs about RateLimiter, for any number of calls, any limit and any    *)
(* window.                                                                 *)
(***************************************************************************)
EXTENDS RateLimiter, FunctionTheorems, FiniteSetTheorems, TLAPS

(* Windows: a time lies in the window of its quotient. *)

LEMMA DivBounds ==
  ASSUME NEW t \in Nat, NEW w \in Nat \ {0}
  PROVE  /\ t \div w \in 0..t
         /\ (t \div w) * w <= t
         /\ t < ((t \div w) + 1) * w
         /\ ((t \div w) + 1) * w <= t + w
BY SMT

-----------------------------------------------------------------------------
(* The inductive invariant. *)

Counted == {"expire", "allowed", "denied"}

\* The calls whose INCR may have been executed.
Crowd(b) == {c \in Calls : call[c].pc \notin {"idle", "incr"} /\ call[c].bucket = b}

\* What is known of one call.
CallSound(c) ==
  /\ call[c].pc # "idle" => /\ call[c].start <= clock
                            /\ call[c].bucket = call[c].start \div Window
  /\ call[c].pc \in Counted => call[c].count >= 1
  /\ call[c].pc = "expire"  => call[c].count = 1
  /\ call[c].pc = "allowed" => call[c].count <= Limit

\* While a window runs its key is not dropped, it counts every call, and no
\* two calls alike.
Running(b) == clock < (b + 1) * Window

KeyOutlives(b) == Running(b) => deadline[b] = Never \/ deadline[b] >= (b + 1) * Window

CountsDiffer(b) ==
  Running(b) =>
    \A c \in Calls : call[c].pc \in Counted /\ call[c].bucket = b =>
      /\ call[c].count <= counter[b]
      /\ \A d \in Calls : d # c /\ call[d].pc \in Counted /\ call[d].bucket = b =>
           call[c].count # call[d].count

CounterBounded(b) == counter[b] <= Cardinality(Crowd(b))

IInv ==
  /\ TypeOK
  /\ \A c \in Calls : CallSound(c)
  /\ \A b \in Buckets : KeyOutlives(b)
  /\ \A b \in Buckets : CountsDiffer(b)
  /\ \A b \in Buckets : CounterBounded(b)
  /\ DenialJustified
  /\ LeakNeedsFault

-----------------------------------------------------------------------------
(* What the actions do to the calls. *)

LEMMA PcEffect ==
  ASSUME call \in [Calls -> CallType], NEW c \in Calls, NEW p \in Pcs,
         call' = [call EXCEPT ![c].pc = p]
  PROVE  /\ call' \in [Calls -> CallType]
         /\ call'[c].pc = p /\ call'[c].start = call[c].start
         /\ call'[c].bucket = call[c].bucket /\ call'[c].count = call[c].count
         /\ \A d \in Calls : d # c => call'[d] = call[d]
BY DEF CallType

LEMMA CountEffect ==
  ASSUME call \in [Calls -> CallType], NEW c \in Calls, NEW p \in Pcs, NEW n \in Nat,
         call' = [call EXCEPT ![c].count = n, ![c].pc = p]
  PROVE  /\ call' \in [Calls -> CallType]
         /\ call'[c].pc = p /\ call'[c].start = call[c].start
         /\ call'[c].bucket = call[c].bucket /\ call'[c].count = n
         /\ \A d \in Calls : d # c => call'[d] = call[d]
BY DEF CallType

LEMMA VerdictType ==
  \A n : Verdict(n) \in {"allowed", "denied"} /\ (Verdict(n) = "allowed" <=> n <= Limit)
BY DEF Verdict

\* A call other than c is left alone, and c keeps its window.
Only(c) == /\ call' \in [Calls -> CallType]
           /\ \A d \in Calls : d # c => call'[d] = call[d]
Keeps(c) == /\ Only(c)
            /\ call'[c].start = call[c].start /\ call'[c].bucket = call[c].bucket

LEMMA BeginEffect ==
  ASSUME TypeOK, NEW c \in Calls, Begin(c)
  PROVE  /\ Only(c) /\ call[c].pc = "idle" /\ call'[c].pc = "incr"
         /\ call'[c].start = clock /\ call'[c].bucket = clock \div Window
         /\ call'[c].count = call[c].count
         /\ UNCHANGED <<clock, counter, deadline>>
<1>1. clock \in Nat /\ clock <= MaxTime /\ MaxTime \in Nat /\ Window \in Nat \ {0}
  BY LimiterAssumption DEF TypeOK
<1>2. clock \div Window \in 0..clock
  BY <1>1, DivBounds
<1>3. clock \div Window \in Buckets
  BY <1>1, <1>2 DEF Buckets
<1>. QED BY <1>3 DEF Begin, Bucket, CallType, Pcs, TypeOK, Only

LEMMA IncrEffect ==
  ASSUME TypeOK, NEW c \in Calls, Incr(c)
  PROVE  LET b == call[c].bucket  n == counter[b] + 1 IN
         /\ Keeps(c) /\ call[c].pc = "incr" /\ b \in Buckets /\ n \in Nat
         /\ call'[c].pc = (IF n = 1 THEN "expire" ELSE Verdict(n)) /\ call'[c].count = n
         /\ counter' = [counter EXCEPT ![b] = n]
         /\ UNCHANGED <<clock, deadline>>
<1> DEFINE b == call[c].bucket  n == counter[b] + 1
           p == IF n = 1 THEN "expire" ELSE Verdict(n)
<1>1. b \in Buckets /\ n \in Nat
  BY DEF TypeOK, CallType
<1>2. p \in Pcs
  BY VerdictType DEF Pcs
<1>3. call' = [call EXCEPT ![c].count = n, ![c].pc = p]
  BY DEF Incr
<1>4. /\ call' \in [Calls -> CallType]
      /\ call'[c].pc = p /\ call'[c].start = call[c].start
      /\ call'[c].bucket = call[c].bucket /\ call'[c].count = n
      /\ \A d \in Calls : d # c => call'[d] = call[d]
  <2>1. call \in [Calls -> CallType]
    BY DEF TypeOK
  <2> HIDE DEF n, p
  <2>. QED BY <1>1, <1>2, <1>3, <2>1, CountEffect
<1>5. /\ call[c].pc = "incr" /\ UNCHANGED <<clock, deadline>>
      /\ counter' = [counter EXCEPT ![b] = n]
  BY DEF Incr
<1>. QED BY <1>1, <1>4, <1>5 DEF Only, Keeps

LEMMA ExpireEffect ==
  ASSUME TypeOK, NEW c \in Calls, Expire(c)
  PROVE  /\ Keeps(c) /\ call[c].pc = "expire" /\ call[c].bucket \in Buckets
         /\ call'[c].pc = Verdict(call[c].count) /\ call'[c].count = call[c].count
         /\ deadline' = Expiring(call[c].bucket)
         /\ UNCHANGED <<clock, counter>>
<1>1. Verdict(call[c].count) \in Pcs
  BY VerdictType DEF Pcs
<1>2. call' = [call EXCEPT ![c].pc = Verdict(call[c].count)]
  BY DEF Expire
<1>3. call[c].bucket \in Buckets
  BY DEF TypeOK, CallType
<1>. QED BY <1>1, <1>2, <1>3, PcEffect DEF TypeOK, Expire, Only, Keeps

LEMMA IncrFailsEffect ==
  ASSUME TypeOK, NEW c \in Calls, IncrFails(c)
  PROVE  LET b == call[c].bucket IN
         /\ Keeps(c) /\ call[c].pc = "incr" /\ b \in Buckets
         /\ call'[c].pc = "open" /\ call'[c].count = call[c].count
         /\ counter' \in {counter, [counter EXCEPT ![b] = counter[b] + 1]}
         /\ UNCHANGED <<clock, deadline>>
<1>1. call' = [call EXCEPT ![c].pc = "open"]
  BY DEF IncrFails
<1>2. call[c].bucket \in Buckets
  BY DEF TypeOK, CallType
<1>. QED BY <1>1, <1>2, PcEffect DEF TypeOK, IncrFails, Only, Keeps, Pcs

LEMMA ExpireFailsEffect ==
  ASSUME TypeOK, NEW c \in Calls, ExpireFails(c)
  PROVE  /\ Keeps(c) /\ call[c].pc = "expire" /\ call[c].bucket \in Buckets
         /\ call'[c].pc = "open" /\ call'[c].count = call[c].count
         /\ deadline' \in {deadline, Expiring(call[c].bucket)}
         /\ UNCHANGED <<clock, counter>>
<1>1. call' = [call EXCEPT ![c].pc = "open"]
  BY DEF ExpireFails
<1>2. call[c].bucket \in Buckets
  BY DEF TypeOK, CallType
<1>. QED BY <1>1, <1>2, PcEffect DEF TypeOK, ExpireFails, Only, Keeps, Pcs

LEMMA CrashEffect ==
  ASSUME TypeOK, NEW c \in Calls, Crash(c)
  PROVE  /\ Keeps(c) /\ call[c].pc \in {"incr", "expire"}
         /\ call'[c].pc = "lost" /\ call'[c].count = call[c].count
         /\ UNCHANGED <<clock, counter, deadline>>
<1>1. call' = [call EXCEPT ![c].pc = "lost"]
  BY DEF Crash
<1>. QED BY <1>1, PcEffect DEF TypeOK, Crash, Only, Keeps, Pcs

LEMMA TickEffect ==
  ASSUME TypeOK, Tick
  PROVE  /\ clock' = clock + 1 /\ clock' \in 0..MaxTime /\ call' = call
         /\ counter' \in [Buckets -> Nat] /\ deadline' \in [Buckets -> 0..Never]
         /\ \A b \in Buckets :
              \/ /\ counter'[b] = counter[b] /\ deadline'[b] = deadline[b]
                 /\ deadline[b] > clock'
              \/ /\ counter'[b] = 0 /\ deadline'[b] = Never /\ deadline[b] <= clock'
<1>1. clock' = clock + 1 /\ clock' \in 0..MaxTime /\ call' = call
  BY LimiterAssumption DEF Tick, TypeOK
<1>2. Never \in 0..Never
  BY LimiterAssumption DEF Never
<1>3. /\ counter' \in [Buckets -> Nat] /\ deadline' \in [Buckets -> 0..Never]
  BY <1>2 DEF Tick, TypeOK
<1>4. ASSUME NEW b \in Buckets
      PROVE  \/ /\ counter'[b] = counter[b] /\ deadline'[b] = deadline[b]
                /\ deadline[b] > clock'
             \/ /\ counter'[b] = 0 /\ deadline'[b] = Never /\ deadline[b] <= clock'
  <2>1. deadline[b] \in Nat /\ clock' \in Nat
    BY <1>1, LimiterAssumption DEF TypeOK, Never
  <2>. QED BY <2>1 DEF Tick
<1>. QED BY <1>1, <1>3, <1>4

\* EXPIRE gives the key of b a window from now, if there is one.
LEMMA ExpiringEffect ==
  ASSUME TypeOK, NEW b \in Buckets, deadline' = Expiring(b)
  PROVE  /\ deadline' \in [Buckets -> 0..Never]
         /\ \A d \in Buckets : d # b => deadline'[d] = deadline[d]
         /\ \/ counter[b] = 0 /\ deadline'[b] = deadline[b]
            \/ deadline'[b] = clock + Window /\ deadline'[b] # Never
<1>1. clock + Window \in 0..Never /\ clock + Window # Never
  BY LimiterAssumption DEF TypeOK, Never
<1>. QED BY <1>1 DEF Expiring, TypeOK

-----------------------------------------------------------------------------
(* Each part of the invariant is kept by every action. *)

LEMMA StepCases ==
  ASSUME [Next]_vars
  PROVE  \/ \E c \in Calls : \/ Begin(c) \/ Incr(c) \/ Expire(c)
                             \/ IncrFails(c) \/ ExpireFails(c) \/ Crash(c)
         \/ Tick
         \/ UNCHANGED vars
BY DEF Next

LEMMA TypeStep ==
  ASSUME TypeOK, [Next]_vars
  PROVE  TypeOK'
<1>. USE DEF TypeOK, Only, Keeps
<1>1. ASSUME NEW c \in Calls, Begin(c) PROVE TypeOK'
  BY <1>1, BeginEffect
<1>2. ASSUME NEW c \in Calls, Incr(c) PROVE TypeOK'
  BY <1>2, IncrEffect
<1>3. ASSUME NEW c \in Calls, Expire(c) PROVE TypeOK'
  BY <1>3, ExpireEffect, ExpiringEffect
<1>4. ASSUME NEW c \in Calls, IncrFails(c) PROVE TypeOK'
  BY <1>4, IncrFailsEffect
<1>5. ASSUME NEW c \in Calls, ExpireFails(c) PROVE TypeOK'
  BY <1>5, ExpireFailsEffect, ExpiringEffect
<1>6. ASSUME NEW c \in Calls, Crash(c) PROVE TypeOK'
  BY <1>6, CrashEffect
<1>7. CASE Tick
  BY <1>7, TickEffect
<1>8. CASE UNCHANGED vars
  BY <1>8 DEF vars
<1>. QED BY <1>1, <1>2, <1>3, <1>4, <1>5, <1>6, <1>7, <1>8, StepCases

LEMMA SoundStep ==
  ASSUME TypeOK, \A c \in Calls : CallSound(c), [Next]_vars
  PROVE  \A c \in Calls : CallSound(c)'
<1>. SUFFICES ASSUME NEW e \in Calls PROVE CallSound(e)'
  OBVIOUS
<1>. clock \in Nat /\ call \in [Calls -> CallType] /\ Limit \in Nat
  BY LimiterAssumption DEF TypeOK
<1>. call[e].start \in Nat /\ call[e].count \in Nat
  BY LimiterAssumption DEF CallType
<1>. USE DEF CallSound, Counted, Only, Keeps
<1>1. ASSUME NEW c \in Calls, Begin(c) PROVE CallSound(e)'
  BY <1>1, BeginEffect
<1>2. ASSUME NEW c \in Calls, Incr(c) PROVE CallSound(e)'
  <2>1. counter[call[c].bucket] \in Nat
    BY <1>2, IncrEffect DEF TypeOK
  <2>. QED BY <1>2, <2>1, IncrEffect, VerdictType
<1>3. ASSUME NEW c \in Calls, Expire(c) PROVE CallSound(e)'
  BY <1>3, ExpireEffect, VerdictType
<1>4. ASSUME NEW c \in Calls, IncrFails(c) PROVE CallSound(e)'
  BY <1>4, IncrFailsEffect
<1>5. ASSUME NEW c \in Calls, ExpireFails(c) PROVE CallSound(e)'
  BY <1>5, ExpireFailsEffect
<1>6. ASSUME NEW c \in Calls, Crash(c) PROVE CallSound(e)'
  BY <1>6, CrashEffect
<1>7. CASE Tick
  BY <1>7, TickEffect
<1>8. CASE UNCHANGED vars
  BY <1>8 DEF vars
<1>. QED BY <1>1, <1>2, <1>3, <1>4, <1>5, <1>6, <1>7, <1>8, StepCases

\* The time to live given inside a window reaches beyond its end.
LEMMA LifeOutlasts ==
  ASSUME TypeOK, NEW c \in Calls, CallSound(c), call[c].pc # "idle"
  PROVE  clock + Window >= (call[c].bucket + 1) * Window
<1> DEFINE s == call[c].start
<1>1. s \in Nat /\ clock \in Nat /\ Window \in Nat \ {0} /\ s <= clock
      /\ call[c].bucket = s \div Window
  BY LimiterAssumption DEF TypeOK, CallType, CallSound
<1>2. ((s \div Window) + 1) * Window <= s + Window
  BY <1>1, DivBounds
<1>3. ((s \div Window) + 1) * Window \in Nat
  <2>1. s \div Window \in Nat
    BY <1>1, DivBounds
  <2>. QED BY <1>1, <2>1
<1>. QED BY <1>1, <1>2, <1>3

LEMMA OutliveStep ==
  ASSUME TypeOK, \A c \in Calls : CallSound(c), \A b \in Buckets : KeyOutlives(b),
         [Next]_vars
  PROVE  \A b \in Buckets : KeyOutlives(b)'
<1>. SUFFICES ASSUME NEW b \in Buckets PROVE KeyOutlives(b)'
  OBVIOUS
<1> DEFINE end == (b + 1) * Window
<1>. clock \in Nat /\ deadline[b] \in Nat /\ end \in Nat /\ Window \in Nat
  BY LimiterAssumption DEF TypeOK, Buckets, Never
<1>. KeyOutlives(b)
  OBVIOUS
<1>a. ASSUME NEW c \in Calls, call[c].pc # "idle", call[c].bucket \in Buckets,
             clock' = clock,
             deadline' \in {deadline, Expiring(call[c].bucket)}
      PROVE  KeyOutlives(b)'
  <2>1. CASE deadline'[b] = deadline[b]
    BY <1>a, <2>1 DEF KeyOutlives, Running
  <2>2. CASE deadline'[b] # deadline[b]
    <3>1. call[c].bucket = b /\ deadline'[b] = clock + Window
      BY <1>a, <2>2, ExpiringEffect
    <3>2. clock + Window >= end
      BY <1>a, <3>1, LifeOutlasts
    <3>. QED BY <3>1, <3>2 DEF KeyOutlives
  <2>. QED BY <2>1, <2>2
<1>b. ASSUME UNCHANGED <<clock, deadline>> PROVE KeyOutlives(b)'
  BY <1>b DEF KeyOutlives, Running
<1>1. ASSUME NEW c \in Calls, Begin(c) PROVE KeyOutlives(b)'
  BY <1>1, <1>b, BeginEffect
<1>2. ASSUME NEW c \in Calls, Incr(c) PROVE KeyOutlives(b)'
  BY <1>2, <1>b, IncrEffect
<1>3. ASSUME NEW c \in Calls, Expire(c) PROVE KeyOutlives(b)'
  BY <1>3, <1>a, ExpireEffect
<1>4. ASSUME NEW c \in Calls, IncrFails(c) PROVE KeyOutlives(b)'
  BY <1>4, <1>b, IncrFailsEffect
<1>5. ASSUME NEW c \in Calls, ExpireFails(c) PROVE KeyOutlives(b)'
  BY <1>5, <1>a, ExpireFailsEffect
<1>6. ASSUME NEW c \in Calls, Crash(c) PROVE KeyOutlives(b)'
  BY <1>6, <1>b, CrashEffect
<1>7. CASE Tick
  BY <1>7, TickEffect DEF KeyOutlives, Running
<1>8. CASE UNCHANGED vars
  BY <1>8, <1>b DEF vars
<1>. QED BY <1>1, <1>2, <1>3, <1>4, <1>5, <1>6, <1>7, <1>8, StepCases

LEMMA DifferStep ==
  ASSUME TypeOK, \A c \in Calls : CallSound(c), \A b \in Buckets : KeyOutlives(b),
         \A b \in Buckets : CountsDiffer(b), [Next]_vars
  PROVE  \A b \in Buckets : CountsDiffer(b)'
<1>. SUFFICES ASSUME NEW b \in Buckets PROVE CountsDiffer(b)'
  OBVIOUS
<1>. /\ clock \in Nat /\ call \in [Calls -> CallType] /\ Window \in Nat \ {0}
     /\ counter[b] \in Nat /\ (b + 1) * Window \in Nat /\ MaxTime \in Nat
     /\ deadline[b] \in Nat
  BY LimiterAssumption DEF TypeOK, Buckets, Never
<1>. \A e \in Calls : call[e].count \in Nat
  BY DEF CallType
<1>. CountsDiffer(b)
  OBVIOUS
\* Who leaves INCR without a count, or keeps it, changes nothing here.
<1>a. ASSUME NEW c \in Calls, UNCHANGED clock, counter'[b] \in Nat,
             counter'[b] >= counter[b], Only(c),
             call'[c].pc \in Counted =>
               call[c].pc \in Counted /\ call'[c].count = call[c].count
                 /\ call'[c].bucket = call[c].bucket
      PROVE  CountsDiffer(b)'
  BY <1>a DEF CountsDiffer, Running, Only
<1>1. ASSUME NEW c \in Calls, Begin(c) PROVE CountsDiffer(b)'
  BY <1>1, <1>a, BeginEffect DEF Counted
<1>2. ASSUME NEW c \in Calls, Incr(c) PROVE CountsDiffer(b)'
  <2> DEFINE n == counter[call[c].bucket] + 1
  <2>1. /\ Keeps(c) /\ n \in Nat /\ call[c].bucket \in Buckets
        /\ call'[c].count = n /\ counter' = [counter EXCEPT ![call[c].bucket] = n]
        /\ UNCHANGED clock /\ call[c].pc = "incr"
    BY <1>2, IncrEffect
  <2>2. CASE call[c].bucket # b
    <3>1. counter'[b] = counter[b]
      BY <2>1, <2>2 DEF TypeOK
    <3>. QED BY <2>1, <2>2, <3>1 DEF CountsDiffer, Running, Only, Keeps
  <2>3. CASE call[c].bucket = b
    <3>1. counter'[b] = n /\ n = counter[b] + 1
      BY <2>1, <2>3 DEF TypeOK
    <3>2. \A d \in Calls : d # c => call'[d] = call[d]
      BY <2>1 DEF Only, Keeps
    <3>3. SUFFICES ASSUME Running(b),
                          NEW d \in Calls, call'[d].pc \in Counted, call'[d].bucket = b
                   PROVE  /\ call'[d].count <= counter'[b]
                          /\ \A e \in Calls :
                               e # d /\ call'[e].pc \in Counted /\ call'[e].bucket = b =>
                                 call'[d].count # call'[e].count
      BY <2>1 DEF CountsDiffer, Running
    <3>4. \A e \in Calls : e # c /\ call'[e].pc \in Counted /\ call'[e].bucket = b =>
                             call'[e].count <= counter[b]
      BY <3>2, <3>3 DEF CountsDiffer
    <3> HIDE DEF n
    <3>. QED BY <2>1, <3>1, <3>2, <3>3, <3>4 DEF CountsDiffer
  <2>. QED BY <2>2, <2>3
<1>3. ASSUME NEW c \in Calls, Expire(c) PROVE CountsDiffer(b)'
  BY <1>3, <1>a, ExpireEffect DEF Counted, Keeps
<1>4. ASSUME NEW c \in Calls, IncrFails(c) PROVE CountsDiffer(b)'
  <2>1. counter'[b] \in {counter[b], counter[b] + 1}
    BY <1>4, IncrFailsEffect DEF TypeOK
  <2>. QED BY <1>4, <1>a, <2>1, IncrFailsEffect DEF Counted, Keeps
<1>5. ASSUME NEW c \in Calls, ExpireFails(c) PROVE CountsDiffer(b)'
  BY <1>5, <1>a, ExpireFailsEffect DEF Counted, Keeps
<1>6. ASSUME NEW c \in Calls, Crash(c) PROVE CountsDiffer(b)'
  BY <1>6, <1>a, CrashEffect DEF Counted, Keeps
<1>7. CASE Tick
  <2>1. SUFFICES ASSUME Running(b)' PROVE CountsDiffer(b)'
    BY DEF CountsDiffer
  <2>2. Running(b)
    BY <1>7, <2>1, TickEffect DEF Running
  <2>3. deadline[b] > clock'
    <3>1. clock' \in 0..MaxTime
      BY <1>7, TickEffect
    <3>2. Never > MaxTime
      BY LimiterAssumption DEF Never
    <3>3. Never \in Nat
      BY LimiterAssumption DEF Never
    <3>4. deadline[b] = Never \/ deadline[b] >= (b + 1) * Window
      BY <2>2 DEF KeyOutlives
    <3>5. clock' < (b + 1) * Window
      BY <2>1 DEF Running
    <3>. QED BY <3>1, <3>2, <3>3, <3>4, <3>5
  <2>4. counter'[b] = counter[b] /\ call' = call
    <3>1. clock' \in Nat
      BY <1>7, TickEffect
    <3>. QED BY <1>7, <2>3, <3>1, TickEffect
  <2>. QED BY <2>2, <2>4 DEF CountsDiffer
<1>8. CASE UNCHANGED vars
  BY <1>8 DEF vars, CountsDiffer, Running
<1>. QED BY <1>1, <1>2, <1>3, <1>4, <1>5, <1>6, <1>7, <1>8, StepCases

LEMMA CrowdFinite ==
  ASSUME NEW b
  PROVE  /\ IsFiniteSet(Crowd(b)) /\ Cardinality(Crowd(b)) \in Nat
         /\ IsFiniteSet(Crowd(b)') /\ Cardinality(Crowd(b)') \in Nat
<1>1. Crowd(b) \in SUBSET Calls /\ Crowd(b)' \in SUBSET Calls
  BY DEF Crowd
<1>. QED BY <1>1, LimiterAssumption, FS_Subset, FS_CardinalityType

LEMMA BoundedStep ==
  ASSUME TypeOK, \A b \in Buckets : CounterBounded(b), [Next]_vars
  PROVE  \A b \in Buckets : CounterBounded(b)'
<1>. SUFFICES ASSUME NEW b \in Buckets PROVE CounterBounded(b)'
  OBVIOUS
<1>. counter[b] \in Nat /\ counter[b] <= Cardinality(Crowd(b))
  BY DEF TypeOK, CounterBounded
\* The crowd only grows, and by the call that counts one more.
<1>a. ASSUME Crowd(b) \subseteq Crowd(b)', counter'[b] \in Nat, counter'[b] <= counter[b]
      PROVE  CounterBounded(b)'
  <2>1. Cardinality(Crowd(b)) <= Cardinality(Crowd(b)')
    BY <1>a, CrowdFinite, FS_Subset
  <2>. QED BY <1>a, <2>1, CrowdFinite DEF CounterBounded
<1>b. ASSUME NEW c \in Calls, call[c].pc = "incr", call'[c].pc \notin {"idle", "incr"},
             Keeps(c),
             counter' \in {counter, [counter EXCEPT ![call[c].bucket] = counter[call[c].bucket] + 1]}
      PROVE  CounterBounded(b)'
  <2>1. CASE call[c].bucket # b \/ counter'[b] = counter[b]
    <3>1. counter'[b] = counter[b]
      BY <1>b, <2>1 DEF TypeOK
    <3>2. Crowd(b) \subseteq Crowd(b)'
      BY <1>b DEF Crowd, Keeps, Only
    <3>. QED BY <1>a, <3>1, <3>2
  <2>2. CASE call[c].bucket = b /\ counter'[b] # counter[b]
    <3>1. counter'[b] = counter[b] + 1
      BY <1>b, <2>2 DEF TypeOK
    <3>2. c \notin Crowd(b) /\ Crowd(b)' = Crowd(b) \cup {c}
      BY <1>b, <2>2 DEF Crowd, Keeps, Only
    <3>3. Cardinality(Crowd(b)') = Cardinality(Crowd(b)) + 1
      BY <3>2, CrowdFinite, FS_AddElement
    <3>. QED BY <3>1, <3>3, CrowdFinite DEF CounterBounded
  <2>. QED BY <2>1, <2>2
<1>1. ASSUME NEW c \in Calls, Begin(c) PROVE CounterBounded(b)'
  BY <1>1, <1>a, BeginEffect DEF Crowd, Only
<1>2. ASSUME NEW c \in Calls, Incr(c) PROVE CounterBounded(b)'
  <2>1. call'[c].pc \notin {"idle", "incr"}
    BY <1>2, IncrEffect, VerdictType
  <2>. QED BY <1>2, <2>1, <1>b, IncrEffect
<1>3. ASSUME NEW c \in Calls, Expire(c) PROVE CounterBounded(b)'
  <2>1. call'[c].pc \notin {"idle", "incr"}
    BY <1>3, ExpireEffect, VerdictType
  <2>. QED BY <1>3, <2>1, <1>a, ExpireEffect DEF Crowd, Keeps, Only
<1>4. ASSUME NEW c \in Calls, IncrFails(c) PROVE CounterBounded(b)'
  BY <1>4, <1>b, IncrFailsEffect
<1>5. ASSUME NEW c \in Calls, ExpireFails(c) PROVE CounterBounded(b)'
  BY <1>5, <1>a, ExpireFailsEffect DEF Crowd, Keeps, Only
<1>6. ASSUME NEW c \in Calls, Crash(c) PROVE CounterBounded(b)'
  BY <1>6, <1>a, CrashEffect DEF Crowd, Keeps, Only
<1>7. CASE Tick
  <2>1. Crowd(b)' = Crowd(b)
    BY <1>7, TickEffect DEF Crowd
  <2>2. counter'[b] \in Nat /\ counter'[b] <= counter[b]
    BY <1>7, TickEffect
  <2>. QED BY <2>1, <2>2, <1>a
<1>8. CASE UNCHANGED vars
  BY <1>8, <1>a DEF vars, Crowd
<1>. QED BY <1>1, <1>2, <1>3, <1>4, <1>5, <1>6, <1>7, <1>8, StepCases

LEMMA OfFinite ==
  ASSUME NEW w, NEW c
  PROVE  /\ IsFiniteSet(Of(w) \ {c}) /\ Cardinality(Of(w) \ {c}) \in Nat
         /\ IsFiniteSet((Of(w) \ {c})') /\ Cardinality((Of(w) \ {c})') \in Nat
<1>1. Of(w) \ {c} \in SUBSET Calls /\ (Of(w) \ {c})' \in SUBSET Calls
  BY DEF Of
<1>. QED BY <1>1, LimiterAssumption, FS_Subset, FS_CardinalityType

\* The calls of a window stay its calls.
LEMMA OfGrows ==
  ASSUME TypeOK, [Next]_vars, NEW w
  PROVE  /\ Of(w) \subseteq Of(w)'
         /\ \A c \in Calls : call[c].pc # "idle" => call'[c].start = call[c].start
<1>1. SUFFICES ASSUME NEW e \in Calls, call[e].pc # "idle"
               PROVE  call'[e].pc # "idle" /\ call'[e].start = call[e].start
  BY DEF Of
<1> DEFINE Stays == call'[e].pc # "idle" /\ call'[e].start = call[e].start
<1>. USE DEF Only, Keeps
<1>2. ASSUME NEW c \in Calls, Begin(c) PROVE Stays
  BY <1>1, <1>2, BeginEffect
<1>3. ASSUME NEW c \in Calls, Incr(c) PROVE Stays
  BY <1>1, <1>3, IncrEffect, VerdictType
<1>4. ASSUME NEW c \in Calls, Expire(c) PROVE Stays
  BY <1>1, <1>4, ExpireEffect, VerdictType
<1>5. ASSUME NEW c \in Calls, IncrFails(c) PROVE Stays
  BY <1>1, <1>5, IncrFailsEffect
<1>6. ASSUME NEW c \in Calls, ExpireFails(c) PROVE Stays
  BY <1>1, <1>6, ExpireFailsEffect
<1>7. ASSUME NEW c \in Calls, Crash(c) PROVE Stays
  BY <1>1, <1>7, CrashEffect
<1>8. CASE Tick
  BY <1>1, <1>8, TickEffect
<1>9. CASE UNCHANGED vars
  BY <1>1, <1>9 DEF vars
<1>. QED BY <1>2, <1>3, <1>4, <1>5, <1>6, <1>7, <1>8, <1>9, StepCases

\* A count above the limit means as many other calls of the window.
LEMMA CrowdDenies ==
  ASSUME TypeOK, \A d \in Calls : CallSound(d), NEW c \in Calls, call[c].pc = "incr",
         NEW b \in Buckets, b = call[c].bucket, CounterBounded(b), counter[b] >= Limit,
         NEW w, w = call[c].start \div Window
  PROVE  Cardinality(Of(w) \ {c}) >= Limit
<1>1. Crowd(b) \subseteq Of(w) \ {c}
  BY DEF Crowd, Of, CallSound
<1>2. Cardinality(Crowd(b)) <= Cardinality(Of(w) \ {c})
  BY <1>1, OfFinite, FS_Subset
<1>3. counter[b] \in Nat /\ Limit \in Nat
  BY LimiterAssumption DEF TypeOK
<1>4. Cardinality(Crowd(b)) \in Nat /\ Cardinality(Of(w) \ {c}) \in Nat
  BY CrowdFinite, OfFinite
<1>. QED BY <1>2, <1>3, <1>4 DEF CounterBounded

LEMMA DenialStep ==
  ASSUME TypeOK, \A c \in Calls : CallSound(c), \A b \in Buckets : CounterBounded(b),
         DenialJustified, [Next]_vars
  PROVE  DenialJustified'
<1>1. SUFFICES ASSUME NEW e \in Calls, call'[e].pc = "denied",
                      NEW w, w = call'[e].start \div Window
               PROVE  Cardinality((Of(w) \ {e})') >= Limit
  BY DEF DenialJustified, Of
<1>. Limit \in Nat
  BY LimiterAssumption
\* It is enough that the crowd was there before the step.
<1>2. SUFFICES call[e].pc # "idle" /\ (w = call[e].start \div Window =>
                                         Cardinality(Of(w) \ {e}) >= Limit)
  <2>1. ASSUME call[e].pc # "idle", w = call[e].start \div Window =>
                                      Cardinality(Of(w) \ {e}) >= Limit
        PROVE  Cardinality((Of(w) \ {e})') >= Limit
    <3>1. Of(w) \ {e} \subseteq (Of(w) \ {e})'
      BY OfGrows
    <3>2. Cardinality(Of(w) \ {e}) <= Cardinality((Of(w) \ {e})')
      BY <3>1, OfFinite, FS_Subset
    <3>3. Cardinality(Of(w) \ {e}) \in Nat /\ Cardinality((Of(w) \ {e})') \in Nat
      BY OfFinite
    <3>4. call'[e].start = call[e].start
      BY <2>1, OfGrows
    <3>. QED BY <1>1, <2>1, <3>2, <3>3, <3>4
  <2>. QED BY <2>1
<1>3. CASE call[e].pc = "denied"
  BY <1>3 DEF DenialJustified
<1>4. CASE call[e].pc # "denied"
  <2> DEFINE Deserved == call[e].pc # "idle" /\ (w = call[e].start \div Window =>
                                                Cardinality(Of(w) \ {e}) >= Limit)
  <2>. USE DEF Only, Keeps
  <2>1. ASSUME NEW c \in Calls, Begin(c) PROVE FALSE
    BY <1>1, <1>4, <2>1, BeginEffect
  <2>2. ASSUME NEW c \in Calls, Incr(c) PROVE Deserved
    <3>1. e = c /\ call[c].pc = "incr" /\ call[c].bucket \in Buckets
      BY <1>1, <1>4, <2>2, IncrEffect
    <3>2. counter[call[c].bucket] \in Nat
      BY <3>1 DEF TypeOK
    <3>3. counter[call[c].bucket] >= Limit
      BY <1>1, <3>1, <3>2, <2>2, IncrEffect, VerdictType
    <3>. QED BY <3>1, <3>3, CrowdDenies
  <2>3. ASSUME NEW c \in Calls, Expire(c) PROVE Deserved
    <3>1. e = c /\ call[c].pc = "expire" /\ call'[c].pc = Verdict(call[c].count)
      BY <1>1, <1>4, <2>3, ExpireEffect
    <3>2. Verdict(1) = "denied"
      BY <1>1, <3>1 DEF CallSound
    <3>3. Limit = 0
      BY <3>2, VerdictType
    <3>4. Cardinality(Of(w) \ {e}) \in Nat
      BY OfFinite
    <3>. QED BY <3>1, <3>3, <3>4
  <2>4. ASSUME NEW c \in Calls, IncrFails(c) PROVE FALSE
    BY <1>1, <1>4, <2>4, IncrFailsEffect
  <2>5. ASSUME NEW c \in Calls, ExpireFails(c) PROVE FALSE
    BY <1>1, <1>4, <2>5, ExpireFailsEffect
  <2>6. ASSUME NEW c \in Calls, Crash(c) PROVE FALSE
    BY <1>1, <1>4, <2>6, CrashEffect
  <2>7. ASSUME Tick PROVE FALSE
    BY <1>1, <1>4, <2>7, TickEffect
  <2>8. ASSUME UNCHANGED vars PROVE FALSE
    BY <1>1, <1>4, <2>8 DEF vars
  <2> HIDE DEF Deserved
  <2>9. Deserved
    BY <2>1, <2>2, <2>3, <2>4, <2>5, <2>6, <2>7, <2>8, StepCases
  <2>. QED BY <2>9 DEF Deserved
<1>. QED BY <1>3, <1>4

LEMMA LeakStep ==
  ASSUME TypeOK, LeakNeedsFault, [Next]_vars
  PROVE  LeakNeedsFault'
<1> DEFINE Lost(b) == \E c \in Calls : call[c].bucket = b
                                        /\ call[c].pc \in {"expire", "open", "lost"}
<1>. SUFFICES ASSUME NEW b \in Buckets, counter'[b] > 0, deadline'[b] = Never
              PROVE  Lost(b)'
  BY DEF LeakNeedsFault
<1>. /\ counter[b] \in Nat
     /\ counter[b] > 0 /\ deadline[b] = Never => Lost(b)
  BY DEF LeakNeedsFault, TypeOK
<1>. USE DEF Only, Keeps
<1>1. ASSUME NEW c \in Calls, Begin(c) PROVE Lost(b)'
  BY <1>1, BeginEffect
<1>2. ASSUME NEW c \in Calls, Incr(c) PROVE Lost(b)'
  <2>1. CASE call[c].bucket = b /\ counter[b] = 0
    BY <1>2, <2>1, IncrEffect
  <2>2. CASE call[c].bucket = b /\ counter[b] # 0
    BY <1>2, <2>2, IncrEffect
  <2>3. CASE call[c].bucket # b
    BY <1>2, <2>3, IncrEffect DEF TypeOK
  <2>. QED BY <2>1, <2>2, <2>3
<1>3. ASSUME NEW c \in Calls, Expire(c) PROVE Lost(b)'
  <2>1. call[c].bucket # b
    BY <1>3, ExpireEffect, ExpiringEffect DEF TypeOK
  <2>. QED BY <1>3, <2>1, ExpireEffect, ExpiringEffect
<1>4. ASSUME NEW c \in Calls, IncrFails(c) PROVE Lost(b)'
  <2>1. CASE call[c].bucket = b
    BY <1>4, <2>1, IncrFailsEffect
  <2>2. CASE call[c].bucket # b
    BY <1>4, <2>2, IncrFailsEffect DEF TypeOK
  <2>. QED BY <2>1, <2>2
<1>5. ASSUME NEW c \in Calls, ExpireFails(c) PROVE Lost(b)'
  <2>1. CASE call[c].bucket = b
    BY <1>5, <2>1, ExpireFailsEffect
  <2>2. CASE call[c].bucket # b
    BY <1>5, <2>2, ExpireFailsEffect, ExpiringEffect
  <2>. QED BY <2>1, <2>2
<1>6. ASSUME NEW c \in Calls, Crash(c) PROVE Lost(b)'
  BY <1>6, CrashEffect
<1>7. CASE Tick
  BY <1>7, TickEffect
<1>8. CASE UNCHANGED vars
  BY <1>8 DEF vars
<1>. QED BY <1>1, <1>2, <1>3, <1>4, <1>5, <1>6, <1>7, <1>8, StepCases

-----------------------------------------------------------------------------
(* The theorems. *)

LEMMA InitIInv ==
  Init => IInv
<1>. SUFFICES ASSUME Init PROVE IInv
  OBVIOUS
<1>. /\ 0 \in 0..MaxTime /\ 0 \in Buckets /\ Never \in 0..Never /\ MaxTime \in Nat
  BY LimiterAssumption DEF Buckets, Never
<1>1. TypeOK
  BY DEF Init, TypeOK, CallType, Pcs
<1>2. \A c \in Calls : CallSound(c)
  BY DEF Init, CallSound, Counted
<1>3. \A b \in Buckets : KeyOutlives(b) /\ CountsDiffer(b)
  BY DEF Init, KeyOutlives, CountsDiffer, Counted
<1>4. \A b \in Buckets : CounterBounded(b)
  <2>. SUFFICES ASSUME NEW b \in Buckets PROVE 0 <= Cardinality(Crowd(b))
    BY DEF Init, CounterBounded
  <2>. QED BY CrowdFinite
<1>5. DenialJustified /\ LeakNeedsFault
  BY DEF Init, DenialJustified, LeakNeedsFault
<1>. QED BY <1>1, <1>2, <1>3, <1>4, <1>5 DEF IInv

LEMMA NextIInv ==
  IInv /\ [Next]_vars => IInv'
<1>. SUFFICES ASSUME IInv, [Next]_vars PROVE IInv'
  OBVIOUS
<1>1. TypeOK' /\ \A c \in Calls : CallSound(c)'
  BY TypeStep, SoundStep DEF IInv
<1>2. \A b \in Buckets : KeyOutlives(b)' /\ CountsDiffer(b)' /\ CounterBounded(b)'
  BY OutliveStep, DifferStep, BoundedStep DEF IInv
<1>3. DenialJustified' /\ LeakNeedsFault'
  BY DenialStep, LeakStep DEF IInv
<1>. QED BY <1>1, <1>2, <1>3 DEF IInv

\* The inductive invariant: what the count of a key, and its time to live, stand for.
THEOREM Inductive == Spec => []IInv
BY InitIInv, NextIInv, PTL DEF Spec

\* Every variable of the limiter holds a value of its kind, whatever the calls.
THEOREM TypeCorrect == Spec => []TypeOK
<1>1. IInv => TypeOK
  BY DEF IInv
<1>. QED BY <1>1, Inductive, PTL

\* While a window runs its counted calls have different counts, and those let
\* through have counts up to the limit: there are no more of them than that.
LEMMA CountsBound ==
  IInv => WindowBound
<1>. SUFFICES ASSUME IInv, NEW w \in Buckets, clock < (w + 1) * Window
              PROVE  Cardinality({c \in Of(w) : call[c].pc = "allowed"}) <= Limit
  BY DEF WindowBound
<1> DEFINE Through == {c \in Of(w) : call[c].pc = "allowed"}
           count == [c \in Through |-> call[c].count]
<1>1. ASSUME NEW c \in Through
      PROVE  /\ c \in Calls /\ call[c].pc = "allowed" /\ call[c].bucket = w
             /\ call[c].count \in 1..Limit
  BY <1>1, LimiterAssumption DEF IInv, TypeOK, CallType, CallSound, Counted, Of
<1>2. \A c, d \in Through : count[c] = count[d] => c = d
  BY <1>1 DEF IInv, CountsDiffer, Running, Counted
<1>3. count \in Injection(Through, 1..Limit)
  BY <1>1, <1>2 DEF Injection, IsInjective
<1>4. IsFiniteSet(1..Limit) /\ Cardinality(1..Limit) = Limit
  BY LimiterAssumption, FS_Interval
<1> HIDE DEF Through, count
<1>5. Cardinality(Through) <= Cardinality(1..Limit)
  BY <1>3, <1>4, FS_Injection
<1>. QED BY <1>4, <1>5 DEF Through

\* Until a window is over, at most Limit of its calls were let through by the
\* count, for any number of calls, whatever fails and however late they are.
THEOREM NeverOverTheLimit == Spec => []WindowBound
BY CountsBound, Inductive, PTL

\* A 429 is deserved: at least Limit other calls were made in its window.
THEOREM DenialsAreJustified == Spec => []DenialJustified
<1>1. IInv => DenialJustified
  BY DEF IInv
<1>. QED BY <1>1, Inductive, PTL

\* A key without a time to live stays in Redis only after a fault.
THEOREM LeaksNeedFaults == Spec => []LeakNeedsFault
<1>1. IInv => LeakNeedsFault
  BY DEF IInv
<1>. QED BY <1>1, Inductive, PTL
=============================================================================
