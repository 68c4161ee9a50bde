--------------------------- MODULE ProviderFanOut ---------------------------
(***************************************************************************)
(* The live part of a search (SearchService._fan_out_provider_search): one *)
(* thread per configured provider asks it for each kind in turn and, after *)
(* an error, starts over; the search waits for the threads until its       *)
(* deadline, and then, leaving the executor, for those it has given up.    *)
(*                                                                         *)
(* A request is one or more operations that block: the name lookup, the    *)
(* connection, each read of the response.  urlopen's timeout bounds each   *)
(* of them (the resolver bounds the lookup), not the request: a provider   *)
(* that trickles its response may take many, or never come to an end.      *)
(* Time passes only when nothing is due (TimeMayPass): the steps of the    *)
(* program take no time of their own.                                      *)
(***************************************************************************)
EXTENDS Naturals, FiniteSets, Sequences, SequencesExt

CONSTANTS
  Kinds,        \* the kinds a search asks for, in the order of the requests
  Limit,        \* the limit of the search
  MaxAttempts,  \* search_provider_max_attempts
  OpTimeout,    \* provider_http_timeout_seconds, for one operation
  Backoff,      \* search_provider_retry_backoff_seconds
  Deadline,     \* search_provider_timeout_seconds
  MaxMore       \* bound of a thread's operations beyond one for each request

Providers == {"youtube", "yandex"}

ASSUME FanOutAssumption ==
  /\ Kinds \in Seq({"artist", "release", "track"}) /\ Kinds # <<>>
  /\ Limit \in Nat \ {0} /\ MaxAttempts \in Nat \ {0}
  /\ OpTimeout \in Nat /\ Backoff \in Nat /\ Deadline \in Nat /\ MaxMore \in Nat

VARIABLES
  now,          \* the time since the search began to ask
  configured,   \* the providers that have a token
  phase,        \* where the search is
  call,         \* the thread of each provider
  results,      \* the providers whose results the search uses
  missing       \* the platforms it calls missing

vars == <<now, configured, phase, call, results, missing>>

-----------------------------------------------------------------------------
RunningPcs == {"calling", "backoff"}
EndPcs     == {"answered", "raised", "cancelled"}

\* What a provider may list: its id may be missing or that of another kind.
Item == [id : {"none", "other", "own"}, title : BOOLEAN]

\* Which items become hits; the others are dropped.
YoutubeHit(item) == item.title /\ item.id = "own"
YandexHit(item)  == item.title /\ item.id # "none"

Hits(p, items) ==
  {i \in DOMAIN items : IF p = "youtube" THEN YoutubeHit(items[i]) ELSE YandexHit(items[i])}

\* A thread: its attempt, the requests answered in it, the hits (their kind and,
\* as history, the attempt that found them), the time of its last step and, as
\* history, the operations that its requests took beyond their first.
Thread == [pc : {"queued", "hung"} \cup RunningPcs \cup EndPcs, attempt : 0..MaxAttempts,
           asked : 0..Len(Kinds), hits : Seq(ToSet(Kinds) \X Nat), since : Nat,
           more : 0..MaxMore]

Ended(p)   == call[p].pc \in EndPcs
Running(p) == call[p].pc \in RunningPcs
Stuck      == \E p \in configured : call[p].pc = "hung"

\* A client per token; without any there is no fan-out (SearchCache).
Init ==
  /\ now = 0
  /\ configured \in SUBSET Providers \ {{}}
  /\ phase = "waiting"
  /\ call = [p \in configured |->
               [pc |-> "queued", attempt |-> 0, asked |-> 0, hits |-> <<>>, since |-> 0,
                more |-> 0]]
  /\ results = {} /\ missing = {}

-----------------------------------------------------------------------------
(* The thread of a provider *)

Attempt(p) == [call[p] EXCEPT !.pc = "calling", !.attempt = @ + 1, !.asked = 0,
                              !.hits = <<>>, !.since = now]

Truncated(hits) == IF Len(hits) <= Limit THEN hits ELSE SubSeq(hits, 1, Limit)

Start(p) ==
  /\ call[p].pc = "queued"
  /\ call' = [call EXCEPT ![p] = Attempt(p)]
  /\ UNCHANGED <<now, configured, phase, results, missing>>

\* The thread after an answer with n hits; the last one of an attempt ends it.
Replied(p, n) ==
  LET kind == Kinds[call[p].asked + 1]
      hits == call[p].hits \o [i \in 1..n |-> <<kind, call[p].attempt>>]
      last == call[p].asked + 1 = Len(Kinds)
  IN  [call[p] EXCEPT !.pc = IF last THEN "answered" ELSE @, !.asked = @ + 1, !.since = now,
                      !.hits = IF last THEN Truncated(hits) ELSE hits]

Reply(p) ==
  /\ call[p].pc = "calling"
  /\ \E items \in BoundedSeq(Item, Limit) :
       call' = [call EXCEPT ![p] = Replied(p, Cardinality(Hits(p, items)))]
  /\ UNCHANGED <<now, configured, phase, results, missing>>

\* Mutant: one attempt more than configured.
MutOneMore(p) ==
  /\ call[p].pc = "calling"
  /\ call' = [call EXCEPT ![p] =
       IF @.attempt = MaxAttempts + 1 THEN [@ EXCEPT !.pc = "raised", !.since = now]
       ELSE IF Backoff > 0 THEN [@ EXCEPT !.pc = "backoff", !.since = now]
       ELSE Attempt(p)]
  /\ UNCHANGED <<now, configured, phase, results, missing>>

\* A request fails or one of its operations times out: the attempt is over.
RequestFails(p) ==
  /\ call[p].pc = "calling"
  /\ call' = [call EXCEPT ![p] =
       IF @.attempt = MaxAttempts THEN [@ EXCEPT !.pc = "raised", !.since = now]
       ELSE IF Backoff > 0 THEN [@ EXCEPT !.pc = "backoff", !.since = now]
       ELSE Attempt(p)]
  /\ UNCHANGED <<now, configured, phase, results, missing>>

Retry(p) ==
  /\ call[p].pc = "backoff" /\ now = call[p].since + Backoff
  /\ call' = [call EXCEPT ![p] = Attempt(p)]
  /\ UNCHANGED <<now, configured, phase, results, missing>>

-----------------------------------------------------------------------------
(* The provider, as slow as it likes *)

\* An operation ends in time, and the request goes on with another.
Trickle(p) ==
  /\ call[p].pc = "calling" /\ call[p].more < MaxMore
  /\ call' = [call EXCEPT ![p].more = @ + 1, ![p].since = now]
  /\ UNCHANGED <<now, configured, phase, results, missing>>

\* From here on the provider trickles for ever.
Hang(p) ==
  /\ call[p].pc = "calling"
  /\ call' = [call EXCEPT ![p].pc = "hung"]
  /\ UNCHANGED <<now, configured, phase, results, missing>>

-----------------------------------------------------------------------------
(* The search *)

Answered(S) == {p \in S : call[p].pc = "answered"}

\* All futures are done before the deadline.
CollectAll ==
  /\ phase = "waiting" /\ \A p \in configured : Ended(p)
  /\ results' = Answered(configured)
  /\ missing' = configured \ Answered(configured)
  /\ phase' = "answered"
  /\ UNCHANGED <<now, configured, call>>

\* Mutant: the search waits on until some provider has answered.
MutWaitForOne ==
  /\ phase = "waiting" /\ now >= Deadline /\ \E p \in configured : ~ Ended(p)
  /\ Answered(configured) # {}
  /\ results' = Answered(configured)
  /\ missing' = configured \ Answered(configured)
  /\ call' = [p \in configured |->
                IF call[p].pc = "queued" THEN [call[p] EXCEPT !.pc = "cancelled"] ELSE call[p]]
  /\ phase' = "joining"
  /\ UNCHANGED <<now, configured>>

\* wait() returns at the deadline.  What is not done is missing: a call that
\* has not begun is cancelled, one that runs goes on.
GiveUp ==
  /\ phase = "waiting" /\ now >= Deadline /\ \E p \in configured : ~ Ended(p)
  /\ results' = Answered(configured)
  /\ missing' = configured \ Answered(configured)
  /\ call' = [p \in configured |->
                IF call[p].pc = "queued" THEN [call[p] EXCEPT !.pc = "cancelled"] ELSE call[p]]
  /\ phase' = "joining"
  /\ UNCHANGED <<now, configured>>

\* Mutant: what the late threads answered is used although it was given up.
MutUseLate ==
  /\ phase = "joining" /\ \A p \in configured : Ended(p)
  /\ phase' = "answered"
  /\ results' = Answered(configured)
  /\ UNCHANGED <<now, configured, call, missing>>

\* The executor is left when its threads have ended; what they answer is lost.
Join ==
  /\ phase = "joining" /\ \A p \in configured : Ended(p)
  /\ phase' = "answered"
  /\ UNCHANGED <<now, configured, call, results, missing>>

\* Nothing is due: no thread to wake, no operation at its time-out, no deadline
\* to notice, no finished threads to collect.  What is left of time when the
\* search waits for hung threads only is not counted.
TimeMayPass ==
  /\ phase # "answered"
  /\ phase = "waiting" => now < Deadline
  /\ phase = "joining" => \E p \in configured : Running(p)
  /\ \E p \in configured : ~ Ended(p)
  /\ \A p \in configured :
       /\ call[p].pc = "calling" => now < call[p].since + OpTimeout
       /\ call[p].pc = "backoff" => now < call[p].since + Backoff

Tick ==
  /\ TimeMayPass
  /\ now' = now + 1
  /\ UNCHANGED <<configured, phase, call, results, missing>>

Next ==
  \/ \E p \in configured :
       \/ Start(p) \/ Reply(p) \/ RequestFails(p) \/ Retry(p)
       \/ Trickle(p) \/ Hang(p)
  \/ CollectAll \/ GiveUp \/ Join \/ Tick

Spec == Init /\ [][Next]_vars

\* What the program does without the providers' help: an operation that blocks
\* for too long times out.
Due ==
  \/ \E p \in configured :
       \/ Start(p) \/ Retry(p)
       \/ now = call[p].since + OpTimeout /\ RequestFails(p)
  \/ CollectAll \/ GiveUp \/ Join \/ Tick

\* The threads and the search are scheduled, and time passes; nothing is
\* assumed of the providers.
FairSpec == Spec /\ WF_vars(Due)

-----------------------------------------------------------------------------
(* Properties *)

\* The longest that a provider may keep its thread busy when each request is
\* one operation.
Budget == MaxAttempts * Len(Kinds) * OpTimeout + (MaxAttempts - 1) * Backoff

\* Every variable holds a value of its kind, and a thread that works has an
\* attempt that it may make.
TypeOK ==
  /\ now \in Nat /\ configured \in SUBSET Providers
  /\ phase \in {"waiting", "joining", "answered"}
  /\ call \in [configured -> Thread]
  /\ results \subseteq configured /\ missing \subseteq configured

\* The search stops waiting at its deadline.  It answers later only because of a
\* thread that it gave up, and as much later as that one's attempts, pauses and
\* operations take, however errors and time-outs follow each other: no thread
\* begins, and no time adds up over the threads, after the deadline.
AnswerInTime ==
  /\ phase = "waiting" => now <= Deadline
  /\ phase # "waiting" /\ now > Deadline /\ ~ Stuck =>
       \E p \in missing : now <= Deadline + Budget + call[p].more * OpTimeout

\* Every configured platform is either used or called missing, never both: an
\* answer that does not call itself partial is complete.
EveryPlatformAccounted == results = configured \ missing

\* A result is used only if it was there by the deadline, although the search
\* waits for the late ones too.
UsedWereInTime ==
  \A p \in results : call[p].pc = "answered" /\ call[p].since <= Deadline

\* What is used was found by one attempt that asked for every kind: no hit of an
\* attempt that failed later is among it, and none is listed twice for that.
OneWholeAttempt ==
  \A p \in results :
    /\ call[p].asked = Len(Kinds)
    /\ \A i \in DOMAIN call[p].hits : call[p].hits[i][2] = call[p].attempt

\* The three of them, from the moment that the search stops waiting.
ResultsAreSound ==
  phase # "waiting" => EveryPlatformAccounted /\ UsedWereInTime /\ OneWholeAttempt

\* Whatever errors, time-outs and retries do, the search answers, unless it
\* has given up a provider that trickles for ever: that one holds it for good.
SearchAnswers == <>(phase = "answered" \/ (phase = "joining" /\ Stuck))
=============================================================================
