------------------------- MODULE SearchCacheProofs -------------------------
(***************************************************************************)
(* Proofs about SearchCache, for any number of searches and any settings,   *)
(* and about the two modes of MCSearchCache: searches that overlap and     *)
(* searches one after the other.                                           *)
(***************************************************************************)
EXTENDS MCSearchCache, FiniteSetTheorems, TLAPS

(* What an assignment to a search does. *)

LEMMA PcEffect ==
  ASSUME search \in [Searches -> SearchType], NEW s \in Searches,
         NEW p \in {"idle"} \cup InFlightPcs \cup EndPcs,
         search' = [search EXCEPT ![s].pc = p]
  PROVE  /\ search' \in [Searches -> SearchType]
         /\ search'[s].pc = p /\ search'[s].now = search[s].now
         /\ search'[s].seen = search[s].seen /\ search'[s].found = search[s].found
         /\ \A u \in Searches : u # s => search'[u] = search[u]
BY DEF SearchType

\* The two ends of a search that has committed, and what a lost one becomes.
LEMMA LostEffect ==
  ASSUME NEW f \in SearchType
  PROVE  /\ Lost(f) \in SearchType
         /\ Lost(f).pc = IF f.pc = "counted" THEN "hit_lost"
                         ELSE IF f.pc = "written" THEN "write_lost" ELSE "failed"
         /\ Lost(f).now = f.now /\ Lost(f).seen = f.seen /\ Lost(f).found = f.found
<1>1. f.pc \in {"idle"} \cup InFlightPcs \cup EndPcs
  BY DEF SearchType
<1>2. (IF f.pc = "counted" THEN "hit_lost"
       ELSE IF f.pc = "written" THEN "write_lost" ELSE "failed") \in EndPcs
  BY DEF EndPcs
<1> QED BY <1>1, <1>2 DEF Lost, SearchType

LEMMA NowEffect ==
  ASSUME search \in [Searches -> SearchType], NEW s \in Searches,
         NEW n \in Nat,
         search' = [search EXCEPT ![s].pc = "lookup", ![s].now = n]
  PROVE  /\ search' \in [Searches -> SearchType]
         /\ search'[s].pc = "lookup" /\ search'[s].now = n
         /\ search'[s].seen = search[s].seen /\ search'[s].found = search[s].found
         /\ \A u \in Searches : u # s => search'[u] = search[u]
BY DEF SearchType, InFlightPcs

LEMMA FoundEffect ==
  ASSUME search \in [Searches -> SearchType], NEW s \in Searches,
         NEW r \in Response,
         search' = [search EXCEPT ![s].pc = "upsert", ![s].found = r]
  PROVE  /\ search' \in [Searches -> SearchType]
         /\ search'[s].pc = "upsert" /\ search'[s].now = search[s].now
         /\ search'[s].seen = search[s].seen /\ search'[s].found = r
         /\ \A u \in Searches : u # s => search'[u] = search[u]
BY DEF SearchType, InFlightPcs

-----------------------------------------------------------------------------
(* The inductive invariant. *)

\* The entry's times are in order, and no search is from the future.
TimesInOrder ==
  /\ row # NoEntry => row.refreshed <= row.stored /\ row.stored <= clock
  /\ \A s \in Searches : search[s].now <= clock

\* While a live search runs, either the entry still has the response that the
\* search has loaded, or somebody stored it after the search began.
Unsurprised(s) ==
  search[s].pc \in {"live", "upsert", "write"} /\ row # NoEntry =>
    \/ search[s].seen # NoEntry /\ search[s].seen.response = row.response
    \/ search[s].now <= row.stored

\* What a search has loaded.
Sound(s) ==
  /\ search[s].seen # NoEntry => row # NoEntry
  /\ search[s].seen # NoEntry => search[s].seen.refreshed <= search[s].seen.stored
  /\ search[s].pc \in {"hit"} \cup HitPcs => ~ Expired(search[s].seen, search[s].now)
  /\ Unsurprised(s)
  /\ search[s].pc = "conflict" => row # NoEntry /\ search[s].now <= row.stored

IInv == TypeOK /\ TimesInOrder /\ \A s \in Searches : Sound(s)

\* How the entry may change: it is created, or one of its stores is recent, or
\* its response and the time of its store stay as they are.
RowMoves ==
  \/ row' = row
  \/ row = NoEntry /\ row' # NoEntry /\ row'.stored = clock
  \/ row # NoEntry /\ row' # NoEntry /\ row'.stored = clock
  \/ row # NoEntry /\ row' # NoEntry
       /\ row'.stored = row.stored /\ row'.response = row.response

\* A search that does not move stays sound when the entry moves.
LEMMA SoundStays ==
  ASSUME IInv, RowMoves, NEW u \in Searches, search'[u] = search[u],
         row' \in Entry \cup {NoEntry}
  PROVE  Sound(u)'
<1>1. search[u].now <= clock
  BY DEF IInv, TimesInOrder
<1>2. Sound(u)
  BY DEF IInv
<1>3. search[u].now \in Nat /\ clock \in Nat
  BY DEF IInv, TypeOK, SearchType
<1>4. row # NoEntry => row.stored \in Nat /\ row.stored <= clock
  BY DEF IInv, TypeOK, Entry, TimesInOrder
<1>5. row # NoEntry /\ search[u].now <= row.stored => row' # NoEntry /\ search[u].now <= row'.stored
  BY <1>1, <1>3, <1>4 DEF RowMoves
<1>6. row # NoEntry => row' # NoEntry
  BY DEF RowMoves
<1>7. Unsurprised(u)'
  <2>1. Unsurprised(u)
    BY <1>2 DEF Sound
  <2>2. CASE row' = row
    BY <2>1, <2>2 DEF Unsurprised
  <2>3. CASE row' # NoEntry /\ row'.stored = clock
    BY <1>1, <2>3 DEF Unsurprised
  <2>4. CASE row # NoEntry /\ row' # NoEntry /\ row'.stored = row.stored
               /\ row'.response = row.response
    BY <2>1, <2>4 DEF Unsurprised
  <2> QED BY <2>2, <2>3, <2>4 DEF RowMoves
<1> QED
  BY <1>2, <1>5, <1>6, <1>7 DEF Sound, Expired

-----------------------------------------------------------------------------
(* What the actions that write the entry do to it. *)

LEMMA HitEffect ==
  ASSUME row \in Entry, NEW n \in Nat, row' = [row EXCEPT !.hits = n]
  PROVE  /\ row' \in Entry /\ row'.hits = n
         /\ row'.response = row.response /\ row'.isPartial = row.isPartial
         /\ row'.refreshed = row.refreshed /\ row'.stored = row.stored
BY DEF Entry

LEMMA InsertEffect ==
  ASSUME NEW r \in Response, NEW n \in Nat, clock \in Nat,
         row' = [response |-> r, isPartial |-> r.partial,
                 hits |-> 0, refreshed |-> n, stored |-> clock]
  PROVE  /\ row' \in Entry /\ row'.hits = 0
         /\ row'.response = r /\ row'.isPartial = r.partial
         /\ row'.refreshed = n /\ row'.stored = clock
BY DEF Entry, Response

LEMMA MergedEffect ==
  ASSUME NEW e \in Entry, NEW seen \in Entry, NEW r \in Response
  PROVE  /\ Merged(e, seen, r) \in Entry
         /\ Merged(e, seen, r).response = IF r = seen.response THEN e.response ELSE r
         /\ Merged(e, seen, r).isPartial = IF r.partial = seen.isPartial THEN e.isPartial ELSE r.partial
         /\ Merged(e, seen, r).hits = e.hits
         /\ Merged(e, seen, r).stored = e.stored
BY DEF Merged, Column, Entry, Response

LEMMA StampEffect ==
  ASSUME NEW e \in Entry, NEW n \in Nat, NEW c \in Nat, NEW k \in BOOLEAN,
         row' = [e EXCEPT !.refreshed = n, !.stored = IF k THEN c ELSE @]
  PROVE  /\ row' \in Entry /\ row'.refreshed = n
         /\ row'.response = e.response /\ row'.isPartial = e.isPartial
         /\ row'.hits = e.hits
         /\ row'.stored = IF k THEN c ELSE e.stored
BY DEF Entry

LEMMA UpdateEffect ==
  ASSUME TypeOK, NEW s \in Searches, Update(s), row # NoEntry
  PROVE  LET f == search[s] IN
         /\ row' \in Entry /\ row'.refreshed = f.now
         /\ row'.response = IF f.found = f.seen.response THEN row.response ELSE f.found
         /\ row'.isPartial = IF f.found.partial = f.seen.isPartial
                             THEN row.isPartial ELSE f.found.partial
         /\ row'.hits = row.hits
         /\ row'.stored = IF row'.response = f.found THEN clock ELSE row.stored
<1>1. row \in Entry /\ search[s].seen \in Entry /\ search[s].found \in Response
  BY DEF TypeOK, SearchType, Update, Equipped
<1>2. search[s].now \in Nat /\ clock \in Nat
  BY DEF TypeOK, SearchType
<1> DEFINE e == Merged(row, search[s].seen, search[s].found)
           k == e.response = search[s].found
<1>3. row' = [e EXCEPT !.refreshed = search[s].now, !.stored = IF k THEN clock ELSE @]
  BY DEF Update
<1>4. /\ e \in Entry
      /\ e.response = IF search[s].found = search[s].seen.response
                      THEN row.response ELSE search[s].found
      /\ e.isPartial = IF search[s].found.partial = search[s].seen.isPartial
                       THEN row.isPartial ELSE search[s].found.partial
      /\ e.hits = row.hits /\ e.stored = row.stored
  BY <1>1, MergedEffect
<1> HIDE DEF e
<1>5. k \in BOOLEAN
  OBVIOUS
<1>6. /\ row' \in Entry /\ row'.refreshed = search[s].now
      /\ row'.response = e.response /\ row'.isPartial = e.isPartial
      /\ row'.hits = e.hits
      /\ row'.stored = IF k THEN clock ELSE e.stored
  BY <1>2, <1>3, <1>4, <1>5, StampEffect
<1> QED BY <1>4, <1>6

-----------------------------------------------------------------------------
(* Each step of a search. *)

\* What the proof of a step establishes.
StepKeeps(s) ==
  /\ TypeOK' /\ RowMoves /\ TimesInOrder' /\ Sound(s)'
  /\ \A u \in Searches : u # s => search'[u] = search[u]

LEMMA Facts ==
  ASSUME IInv, NEW s \in Searches
  PROVE  /\ TypeOK /\ TimesInOrder /\ Sound(s) /\ Equipped(s)
         /\ search \in [Searches -> SearchType]
         /\ search[s].now \in Nat /\ search[s].now <= clock /\ clock \in Nat
         /\ search[s].seen \in Entry \cup {NoEntry}
         /\ search[s].found \in Response \cup {NoResponse}
         /\ row \in Entry \cup {NoEntry}
         /\ row # NoEntry => /\ row.stored \in Nat /\ row.stored <= clock
                             /\ row.refreshed \in Nat /\ row.refreshed <= row.stored
BY DEF IInv, TypeOK, TimesInOrder, SearchType, Entry

\* A step that leaves the entry and the clock alone.
LEMMA QuietStep ==
  ASSUME IInv, NEW s \in Searches, UNCHANGED <<clock, configured, row>>,
         search' \in [Searches -> SearchType],
         \A u \in Searches : u # s => search'[u] = search[u],
         Equipped(s)', search'[s].now <= clock, Sound(s)'
  PROVE  StepKeeps(s)
<1>1. TypeOK'
  BY Facts DEF IInv, TypeOK, Equipped
<1>2. TimesInOrder'
  BY DEF IInv, TimesInOrder
<1> QED BY <1>1, <1>2 DEF StepKeeps, RowMoves

\* A step that writes the entry.
LEMMA WriteStep ==
  ASSUME IInv, NEW s \in Searches, UNCHANGED <<clock, configured>>,
         search' \in [Searches -> SearchType],
         \A u \in Searches : u # s => search'[u] = search[u],
         Equipped(s)', search'[s].now = search[s].now, Sound(s)',
         row' \in Entry, RowMoves, row'.refreshed <= row'.stored, row'.stored <= clock
  PROVE  StepKeeps(s)
<1>1. TypeOK'
  BY Facts DEF IInv, TypeOK, Equipped
<1>2. TimesInOrder'
  BY DEF IInv, TimesInOrder
<1> QED BY <1>1, <1>2 DEF StepKeeps

LEMMA BeginKeeps == ASSUME IInv, NEW s \in Searches, Begin(s) PROVE StepKeeps(s)
<1>1. /\ search' \in [Searches -> SearchType]
      /\ search'[s].pc = "lookup" /\ search'[s].now = clock
      /\ search'[s].seen = search[s].seen
      /\ \A u \in Searches : u # s => search'[u] = search[u]
  BY Facts, NowEffect DEF Begin
<1>2. Sound(s)' /\ Equipped(s)'
  BY <1>1, Facts
     DEF HitPcs, StorePcs, Sound, Unsurprised, Equipped, Begin
<1> QED BY <1>1, <1>2, Facts, QuietStep DEF Begin

LEMMA LookupHitKeeps == ASSUME IInv, NEW s \in Searches, LookupHit(s) PROVE StepKeeps(s)
<1>1. row \in Entry \cup {NoEntry} /\ "hit" \in InFlightPcs
  BY Facts DEF InFlightPcs
<1>2. /\ search' \in [Searches -> SearchType]
      /\ search'[s].pc = "hit" /\ search'[s].now = search[s].now
      /\ search'[s].seen = row
      /\ \A u \in Searches : u # s => search'[u] = search[u]
  BY <1>1, Facts DEF LookupHit, SearchType
<1>3. Sound(s)' /\ Equipped(s)'
  BY <1>2, Facts
     DEF HitPcs, StorePcs, Sound, Unsurprised, Equipped, LookupHit, Usable, Expired
<1> QED BY <1>2, <1>3, Facts, QuietStep DEF LookupHit

LEMMA LookupMissKeeps == ASSUME IInv, NEW s \in Searches, LookupMiss(s) PROVE StepKeeps(s)
<1>1. row \in Entry \cup {NoEntry} /\ "live" \in InFlightPcs
  BY Facts DEF InFlightPcs
<1>2. /\ search' \in [Searches -> SearchType]
      /\ search'[s].pc = "live" /\ search'[s].now = search[s].now
      /\ search'[s].seen = row
      /\ \A u \in Searches : u # s => search'[u] = search[u]
  BY <1>1, Facts DEF LookupMiss, SearchType
<1>3. Sound(s)' /\ Equipped(s)'
  BY <1>2, Facts
     DEF HitPcs, StorePcs, Sound, Unsurprised, Equipped, LookupMiss
<1> QED BY <1>2, <1>3, Facts, QuietStep DEF LookupMiss

LEMMA UnavailableKeeps == ASSUME IInv, NEW s \in Searches, Unavailable(s) PROVE StepKeeps(s)
<1>1. row \in Entry \cup {NoEntry} /\ "unavailable" \in EndPcs
  BY Facts DEF EndPcs
<1>2. /\ search' \in [Searches -> SearchType]
      /\ search'[s].pc = "unavailable" /\ search'[s].now = search[s].now
      /\ search'[s].seen = row
      /\ \A u \in Searches : u # s => search'[u] = search[u]
  BY <1>1, Facts DEF Unavailable, SearchType
<1>3. Sound(s)' /\ Equipped(s)'
  BY <1>2, Facts
     DEF HitPcs, StorePcs, Sound, Unsurprised, Equipped, Unavailable
<1> QED BY <1>2, <1>3, Facts, QuietStep DEF Unavailable

LEMMA CommitHitKeeps == ASSUME IInv, NEW s \in Searches, CommitHit(s) PROVE StepKeeps(s)
<1>1. search[s].seen \in Entry /\ row \in Entry
  BY Facts DEF Sound, Equipped, CommitHit
<1>2. search[s].seen.hits + 1 \in Nat
  BY <1>1 DEF Entry
<1>3. /\ row' \in Entry /\ row'.response = row.response
      /\ row'.refreshed = row.refreshed /\ row'.stored = row.stored
  BY <1>1, <1>2, HitEffect DEF CommitHit
<1>4. /\ search' \in [Searches -> SearchType]
      /\ search'[s].pc = "counted" /\ search'[s].now = search[s].now
      /\ search'[s].seen = search[s].seen
      /\ \A u \in Searches : u # s => search'[u] = search[u]
  <2>1. "counted" \in InFlightPcs
    BY DEF InFlightPcs
  <2> QED BY <2>1, Facts, PcEffect DEF CommitHit
<1>5. row # NoEntry /\ row' # NoEntry
  BY <1>1, <1>3, SearchAssumption
<1>6. Sound(s)' /\ Equipped(s)'
  BY <1>4, <1>5, Facts
     DEF HitPcs, StorePcs, Sound, Unsurprised, Equipped, CommitHit, Expired
<1>7. RowMoves
  BY <1>3, <1>5 DEF RowMoves
<1> QED BY <1>3, <1>4, <1>5, <1>6, <1>7, Facts, WriteStep DEF CommitHit

LEMMA FetchKeeps == ASSUME IInv, NEW s \in Searches, Fetch(s) PROVE StepKeeps(s)
<1>1. PICK r \in Response : search' = [search EXCEPT ![s].pc = "upsert", ![s].found = r]
  BY DEF Fetch
<1>2. /\ search' \in [Searches -> SearchType]
      /\ search'[s].pc = "upsert" /\ search'[s].now = search[s].now
      /\ search'[s].seen = search[s].seen /\ search'[s].found = r
      /\ \A u \in Searches : u # s => search'[u] = search[u]
  BY <1>1, Facts, FoundEffect
<1>3. Sound(s)' /\ Equipped(s)'
  BY <1>2, Facts, SearchAssumption
     DEF HitPcs, StorePcs, Sound, Unsurprised, Equipped, Fetch
<1> QED BY <1>2, <1>3, Facts, QuietStep DEF Fetch

LEMMA ReloadKeeps == ASSUME IInv, NEW s \in Searches, Reload(s) PROVE StepKeeps(s)
<1>1. PICK e \in Entry \cup {NoEntry} :
        /\ e = IF search[s].seen = NoEntry THEN row ELSE search[s].seen
        /\ search' = [search EXCEPT ![s].pc = "write", ![s].seen = e]
  BY Facts DEF Reload, SearchType
<1>2. "write" \in InFlightPcs
  BY DEF InFlightPcs
<1>3. /\ search' \in [Searches -> SearchType]
      /\ search'[s].pc = "write" /\ search'[s].now = search[s].now
      /\ search'[s].seen = e /\ search'[s].found = search[s].found
      /\ \A u \in Searches : u # s => search'[u] = search[u]
  BY <1>1, <1>2, Facts DEF SearchType
<1>4. Sound(s)' /\ Equipped(s)'
  BY <1>1, <1>3, Facts
     DEF HitPcs, StorePcs, Sound, Unsurprised, Equipped, Reload
<1> QED BY <1>3, <1>4, Facts, QuietStep DEF Reload

LEMMA InsertKeeps == ASSUME IInv, NEW s \in Searches, Insert(s) PROVE StepKeeps(s)
<1>1. search[s].found \in Response
  BY Facts DEF Equipped, Insert
<1>2. row' \in Entry /\ row'.refreshed = search[s].now /\ row'.stored = clock
  BY <1>1, Facts, InsertEffect DEF Insert
<1>3. /\ search' \in [Searches -> SearchType]
      /\ search'[s].pc = "written" /\ search'[s].now = search[s].now
      /\ search'[s].seen = search[s].seen /\ search'[s].found = search[s].found
      /\ \A u \in Searches : u # s => search'[u] = search[u]
  <2>1. "written" \in InFlightPcs
    BY DEF InFlightPcs
  <2> QED BY <2>1, Facts, PcEffect DEF Insert
<1>4. row' # NoEntry
  BY <1>2, SearchAssumption
<1>5. Sound(s)' /\ Equipped(s)'
  BY <1>3, <1>4, Facts
     DEF HitPcs, StorePcs, Sound, Unsurprised, Equipped, Insert
<1>6. RowMoves
  BY <1>2, <1>4 DEF RowMoves, Insert
<1> QED BY <1>2, <1>3, <1>4, <1>5, <1>6, Facts, WriteStep DEF Insert

\* The key was absent when the search asked for it, so it was stored since.
LEMMA InsertConflictKeeps ==
  ASSUME IInv, NEW s \in Searches, InsertConflict(s) PROVE StepKeeps(s)
<1>1. /\ search' \in [Searches -> SearchType]
      /\ search'[s].pc = "conflict" /\ search'[s].now = search[s].now
      /\ search'[s].seen = search[s].seen
      /\ \A u \in Searches : u # s => search'[u] = search[u]
  <2>1. "conflict" \in EndPcs
    BY DEF EndPcs
  <2> QED BY <2>1, Facts, PcEffect DEF InsertConflict
<1>2. Sound(s)' /\ Equipped(s)'
  BY <1>1, Facts
     DEF HitPcs, StorePcs, Sound, Unsurprised, Equipped, InsertConflict
<1> QED BY <1>1, <1>2, Facts, QuietStep DEF InsertConflict

\* When the response is neither written nor what it was at the load, it was
\* stored after the search began: the entry does not look younger than it is.
LEMMA UpdateKeeps == ASSUME IInv, NEW s \in Searches, Update(s) PROVE StepKeeps(s)
<1>1. search[s].seen \in Entry /\ row \in Entry /\ row # NoEntry
  BY Facts DEF Sound, Update
<1>2. /\ row' \in Entry /\ row'.refreshed = search[s].now
      /\ row'.response = IF search[s].found = search[s].seen.response
                         THEN row.response ELSE search[s].found
      /\ row'.stored = IF row'.response = search[s].found THEN clock ELSE row.stored
  BY <1>1, Facts, UpdateEffect
<1>3. /\ search' \in [Searches -> SearchType]
      /\ search'[s].pc = "written" /\ search'[s].now = search[s].now
      /\ search'[s].seen = search[s].seen /\ search'[s].found = search[s].found
      /\ \A u \in Searches : u # s => search'[u] = search[u]
  <2>1. "written" \in InFlightPcs
    BY DEF InFlightPcs
  <2> QED BY <2>1, Facts, PcEffect DEF Update
<1>4. row' # NoEntry
  BY <1>2, SearchAssumption
<1>5. search[s].now <= row'.stored
  <2>1. CASE row'.response = search[s].found
    BY <2>1, <1>2, Facts
  <2>2. CASE row'.response # search[s].found
    <3>1. row'.response = row.response /\ search[s].seen.response # row.response
      BY <2>2, <1>2
    <3>2. search[s].now <= row.stored
      BY <3>1, <1>1, Facts DEF Sound, Unsurprised, Update
    <3> QED BY <2>2, <3>2, <1>2
  <2> QED BY <2>1, <2>2
<1>6. Sound(s)' /\ Equipped(s)'
  BY <1>3, <1>4, Facts
     DEF HitPcs, StorePcs, Sound, Unsurprised, Equipped, Update
<1>7. RowMoves
  <2>1. row'.response = row.response \/ row'.response = search[s].found
    BY <1>2
  <2> QED BY <2>1, <1>1, <1>2, <1>4 DEF RowMoves
<1>8. row'.refreshed <= row'.stored /\ row'.stored <= clock
  BY <1>1, <1>2, <1>5, Facts
<1> QED BY <1>2, <1>3, <1>6, <1>7, <1>8, Facts, WriteStep DEF Update

\* An answer, and a failure: whether the search had committed stays known.
LEMMA AnswerKeeps == ASSUME IInv, NEW s \in Searches, Answer(s) PROVE StepKeeps(s)
<1>1. PICK p \in EndPcs : /\ p = IF search[s].pc = "counted" THEN "served" ELSE "stored"
                          /\ search' = [search EXCEPT ![s].pc = p]
  BY Facts DEF Answer, EndPcs, SearchType
<1>2. /\ search' \in [Searches -> SearchType]
      /\ search'[s].pc = p /\ search'[s].now = search[s].now
      /\ search'[s].seen = search[s].seen /\ search'[s].found = search[s].found
      /\ \A u \in Searches : u # s => search'[u] = search[u]
  <2>1. p \in {"idle"} \cup InFlightPcs \cup EndPcs
    OBVIOUS
  <2> QED BY <1>1, <2>1, Facts, PcEffect
<1>3. Sound(s)' /\ Equipped(s)'
  BY <1>1, <1>2, Facts
     DEF Sound, Unsurprised, Equipped, Answer, HitPcs, StorePcs, Expired
<1> QED BY <1>2, <1>3, Facts, QuietStep DEF Answer

LEMMA FailKeeps == ASSUME IInv, NEW s \in Searches, Fail(s) PROVE StepKeeps(s)
<1>1. /\ search' \in [Searches -> SearchType] /\ search'[s] = Lost(search[s])
      /\ \A u \in Searches : u # s => search'[u] = search[u]
  BY Facts, LostEffect DEF Fail
<1>2. Sound(s)' /\ Equipped(s)'
  BY <1>1, Facts, LostEffect
     DEF Sound, Unsurprised, Equipped, Fail, HitPcs, StorePcs, Expired
<1> QED BY <1>1, <1>2, Facts, LostEffect, QuietStep DEF Fail

-----------------------------------------------------------------------------
(* The invariant is inductive. *)

LEMMA InitIInv == Init => IInv
<1> SUFFICES ASSUME Init PROVE IInv
  OBVIOUS
<1>1. TypeOK
  BY SearchAssumption DEF Init, TypeOK, SearchType, Equipped, HitPcs, StorePcs
<1>2. TimesInOrder /\ \A s \in Searches : Sound(s)
  BY DEF Init, TimesInOrder, Sound, Unsurprised, HitPcs
<1> QED BY <1>1, <1>2 DEF IInv

LEMMA SearchStepIInv ==
  ASSUME IInv, NEW s \in Searches, StepKeeps(s) PROVE IInv'
<1>1. row' \in Entry \cup {NoEntry}
  BY DEF StepKeeps, TypeOK
<1>2. ASSUME NEW u \in Searches PROVE Sound(u)'
  BY <1>1, SoundStays DEF StepKeeps
<1> QED BY <1>2 DEF StepKeeps, IInv

LEMMA TickIInv == IInv /\ Tick => IInv'
<1> SUFFICES ASSUME IInv, Tick PROVE IInv'
  OBVIOUS
<1>1. TypeOK'
  BY SearchAssumption DEF IInv, TypeOK, Equipped, Tick
<1>2. TimesInOrder'
  <2>1. clock \in Nat /\ clock' = clock + 1 /\ UNCHANGED <<row, search>>
    BY DEF IInv, TypeOK, Tick
  <2>2. \A s \in Searches : search[s].now \in Nat
    BY DEF IInv, TypeOK, SearchType
  <2>3. row # NoEntry => row.stored \in Nat /\ row.refreshed \in Nat
    BY DEF IInv, TypeOK, Entry
  <2> QED BY <2>1, <2>2, <2>3 DEF IInv, TimesInOrder
<1>3. \A s \in Searches : Sound(s)'
  BY DEF IInv, Sound, Unsurprised, Expired, Tick
<1> QED BY <1>1, <1>2, <1>3 DEF IInv

LEMMA RestartIInv == IInv /\ Restart => IInv'
<1> SUFFICES ASSUME IInv, Restart PROVE IInv'
  OBVIOUS
<1>1. ASSUME NEW s \in Searches
      PROVE  /\ search'[s] \in SearchType
             /\ search'[s] = Lost(search[s]) \/ search'[s] = search[s]
             /\ search'[s].now = search[s].now
  <2>1. search[s] \in SearchType
    BY DEF IInv, TypeOK
  <2> QED BY <2>1, LostEffect DEF Restart
<1>2. search' \in [Searches -> SearchType]
  <2>1. search' = [s \in Searches |-> search'[s]]
    BY DEF Restart
  <2> QED BY <2>1, <1>1
<1>3. ASSUME NEW s \in Searches PROVE Equipped(s)' /\ Sound(s)'
  <2>1. Equipped(s) /\ Sound(s) /\ UNCHANGED <<row, clock>>
    BY DEF IInv, TypeOK, Restart
  <2>2. CASE search'[s] = search[s]
    BY <2>1, <2>2 DEF Equipped, Sound, Unsurprised, Expired
  <2>3. CASE search'[s] = Lost(search[s])
    <3>1. search[s] \in SearchType
      BY DEF IInv, TypeOK
    <3> QED BY <2>1, <2>3, <3>1, LostEffect
            DEF Equipped, Sound, Unsurprised, Expired, HitPcs, StorePcs
  <2> QED BY <1>1, <2>2, <2>3
<1>4. TypeOK'
  BY <1>2, <1>3 DEF IInv, TypeOK, Restart
<1>5. TimesInOrder'
  BY <1>1 DEF IInv, TimesInOrder, Restart
<1> QED BY <1>3, <1>4, <1>5 DEF IInv

LEMMA NextIInv == IInv /\ [Next]_vars => IInv'
<1> SUFFICES ASSUME IInv, [Next]_vars PROVE IInv'
  OBVIOUS
<1>1. ASSUME NEW s \in Searches,
             \/ Begin(s) \/ LookupHit(s) \/ LookupMiss(s) \/ Unavailable(s) \/ CommitHit(s)
             \/ Fetch(s) \/ Reload(s) \/ Insert(s) \/ InsertConflict(s) \/ Update(s)
             \/ Answer(s) \/ Fail(s)
      PROVE  IInv'
  <2>1. StepKeeps(s)
    BY <1>1, BeginKeeps, LookupHitKeeps, LookupMissKeeps, UnavailableKeeps,
       CommitHitKeeps, FetchKeeps, ReloadKeeps, InsertKeeps, InsertConflictKeeps,
       UpdateKeeps, AnswerKeeps, FailKeeps
  <2> QED BY <2>1, SearchStepIInv
<1>2. CASE UNCHANGED vars
  <2>1. UNCHANGED <<clock, configured, row, search>>
    BY <1>2 DEF vars
  <2> QED BY <2>1 DEF IInv, TypeOK, Equipped, TimesInOrder, Sound, Unsurprised, Expired
<1> QED BY <1>1, <1>2, TickIInv, RestartIInv DEF Next

LEMMA Invariance == Spec => []IInv
BY InitIInv, NextIInv, PTL DEF Spec

\* Every reachable state is well typed and no step lacks what it works on: what
\* keeps hit_count + 1 and the merge of an UPDATE from meeting a missing row.
THEOREM TypeCorrect == Spec => []TypeOK
<1>1. IInv => TypeOK
  BY DEF IInv
<1> QED BY <1>1, Invariance, PTL

\* Whatever overlaps, what the cache serves was obtained and stored less than
\* Ttl (less than StaleAfter, if called fresh) before the search began.
THEOREM HitsAreRecent == Spec => []HitIsRecent
<1>1. IInv => HitIsRecent
  <2> SUFFICES ASSUME IInv, NEW s \in Searches, search[s].pc = "served"
               PROVE  LET e == search[s].seen  now == search[s].now IN
                      /\ e.stored + Ttl > now
                      /\ ~ Stale(e, now) => e.stored + StaleAfter > now
    BY DEF HitIsRecent
  <2>1. /\ search[s].seen # NoEntry /\ search[s].seen \in Entry
        /\ search[s].now \in Nat
    BY Facts DEF Equipped, HitPcs
  <2>2. /\ search[s].seen.refreshed <= search[s].seen.stored
        /\ ~ Expired(search[s].seen, search[s].now)
    BY <2>1, Facts DEF Sound, HitPcs
  <2>3. search[s].seen.refreshed \in Nat /\ search[s].seen.stored \in Nat
    BY <2>1 DEF Entry
  <2> QED BY <2>1, <2>2, <2>3, SearchAssumption DEF Expired, Stale
<1> QED BY <1>1, Invariance, PTL

\* A search that loses the race to insert its key leaves the key cached, by
\* somebody who stored it after the loser began.
THEOREM ConflictsAreCached == Spec => []ConflictMeansCached
<1>1. IInv => ConflictMeansCached
  BY Facts DEF IInv, Sound, ConflictMeansCached
<1> QED BY <1>1, Invariance, PTL

-----------------------------------------------------------------------------
(* What a step of a search does, as the remaining proofs need it. *)

\* A search that has looked its key up and not yet written.
Loaded(s) == search[s].pc \in {"hit", "live", "upsert", "write"}

\* It leaves the entry alone, and has committed nothing yet.
Looks(s) ==
  /\ row' = row
  /\ search[s].pc \notin HitPcs \cup StorePcs
  /\ search'[s].pc \notin HitPcs \cup StorePcs
  /\ search'[s].seen \in {search[s].seen, row}
  /\ Loaded(s)' => \/ search'[s].seen = row
                   \/ Loaded(s) /\ search'[s].seen = search[s].seen
  /\ InFlight(s)' => \/ search'[s].now = clock
                     \/ InFlight(s) /\ search'[s].now = search[s].now
  /\ search'[s].pc = "unavailable" => ~ Usable(s)

\* It ends after its COMMIT, with an answer or without.
Closes(s) ==
  /\ row' = row
  /\ \/ search[s].pc = "counted" /\ search'[s].pc \in {"served", "hit_lost"}
     \/ search[s].pc = "written" /\ search'[s].pc \in {"stored", "write_lost"}
  /\ search'[s].now = search[s].now
  /\ search'[s].seen = search[s].seen /\ search'[s].found = search[s].found

\* It commits, and what it knows stays as it was.
Ends(s, from, to) ==
  /\ search[s].pc = from /\ search'[s].pc = to
  /\ search'[s].now = search[s].now
  /\ search'[s].seen = search[s].seen /\ search'[s].found = search[s].found

\* It counts a hit of the entry: only the count changes.
Serves(s) ==
  /\ Ends(s, "hit", "counted")
  /\ row # NoEntry /\ row' # NoEntry /\ search[s].seen # NoEntry
  /\ row'.hits = search[s].seen.hits + 1
  /\ row'.response = row.response /\ row'.isPartial = row.isPartial
  /\ row'.refreshed = row.refreshed

\* It creates the entry.
Creates(s) ==
  /\ Ends(s, "write", "written")
  /\ row = NoEntry /\ row' # NoEntry /\ row'.hits = 0
  /\ row'.response = search[s].found /\ row'.isPartial = search[s].found.partial
  /\ row'.refreshed = search[s].now

\* It refreshes the entry: a column it has loaded with the value it assigns
\* stays what it is in the database.
Refreshes(s) ==
  LET f == search[s] IN
  /\ Ends(s, "write", "written")
  /\ row # NoEntry /\ row' # NoEntry /\ f.seen # NoEntry /\ row'.hits = row.hits
  /\ row'.response = IF f.found = f.seen.response THEN row.response ELSE f.found
  /\ row'.isPartial = IF f.found.partial = f.seen.isPartial
                      THEN row.isPartial ELSE f.found.partial
  /\ row'.refreshed = f.now

SearchStep(s) ==
  /\ clock' = clock
  /\ \A u \in Searches : u # s => search'[u] = search[u]
  /\ Looks(s) \/ Serves(s) \/ Creates(s) \/ Refreshes(s) \/ Closes(s)

\* A search in flight is lost: what it has committed stays known.
LosesIts(s) ==
  /\ search'[s].pc \in {"failed", "hit_lost", "write_lost"}
  /\ search'[s].pc = "hit_lost" <=> search[s].pc = "counted"
  /\ search'[s].pc = "write_lost" <=> search[s].pc = "written"
  /\ search'[s].now = search[s].now
  /\ search'[s].seen = search[s].seen /\ search'[s].found = search[s].found

\* No search moves that has ended, and a restart ends those in flight.
OtherStep ==
  /\ row' = row
  /\ \A s \in Searches :
       \/ search'[s] = search[s]
       \/ InFlight(s) /\ LosesIts(s)

LEMMA LookingSteps ==
  ASSUME IInv, NEW s \in Searches,
         \/ Begin(s) \/ LookupHit(s) \/ LookupMiss(s) \/ Unavailable(s)
         \/ Fetch(s) \/ Reload(s) \/ InsertConflict(s)
         \/ Fail(s) /\ search[s].pc \notin {"counted", "written"}
  PROVE  Looks(s)
<1> USE DEF Looks, Loaded, InFlight, InFlightPcs, HitPcs, StorePcs
<1>1. search \in [Searches -> SearchType] /\ search[s] \in SearchType
  BY DEF IInv, TypeOK
<1>2. CASE Begin(s)
  BY <1>1, <1>2 DEF Begin, SearchType
<1>3. CASE LookupHit(s)
  BY <1>1, <1>3 DEF LookupHit, SearchType
<1>4. CASE LookupMiss(s)
  BY <1>1, <1>4 DEF LookupMiss, SearchType
<1>5. CASE Unavailable(s)
  BY <1>1, <1>5 DEF Unavailable, SearchType
<1>6. CASE Fetch(s)
  <2>1. PICK r \in Response : search' = [search EXCEPT ![s].pc = "upsert", ![s].found = r]
    BY <1>6 DEF Fetch
  <2>2. /\ search'[s].pc = "upsert" /\ search'[s].now = search[s].now
        /\ search'[s].seen = search[s].seen
    BY <1>1, <2>1, FoundEffect
  <2> QED BY <1>6, <2>2 DEF Fetch
<1>7. CASE Reload(s)
  BY <1>1, <1>7 DEF Reload, SearchType
<1>8. CASE InsertConflict(s)
  BY <1>1, <1>8 DEF InsertConflict, SearchType
<1>9. CASE Fail(s) /\ search[s].pc \notin {"counted", "written"}
  <2>1. search'[s] = Lost(search[s])
    BY <1>1, <1>9 DEF Fail
  <2> QED BY <1>1, <1>9, <2>1, LostEffect DEF Fail
<1> QED BY <1>2, <1>3, <1>4, <1>5, <1>6, <1>7, <1>8, <1>9

LEMMA ClosingSteps ==
  ASSUME IInv, NEW s \in Searches,
         \/ Answer(s)
         \/ Fail(s) /\ search[s].pc \in {"counted", "written"}
  PROVE  Closes(s)
<1>1. search \in [Searches -> SearchType] /\ search[s] \in SearchType
  BY DEF IInv, TypeOK
<1>2. CASE Answer(s)
  BY <1>1, <1>2 DEF Answer, Closes, SearchType
<1>3. CASE Fail(s) /\ search[s].pc \in {"counted", "written"}
  <2>1. search'[s] = Lost(search[s])
    BY <1>1, <1>3 DEF Fail
  <2> QED BY <1>1, <1>3, <2>1, LostEffect DEF Fail, Closes
<1> QED BY <1>2, <1>3

LEMMA CommitHitServes ==
  ASSUME IInv, NEW s \in Searches, CommitHit(s) PROVE Serves(s)
<1>1. search[s].seen \in Entry /\ row \in Entry
  BY Facts DEF Sound, Equipped, CommitHit
<1>2. search[s].seen.hits + 1 \in Nat
  BY <1>1 DEF Entry
<1>3. /\ row' \in Entry /\ row'.hits = search[s].seen.hits + 1
      /\ row'.response = row.response /\ row'.isPartial = row.isPartial
      /\ row'.refreshed = row.refreshed
  BY <1>1, <1>2, HitEffect DEF CommitHit
<1>4. Ends(s, "hit", "counted")
  BY Facts, PcEffect DEF CommitHit, Ends, InFlightPcs
<1> QED BY <1>1, <1>3, <1>4, SearchAssumption DEF Serves

LEMMA InsertCreates ==
  ASSUME IInv, NEW s \in Searches, Insert(s) PROVE Creates(s)
<1>1. search[s].found \in Response
  BY Facts DEF Equipped, Insert
<1>2. /\ row' \in Entry /\ row'.hits = 0 /\ row'.refreshed = search[s].now
      /\ row'.response = search[s].found /\ row'.isPartial = search[s].found.partial
  BY <1>1, Facts, InsertEffect DEF Insert
<1>3. Ends(s, "write", "written")
  BY Facts, PcEffect DEF Insert, Ends, InFlightPcs
<1> QED BY <1>2, <1>3, SearchAssumption DEF Creates, Insert

LEMMA UpdateRefreshes ==
  ASSUME IInv, NEW s \in Searches, Update(s) PROVE Refreshes(s)
<1>1. row # NoEntry /\ search[s].seen # NoEntry
  BY Facts DEF Sound, Update
<1>2. Ends(s, "write", "written")
  BY Facts, PcEffect DEF Update, Ends, InFlightPcs
<1> QED BY <1>1, <1>2, Facts, UpdateEffect, SearchAssumption DEF Refreshes

LEMMA EveryStep ==
  ASSUME IInv, Next PROVE (\E s \in Searches : SearchStep(s)) \/ OtherStep
<1>1. ASSUME NEW s \in Searches,
             \/ Begin(s) \/ LookupHit(s) \/ LookupMiss(s) \/ Unavailable(s) \/ CommitHit(s)
             \/ Fetch(s) \/ Reload(s) \/ Insert(s) \/ InsertConflict(s) \/ Update(s)
             \/ Answer(s) \/ Fail(s)
      PROVE  SearchStep(s)
  <2>1. StepKeeps(s)
    BY <1>1, BeginKeeps, LookupHitKeeps, LookupMissKeeps, UnavailableKeeps,
       CommitHitKeeps, FetchKeeps, ReloadKeeps, InsertKeeps, InsertConflictKeeps,
       UpdateKeeps, AnswerKeeps, FailKeeps
  <2>2. clock' = clock
    BY <1>1 DEF Begin, LookupHit, LookupMiss, Unavailable, CommitHit, Fetch, Reload,
                Insert, InsertConflict, Update, Answer, Fail
  <2>3. Looks(s) \/ Serves(s) \/ Creates(s) \/ Refreshes(s) \/ Closes(s)
    BY <1>1, LookingSteps, ClosingSteps, CommitHitServes, InsertCreates, UpdateRefreshes
  <2> QED BY <2>1, <2>2, <2>3 DEF StepKeeps, SearchStep
<1>2. CASE Tick
  BY <1>2 DEF Tick, OtherStep
<1>3. CASE Restart
  <2>1. ASSUME NEW s \in Searches
        PROVE  search'[s] = search[s] \/ (InFlight(s) /\ LosesIts(s))
    <3>1. search[s] \in SearchType
      BY DEF IInv, TypeOK
    <3> QED BY <1>3, <3>1, LostEffect DEF Restart, LosesIts
  <2> QED BY <1>3, <2>1 DEF Restart, OtherStep
<1> QED BY <1>1, <1>2, <1>3 DEF Next

LEMMA InitEmpty ==
  Init => row = NoEntry /\ \A s \in Searches : search[s].pc = "idle" /\ search[s].seen = NoEntry
BY DEF Init

-----------------------------------------------------------------------------
(* Where the columns of the entry come from. *)

\* A search that has committed a response keeps what it committed.
LEMMA StoresStay ==
  ASSUME IInv, Next, NEW a \in Searches, search[a].pc \in StorePcs
  PROVE  /\ search'[a].pc \in StorePcs /\ search'[a].now = search[a].now
         /\ search'[a].seen = search[a].seen /\ search'[a].found = search[a].found
<1>1. ASSUME NEW s \in Searches, SearchStep(s), a = s
      PROVE  Closes(s)
  BY <1>1 DEF SearchStep, Looks, Serves, Creates, Refreshes, Ends, StorePcs
<1>2. CASE OtherStep
  BY <1>2 DEF OtherStep, LosesIts, InFlight, InFlightPcs, StorePcs
<1>3. ASSUME NEW s \in Searches, SearchStep(s)
      PROVE  search'[a] = search[a] \/ Closes(a)
  BY <1>1, <1>3 DEF SearchStep
<1> QED BY <1>2, <1>3, EveryStep DEF Closes, StorePcs

\* The search a accounts for the times of the entry.
Times(a) ==
  /\ search[a].pc \in StorePcs /\ search[a].now = row.refreshed
  /\ \/ search[a].found = row.response
     \/ search[a].seen # NoEntry /\ search[a].found = search[a].seen.response

LEMMA CommittedStep ==
  ASSUME IInv, EntryIsCommitted, Next PROVE EntryIsCommitted'
<1> SUFFICES ASSUME row' # NoEntry
             PROVE  /\ \E a \in Searches : search'[a].pc \in StorePcs /\ search'[a].found = row'.response
                    /\ \E a \in Searches : search'[a].pc \in StorePcs /\ search'[a].found.partial = row'.isPartial
                    /\ \E a \in Searches : Times(a)'
  BY DEF EntryIsCommitted, Times
<1>1. row # NoEntry =>
        /\ \E a \in Searches : search[a].pc \in StorePcs /\ search[a].found = row.response
        /\ \E a \in Searches : search[a].pc \in StorePcs /\ search[a].found.partial = row.isPartial
        /\ \E a \in Searches : Times(a)
  BY DEF EntryIsCommitted, Times
<1>2. CASE /\ row # NoEntry /\ row'.response = row.response
           /\ row'.isPartial = row.isPartial /\ row'.refreshed = row.refreshed
  <2>1. ASSUME NEW a \in Searches, Times(a) PROVE Times(a)'
    BY <1>2, <2>1, StoresStay DEF Times
  <2> QED BY <1>1, <1>2, <2>1, StoresStay
<1>3. ASSUME NEW s \in Searches, Creates(s)
      PROVE  /\ search'[s].pc \in StorePcs /\ search'[s].found = row'.response
             /\ search'[s].found.partial = row'.isPartial /\ Times(s)'
  BY <1>3 DEF Creates, Ends, StorePcs, Times
<1>4. ASSUME NEW s \in Searches, Refreshes(s)
      PROVE  /\ row # NoEntry /\ search'[s].pc \in StorePcs /\ Times(s)'
             /\ row'.response \in {row.response, search'[s].found}
             /\ row'.isPartial \in {row.isPartial, search'[s].found.partial}
  BY <1>4 DEF Refreshes, Ends, StorePcs, Times
<1>5. ASSUME NEW s \in Searches, SearchStep(s), Looks(s) \/ Serves(s) \/ Closes(s)
      PROVE  /\ row # NoEntry /\ row'.response = row.response
             /\ row'.isPartial = row.isPartial /\ row'.refreshed = row.refreshed
  BY <1>5 DEF Looks, Serves, Closes
<1>6. CASE OtherStep
  BY <1>2, <1>6 DEF OtherStep
<1>7. ASSUME NEW s \in Searches, Refreshes(s)
      PROVE  /\ \E a \in Searches : search'[a].pc \in StorePcs /\ search'[a].found = row'.response
             /\ \E a \in Searches : search'[a].pc \in StorePcs /\ search'[a].found.partial = row'.isPartial
  BY <1>1, <1>4, <1>7, StoresStay
<1> QED BY <1>2, <1>3, <1>4, <1>5, <1>6, <1>7, EveryStep DEF SearchStep

\* Every column of what the cache holds was committed by a live search, and its
\* times by one that obtained the response or believed it stored: a search
\* that fails or is lost before its COMMIT leaves no trace.
THEOREM EntriesAreCommitted == Spec => []EntryIsCommitted
<1>1. Init => EntryIsCommitted
  BY InitEmpty DEF EntryIsCommitted
<1>2. IInv /\ EntryIsCommitted /\ [Next]_vars => EntryIsCommitted'
  <2> SUFFICES ASSUME IInv, EntryIsCommitted, UNCHANGED vars PROVE EntryIsCommitted'
    BY CommittedStep
  <2> QED BY DEF vars, EntryIsCommitted
<1> QED BY <1>1, <1>2, Invariance, PTL DEF Spec

-----------------------------------------------------------------------------
(* Counting the hits. *)

\* Neither the entry nor what a search has loaded counts more than was committed.
CountsBounded ==
  /\ row # NoEntry => row.hits <= Cardinality(Hits)
  /\ \A s \in Searches :
       search[s].seen # NoEntry => search[s].seen.hits <= Cardinality(Hits)

LEMMA HitsAreFinite == Cardinality(Hits) \in Nat /\ IsFiniteSet(Hits)
<1>1. Hits \subseteq Searches
  BY DEF Hits
<1> QED BY <1>1, SearchAssumption, FS_Subset, FS_CardinalityType

LEMMA HitsStep ==
  ASSUME NEW s \in Searches, SearchStep(s)
  PROVE  /\ Serves(s) => Cardinality(Hits') = Cardinality(Hits) + 1
         /\ ~ Serves(s) => Hits' = Hits
<1>1. CASE Serves(s)
  <2>1. Hits' = Hits \cup {s} /\ s \notin Hits
    BY <1>1 DEF SearchStep, Serves, Ends, Hits, HitPcs
  <2> QED BY <1>1, <2>1, HitsAreFinite, FS_AddElement
<1>2. CASE ~ Serves(s)
  <2>1. search[s].pc \in HitPcs <=> search'[s].pc \in HitPcs
    BY <1>2 DEF SearchStep, Looks, Creates, Refreshes, Closes, Ends, HitPcs
  <2> QED BY <1>2, <2>1 DEF SearchStep, Hits
<1> QED BY <1>1, <1>2

LEMMA OtherHits == ASSUME OtherStep PROVE Hits' = Hits
<1>1. ASSUME NEW s \in Searches
      PROVE  search[s].pc \in HitPcs <=> search'[s].pc \in HitPcs
  BY DEF OtherStep, LosesIts, InFlight, InFlightPcs, HitPcs
<1> QED BY <1>1 DEF Hits

LEMMA HitsAreNats ==
  ASSUME IInv
  PROVE  /\ row # NoEntry => row.hits \in Nat
         /\ \A s \in Searches : search[s].seen # NoEntry => search[s].seen.hits \in Nat
BY DEF IInv, TypeOK, SearchType, Entry

LEMMA BoundedStep ==
  ASSUME IInv, CountsBounded, Next PROVE CountsBounded'
<1>1. ASSUME NEW s \in Searches, SearchStep(s) PROVE CountsBounded'
  <2>1. Cardinality(Hits) \in Nat /\ Cardinality(Hits') \in Nat
        /\ Cardinality(Hits) <= Cardinality(Hits')
    BY <1>1, HitsStep, HitsAreFinite
  <2>2. \A u \in Searches : u # s => search'[u] = search[u]
    BY <1>1 DEF SearchStep
  <2>3. CASE Looks(s)
    <3>1. row' = row /\ search'[s].seen \in {search[s].seen, row}
      BY <2>3 DEF Looks
    <3> QED BY <2>1, <2>2, <3>1, HitsAreNats DEF CountsBounded
  <2>4. CASE Serves(s)
    <3>1. /\ Cardinality(Hits') = Cardinality(Hits) + 1
          /\ search[s].seen # NoEntry /\ row'.hits = search[s].seen.hits + 1
          /\ search'[s].seen = search[s].seen
      BY <1>1, <2>4, HitsStep DEF Serves, Ends
    <3>2. search[s].seen.hits \in Nat /\ search[s].seen.hits <= Cardinality(Hits)
      BY <3>1, HitsAreNats DEF CountsBounded
    <3>3. row'.hits <= Cardinality(Hits')
      BY <2>1, <3>1, <3>2
    <3> QED BY <2>1, <2>2, <3>1, <3>3, HitsAreNats DEF CountsBounded
  <2>5. CASE Creates(s) \/ Refreshes(s)
    <3>1. /\ row'.hits = 0 \/ (row # NoEntry /\ row'.hits = row.hits)
          /\ search'[s].seen = search[s].seen
      <4>1. CASE Creates(s)
        BY <4>1 DEF Creates, Ends
      <4>2. CASE Refreshes(s)
        BY <4>2 DEF Refreshes, Ends
      <4> QED BY <2>5, <4>1, <4>2
    <3> QED BY <2>1, <2>2, <3>1, HitsAreNats DEF CountsBounded
  <2>6. CASE Closes(s)
    BY <2>1, <2>2, <2>6, HitsAreNats DEF Closes, CountsBounded
  <2> QED BY <1>1, <2>3, <2>4, <2>5, <2>6 DEF SearchStep
<1>2. CASE OtherStep
  BY <1>2, OtherHits DEF OtherStep, LosesIts, CountsBounded
<1> QED BY <1>1, <1>2, EveryStep

-----------------------------------------------------------------------------
(* Searches one after the other. *)

\* What a search in flight has loaded is the entry, and no search that has
\* committed was given a later time than the entry has: while it builds its
\* answer, the entry is what it committed.
Serial(s) ==
  /\ Loaded(s) => search[s].seen = row
  /\ InFlight(s) /\ row # NoEntry => row.refreshed <= search[s].now
  /\ search[s].seen # NoEntry => search[s].seen.refreshed <= row.refreshed
  /\ search[s].pc \in StorePcs => row # NoEntry /\ search[s].now <= row.refreshed
  /\ search[s].pc = "written" =>
       row.response = search[s].found /\ row.refreshed = search[s].now

SerialInv ==
  /\ OneAtATime /\ FlagAgrees /\ HitsCounted
  /\ \A s \in Searches : Serial(s)

LEMMA TimesAreNats ==
  ASSUME IInv
  PROVE  /\ clock \in Nat
         /\ row # NoEntry => row.refreshed \in Nat /\ row.refreshed <= clock
         /\ \A s \in Searches :
              /\ search[s].now \in Nat
              /\ search[s].seen # NoEntry => row # NoEntry /\ search[s].seen.refreshed \in Nat
BY DEF IInv, TypeOK, SearchType, Entry, TimesInOrder, Sound

\* The others are not in flight when one is.
LEMMA AloneInFlight ==
  ASSUME SerialInv, NEW s \in Searches, InFlight(s), NEW u \in Searches, u # s
  PROVE  ~ InFlight(u) /\ ~ Loaded(u)
BY DEF SerialInv, OneAtATime, InFlight, Loaded, InFlightPcs

\* A step that leaves the entry.
LEMMA SerialLooks ==
  ASSUME IInv, SerialInv, OneAtATime', NEW s \in Searches, SearchStep(s), Looks(s)
  PROVE  SerialInv'
<1>1. row' = row /\ \A u \in Searches : u # s => search'[u] = search[u]
  BY DEF SearchStep, Looks
<1>2. FlagAgrees'
  BY <1>1 DEF SerialInv, FlagAgrees
<1>3. HitsCounted'
  <2>1. Hits' = Hits
    BY HitsStep DEF Looks, Serves, Ends, HitPcs
  <2> QED BY <1>1, <2>1 DEF SerialInv, HitsCounted, Hits
<1>4. ASSUME NEW u \in Searches PROVE Serial(u)'
  <2>1. CASE u # s
    BY <1>1, <2>1 DEF SerialInv, Serial, Loaded, InFlight
  <2>2. CASE u = s
    <3>1. Loaded(s)' => search'[s].seen = row
      BY DEF Looks, SerialInv, Serial
    <3>2. InFlight(s)' /\ row # NoEntry => row.refreshed <= search'[s].now
      BY TimesAreNats DEF Looks, SerialInv, Serial
    <3>3. search'[s].seen # NoEntry => search'[s].seen.refreshed <= row.refreshed
      BY TimesAreNats DEF Looks, SerialInv, Serial
    <3>4. search'[s].pc \notin StorePcs /\ search'[s].pc # "written"
      BY DEF Looks, StorePcs
    <3> QED BY <1>1, <2>2, <3>1, <3>2, <3>3, <3>4 DEF Serial
  <2> QED BY <2>1, <2>2
<1> QED BY <1>2, <1>3, <1>4 DEF SerialInv

\* A step that commits a hit, or a response.
LEMMA SerialWrites ==
  ASSUME IInv, SerialInv, NEW s \in Searches, SearchStep(s),
         row' # NoEntry, row # NoEntry => row'.refreshed >= row.refreshed,
         row'.refreshed \in Nat, row'.refreshed <= search'[s].now,
         InFlight(s), ~ Loaded(s)', search'[s].seen = search[s].seen,
         search'[s].pc \in StorePcs =>
           row'.response = search'[s].found /\ row'.refreshed = search'[s].now,
         FlagAgrees', HitsCounted', OneAtATime'
  PROVE  SerialInv'
<1>1. ASSUME NEW u \in Searches, u # s PROVE Serial(u)'
  <2>1. search'[u] = search[u] /\ ~ InFlight(u) /\ ~ Loaded(u)
    BY <1>1, AloneInFlight DEF SearchStep
  <2>2. Serial(u)
    BY DEF SerialInv
  <2>3. search[u].pc # "written"
    BY <2>1 DEF InFlight, InFlightPcs
  <2>4. search[u].seen # NoEntry => search[u].seen.refreshed <= row'.refreshed
    BY <2>2, TimesAreNats DEF Serial
  <2>5. search[u].pc \in StorePcs => search[u].now <= row'.refreshed
    BY <2>2, TimesAreNats DEF Serial
  <2> QED BY <2>1, <2>3, <2>4, <2>5 DEF Serial, InFlight, Loaded
<1>2. Serial(s)'
  <2>1. search'[s].seen # NoEntry => search'[s].seen.refreshed <= row'.refreshed
    BY TimesAreNats DEF SerialInv, Serial
  <2>2. search'[s].pc = "written" => search'[s].pc \in StorePcs
    BY DEF StorePcs
  <2> QED BY <2>1, <2>2 DEF Serial
<1> QED BY <1>1, <1>2 DEF SerialInv

\* An answer, or the loss of one, after the COMMIT.
LEMMA SerialCloses ==
  ASSUME IInv, SerialInv, OneAtATime', NEW s \in Searches, SearchStep(s), Closes(s)
  PROVE  SerialInv'
<1>1. row' = row /\ \A u \in Searches : u # s => search'[u] = search[u]
  BY DEF SearchStep, Closes
<1>2. FlagAgrees'
  BY <1>1 DEF SerialInv, FlagAgrees
<1>3. HitsCounted'
  <2>1. Hits' = Hits
    BY HitsStep DEF Closes, Serves, Ends
  <2> QED BY <1>1, <2>1 DEF SerialInv, HitsCounted, Hits
<1>4. ASSUME NEW u \in Searches, u # s PROVE Serial(u)'
  BY <1>1, <1>4 DEF SerialInv, Serial, Loaded, InFlight
<1>5. Serial(s)'
  <2>1. Serial(s)
    BY DEF SerialInv
  <2> QED BY <1>1, <2>1 DEF Closes, Serial, Loaded, InFlight, InFlightPcs, StorePcs
<1> QED BY <1>2, <1>3, <1>4, <1>5 DEF SerialInv

\* No hit was committed while the key was absent.
LEMMA NoEntryNoHit == ASSUME IInv, row = NoEntry PROVE Cardinality(Hits) = 0
<1>1. \A s \in Searches : search[s].pc \notin HitPcs
  BY Facts DEF Equipped, Sound
<1>2. Hits = {}
  BY <1>1 DEF Hits
<1> QED BY <1>2, FS_EmptySet

LEMMA SerialSearchStep ==
  ASSUME IInv, SerialInv, OneAtATime', NEW s \in Searches, SearchStep(s)
  PROVE  SerialInv'
<1>1. CASE Serves(s)
  <2>1. /\ InFlight(s) /\ ~ Loaded(s)' /\ Loaded(s)
        /\ search'[s].pc \notin StorePcs
    BY <1>1 DEF Serves, Ends, InFlight, InFlightPcs, Loaded, StorePcs
  <2>2. search[s].seen = row
    BY <2>1 DEF SerialInv, Serial
  <2>3. FlagAgrees'
    BY <1>1 DEF Serves, SerialInv, FlagAgrees
  <2>4. HitsCounted'
    <3>1. Cardinality(Hits') = Cardinality(Hits) + 1
      BY <1>1, HitsStep
    <3>2. row.hits = Cardinality(Hits)
      BY <1>1 DEF Serves, SerialInv, HitsCounted, Hits
    <3>3. row'.hits = Cardinality(Hits')
      BY <1>1, <2>2, <3>1, <3>2 DEF Serves
    <3> QED BY <3>3 DEF HitsCounted, Hits
  <2>5. /\ row'.refreshed = row.refreshed /\ row'.refreshed \in Nat
        /\ row'.refreshed <= search'[s].now
    BY <1>1, <2>1, TimesAreNats DEF Serves, Ends, SerialInv, Serial
  <2> QED BY <1>1, <2>1, <2>3, <2>4, <2>5, SerialWrites DEF Serves, Ends
<1>2. CASE Creates(s)
  <2>1. InFlight(s) /\ ~ Loaded(s)'
    BY <1>2 DEF Creates, Ends, InFlight, InFlightPcs, Loaded
  <2>2. FlagAgrees'
    BY <1>2 DEF Creates, FlagAgrees
  <2>3. HitsCounted'
    <3>1. Hits' = Hits
      BY <1>2, HitsStep DEF Serves, Creates, Ends
    <3> QED BY <1>2, <3>1, NoEntryNoHit DEF Creates, HitsCounted, Hits
  <2>4. /\ row'.refreshed \in Nat /\ row'.refreshed = search'[s].now
        /\ row'.response = search'[s].found /\ row'.refreshed <= search'[s].now
    BY <1>2, TimesAreNats DEF Creates, Ends
  <2> QED BY <1>2, <2>1, <2>2, <2>3, <2>4, SerialWrites DEF Creates, Ends
<1>3. CASE Refreshes(s)
  <2>1. InFlight(s) /\ ~ Loaded(s)' /\ Loaded(s)
    BY <1>3 DEF Refreshes, Ends, InFlight, InFlightPcs, Loaded
  <2>2. search[s].seen = row
    BY <2>1 DEF SerialInv, Serial
  <2>3. row'.response = search[s].found /\ row'.isPartial = search[s].found.partial
    BY <1>3, <2>2 DEF Refreshes
  <2>4. HitsCounted'
    <3>1. Hits' = Hits
      BY <1>3, HitsStep DEF Serves, Refreshes, Ends
    <3> QED BY <1>3, <3>1 DEF Refreshes, SerialInv, HitsCounted, Hits
  <2>5. /\ row'.refreshed \in Nat /\ row'.refreshed >= row.refreshed
        /\ row'.refreshed = search'[s].now /\ row'.refreshed <= search'[s].now
        /\ row'.response = search'[s].found
    BY <1>3, <2>1, <2>3, TimesAreNats DEF Refreshes, Ends, SerialInv, Serial
  <2>6. FlagAgrees'
    BY <2>3 DEF FlagAgrees
  <2> QED BY <1>3, <2>1, <2>4, <2>5, <2>6, SerialWrites DEF Refreshes, Ends
<1> QED BY <1>1, <1>2, <1>3, SerialLooks, SerialCloses DEF SearchStep

LEMMA SerialOtherStep ==
  ASSUME IInv, SerialInv, OneAtATime', OtherStep PROVE SerialInv'
<1>1. row' = row /\ Hits' = Hits
  BY OtherHits DEF OtherStep
<1>2. FlagAgrees' /\ HitsCounted'
  BY <1>1 DEF SerialInv, FlagAgrees, HitsCounted, Hits
<1>3. ASSUME NEW u \in Searches PROVE Serial(u)'
  <2>1. Serial(u)
    BY DEF SerialInv
  <2>2. CASE search'[u] = search[u]
    BY <1>1, <2>1, <2>2 DEF Serial, Loaded, InFlight
  <2>3. CASE InFlight(u) /\ LosesIts(u)
    BY <1>1, <2>1, <2>3 DEF LosesIts, Serial, Loaded, InFlight, InFlightPcs, StorePcs
  <2> QED BY <2>2, <2>3 DEF OtherStep
<1> QED BY <1>2, <1>3 DEF SerialInv

LEMMA SerialStep ==
  ASSUME IInv, SerialInv, OneAtATime', [Next]_vars PROVE SerialInv'
<1>1. CASE UNCHANGED vars
  BY <1>1 DEF vars, SerialInv, Serial, OneAtATime, FlagAgrees, HitsCounted, Hits,
             Loaded, InFlight
<1> QED BY <1>1, EveryStep, SerialSearchStep, SerialOtherStep

-----------------------------------------------------------------------------
(* Both modes together. *)

AddsUp == IInv /\ CountsBounded /\ (mode = "serial" => SerialInv)

LEMMA InitAddsUp == MCInit => AddsUp
<1> SUFFICES ASSUME MCInit PROVE AddsUp
  OBVIOUS
<1>1. /\ row = NoEntry
      /\ \A s \in Searches : search[s].pc = "idle" /\ search[s].seen = NoEntry
  BY InitEmpty DEF MCInit
<1>2. SerialInv
  <2>1. HitsCounted
    BY <1>1 DEF HitsCounted
  <2> QED BY <1>1, <2>1 DEF SerialInv, Serial, OneAtATime, FlagAgrees, Loaded, InFlight,
                            InFlightPcs, StorePcs
<1>3. CountsBounded
  BY <1>1 DEF CountsBounded
<1> QED BY <1>2, <1>3, InitIInv DEF AddsUp, MCInit

LEMMA NextAddsUp == AddsUp /\ [MCNext]_<<vars, mode>> => AddsUp'
<1> SUFFICES ASSUME AddsUp, [MCNext]_<<vars, mode>> PROVE AddsUp'
  OBVIOUS
<1>1. [Next]_vars /\ mode' = mode
  BY DEF MCNext
<1>2. IInv'
  BY <1>1, NextIInv DEF AddsUp
<1>3. CountsBounded'
  <2>1. CASE Next
    BY <2>1, BoundedStep DEF AddsUp
  <2>2. CASE UNCHANGED vars
    BY <2>2 DEF AddsUp, CountsBounded, Hits, vars
  <2> QED BY <1>1, <2>1, <2>2
<1>4. ASSUME mode = "serial" PROVE SerialInv'
  <2>1. OneAtATime'
    <3>1. CASE MCNext
      BY <1>4, <3>1 DEF MCNext
    <3>2. CASE UNCHANGED vars
      BY <1>4, <3>2 DEF AddsUp, SerialInv, OneAtATime, InFlight, vars
    <3> QED BY <3>1, <3>2
  <2> QED BY <1>1, <1>4, <2>1, SerialStep DEF AddsUp
<1> QED BY <1>1, <1>2, <1>3, <1>4 DEF AddsUp

LEMMA AlwaysAddsUp == MCSpec => []AddsUp
BY InitAddsUp, NextAddsUp, PTL DEF MCSpec

\* hit_count never exceeds the hits committed, whatever overlaps and whichever
\* answers are lost; and when searches come one after the other it is that
\* number, and is_partial is what the stored response says of itself.
THEOREM EntriesAddUp == MCSpec => []EntryAddsUp
<1>1. AddsUp => EntryAddsUp
  BY DEF AddsUp, CountsBounded, SerialInv, EntryAddsUp, HitsNotInvented, Hits
<1> QED BY <1>1, AlwaysAddsUp, PTL

\* One after the other, the search that was answered from the providers leaves
\* its own response and time in the entry, and a search is refused only when
\* every answer given so far, cached or live, is past its expires_at.
THEOREM SerialSearchesAgree == MCSpec => SerialSearches
<1>1. ASSUME AddsUp, [MCNext]_<<vars, mode>>, mode = "serial", ~ UNCHANGED vars
      PROVE  StoresItsAnswer /\ RefusalIsDue
  <2>1. IInv /\ SerialInv /\ Next
    BY <1>1 DEF AddsUp, MCNext
  <2>2. ASSUME NEW s \in Searches, search'[s].pc = "stored", search[s].pc # "stored"
        PROVE  /\ row' # NoEntry
               /\ row'.response = search[s].found /\ row'.refreshed = search[s].now
    <3>1. search[s].pc = "written" /\ row' = row
      BY <2>1, <2>2, EveryStep
         DEF SearchStep, OtherStep, LosesIts, Looks, Serves, Creates, Refreshes, Closes, Ends,
             StorePcs
    <3> QED BY <2>1, <3>1 DEF SerialInv, Serial, StorePcs
  <2>3. ASSUME NEW s \in Searches, search'[s].pc = "unavailable",
               search[s].pc # "unavailable", NEW a \in Searches
        PROVE  /\ search[a].pc = "stored" => search[a].now + Ttl <= search[s].now
               /\ search[a].pc = "served" => Expired(search[a].seen, search[s].now)
    <3>1. ~ Usable(s)
      BY <2>1, <2>3, EveryStep
         DEF SearchStep, OtherStep, LosesIts, Looks, Serves, Creates, Refreshes, Closes, Ends
    <3>2. Ttl \in Nat /\ search[s].now \in Nat /\ search[a].now \in Nat
      BY <2>1, TimesAreNats, SearchAssumption
    <3>3. CASE search[a].pc = "stored"
      BY <2>1, <3>1, <3>2, <3>3, TimesAreNats
         DEF SerialInv, Serial, StorePcs, Usable, Expired
    <3>4. CASE search[a].pc = "served"
      <4>1. search[a].seen # NoEntry
        BY <2>1, <3>4, Facts DEF Equipped, HitPcs
      <4> QED BY <2>1, <3>1, <3>2, <3>4, <4>1, TimesAreNats
              DEF SerialInv, Serial, Usable, Expired
    <3> QED BY <3>3, <3>4
  <2> QED BY <2>2, <2>3 DEF StoresItsAnswer, RefusalIsDue
<1>2. AddsUp /\ [MCNext]_<<vars, mode>> =>
        [mode = "serial" => StoresItsAnswer /\ RefusalIsDue]_vars
  BY <1>1
<1> QED BY <1>2, AlwaysAddsUp, PTL DEF MCSpec, SerialSearches
=============================================================================
