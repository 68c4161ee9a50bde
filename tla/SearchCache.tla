---------------------------- MODULE SearchCache ----------------------------
(***************************************************************************)
(* GET /search for one cache key (SearchService.search, SearchCacheRepo-   *)
(* sitory): a search takes the time, looks its key up, and either serves   *)
(* the entry and counts the hit, or asks the providers and stores what     *)
(* they answered.  Searches run in the API's threads, each with a session  *)
(* of its own.                                                             *)
(*                                                                         *)
(* A session reads a row once: what it loaded at line 88 is the snapshot   *)
(* that mark_hit increments and that upsert, whose own SELECT returns the  *)
(* same instance, compares against.  An UPDATE writes the columns that     *)
(* differ from the snapshot, not from the row.                             *)
(*                                                                         *)
(* The clock is coarse: two searches of one tick still have different      *)
(* times.  stale_at and expires_at are last_refreshed_at plus a setting.   *)
(***************************************************************************)
EXTENDS Naturals, FiniteSets

CONSTANTS
  Searches,     \* the searches for the key
  Versions,     \* what the providers may list for it
  StaleAfter,   \* search_cache_stale_seconds
  Ttl,          \* search_cache_ttl_seconds
  MaxTime,      \* bound of the clock
  NoEntry, NoResponse

Response == [version : Versions, partial : BOOLEAN]

\* stored is history: when a search that had obtained the response committed.
Entry == [response : Response, isPartial : BOOLEAN, hits : Nat,
          refreshed : Nat, stored : Nat]

ASSUME SearchAssumption ==
  /\ IsFiniteSet(Searches)
  /\ StaleAfter \in Nat /\ Ttl \in Nat /\ MaxTime \in Nat
  /\ NoEntry \notin Entry
  /\ NoResponse \notin Response

VARIABLES
  clock,
  configured,   \* does the process have a provider token?
  row,          \* the committed row of search_cache, or NoEntry
  search        \* each search: where it is, its now, its snapshot, its response

vars == <<clock, configured, row, search>>

-----------------------------------------------------------------------------
\* counted, written: the COMMIT is done and the answer is being built.
InFlightPcs == {"lookup", "hit", "counted", "live", "upsert", "write", "written"}

\* served: 200 from the cache; stored: 200 after a live search; unavailable:
\* 503; conflict: the insert met the unique constraint; failed: any other 500
\* or a restart, with hit_lost and write_lost for those after the COMMIT.
EndPcs == {"served", "stored", "unavailable", "conflict", "failed",
           "hit_lost", "write_lost"}

\* Where a search is that has committed a hit, or a response.
HitPcs   == {"counted", "served", "hit_lost"}
StorePcs == {"written", "stored", "write_lost"}

SearchType == [pc : {"idle"} \cup InFlightPcs \cup EndPcs, now : Nat,
               seen : Entry \cup {NoEntry}, found : Response \cup {NoResponse}]

InFlight(s) == search[s].pc \in InFlightPcs

\* A search that ends without an answer of its own.
Lost(f) == [f EXCEPT !.pc = IF @ = "counted" THEN "hit_lost"
                            ELSE IF @ = "written" THEN "write_lost" ELSE "failed"]

Expired(e, now) == e.refreshed + Ttl <= now
Stale(e, now)   == e.refreshed + StaleAfter <= now

Init ==
  /\ clock = 0
  /\ configured \in BOOLEAN
  /\ row = NoEntry
  /\ search = [s \in Searches |-> [pc |-> "idle", now |-> 0,
                                   seen |-> NoEntry, found |-> NoResponse]]

\* Mutants, here and below, are actions changed as a plausible bug would.

-----------------------------------------------------------------------------
(* SearchService.search *)

\* The context, with now, is built before the session is used.
Begin(s) ==
  /\ search[s].pc = "idle"
  /\ search' = [search EXCEPT ![s].pc = "lookup", ![s].now = clock]
  /\ UNCHANGED <<clock, configured, row>>

Usable(s) == row # NoEntry /\ ~ Expired(row, search[s].now)

\* get_by_key loads an entry that is not expired, and mark_hit counts in it.
LookupHit(s) ==
  /\ search[s].pc = "lookup" /\ Usable(s)
  /\ search' = [search EXCEPT ![s].pc = "hit", ![s].seen = row]
  /\ UNCHANGED <<clock, configured, row>>

\* Nothing usable: an expired entry stays in the session.
LookupMiss(s) ==
  /\ search[s].pc = "lookup" /\ ~ Usable(s) /\ configured
  /\ search' = [search EXCEPT ![s].pc = "live", ![s].seen = row]
  /\ UNCHANGED <<clock, configured, row>>

\* Mutant: the providers are checked before the cache.
MutProvidersFirst(s) ==
  /\ search[s].pc = "lookup" /\ ~ configured
  /\ search' = [search EXCEPT ![s].pc = "unavailable", ![s].seen = row]
  /\ UNCHANGED <<clock, configured, row>>

\* Nothing usable and nobody to ask: 503.
Unavailable(s) ==
  /\ search[s].pc = "lookup" /\ ~ Usable(s) /\ ~ configured
  /\ search' = [search EXCEPT ![s].pc = "unavailable", ![s].seen = row]
  /\ UNCHANGED <<clock, configured, row>>

\* Mutant: a hit prolongs the life of the entry.
MutSlidingExpiry(s) ==
  /\ search[s].pc = "hit"
  /\ row' = [row EXCEPT !.hits = search[s].seen.hits + 1,
                        !.refreshed = search[s].now]
  /\ search' = [search EXCEPT ![s].pc = "counted"]
  /\ UNCHANGED <<clock, configured>>

\* The hit is committed as the snapshot's count plus one.  The scheduler of
\* stale entries is a no-op (deps.py), so a stale hit does nothing more.
CommitHit(s) ==
  /\ search[s].pc = "hit"
  /\ row' = [row EXCEPT !.hits = search[s].seen.hits + 1]
  /\ search' = [search EXCEPT ![s].pc = "counted"]
  /\ UNCHANGED <<clock, configured>>

\* Mutant: when no provider answers there is nothing to merge.
MutNothingMerged(s) ==
  /\ search[s].pc = "live"
  /\ \E r \in Response \cup {NoResponse} :
       search' = [search EXCEPT ![s].pc = "upsert", ![s].found = r]
  /\ UNCHANGED <<clock, configured, row>>

\* The fan-out over the providers ends: any version, with or without all of
\* the platforms.  Matching and linking write other tables.
Fetch(s) ==
  /\ search[s].pc = "live"
  /\ \E r \in Response :
       search' = [search EXCEPT ![s].pc = "upsert", ![s].found = r]
  /\ UNCHANGED <<clock, configured, row>>

\* get_by_key of upsert: a session that holds the entry keeps its snapshot.
Reload(s) ==
  /\ search[s].pc = "upsert"
  /\ search' = [search EXCEPT ![s].pc = "write",
                              ![s].seen = IF @ = NoEntry THEN row ELSE @]
  /\ UNCHANGED <<clock, configured, row>>

\* The INSERT of a key that is still absent.
Insert(s) ==
  /\ search[s].pc = "write" /\ search[s].seen = NoEntry /\ row = NoEntry
  /\ row' = [response |-> search[s].found, isPartial |-> search[s].found.partial,
             hits |-> 0, refreshed |-> search[s].now, stored |-> clock]
  /\ search' = [search EXCEPT ![s].pc = "written"]
  /\ UNCHANGED <<clock, configured>>

\* Mutant: a failed insert is reported as a conflict whatever failed.
MutAnyFailureConflicts(s) ==
  /\ search[s].pc = "write" /\ search[s].seen = NoEntry
  /\ search' = [search EXCEPT ![s].pc = "conflict"]
  /\ UNCHANGED <<clock, configured, row>>

\* Another search inserted the key meanwhile: IntegrityError, 500.
InsertConflict(s) ==
  /\ search[s].pc = "write" /\ search[s].seen = NoEntry /\ row # NoEntry
  /\ search' = [search EXCEPT ![s].pc = "conflict"]
  /\ UNCHANGED <<clock, configured, row>>

\* What the database holds in a column after the UPDATE of a session that
\* loaded one value and assigned another.
Column(db, loaded, assigned) == IF assigned = loaded THEN db ELSE assigned

\* Mutant: the flag is assigned when the entry is created only.
MutFlagNotUpdated(e, seen, r) ==
  [e EXCEPT !.response = Column(@, seen.response, r)]

Merged(e, seen, r) ==
  [e EXCEPT !.response  = Column(@, seen.response, r),
            !.isPartial = Column(@, seen.isPartial, r.partial)]

\* The UPDATE of an entry that the session holds.  Times differ always.
Update(s) ==
  /\ search[s].pc = "write" /\ search[s].seen # NoEntry
  /\ LET r == search[s].found
         e == Merged(row, search[s].seen, r)
     IN  row' = [e EXCEPT !.refreshed = search[s].now,
                          !.stored = IF e.response = r THEN clock ELSE @]
  /\ search' = [search EXCEPT ![s].pc = "written"]
  /\ UNCHANGED <<clock, configured>>

\* The answer is built from what the session holds, and sent: 200.
Answer(s) ==
  /\ search[s].pc \in {"counted", "written"}
  /\ search' = [search EXCEPT ![s].pc = IF @ = "counted" THEN "served" ELSE "stored"]
  /\ UNCHANGED <<clock, configured, row>>

\* Mutant: the response is committed before the statement that fails.
MutFailCommits(s) ==
  /\ InFlight(s)
  /\ search' = [search EXCEPT ![s] = Lost(@)]
  /\ row' = IF search[s].pc = "write" /\ row # NoEntry
            THEN [row EXCEPT !.response = search[s].found] ELSE row
  /\ UNCHANGED <<clock, configured>>

\* A statement, the matching or the building of the answer raises: 500, and
\* what the session has not committed is rolled back.
Fail(s) ==
  /\ InFlight(s)
  /\ search' = [search EXCEPT ![s] = Lost(@)]
  /\ UNCHANGED <<clock, configured, row>>

-----------------------------------------------------------------------------
(* The environment *)

Tick ==
  /\ clock < MaxTime
  /\ clock' = clock + 1
  /\ UNCHANGED <<configured, row, search>>

\* The API restarts, perhaps with other tokens: searches in flight are lost.
Restart ==
  /\ configured' \in BOOLEAN
  /\ search' = [s \in Searches |->
                 IF InFlight(s) THEN Lost(search[s]) ELSE search[s]]
  /\ UNCHANGED <<clock, row>>

Next ==
  \/ \E s \in Searches :
       \/ Begin(s) \/ LookupHit(s) \/ LookupMiss(s) \/ Unavailable(s) \/ CommitHit(s)
       \/ Fetch(s) \/ Reload(s) \/ Insert(s) \/ InsertConflict(s) \/ Update(s)
       \/ Answer(s) \/ Fail(s)
  \/ Tick \/ Restart

Spec == Init /\ [][Next]_vars

\* Searches for the key come one after the other.
OneAtATime == \A s1, s2 \in Searches : InFlight(s1) /\ InFlight(s2) => s1 = s2

SerialSpec == Init /\ [][Next /\ OneAtATime']_vars

-----------------------------------------------------------------------------
(* Properties of overlapping searches *)

\* What a search needs at a step it has: an entry to serve, a response to store.
Equipped(s) ==
  /\ search[s].pc \in {"hit"} \cup HitPcs => search[s].seen # NoEntry
  /\ search[s].pc \in {"upsert", "write"} \cup StorePcs => search[s].found # NoResponse

\* Every variable holds a value of its kind, the clock stays in its bound, and
\* no step works on an entry or a response that is not there.
TypeOK ==
  /\ clock \in 0..MaxTime
  /\ configured \in BOOLEAN
  /\ row \in Entry \cup {NoEntry}
  /\ search \in [Searches -> SearchType]
  /\ \A s \in Searches : Equipped(s)

\* When the cache answers, some search had obtained that response and committed
\* less than Ttl before the search began, and less than StaleAfter before if it
\* is called fresh: although an UPDATE may put new times beside a response that
\* another search stored, no entry looks younger than its response.
HitIsRecent ==
  \A s \in Searches :
    search[s].pc = "served" =>
      LET e == search[s].seen  now == search[s].now IN
      /\ e.stored + Ttl > now
      /\ ~ Stale(e, now) => e.stored + StaleAfter > now

\* Every column of the entry comes from a search that committed it, answered or
\* not: what failing or lost searches had flushed is never served.  The times
\* are those of a search that obtained the response beside them, or one equal
\* to the response that it had loaded and so left as it found it.
EntryIsCommitted ==
  row # NoEntry =>
    LET done == {s \in Searches : search[s].pc \in StorePcs} IN
    /\ \E s \in done : search[s].found = row.response
    /\ \E s \in done : search[s].found.partial = row.isPartial
    /\ \E s \in done :
         /\ search[s].now = row.refreshed
         /\ \/ search[s].found = row.response
            \/ search[s].seen # NoEntry /\ search[s].found = search[s].seen.response

\* The search that loses the race to insert a key is answered 500, but the key
\* is cached by then, no earlier than it asked: repeating the request helps.
ConflictMeansCached ==
  \A s \in Searches :
    search[s].pc = "conflict" => row # NoEntry /\ row.stored >= search[s].now

\* The searches that have committed a hit.
Hits == {s \in Searches : search[s].pc \in HitPcs}

\* Hits may be lost when searches overlap, never invented: the count is at most
\* the hits committed, those included whose answer never left.
HitsNotInvented == row # NoEntry => row.hits <= Cardinality(Hits)

-----------------------------------------------------------------------------
(* Properties of searches one after the other *)

\* is_partial says what the stored response says of itself.
FlagAgrees == row # NoEntry => row.isPartial = row.response.partial

\* hit_count is the number of hits committed.
HitsCounted == row # NoEntry => row.hits = Cardinality(Hits)

\* The response a live search answers with is the one the next search is served.
StoresItsAnswer ==
  \A s \in Searches :
    search'[s].pc = "stored" /\ search[s].pc # "stored" =>
      row' # NoEntry /\ row'.response = search[s].found /\ row'.refreshed = search[s].now

\* Without providers a search is refused only once every entry that earlier
\* searches were answered with has passed the expires_at they were given.
RefusalIsDue ==
  \A s \in Searches :
    search'[s].pc = "unavailable" /\ search[s].pc # "unavailable" =>
      \A a \in Searches :
        /\ search[a].pc = "stored" => search[a].now + Ttl <= search[s].now
        /\ search[a].pc = "served" => Expired(search[a].seen, search[s].now)
=============================================================================
