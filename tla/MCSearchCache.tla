--------------------------- MODULE MCSearchCache ---------------------------
(***************************************************************************)
(* Instances of SearchCache for TLC.  Searches are interchangeable, and so *)
(* are the versions of what the providers list.  A run explores searches   *)
(* that overlap and, as SerialSpec has them, searches one after the other. *)
(***************************************************************************)
EXTENDS SearchCache, TLC

CONSTANT Modes    \* of "overlapping" and "serial"

VARIABLE mode

SearchSymmetry == Permutations(Searches) \cup Permutations(Versions)

MCNext == Next /\ UNCHANGED mode /\ (mode = "serial" => OneAtATime')

MCInit == Init /\ mode \in Modes

MCSpec == MCInit /\ [][MCNext]_<<vars, mode>>

-----------------------------------------------------------------------------
\* The entry's flag and its count: hits may be lost when searches overlap, never
\* invented; one after the other, none is lost, and is_partial says what the
\* stored response says of itself.
EntryAddsUp ==
  /\ HitsNotInvented
  /\ mode = "serial" => FlagAgrees /\ HitsCounted

\* One after the other, the response a live search answers with is the one the
\* next search is served (StoresItsAnswer), and a search without providers
\* is refused only when no answer that the cache gave out is still good
\* (RefusalIsDue).
SerialSearches == [][mode = "serial" => StoresItsAnswer /\ RefusalIsDue]_vars
=============================================================================
