------------------------------ MODULE Scoring ------------------------------
(***************************************************************************)
(* How alike MatchingService finds two entities of one kind, one of each   *)
(* platform: whether the right one is a candidate for the left one, the    *)
(* features of the pair, and the score.                                    *)
(*                                                                         *)
(* Scores are ten-thousandths, as rounded() leaves them.  A normal form is *)
(* the set of its tokens; the ratio of difflib's SequenceMatcher is any    *)
(* value that the two sets allow.  Where rounding is a tie, binary         *)
(* fractions decide: either neighbour is possible.  So the operators       *)
(* return sets of values, and Outcomes all that may come of a pair.        *)
(***************************************************************************)
EXTENDS Integers, FiniteSets

CONSTANTS
  Names,         \* normal forms of names and titles
  AliasSets,     \* normal forms of the aliases of an artist
  ArtistSets,    \* normal forms of the artists of a release or a track
  Albums,        \* normal forms of the release of a track
  Years, Counts, Durations,
  TagSets,       \* version tags
  StrongTags,    \* STRONG_VERSION_TAGS
  Similarities,  \* ratios of SequenceMatcher
  Unknown,       \* None
  Candidate      \* match_candidate_threshold

One == 10000

ASSUME ScoringAssumption ==
  /\ \A n \in Names \cup Albums : IsFiniteSet(n)
  /\ \A A \in ArtistSets \cup TagSets : IsFiniteSet(A)
  /\ Years \subseteq Nat /\ Counts \subseteq Nat /\ Durations \subseteq Nat
  /\ Similarities \subseteq 0..One
  /\ Unknown \notin Int
  /\ Candidate \in 1..One

-----------------------------------------------------------------------------
\* An entity as its mapper makes it; fields of other kinds are left blank.
Entity(k) ==
  [name     : Names,
   aliases  : IF k = "artist" THEN AliasSets ELSE {{}},
   artists  : IF k = "artist" THEN {{}} ELSE ArtistSets,
   year     : IF k = "release" THEN Years \cup {Unknown} ELSE {Unknown},
   count    : IF k = "release" THEN Counts \cup {Unknown} ELSE {Unknown},
   duration : IF k = "track" THEN Durations \cup {Unknown} ELSE {Unknown},
   release  : IF k = "track" THEN Albums ELSE {{}},
   tags     : IF k = "artist" THEN {{}} ELSE TagSets]

Distance(a, b) == IF a < b THEN b - a ELSE a - b

\* Mutants, here and below, are definitions changed as a plausible bug would.

\* rounded(n / (One * d)): clamped and rounded to four digits.
Rounded(n, d) ==
  IF n <= 0 THEN {0}
  ELSE IF n >= One * d THEN {One}
  ELSE {q \in {n \div d, (n \div d) + 1} : q \in 0..One /\ 2 * Distance(q * d, n) <= d}

-----------------------------------------------------------------------------
(* The features of a pair *)

\* Mutant: a side without tokens is no evidence.
MutJaccard(l, r) ==
  IF l = {} /\ r = {} THEN {One}
  ELSE IF l = {} \/ r = {} THEN {5000}
  ELSE Rounded(One * Cardinality(l \cap r), Cardinality(l \cup r))

Jaccard(l, r) ==
  IF l = {} /\ r = {} THEN {One}
  ELSE IF l = {} \/ r = {} THEN {0}
  ELSE Rounded(One * Cardinality(l \cap r), Cardinality(l \cup r))

Overlap(l, r) ==
  LET least == IF Cardinality(l) < Cardinality(r) THEN Cardinality(l) ELSE Cardinality(r) IN
  IF l = {} /\ r = {} THEN {One}
  ELSE IF l = {} \/ r = {} THEN {0}
  ELSE Rounded(One * Cardinality(l \cap r), least)

\* An empty string resembles nothing; only equal strings have ratio 1.
Similarity(l, r) ==
  IF l = {} \/ r = {} THEN {0}
  ELSE {s \in Similarities : s = One => l = r}

\* Mutant: a year that is not known is no evidence at all.
MutYearScore(l, r) ==
  IF l = Unknown \/ r = Unknown THEN 0
  ELSE LET diff == Distance(l, r) IN
       CASE diff = 0 -> One
         [] diff = 1 -> 8000
         [] diff \in 2..5 -> 6000 - ((diff - 2) * 1500)
         [] OTHER -> 0

YearScore(l, r) ==
  IF l = Unknown \/ r = Unknown THEN 5000
  ELSE LET diff == Distance(l, r) IN
       CASE diff = 0 -> One
         [] diff = 1 -> 8000
         [] diff \in 2..5 -> 6000 - ((diff - 2) * 1500)
         [] OTHER -> 0

CountScore(l, r) ==
  IF l = Unknown \/ r = Unknown THEN {5000}
  ELSE IF l = r THEN {One}
  ELSE LET baseline == IF l < r THEN r ELSE l IN
       Rounded(One * (baseline - Distance(l, r)), baseline)

\* In milliseconds: ninety seconds apart or more is as far as can be.
DurationScore(l, r) ==
  IF l = Unknown \/ r = Unknown THEN {5000}
  ELSE Rounded(90000 - Distance(l, r), 9)

\* The strong tags that one side lacks; without any, the weak ones.
Conflicts(l, r) ==
  LET diff == (l \ r) \cup (r \ l)  strong == diff \cap StrongTags IN
  IF strong # {} THEN strong ELSE diff

VersionScore(l, r) ==
  IF Conflicts(l, r) \cap StrongTags # {} THEN {4500} ELSE Jaccard(l, r)

\* The best of all pairs of names and aliases, the pair of the names being s.
AliasOverlap(l, r, s) ==
  LET pairs  == (l.aliases \cup {l.name}) \X (r.aliases \cup {r.name})
      others == pairs \ {<<l.name, r.name>>}
      ratios == {s} \cup (UNION {Jaccard(p[1], p[2]) : p \in pairs})
                    \cup (UNION {Similarity(p[1], p[2]) : p \in others})
  IN  {v \in ratios : v >= s /\ \A p \in pairs : \E j \in Jaccard(p[1], p[2]) : v >= j}

\* s is the ratio of the names.
ArtistFeatures(l, r, s) ==
  [title : Jaccard(l.name, r.name), similarity : {s},
   alias : AliasOverlap(l, r, s), conflicts : {{}}]

ReleaseFeatures(l, r, s) ==
  [title : Jaccard(l.name, r.name), similarity : {s},
   artist : Overlap(l.artists, r.artists), year : {YearScore(l.year, r.year)},
   count : CountScore(l.count, r.count),
   version : VersionScore(l.tags, r.tags), conflicts : {Conflicts(l.tags, r.tags)}]

TrackFeatures(l, r, s) ==
  [title : Jaccard(l.name, r.name), similarity : {s},
   artist : Overlap(l.artists, r.artists), duration : DurationScore(l.duration, r.duration),
   release : Jaccard(l.release, r.release),
   version : VersionScore(l.tags, r.tags), conflicts : {Conflicts(l.tags, r.tags)}]

Features(k, l, r, s) ==
  CASE k = "artist"  -> ArtistFeatures(l, r, s)
    [] k = "release" -> ReleaseFeatures(l, r, s)
    [] k = "track"   -> TrackFeatures(l, r, s)

-----------------------------------------------------------------------------
(* The score: a weighted sum, less what speaks against the pair *)

ArtistScore(f) ==
  Rounded((45 * f.title) + (35 * f.similarity) + (20 * f.alias), 100)

ReleaseScore(f) ==
  Rounded((32 * f.title) + (20 * f.similarity) + (22 * f.artist) + (12 * f.year)
          + (9 * f.count) + (5 * f.version)
          - (IF f.conflicts = {} THEN 0 ELSE 12 * One), 100)

TrackScore(f) ==
  Rounded((30 * f.title) + (20 * f.similarity) + (25 * f.artist) + (15 * f.duration)
          + (5 * f.release) + (5 * f.version)
          - (IF f.conflicts = {} THEN 0 ELSE 10 * One)
          - (IF f.duration < 2500 /\ f.title >= 8000 THEN 35 * One ELSE 0), 100)

Score(k, f) ==
  CASE k = "artist"  -> ArtistScore(f)
    [] k = "release" -> ReleaseScore(f)
    [] k = "track"   -> TrackScore(f)

-----------------------------------------------------------------------------
(* What comes of a pair *)

\* Whether the right entity is worth a score, by the overlap of the names
\* and, unless it is an artist, of the artists.
Generated(k, f, names, artists) ==
  IF k = "artist" THEN names >= Candidate \/ f.alias >= Candidate
  ELSE names >= Candidate /\ (artists >= 5000 \/ names >= 8000)

\* The score, 0 for a pair that is dropped without one, and those of the
\* features that anybody looks at afterwards.
Outcome(score, f) ==
  [score |-> score, similarity |-> f.similarity, conflict |-> f.conflicts # {}]

Outcomes(k, l, r) ==
  UNION {UNION {
      {Outcome(score, f) : score \in
         UNION {IF Generated(k, f, names, artists) THEN Score(k, f) ELSE {0} :
                  names \in Overlap(l.name, r.name), artists \in Overlap(l.artists, r.artists)}} :
        f \in Features(k, l, r, s)} : s \in Similarity(l.name, r.name)}
=============================================================================
