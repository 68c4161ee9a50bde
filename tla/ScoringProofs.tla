--------------------------- MODULE ScoringProofs ---------------------------
(***************************************************************************)
(* Proofs about Scoring: what no agreement of the other fields can make up *)
(* for, whatever the names, the tags and the ratios are.                   *)
(***************************************************************************)
EXTENDS Scoring, FiniteSetTheorems, TLAPS

(* Every feature and every score lies in 0..One. *)

LEMMA RoundedRange ==
  \A n, d : Rounded(n, d) \subseteq 0..One
BY DEF Rounded, One

\* Rounding does not lift a sum above a bound it respects.
LEMMA RoundedBound ==
  ASSUME NEW n \in Int, NEW B \in 0..One, n <= 100 * B, NEW q \in Rounded(n, 100)
  PROVE  q <= B
<1>1. CASE n <= 0
  BY <1>1 DEF Rounded, One
<1>2. CASE n > 0 /\ n >= One * 100
  BY <1>2 DEF Rounded, One
<1>3. CASE n > 0 /\ n < One * 100
  <2>1. q \in 0..One /\ 2 * Distance(q * 100, n) <= 100
    BY <1>3 DEF Rounded, One
  <2>. QED BY <2>1 DEF Distance, One
<1>. QED BY <1>1, <1>2, <1>3 DEF One

LEMMA JaccardRange ==
  \A l, r : Jaccard(l, r) \subseteq 0..One
BY RoundedRange DEF Jaccard, One

LEMMA OverlapRange ==
  \A l, r : Overlap(l, r) \subseteq 0..One
<1>. SUFFICES ASSUME NEW l, NEW r PROVE Overlap(l, r) \subseteq 0..One
  OBVIOUS
<1> DEFINE n == One * Cardinality(l \cap r)
           d == IF Cardinality(l) < Cardinality(r) THEN Cardinality(l) ELSE Cardinality(r)
<1>1. Overlap(l, r) \in {{One}, {0}, Rounded(n, d)}
  BY Zenon DEF Overlap
<1>. QED BY <1>1, RoundedRange DEF One

LEMMA SimilarityRange ==
  \A l, r : Similarity(l, r) \subseteq 0..One
<1>. SUFFICES ASSUME NEW l, NEW r, NEW s \in Similarity(l, r) PROVE s \in 0..One
  BY Zenon
<1>1. s = 0 \/ s \in Similarities
  BY DEF Similarity
<1>2. Similarities \subseteq 0..One
  BY ScoringAssumption
<1>3. 0 \in 0..One
  BY DEF One
<1>. QED BY <1>1, <1>2, <1>3

LEMMA YearScoreRange ==
  ASSUME NEW l \in Nat \cup {Unknown}, NEW r \in Nat \cup {Unknown}
  PROVE  YearScore(l, r) \in 0..One
<1>1. CASE l = Unknown \/ r = Unknown
  BY <1>1 DEF YearScore, One
<1>2. CASE ~ (l = Unknown \/ r = Unknown)
  <2>1. Distance(l, r) \in Nat
    BY <1>2 DEF Distance
  <2>. QED BY <1>2, <2>1 DEF YearScore, One
<1>. QED BY <1>1, <1>2

LEMMA OtherRanges ==
  /\ \A l, r : CountScore(l, r) \subseteq 0..One
  /\ \A l, r : DurationScore(l, r) \subseteq 0..One
  /\ \A l, r : VersionScore(l, r) \subseteq 0..One
  /\ \A l, r : \A s \in 0..One : AliasOverlap(l, r, s) \subseteq 0..One
<1>1. \A l, r : CountScore(l, r) \subseteq 0..One
  BY RoundedRange DEF CountScore, One
<1>2. \A l, r : DurationScore(l, r) \subseteq 0..One
  BY RoundedRange DEF DurationScore, One
<1>3. \A l, r : VersionScore(l, r) \subseteq 0..One
  BY JaccardRange DEF VersionScore, One
<1>4. ASSUME NEW l, NEW r, NEW s \in 0..One, NEW v \in AliasOverlap(l, r, s)
      PROVE  v \in 0..One
  <2> DEFINE pairs  == (l.aliases \cup {l.name}) \X (r.aliases \cup {r.name})
             others == pairs \ {<<l.name, r.name>>}
  <2>1. \/ v = s
        \/ \E p \in pairs : v \in Jaccard(p[1], p[2])
        \/ \E p \in others : v \in Similarity(p[1], p[2])
    BY <1>4 DEF AliasOverlap
  <2> HIDE DEF pairs, others
  <2>. QED BY <2>1, JaccardRange, SimilarityRange, Zenon
<1>. QED BY <1>1, <1>2, <1>3, <1>4

-----------------------------------------------------------------------------
(* The features of a pair. *)

\* Entities, as far as the lemmas need them.
Scored(e) == e.year \in Nat \cup {Unknown} /\ e.duration \in Nat \cup {Unknown}

LEMMA ArtistFeatureRange ==
  ASSUME NEW l, NEW r, NEW s \in 0..One, NEW f \in ArtistFeatures(l, r, s)
  PROVE  /\ f.title \in Jaccard(l.name, r.name) /\ f.similarity = s
         /\ f.title \in 0..One /\ f.similarity \in 0..One /\ f.alias \in 0..One
         /\ f.conflicts = {}
BY JaccardRange, OtherRanges DEF ArtistFeatures

LEMMA ReleaseFeatureRange ==
  ASSUME NEW l, NEW r, Scored(l), Scored(r), NEW s \in 0..One,
         NEW f \in ReleaseFeatures(l, r, s)
  PROVE  /\ f.title \in Jaccard(l.name, r.name) /\ f.similarity = s
         /\ f.title \in 0..One /\ f.similarity \in 0..One /\ f.artist \in 0..One
         /\ f.year \in 0..One /\ f.count \in 0..One /\ f.version \in 0..One
         /\ f.conflicts = Conflicts(l.tags, r.tags)
<1>1. /\ f.title \in Jaccard(l.name, r.name) /\ f.similarity = s
      /\ f.artist \in Overlap(l.artists, r.artists) /\ f.year = YearScore(l.year, r.year)
      /\ f.count \in CountScore(l.count, r.count) /\ f.version \in VersionScore(l.tags, r.tags)
      /\ f.conflicts = Conflicts(l.tags, r.tags)
  BY DEF ReleaseFeatures
<1>2. YearScore(l.year, r.year) \in 0..One
  BY YearScoreRange DEF Scored
<1>. QED BY <1>1, <1>2, JaccardRange, OverlapRange, OtherRanges

LEMMA TrackFeatureRange ==
  ASSUME NEW l, NEW r, NEW s \in 0..One, NEW f \in TrackFeatures(l, r, s)
  PROVE  /\ f.title \in Jaccard(l.name, r.name) /\ f.similarity = s
         /\ f.duration \in DurationScore(l.duration, r.duration)
         /\ f.release \in Jaccard(l.release, r.release)
         /\ f.title \in 0..One /\ f.similarity \in 0..One /\ f.artist \in 0..One
         /\ f.duration \in 0..One /\ f.release \in 0..One /\ f.version \in 0..One
         /\ f.conflicts = Conflicts(l.tags, r.tags)
<1>1. /\ f.title \in Jaccard(l.name, r.name) /\ f.similarity = s
      /\ f.artist \in Overlap(l.artists, r.artists)
      /\ f.duration \in DurationScore(l.duration, r.duration)
      /\ f.release \in Jaccard(l.release, r.release)
      /\ f.version \in VersionScore(l.tags, r.tags)
      /\ f.conflicts = Conflicts(l.tags, r.tags)
  BY DEF TrackFeatures
<1>. QED BY <1>1, JaccardRange, OverlapRange, OtherRanges

-----------------------------------------------------------------------------
(* What an outcome is made of. *)

LEMMA OutcomeOrigin ==
  ASSUME NEW k, NEW l, NEW r, NEW o \in Outcomes(k, l, r)
  PROVE  \E s \in Similarity(l.name, r.name) : \E f \in Features(k, l, r, s) :
           /\ o.similarity = f.similarity /\ o.conflict = (f.conflicts # {})
           /\ o.score \in Score(k, f) \cup {0}
<1> DEFINE OfFeatures(f) ==
      {Outcome(score, f) : score \in
         UNION {IF Generated(k, f, names, artists) THEN Score(k, f) ELSE {0} :
                  names \in Overlap(l.name, r.name), artists \in Overlap(l.artists, r.artists)}}
           OfRatio(s) == UNION {OfFeatures(f) : f \in Features(k, l, r, s)}
<1>1. Outcomes(k, l, r) = UNION {OfRatio(s) : s \in Similarity(l.name, r.name)}
  BY DEF Outcomes
<1>2. PICK s \in Similarity(l.name, r.name) : o \in OfRatio(s)
  <2> HIDE DEF OfRatio
  <2>. QED BY <1>1
<1>3. PICK f \in Features(k, l, r, s) : o \in OfFeatures(f)
  <2> HIDE DEF OfFeatures
  <2>. QED BY <1>2
<1>4. PICK score \in Score(k, f) \cup {0} : o = Outcome(score, f)
  BY <1>3
<1>. QED BY <1>4 DEF Outcome

\* The same for a pair that is worth a score.
LEMMA GeneratedOrigin ==
  ASSUME NEW k, NEW l, NEW r, NEW o \in Outcomes(k, l, r),
         \A s \in Similarity(l.name, r.name) : \A f \in Features(k, l, r, s) :
           \A names \in Overlap(l.name, r.name), artists \in Overlap(l.artists, r.artists) :
             Generated(k, f, names, artists)
  PROVE  \E s \in Similarity(l.name, r.name) : \E f \in Features(k, l, r, s) :
           /\ o.similarity = f.similarity /\ o.conflict = (f.conflicts # {})
           /\ o.score \in Score(k, f)
<1> DEFINE Scores(f) ==
         UNION {IF Generated(k, f, names, artists) THEN Score(k, f) ELSE {0} :
                  names \in Overlap(l.name, r.name), artists \in Overlap(l.artists, r.artists)}
           OfFeatures(f) == {Outcome(score, f) : score \in Scores(f)}
           OfRatio(s) == UNION {OfFeatures(f) : f \in Features(k, l, r, s)}
<1>1. Outcomes(k, l, r) = UNION {OfRatio(s) : s \in Similarity(l.name, r.name)}
  BY DEF Outcomes
<1>2. PICK s \in Similarity(l.name, r.name) : o \in OfRatio(s)
  <2> HIDE DEF OfRatio
  <2>. QED BY <1>1
<1>3. PICK f \in Features(k, l, r, s) : o \in OfFeatures(f)
  <2> HIDE DEF OfFeatures
  <2>. QED BY <1>2
<1>4. PICK score \in Scores(f) : o = Outcome(score, f)
  <2> HIDE DEF Scores
  <2>. QED BY <1>3
<1>5. score \in Score(k, f)
  BY <1>4
<1>. QED BY <1>4, <1>5 DEF Outcome

\* Names that keep no token.
LEMMA NoTokens ==
  Jaccard({}, {}) = {One} /\ Similarity({}, {}) = {0}
BY DEF Jaccard, Similarity

LEMMA ConflictIsDifference ==
  ASSUME NEW l, NEW r
  PROVE  Conflicts(l, r) = {} <=> l = r
BY DEF Conflicts

-----------------------------------------------------------------------------
(* The theorems. *)

\* Every score of a pair lies in 0..One, so the thresholds cut it as they are meant to.
THEOREM ScoresInRange ==
  ASSUME NEW k \in {"artist", "release", "track"}, NEW l, NEW r, NEW o \in Outcomes(k, l, r)
  PROVE  o.score \in 0..One /\ o.conflict \in BOOLEAN
<1>1. \A f : Score(k, f) \subseteq 0..One
  BY RoundedRange DEF Score, ArtistScore, ReleaseScore, TrackScore
<1>2. PICK s \in Similarity(l.name, r.name) : \E f \in Features(k, l, r, s) :
        o.conflict = (f.conflicts # {}) /\ o.score \in Score(k, f) \cup {0}
  BY OutcomeOrigin
<1>3. PICK f \in Features(k, l, r, s) :
        o.conflict = (f.conflicts # {}) /\ o.score \in Score(k, f) \cup {0}
  BY <1>2
<1>4. o.conflict \in BOOLEAN
  BY <1>3, Zenon
<1>. QED BY <1>1, <1>3, <1>4 DEF One

\* Two entities whose names keep no token, whatever else agrees, score four
\* fifths at most, although the overlap of their names counts as full.
THEOREM NamelessIsUncertain ==
  ASSUME NEW k \in {"artist", "release", "track"}, NEW l, NEW r, Scored(l), Scored(r),
         l.name = {}, r.name = {}, NEW o \in Outcomes(k, l, r)
  PROVE  o.score <= 8000
<1>1. PICK s \in Similarity({}, {}) : \E f \in Features(k, l, r, s) :
        o.score \in Score(k, f) \cup {0}
  BY OutcomeOrigin
<1>2. PICK f \in Features(k, l, r, s) : o.score \in Score(k, f) \cup {0}
  BY <1>1
<1>3. s = 0 /\ s \in 0..One /\ 8000 \in 0..One
  BY <1>1, NoTokens DEF One
<1>4. CASE k = "artist"
  <2>1. PICK t \in 0..One, a \in 0..One : f.title = t /\ f.similarity = 0 /\ f.alias = a
    BY <1>2, <1>3, <1>4, ArtistFeatureRange DEF Features
  <2> DEFINE n == (45 * t) + (35 * 0) + (20 * a)
  <2>2. n \in Int /\ n <= 100 * 8000
    <3>1. t \in Int /\ t <= 10000 /\ a \in Int /\ a <= 10000
      BY SMT DEF One
    <3>. QED BY <3>1, SMT
  <2>3. o.score \in Rounded(n, 100) \cup {0}
    BY <1>2, <1>4, <2>1 DEF Score, ArtistScore
  <2> HIDE DEF n
  <2>. QED BY <1>3, <2>2, <2>3, RoundedBound
<1>5. CASE k = "release"
  <2>1. PICK t \in 0..One, a \in 0..One, y \in 0..One, c \in 0..One, v \in 0..One :
          /\ f.title = t /\ f.similarity = 0 /\ f.artist = a
          /\ f.year = y /\ f.count = c /\ f.version = v
    BY <1>2, <1>3, <1>5, ReleaseFeatureRange DEF Features
  <2>2. PICK p \in Nat : p = IF f.conflicts = {} THEN 0 ELSE 12 * One
    BY DEF One
  <2> DEFINE n == (32 * t) + (20 * 0) + (22 * a) + (12 * y) + (9 * c) + (5 * v) - p
  <2>3. n \in Int /\ n <= 100 * 8000
    BY SMT DEF One
  <2>4. o.score \in Rounded(n, 100) \cup {0}
    BY <1>2, <1>5, <2>1, <2>2 DEF Score, ReleaseScore
  <2> HIDE DEF n
  <2>. QED BY <1>3, <2>3, <2>4, RoundedBound
<1>6. CASE k = "track"
  <2>1. PICK t \in 0..One, a \in 0..One, d \in 0..One, b \in 0..One, v \in 0..One :
          /\ f.title = t /\ f.similarity = 0 /\ f.artist = a
          /\ f.duration = d /\ f.release = b /\ f.version = v
    BY <1>2, <1>3, <1>6, TrackFeatureRange DEF Features
  <2>2. PICK p \in Nat : p = IF f.conflicts = {} THEN 0 ELSE 10 * One
    BY DEF One
  <2>3. PICK q \in Nat : q = IF d < 2500 /\ t >= 8000 THEN 35 * One ELSE 0
    BY DEF One
  <2> DEFINE n == (30 * t) + (20 * 0) + (25 * a) + (15 * d) + (5 * b) + (5 * v) - p - q
  <2>4. n \in Int /\ n <= 100 * 8000
    BY SMT DEF One
  <2>5. o.score \in Rounded(n, 100) \cup {0}
    BY <1>2, <1>6, <2>1, <2>2, <2>3 DEF Score, TrackScore
  <2> HIDE DEF n
  <2>. QED BY <1>3, <2>4, <2>5, RoundedBound
<1>. QED BY <1>4, <1>5, <1>6

\* A track without duration and album, as a YouTube search lists it, scores
\* seven eighths at most with one that has an album.
THEOREM LoneAlbumIsUncertain ==
  ASSUME NEW l, NEW r, l.duration = Unknown, l.release = {}, r.release # {},
         NEW o \in Outcomes("track", l, r)
  PROVE  o.score <= 8750
<1>1. PICK s \in Similarity(l.name, r.name) : \E f \in TrackFeatures(l, r, s) :
        o.score \in TrackScore(f) \cup {0}
  BY OutcomeOrigin DEF Features, Score
<1>2. PICK f \in TrackFeatures(l, r, s) : o.score \in TrackScore(f) \cup {0}
  BY <1>1
<1>3. s \in 0..One
  BY <1>1, SimilarityRange
<1>4. f.duration = 5000 /\ f.release = 0
  <2>1. f.duration \in DurationScore(l.duration, r.duration) /\ f.release \in Jaccard(l.release, r.release)
    BY <1>2, <1>3, TrackFeatureRange
  <2>. QED BY <2>1 DEF DurationScore, Jaccard
<1>5. PICK t \in 0..One, u \in 0..One, a \in 0..One, v \in 0..One :
        f.title = t /\ f.similarity = u /\ f.artist = a /\ f.version = v
  BY <1>2, <1>3, TrackFeatureRange
<1> DEFINE p == IF f.conflicts = {} THEN 0 ELSE 10 * One
           n == (30 * t) + (20 * u) + (25 * a) + (15 * 5000) + (5 * 0) + (5 * v) - p - 0
<1>6. n \in Int /\ n <= 100 * 8750
  BY SMT DEF One
<1>7. o.score \in Rounded(n, 100) \cup {0}
  BY <1>2, <1>4, <1>5 DEF TrackScore
<1>8. 8750 \in 0..One
  BY DEF One
<1> HIDE DEF n
<1>. QED BY <1>6, <1>7, <1>8, RoundedBound

\* Tracks that are ninety seconds apart or more score 0.79 at most: the penalty
\* catches the pairs whose titles overlap enough to score more without it.
THEOREM FarApartIsUncertain ==
  ASSUME NEW l, NEW r, l.duration \in Nat, r.duration \in Nat,
         Distance(l.duration, r.duration) >= 90000, NEW o \in Outcomes("track", l, r)
  PROVE  o.score <= 7900
<1>1. PICK s \in Similarity(l.name, r.name) : \E f \in TrackFeatures(l, r, s) :
        o.score \in TrackScore(f) \cup {0}
  BY OutcomeOrigin DEF Features, Score
<1>2. PICK f \in TrackFeatures(l, r, s) : o.score \in TrackScore(f) \cup {0}
  BY <1>1
<1>3. s \in 0..One
  BY <1>1, SimilarityRange
<1>4. f.duration = 0
  <2>1. Distance(l.duration, r.duration) \in Nat
    BY DEF Distance
  <2>2. DurationScore(l.duration, r.duration) = Rounded(90000 - Distance(l.duration, r.duration), 9)
    BY ScoringAssumption DEF DurationScore
  <2>3. f.duration \in DurationScore(l.duration, r.duration)
    BY <1>2, <1>3, TrackFeatureRange
  <2>. QED BY <2>1, <2>2, <2>3, SMT DEF Rounded
<1>5. PICK t \in 0..One, u \in 0..One, a \in 0..One, b \in 0..One, v \in 0..One :
        f.title = t /\ f.similarity = u /\ f.artist = a /\ f.release = b /\ f.version = v
  BY <1>2, <1>3, TrackFeatureRange
<1> DEFINE p == IF f.conflicts = {} THEN 0 ELSE 10 * One
           q == IF t >= 8000 THEN 35 * One ELSE 0
           n == (30 * t) + (20 * u) + (25 * a) + (15 * 0) + (5 * b) + (5 * v) - p - q
<1>6. n \in Int /\ n <= 100 * 7900
  <2>1. CASE t >= 8000
    BY <2>1, SMT DEF One
  <2>2. CASE t < 8000
    BY <2>2, SMT DEF One
  <2>. QED BY <2>1, <2>2
<1>7. o.score \in Rounded(n, 100) \cup {0}
  BY <1>2, <1>4, <1>5 DEF TrackScore
<1>8. 7900 \in 0..One
  BY DEF One
<1> HIDE DEF n
<1>. QED BY <1>6, <1>7, <1>8, RoundedBound

\* Releases or tracks whose version tags differ are a conflict, which no score outweighs.
THEOREM OtherVersionConflicts ==
  ASSUME NEW k \in {"release", "track"}, NEW l, NEW r, Scored(l), Scored(r),
         NEW o \in Outcomes(k, l, r)
  PROVE  o.conflict <=> l.tags # r.tags
<1>1. PICK s \in Similarity(l.name, r.name) : \E f \in Features(k, l, r, s) :
        o.conflict = (f.conflicts # {})
  BY OutcomeOrigin
<1>0. PICK f \in Features(k, l, r, s) : o.conflict = (f.conflicts # {})
  BY <1>1
<1>2. s \in 0..One
  BY <1>1, SimilarityRange
<1>3. f.conflicts = Conflicts(l.tags, r.tags)
  BY <1>1, <1>0, <1>2, ReleaseFeatureRange, TrackFeatureRange DEF Features
<1>. QED BY <1>1, <1>0, <1>3, ConflictIsDifference

-----------------------------------------------------------------------------
(* Pairs that nothing tells apart. *)

\* Rounding does not push a sum below a bound it reaches.
LEMMA RoundedFloor ==
  ASSUME NEW n \in Int, NEW B \in 0..One, 100 * B <= n, NEW q \in Rounded(n, 100)
  PROVE  B <= q
<1>1. CASE n <= 0
  BY <1>1 DEF Rounded, One
<1>2. CASE n > 0 /\ n >= One * 100
  BY <1>2 DEF Rounded, One
<1>3. CASE n > 0 /\ n < One * 100
  <2>1. q \in 0..One /\ 2 * Distance(q * 100, n) <= 100
    BY <1>3 DEF Rounded, One
  <2>. QED BY <2>1 DEF Distance, One
<1>. QED BY <1>1, <1>2, <1>3 DEF One

LEMMA NothingAboveOne ==
  ASSUME NEW a \in 0..One, a >= One PROVE a = One
<1>1. a \in Int /\ a <= One /\ One \in Int
  BY DEF One
<1>2. \A x, y \in Int : x <= y /\ x >= y => x = y
  OBVIOUS
<1>. QED BY <1>1, <1>2

\* A text overlaps itself wholly, without tokens too.
LEMMA WholeOverlap ==
  ASSUME NEW x, IsFiniteSet(x) PROVE Jaccard(x, x) = {One} /\ Overlap(x, x) = {One}
<1>1. CASE x = {}
  BY <1>1 DEF Jaccard, Overlap
<1>2. CASE x # {}
  <2>1. PICK c \in Nat : c = Cardinality(x)
    BY FS_CardinalityType
  <2>2. c > 0
    BY <1>2, <2>1, FS_EmptySet
  <2>3. Rounded(One * c, c) = {One}
    BY <2>2 DEF Rounded, One
  <2>4. x \cap x = x /\ x \cup x = x
    OBVIOUS
  <2>. QED BY <1>2, <2>1, <2>3, <2>4 DEF Jaccard, Overlap
<1>. QED BY <1>1, <1>2

\* Of a field: equal, or one side does not say.
Agree(a, b) == a = b \/ Unknown \in {a, b}

LEMMA FieldScores ==
  ASSUME NEW a, NEW b, a \in Nat \cup {Unknown}, b \in Nat \cup {Unknown}, Agree(a, b)
  PROVE  /\ YearScore(a, b) \in {5000, One}
         /\ CountScore(a, b) \subseteq {5000, One}
         /\ DurationScore(a, b) \subseteq {5000, One}
<1>1. CASE a = Unknown \/ b = Unknown
  BY <1>1 DEF YearScore, CountScore, DurationScore
<1>2. CASE a # Unknown /\ b # Unknown
  <2>1. a = b /\ a \in Nat
    BY <1>2 DEF Agree
  <2>2. Distance(a, b) = 0
    BY <2>1 DEF Distance
  <2>3. Rounded(90000 - 0, 9) = {One}
    BY DEF Rounded, One
  <2>. QED BY <1>2, <2>1, <2>2, <2>3 DEF YearScore, CountScore, DurationScore
<1>. QED BY <1>1, <1>2

LEMMA EntityFinite ==
  ASSUME NEW k \in {"artist", "release", "track"}, NEW e \in Entity(k)
  PROVE  /\ IsFiniteSet(e.name) /\ IsFiniteSet(e.artists)
         /\ IsFiniteSet(e.release) /\ IsFiniteSet(e.tags)
         /\ e.year \in Nat \cup {Unknown} /\ e.count \in Nat \cup {Unknown}
         /\ e.duration \in Nat \cup {Unknown}
<1>1. IsFiniteSet({})
  BY FS_EmptySet
<1>2. e.name \in Names /\ e.artists \in ArtistSets \cup {{}}
      /\ e.release \in Albums \cup {{}} /\ e.tags \in TagSets \cup {{}}
  BY DEF Entity
<1>3. /\ e.year \in Years \cup {Unknown} /\ e.count \in Counts \cup {Unknown}
      /\ e.duration \in Durations \cup {Unknown}
  BY DEF Entity
<1>. QED BY <1>1, <1>2, <1>3, ScoringAssumption

\* Two entities whose names, artists, release and tags are the same, and whose
\* year, count and duration are the same or missing, are never a conflict and
\* score 0.895 at least: what is missing costs no more than that.
THEOREM TwinsScoreHigh ==
  ASSUME NEW k \in {"artist", "release", "track"}, NEW l \in Entity(k), NEW r \in Entity(k),
         l.name = r.name, l.artists = r.artists, l.release = r.release, l.tags = r.tags,
         Agree(l.year, r.year), Agree(l.count, r.count), Agree(l.duration, r.duration),
         NEW o \in Outcomes(k, l, r), o.similarity = One
  PROVE  o.score >= 8950 /\ ~ o.conflict
<1>1. /\ Jaccard(l.name, r.name) = {One} /\ Overlap(l.name, r.name) = {One}
      /\ Overlap(l.artists, r.artists) = {One} /\ Jaccard(l.release, r.release) = {One}
      /\ Jaccard(l.tags, r.tags) = {One}
  BY EntityFinite, WholeOverlap
<1>2. Conflicts(l.tags, r.tags) = {} /\ VersionScore(l.tags, r.tags) = {One}
  BY <1>1, ConflictIsDifference DEF VersionScore
<1>3. PICK s \in Similarity(l.name, r.name) : \E f \in Features(k, l, r, s) :
        /\ o.similarity = f.similarity /\ o.conflict = (f.conflicts # {})
        /\ o.score \in Score(k, f)
  <2>1. ASSUME NEW f PROVE Generated(k, f, One, One)
    BY ScoringAssumption DEF Generated, One
  <2>2. \A t \in Similarity(l.name, r.name) : \A f \in Features(k, l, r, t) :
          \A names \in Overlap(l.name, r.name), artists \in Overlap(l.artists, r.artists) :
            Generated(k, f, names, artists)
    <3>1. \A names \in {One}, artists \in {One} : \A f : Generated(k, f, names, artists)
      BY <2>1
    <3>. QED BY <1>1, <3>1
  <2>. QED BY <2>2, GeneratedOrigin
<1>4. PICK f \in Features(k, l, r, s) :
        /\ o.similarity = f.similarity /\ o.conflict = (f.conflicts # {})
        /\ o.score \in Score(k, f)
  BY <1>3
<1>5. s \in 0..One /\ 8950 \in 0..One
  BY <1>3, SimilarityRange DEF One
\* It remains to bound the sum from below.
<1>6. ASSUME NEW n \in Int, 100 * 8950 <= n, o.score \in Rounded(n, 100), f.conflicts = {}
      PROVE  o.score >= 8950 /\ ~ o.conflict
  <2>1. PICK q \in Rounded(n, 100) : q = o.score
    BY <1>6
  <2>2. q \in 0..One
    BY RoundedRange
  <2>3. 8950 <= q
    BY <1>5, <1>6, RoundedFloor
  <2>4. q >= 8950
    BY <2>2, <2>3 DEF One
  <2>5. ~ o.conflict
    <3>1. ~ (f.conflicts # {})
      BY <1>6
    <3>. QED BY <1>4, <3>1, Zenon
  <2>. QED BY <2>1, <2>4, <2>5
<1>7. CASE k = "artist"
  <2>1. /\ f.title = One /\ f.similarity = s /\ f.conflicts = {}
        /\ f.alias \in 0..One /\ f.alias \in AliasOverlap(l, r, s)
    BY <1>1, <1>4, <1>5, <1>7, ArtistFeatureRange DEF Features, ArtistFeatures
  <2>2. s = One /\ f.alias >= s
    BY <1>3, <1>4, <2>1 DEF AliasOverlap
  <2>3. f.alias = One
    BY <2>1, <2>2, NothingAboveOne
  <2> DEFINE n == (45 * One) + (35 * One) + (20 * One)
  <2>4. n \in Int /\ 100 * 8950 <= n
    BY DEF One
  <2>5. o.score \in Rounded(n, 100)
    <3>1. Score(k, f) = Rounded((45 * f.title) + (35 * f.similarity) + (20 * f.alias), 100)
      BY <1>7 DEF Score, ArtistScore
    <3>. QED BY <1>4, <2>1, <2>2, <2>3, <3>1, Zenon
  <2> HIDE DEF n
  <2>. QED BY <1>6, <2>1, <2>4, <2>5
<1>8. CASE k = "release"
  <2>1. /\ f.title = One /\ f.similarity = s /\ f.artist = One /\ f.version = One
        /\ f.year = YearScore(l.year, r.year) /\ f.count \in CountScore(l.count, r.count)
        /\ f.conflicts = {}
    BY <1>1, <1>2, <1>4, <1>8 DEF Features, ReleaseFeatures
  <2>2. PICK y \in {5000, One}, c \in {5000, One} : f.year = y /\ f.count = c
    <3>1. /\ l.year \in Nat \cup {Unknown} /\ r.year \in Nat \cup {Unknown}
          /\ l.count \in Nat \cup {Unknown} /\ r.count \in Nat \cup {Unknown}
      BY EntityFinite
    <3>2. PICK a, b : a = l.year /\ b = r.year
      OBVIOUS
    <3>3. YearScore(a, b) \in {5000, One}
      BY <3>1, <3>2, FieldScores
    <3>4. PICK e, g : e = l.count /\ g = r.count
      OBVIOUS
    <3>5. CountScore(e, g) \subseteq {5000, One}
      BY <3>1, <3>4, FieldScores
    <3>6. f.year \in {5000, One} /\ f.count \in {5000, One}
      BY <2>1, <3>2, <3>3, <3>4, <3>5
    <3>. QED BY <3>6
  <2>3. s = One
    BY <1>4, <2>1
  <2> DEFINE n == (32 * One) + (20 * One) + (22 * One) + (12 * y) + (9 * c) + (5 * One) - 0
  <2>4. n \in Int /\ 100 * 8950 <= n
    BY DEF One
  <2>5. o.score \in Rounded(n, 100)
    <3>1. PICK m : m = (32 * f.title) + (20 * f.similarity) + (22 * f.artist)
                       + (12 * f.year) + (9 * f.count) + (5 * f.version)
                       - (IF f.conflicts = {} THEN 0 ELSE 12 * One)
      OBVIOUS
    <3>2. Score(k, f) = Rounded(m, 100)
      BY <1>8, <3>1 DEF Score, ReleaseScore
    <3>3. m = n
      BY <2>1, <2>2, <2>3, <3>1
    <3> HIDE DEF n
    <3>6. Score(k, f) = Rounded(n, 100)
      BY <3>2, <3>3
    <3>. QED BY <1>4, <3>6
  <2> HIDE DEF n
  <2>. QED BY <1>6, <2>1, <2>4, <2>5
<1>9. CASE k = "track"
  <2>1. /\ f.title = One /\ f.similarity = s /\ f.artist = One /\ f.version = One
        /\ f.duration \in DurationScore(l.duration, r.duration) /\ f.release = One
        /\ f.conflicts = {}
    BY <1>1, <1>2, <1>4, <1>9 DEF Features, TrackFeatures
  <2>2. PICK d \in {5000, One} : f.duration = d
    <3>1. l.duration \in Nat \cup {Unknown} /\ r.duration \in Nat \cup {Unknown}
      BY EntityFinite
    <3>2. PICK a, b : a = l.duration /\ b = r.duration
      OBVIOUS
    <3>3. DurationScore(a, b) \subseteq {5000, One}
      BY <3>1, <3>2, FieldScores
    <3>. QED BY <2>1, <3>2, <3>3
  <2>3. s = One
    BY <1>4, <2>1
  <2> DEFINE n == (30 * One) + (20 * One) + (25 * One) + (15 * d) + (5 * One) + (5 * One) - 0 - 0
  <2>4. n \in Int /\ 100 * 8950 <= n
    BY DEF One
  <2>5. o.score \in Rounded(n, 100)
    <3>1. PICK m : m = (30 * f.title) + (20 * f.similarity) + (25 * f.artist)
                       + (15 * f.duration) + (5 * f.release) + (5 * f.version)
                       - (IF f.conflicts = {} THEN 0 ELSE 10 * One)
                       - (IF f.duration < 2500 /\ f.title >= 8000 THEN 35 * One ELSE 0)
      OBVIOUS
    <3>2. Score(k, f) = Rounded(m, 100)
      BY <1>9, <3>1 DEF Score, TrackScore
    <3>3. ~ (d < 2500)
      BY DEF One
    <3>4. (IF f.duration < 2500 /\ f.title >= 8000 THEN 35 * One ELSE 0) = 0
      BY <2>2, <3>3
    <3>5. m = n
      BY <2>1, <2>2, <2>3, <3>1, <3>4
    <3> HIDE DEF n
    <3>6. Score(k, f) = Rounded(n, 100)
      BY <3>2, <3>5
    <3>. QED BY <1>4, <3>6
  <2> HIDE DEF n
  <2>. QED BY <1>6, <2>1, <2>4, <2>5
<1>. QED BY <1>7, <1>8, <1>9
=============================================================================
