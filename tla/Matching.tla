------------------------------ MODULE Matching ------------------------------
(***************************************************************************)
(* How a live search turns the hits of the two platforms into its answer:  *)
(* kind by kind, each youtube hit in the order listed takes the yandex hit *)
(* that MatchingService decides for, out of those that no earlier one has  *)
(* taken; then come the yandex hits that are left over.                    *)
(*                                                                         *)
(* What a platform lists are hits, an entity under its provider_id; it may *)
(* list one twice.  What Scoring says of a pair is settled by their texts, *)
(* of which Scoring sees less: any of its outcomes, but always the same.   *)
(***************************************************************************)
EXTENDS Scoring, Sequences

Kinds == <<"artist", "release", "track">>

CONSTANTS
  Ids,          \* provider ids; each platform and kind has its own
  Worlds,       \* what each platform may list: sets of lists of hits by kind
  Ambiguous, Automatic, Gap,    \* thresholds
  NoHit

Turns == 1..Len(Kinds)

\* What the search of the YouTube client can fill in: of a video it knows neither
\* duration nor album, of a playlist no count, and one artist at most, the channel.
YoutubeEntity(k) ==
  {e \in Entity(k) : /\ e.aliases = {} /\ Cardinality(e.artists) <= 1
                     /\ e.count = Unknown /\ e.duration = Unknown /\ e.release = {}}

Hit(k) == [id : Ids, entity : Entity(Kinds[k])]

Hits == UNION {Hit(k) : k \in Turns}

\* What yandex lists twice under one id is the same entity: the merge looks the
\* match up again by its provider_id.
OneEntityPerId ==
  \A w \in Worlds : \A lists \in w.yandex : \A k \in Turns : \A m, n \in DOMAIN lists[k] :
    lists[k][m].id = lists[k][n].id => lists[k][m] = lists[k][n]

ASSUME MatchingAssumption ==
  /\ Ambiguous \in Nat /\ Automatic \in Nat /\ Gap \in Nat
  /\ NoHit \notin Hits
  /\ \A w \in Worlds : \A lists \in w.youtube \cup w.yandex :
       DOMAIN lists = Turns /\ \A k \in Turns : lists[k] \in Seq(Hit(k))
  /\ \A w \in Worlds : \A lists \in w.youtube : \A k \in Turns : \A i \in DOMAIN lists[k] :
       lists[k][i].entity \in YoutubeEntity(Kinds[k])
  /\ OneEntityPerId

VARIABLES
  youtube, yandex,    \* what the platforms list, by kind
  alike,              \* what Scoring says of a pair
  kind,               \* the kinds merged so far, and the one in turn
  merged,             \* how many of its hits are merged, youtube's first
  used,               \* used_right_ids, of the kind in turn
  items,              \* merged_results
  answer              \* the items in the order of the answer

vars == <<youtube, yandex, alike, kind, merged, used, items, answer>>

given == <<youtube, yandex, alike>>

-----------------------------------------------------------------------------
Decisions == {"auto", "ambiguous", "reject"}

\* left is the place of a youtube hit in its list, 0 for none.
Item == [kind : Turns, left : Nat, right : Hits \cup {NoHit},
         decision : Decisions, score : Nat]

\* What the scorer may say of the pairs of a kind.
Tables(k, ls, rs) ==
  LET pairs == {ls[i] : i \in DOMAIN ls} \X {rs[i] : i \in DOMAIN rs}
      of(p) == Outcomes(Kinds[k], p[1].entity, p[2].entity)
  IN  {t \in [pairs -> UNION {of(p) : p \in pairs}] : \A p \in pairs : t[p] \in of(p)}

Init ==
  /\ \E w \in Worlds : youtube \in w.youtube /\ yandex \in w.yandex
  /\ \E artists  \in Tables(1, youtube[1], yandex[1]),
        releases \in Tables(2, youtube[2], yandex[2]),
        tracks   \in Tables(3, youtube[3], yandex[3]) :
       alike = <<artists, releases, tracks>>
  /\ kind = 1 /\ merged = 0 /\ used = {}
  /\ items = <<>> /\ answer = <<>>

\* Mutants, here and below, are definitions changed as a plausible bug would.

-----------------------------------------------------------------------------
(* The decision on a youtube hit *)

ScoreOf(l, r) == alike[kind][<<l, r>>].score

\* The places of what is left of the other list and is worth considering.
Considered(l) ==
  {n \in DOMAIN yandex[kind] :
     yandex[kind][n].id \notin used /\ ScoreOf(l, yandex[kind][n]) >= Candidate}

\* Mutant: the sort is ascending.
MutBest(l, n) ==
  /\ n \in Considered(l)
  /\ \A m \in Considered(l) :
       \/ ScoreOf(l, yandex[kind][m]) > ScoreOf(l, yandex[kind][n])
       \/ ScoreOf(l, yandex[kind][m]) = ScoreOf(l, yandex[kind][n]) /\ n <= m

\* The first one after the stable sort by score.
Best(l, n) ==
  /\ n \in Considered(l)
  /\ \A m \in Considered(l) :
       \/ ScoreOf(l, yandex[kind][m]) < ScoreOf(l, yandex[kind][n])
       \/ ScoreOf(l, yandex[kind][m]) = ScoreOf(l, yandex[kind][n]) /\ n <= m

\* Whether the next best is too close.  A gap of exactly Gap may, in binary
\* fractions, fall short of it.
TooClose(l, n) ==
  LET gaps == {ScoreOf(l, yandex[kind][n]) - ScoreOf(l, yandex[kind][m]) :
                 m \in Considered(l) \ {n}} IN
  IF \E g \in gaps : g < Gap THEN {TRUE} ELSE IF Gap \in gaps THEN BOOLEAN ELSE {FALSE}

\* Mutant: a close second does not matter.
MutVerdict(l, r, close) ==
  IF ScoreOf(l, r) < Ambiguous THEN "reject"
  ELSE IF ScoreOf(l, r) < Automatic \/ alike[kind][<<l, r>>].conflict THEN "ambiguous" ELSE "auto"

Verdict(l, r, close) ==
  IF ScoreOf(l, r) < Ambiguous THEN "reject"
  ELSE IF ScoreOf(l, r) < Automatic \/ close \/ alike[kind][<<l, r>>].conflict
  THEN "ambiguous" ELSE "auto"

-----------------------------------------------------------------------------
(* The merge *)

Lefts  == Len(youtube[kind])
Rights == Len(yandex[kind])

\* The youtube hit in turn is persisted, with the right one unless that is none.
Merge(right, decision, score) ==
  /\ items' = Append(items, [kind |-> kind, left |-> merged + 1, right |-> right,
                             decision |-> decision, score |-> score])
  /\ merged' = merged + 1
  /\ used' = IF right = NoHit THEN used ELSE used \cup {right.id}
  /\ UNCHANGED <<given, kind, answer>>

MatchNone ==
  /\ kind \in Turns /\ merged < Lefts
  /\ Considered(youtube[kind][merged + 1]) = {}
  /\ Merge(NoHit, "reject", 0)

\* A best one that is rejected leaves its score behind.
MatchBest ==
  /\ kind \in Turns /\ merged < Lefts
  /\ LET l == youtube[kind][merged + 1] IN
     \E n \in DOMAIN yandex[kind] : Best(l, n) /\ \E close \in TooClose(l, n) :
       LET r == yandex[kind][n]  verdict == Verdict(l, r, close) IN
       Merge(IF verdict = "reject" THEN NoHit ELSE r, verdict, ScoreOf(l, r))

\* A yandex hit that nobody took is persisted alone.
LeaveOver ==
  /\ kind \in Turns /\ merged >= Lefts /\ merged < Lefts + Rights
  /\ LET r == yandex[kind][(merged - Lefts) + 1] IN
     items' = IF r.id \in used THEN items
              ELSE Append(items, [kind |-> kind, left |-> 0, right |-> r,
                                  decision |-> "reject", score |-> 0])
  /\ merged' = merged + 1
  /\ UNCHANGED <<given, kind, used, answer>>

\* Mutant: one set of used ids serves all kinds.
MutNextKind ==
  /\ kind \in Turns /\ merged = Lefts + Rights
  /\ kind' = kind + 1 /\ merged' = 0
  /\ UNCHANGED <<given, used, items, answer>>

\* Mutant: the count of the last kind is kept.
MutStayInKind ==
  /\ kind \in Turns /\ merged = Lefts + Rights
  /\ kind' = kind + 1 /\ used' = {}
  /\ UNCHANGED <<given, merged, items, answer>>

NextKind ==
  /\ kind \in Turns /\ merged = Lefts + Rights
  /\ kind' = kind + 1 /\ merged' = 0 /\ used' = {}
  /\ UNCHANGED <<given, items, answer>>

Rank(d) == CASE d = "auto" -> 0 [] d = "ambiguous" -> 1 [] d = "reject" -> 2

\* The key of sorted(), and the order of the merge where it is equal.
Before(i, j) ==
  LET a == items[i]  b == items[j] IN
  \/ Rank(a.decision) < Rank(b.decision)
  \/ Rank(a.decision) = Rank(b.decision) /\ a.score > b.score
  \/ Rank(a.decision) = Rank(b.decision) /\ a.score = b.score /\ i < j

\* The places before that of an item.
Ahead(i) == Cardinality({j \in DOMAIN items : Before(j, i)})

Answer ==
  /\ kind = Len(Kinds) + 1 /\ answer = <<>> /\ items # <<>>
  /\ answer' = [p \in DOMAIN items |-> items[CHOOSE i \in DOMAIN items : Ahead(i) = p - 1]]
  /\ UNCHANGED <<given, kind, merged, used, items>>

Next == MatchNone \/ MatchBest \/ LeaveOver \/ NextKind \/ Answer

Spec == Init /\ [][Next]_vars

-----------------------------------------------------------------------------
(* Properties *)

\* Every variable holds a value of its kind.
TypeOK ==
  /\ \E w \in Worlds : youtube \in w.youtube /\ yandex \in w.yandex
  /\ DOMAIN alike = Turns
  /\ kind \in 1..(Len(Kinds) + 1) /\ merged \in Nat
  /\ kind \in Turns => merged <= Lefts + Rights
  /\ used \subseteq Ids
  /\ items \in Seq(Item) /\ answer \in Seq(Item)

ItemsOf(seq, k) == {i \in DOMAIN seq : seq[i].kind = k}

\* The answer shows every hit: a youtube hit as often as it was listed, and a
\* yandex hit either in one match or, as often as it was listed, alone; hits
\* of different kinds do not meet even if their ids are equal.
EveryHitShown ==
  answer # <<>> =>
    \A k \in Turns :
      /\ \A n \in DOMAIN youtube[k] :
           Cardinality({i \in ItemsOf(answer, k) : answer[i].left = n}) = 1
      /\ \A n \in DOMAIN yandex[k] :
           LET shown  == {i \in ItemsOf(answer, k) : answer[i].right = yandex[k][n]}
               listed == {m \in DOMAIN yandex[k] : yandex[k][m] = yandex[k][n]}
           IN  \/ Cardinality(shown) = 1 /\ \A i \in shown : answer[i].left # 0
               \/ Cardinality(shown) = Cardinality(listed) /\ \A i \in shown : answer[i].left = 0

\* An earlier item of the kind has the yandex hit.
Taken(r, k, i) ==
  \E j \in 1..(i - 1) :
    items[j].kind = k /\ items[j].right # NoHit /\ items[j].right.id = r.id

\* A youtube hit goes without a yandex hit that is like it, or has one that is
\* less like it, only if an earlier youtube hit has taken that one.
OnlyEarlierTakes ==
  \A i \in DOMAIN items : items[i].left # 0 =>
    LET k == items[i].kind  l == youtube[k][items[i].left] IN
    \A n \in DOMAIN yandex[k] :
      LET r == yandex[k][n] IN
      alike[k][<<l, r>>].score >= Ambiguous /\ alike[k][<<l, r>>].score >= Candidate =>
        \/ items[i].right # NoHit /\ items[i].score >= alike[k][<<l, r>>].score
        \/ Taken(r, k, i)

\* A match without doubt has no rival: no other place of the list that was not
\* taken by an earlier match comes near it, a repetition of the same hit included;
\* and no yandex hit is matched twice.
AutoHasNoRival ==
  \A i \in DOMAIN items : items[i].decision = "auto" =>
    LET k == items[i].kind  l == youtube[k][items[i].left] IN
    /\ ~ Taken(items[i].right, k, i)
    /\ \E best \in DOMAIN yandex[k] :
         /\ yandex[k][best] = items[i].right
         /\ \A n \in DOMAIN yandex[k] \ {best} :
              LET r == yandex[k][n] IN
              \/ alike[k][<<l, r>>].score < Candidate
              \/ items[i].score - alike[k][<<l, r>>].score >= Gap
              \/ Taken(r, k, i)

\* Equal names, which are not empty, and nothing that is known of both differs:
\* a release without a track count, a track without duration and album.
Twins(k, l, r) ==
  /\ l.entity.name # {} /\ alike[k][<<l, r>>].similarity = One
  /\ \A field \in {"name", "artists", "release", "tags"} : l.entity[field] = r.entity[field]
  /\ \A field \in {"year", "count", "duration"} :
       l.entity[field] = r.entity[field] \/ Unknown \in {l.entity[field], r.entity[field]}

\* Such a pair is a match without doubt, however little else is known of it,
\* unless an earlier youtube hit has taken the yandex hit or a rival is near.
TwinsAreAuto ==
  \A i \in DOMAIN items : items[i].left # 0 =>
    LET k == items[i].kind  l == youtube[k][items[i].left] IN
    \A n \in DOMAIN yandex[k] : Twins(k, l, yandex[k][n]) =>
      \/ items[i].decision = "auto"
      \/ Taken(yandex[k][n], k, i)
      \/ \E m \in DOMAIN yandex[k] \ {n} :
           /\ ~ Taken(yandex[k][m], k, i)
           /\ alike[k][<<l, yandex[k][m]>>].score >= alike[k][<<l, yandex[k][n]>>].score - Gap

\* Names of which the normal form keeps nothing are all alike.
Nameless(l, r) == l.name = {} /\ r.name = {}

\* What is only likely does not become certain by what else agrees: neither
\* another version, nor a name of which the normal form keeps nothing, nor a
\* track whose album and duration only the yandex side knows, the album counting
\* as a difference.
AutoIsEarned ==
  \A i \in DOMAIN items : items[i].decision = "auto" =>
    LET k == items[i].kind  l == youtube[k][items[i].left].entity  r == items[i].right.entity IN
    /\ ~ Nameless(l, r) /\ l.tags = r.tags
    /\ k = 3 => r.release = {}
=============================================================================
