--------------------------- MODULE MatchingProofs --------------------------
(***************************************************************************)
(* Proofs about Matching, for lists of any length, any thresholds but      *)
(* where a theorem says otherwise, and any scores that Scoring allows:     *)
(* first what an item says of the hits, which needs IInv alone, then that  *)
(* the answer shows every hit, which counts them off in SInv.              *)
(***************************************************************************)
EXTENDS Matching, ScoringProofs, SequenceTheorems

KindsAre == Kinds[1] = "artist" /\ Kinds[2] = "release" /\ Kinds[3] = "track"

LEMMA KindFacts ==
  /\ Len(Kinds) = 3 /\ Turns = 1..3 /\ KindsAre
  /\ \A k \in Turns : Kinds[k] \in {"artist", "release", "track"}
BY DEF Kinds, Turns, KindsAre

-----------------------------------------------------------------------------
(* The inductive invariant. *)

\* The lists are lists of hits.
ListsSound ==
  \A k \in Turns : /\ youtube[k] \in Seq(Hit(k)) /\ yandex[k] \in Seq(Hit(k))
                   /\ \A n \in DOMAIN youtube[k] :
                        youtube[k][n].entity \in YoutubeEntity(Kinds[k])

\* What is said of a pair is what Scoring allows.
AlikeSound ==
  \A k \in Turns : \A m \in DOMAIN youtube[k], n \in DOMAIN yandex[k] :
    alike[k][<<youtube[k][m], yandex[k][n]>>] \in
      Outcomes(Kinds[k], youtube[k][m].entity, yandex[k][n].entity)

\* The merge is at its place, and its items are items.
PlaceSound ==
  /\ kind \in 1..4 /\ merged \in Nat
  /\ items \in Seq(Item)
  /\ \A i \in DOMAIN items : items[i].kind <= kind

\* used names the yandex hits that the youtube hits of the kind have taken.
UsedSound ==
  /\ \A id \in used : \E j \in DOMAIN items :
       items[j].kind = kind /\ items[j].right # NoHit /\ items[j].right.id = id
  /\ \A j \in DOMAIN items :
       items[j].kind = kind /\ items[j].left # 0 /\ items[j].right # NoHit =>
         items[j].right.id \in used

\* A kind's yandex hits are left over only when its youtube hits are merged.
LeftsFirst ==
  \A j \in DOMAIN items :
    kind \in Turns /\ items[j].kind = kind /\ items[j].left = 0 => merged > Lefts

\* An item without a youtube hit is no match.
LoneIsRejected == \A i \in DOMAIN items : items[i].left = 0 => items[i].decision = "reject"

IInv ==
  /\ ListsSound /\ AlikeSound /\ PlaceSound /\ UsedSound /\ LeftsFirst /\ LoneIsRejected

LEMMA Thresholds ==
  Ambiguous \in Nat /\ Automatic \in Nat /\ Gap \in Nat
BY MatchingAssumption

\* What the scorer needs of an entity.
LEMMA EntityFacts ==
  ASSUME NEW k \in {"artist", "release", "track"}, NEW e \in Entity(k)
  PROVE  Scored(e) /\ (k = "artist" => e.tags = {})
<1>1. /\ e.year \in (IF k = "release" THEN Years \cup {Unknown} ELSE {Unknown})
      /\ e.duration \in (IF k = "track" THEN Durations \cup {Unknown} ELSE {Unknown})
      /\ e.tags \in (IF k = "artist" THEN {{}} ELSE TagSets)
  BY DEF Entity
<1>. QED BY <1>1, ScoringAssumption DEF Scored

LEMMA GivenKept ==
  ASSUME [Next]_vars
  PROVE  UNCHANGED given
BY DEF Next, vars, given, MatchNone, MatchBest, Merge, LeaveOver, NextKind, Answer

LEMMA ScoresAreInts ==
  ASSUME ListsSound, AlikeSound, NEW k \in Turns,
         NEW m \in DOMAIN youtube[k], NEW n \in DOMAIN yandex[k]
  PROVE  alike[k][<<youtube[k][m], yandex[k][n]>>].score \in 0..One
<1>1. PICK l : l = youtube[k][m]
  OBVIOUS
<1>2. PICK r : r = yandex[k][n]
  OBVIOUS
<1>3. alike[k][<<l, r>>] \in Outcomes(Kinds[k], l.entity, r.entity)
  BY <1>1, <1>2 DEF AlikeSound
<1>4. Kinds[k] \in {"artist", "release", "track"}
  BY KindFacts
<1>5. PICK o : o = alike[k][<<l, r>>]
  OBVIOUS
<1>6. o.score \in 0..One
  BY <1>3, <1>4, <1>5, ScoresInRange
<1>. QED BY <1>1, <1>2, <1>5, <1>6

-----------------------------------------------------------------------------
(* What the actions do to the items. *)

\* One more item, of the kind in turn.
Appends(it) == items' = Append(items, it) /\ it \in Item /\ it.kind = kind

LEMMA AppendFacts ==
  ASSUME items \in Seq(Item), NEW it \in Item, items' = Append(items, it)
  PROVE  /\ items' \in Seq(Item) /\ Len(items') = Len(items) + 1
         /\ DOMAIN items = 1..Len(items) /\ DOMAIN items' = 1..(Len(items) + 1)
         /\ \A i \in DOMAIN items : items'[i] = items[i]
         /\ items'[Len(items) + 1] = it
OBVIOUS

LEMMA NoneEffect ==
  ASSUME IInv, MatchNone
  PROVE  LET it == [kind |-> kind, left |-> merged + 1, right |-> NoHit,
                    decision |-> "reject", score |-> 0]
         IN  /\ it \in Item /\ items' = Append(items, it)
             /\ kind \in Turns /\ merged < Lefts /\ merged' = merged + 1
             /\ Considered(youtube[kind][merged + 1]) = {}
             /\ used' = used /\ kind' = kind
BY DEF MatchNone, Merge, Item, Decisions, IInv, PlaceSound

LEMMA BestEffect ==
  ASSUME IInv, MatchBest
  PROVE  /\ kind \in Turns /\ merged < Lefts /\ merged + 1 \in DOMAIN youtube[kind]
         /\ merged' = merged + 1 /\ kind' = kind
         /\ \E n \in DOMAIN yandex[kind] : \E close \in BOOLEAN :
              LET l == youtube[kind][merged + 1]
                  r == yandex[kind][n]
                  verdict == Verdict(l, r, close)
                  right == IF verdict = "reject" THEN NoHit ELSE r
                  it == [kind |-> kind, left |-> merged + 1, right |-> right,
                         decision |-> verdict, score |-> ScoreOf(l, r)]
              IN  /\ Best(l, n) /\ close \in TooClose(l, n)
                  /\ r \in Hits /\ r # NoHit /\ ScoreOf(l, r) \in 0..One
                  /\ it \in Item /\ items' = Append(items, it)
                  /\ used' = IF verdict = "reject" THEN used ELSE used \cup {r.id}
<1>1. kind \in Turns /\ merged < Lefts /\ merged' = merged + 1 /\ kind' = kind
  BY DEF MatchBest, Merge
<1>2. merged + 1 \in DOMAIN youtube[kind]
  BY <1>1 DEF Lefts, IInv, ListsSound, PlaceSound
<1> DEFINE l == youtube[kind][merged + 1]
<1>3. PICK n \in DOMAIN yandex[kind] : Best(l, n) /\ \E close \in TooClose(l, n) :
        LET r == yandex[kind][n]  verdict == Verdict(l, r, close) IN
        Merge(IF verdict = "reject" THEN NoHit ELSE r, verdict, ScoreOf(l, r))
  BY DEF MatchBest
<1> DEFINE r == yandex[kind][n]
<1>4. PICK close \in TooClose(l, n) :
        Merge(IF Verdict(l, r, close) = "reject" THEN NoHit ELSE r,
              Verdict(l, r, close), ScoreOf(l, r))
  BY <1>3
<1> DEFINE verdict == Verdict(l, r, close)
           right == IF verdict = "reject" THEN NoHit ELSE r
           it == [kind |-> kind, left |-> merged + 1, right |-> right,
                  decision |-> verdict, score |-> ScoreOf(l, r)]
<1>5. close \in BOOLEAN
  BY <1>4 DEF TooClose
<1>6. r \in Hits /\ r # NoHit
  <2>1. r \in Hit(kind)
    BY <1>1, <1>3 DEF IInv, ListsSound
  <2>. QED BY <1>1, <2>1, MatchingAssumption DEF Hits
<1>7. ScoreOf(l, r) \in 0..One
  BY <1>1, <1>2, <1>3, ScoresAreInts DEF ScoreOf, IInv
<1>8. it \in Item
  <2>1. verdict \in Decisions
    BY DEF Verdict, Decisions
  <2>2. right \in Hits \cup {NoHit}
    BY <1>6
  <2>3. merged + 1 \in Nat /\ ScoreOf(l, r) \in Nat
    BY <1>7 DEF IInv, PlaceSound
  <2> HIDE DEF verdict, right
  <2>. QED BY <1>1, <2>1, <2>2, <2>3 DEF Item
<1>9. items' = Append(items, it)
  BY <1>4 DEF Merge
<1>10. used' = IF verdict = "reject" THEN used ELSE used \cup {r.id}
  BY <1>4, <1>6 DEF Merge
<1>. QED BY <1>1, <1>2, <1>3, <1>4, <1>5, <1>6, <1>7, <1>8, <1>9, <1>10

LEMMA LeaveEffect ==
  ASSUME IInv, LeaveOver
  PROVE  /\ kind \in Turns /\ merged >= Lefts /\ merged' = merged + 1 /\ Lefts \in Nat
         /\ used' = used /\ kind' = kind
         /\ \/ items' = items
            \/ \E it \in Item : /\ items' = Append(items, it) /\ it.kind = kind
                                /\ it.left = 0 /\ it.decision = "reject"
<1>1. /\ kind \in Turns /\ merged >= Lefts /\ merged' = merged + 1
      /\ used' = used /\ kind' = kind
      /\ merged < Lefts + Rights
  BY DEF LeaveOver
<1>2. Lefts \in Nat /\ Rights \in Nat /\ merged \in Nat
  BY <1>1 DEF Lefts, Rights, IInv, ListsSound, PlaceSound
<1> DEFINE n == (merged - Lefts) + 1
           it == [kind |-> kind, left |-> 0, right |-> yandex[kind][n],
                  decision |-> "reject", score |-> 0]
<1>3. n \in DOMAIN yandex[kind]
  BY <1>1, <1>2 DEF Rights, IInv, ListsSound
<1>4. yandex[kind][n] \in Hits
  <2>1. yandex[kind][n] \in Hit(kind)
    BY <1>1, <1>3 DEF IInv, ListsSound
  <2>. QED BY <1>1, <2>1 DEF Hits
<1>5. it \in Item
  BY <1>1, <1>4 DEF Item, Decisions
<1>6. items' \in {items, Append(items, it)}
  BY DEF LeaveOver
<1>. QED BY <1>1, <1>2, <1>5, <1>6

LEMMA QuietEffect ==
  ASSUME Answer \/ UNCHANGED vars
  PROVE  UNCHANGED <<given, kind, merged, used, items>>
BY DEF Answer, vars, given

LEMMA NextKindEffect ==
  ASSUME IInv, NextKind
  PROVE  /\ kind \in Turns /\ kind' = kind + 1 /\ merged' = 0 /\ used' = {}
         /\ items' = items /\ kind \in 1..3
BY KindFacts DEF NextKind

LEMMA StepCases ==
  ASSUME [Next]_vars
  PROVE  MatchNone \/ MatchBest \/ LeaveOver \/ NextKind \/ Answer \/ UNCHANGED vars
BY DEF Next

-----------------------------------------------------------------------------
(* The invariant is kept. *)

LEMMA GivenStep ==
  ASSUME IInv, [Next]_vars
  PROVE  ListsSound' /\ AlikeSound'
<1>1. UNCHANGED <<youtube, yandex, alike>>
  BY GivenKept DEF given
<1>. QED BY <1>1 DEF IInv, ListsSound, AlikeSound

\* What a new item needs to keep the invariant.
LEMMA AppendKeeps ==
  ASSUME IInv, NEW it \in Item, items' = Append(items, it), it.kind = kind,
         kind \in Turns, kind' = kind, merged' = merged + 1, given' = given,
         \/ it.left = 0 /\ it.decision = "reject" /\ merged >= Lefts /\ used' = used
         \/ it.left # 0 /\ merged < Lefts
              /\ used' = IF it.right = NoHit THEN used ELSE used \cup {it.right.id}
  PROVE  PlaceSound' /\ UsedSound' /\ LeftsFirst' /\ LoneIsRejected'
<1>. items \in Seq(Item) /\ merged \in Nat /\ kind \in 1..4
  BY DEF IInv, PlaceSound
<1> DEFINE last == Len(items) + 1
<1>1. /\ items' \in Seq(Item) /\ DOMAIN items' = DOMAIN items \cup {last}
      /\ \A i \in DOMAIN items : items'[i] = items[i]
      /\ items'[last] = it /\ last \in DOMAIN items'
  BY AppendFacts
<1>2. Lefts' = Lefts /\ Lefts \in Nat
  BY DEF Lefts, given, IInv, ListsSound
<1> HIDE DEF last
<1>3. PlaceSound'
  BY <1>1 DEF IInv, PlaceSound
<1>4. LoneIsRejected'
  BY <1>1 DEF IInv, LoneIsRejected
<1>5. LeftsFirst'
  BY <1>1, <1>2 DEF IInv, LeftsFirst
<1>6. UsedSound'
  <2>1. CASE it.left = 0
    BY <1>1, <2>1 DEF IInv, UsedSound
  <2>2. CASE it.left # 0 /\ it.right = NoHit
    BY <1>1, <2>2 DEF IInv, UsedSound
  <2>3. CASE it.left # 0 /\ it.right # NoHit
    <3>1. used' = used \cup {it.right.id}
      BY <2>3
    <3>2. ASSUME NEW id \in used'
          PROVE  \E j \in DOMAIN items' :
                   items'[j].kind = kind /\ items'[j].right # NoHit /\ items'[j].right.id = id
      <4>1. CASE id \in used
        <5>1. PICK j \in DOMAIN items :
                items[j].kind = kind /\ items[j].right # NoHit /\ items[j].right.id = id
          BY <4>1 DEF IInv, UsedSound
        <5>. QED BY <1>1, <5>1
      <4>2. CASE id = it.right.id
        BY <1>1, <2>3, <4>2
      <4>. QED BY <3>1, <3>2, <4>1, <4>2
    <3>3. ASSUME NEW j \in DOMAIN items', items'[j].kind = kind, items'[j].left # 0,
                 items'[j].right # NoHit
          PROVE  items'[j].right.id \in used'
      BY <1>1, <3>1, <3>3 DEF IInv, UsedSound
    <3>. QED BY <3>2, <3>3 DEF UsedSound
  <2>. QED BY <2>1, <2>2, <2>3
<1>. QED BY <1>3, <1>4, <1>5, <1>6

LEMMA NextIInv ==
  ASSUME IInv, [Next]_vars
  PROVE  IInv'
<1>1. ListsSound' /\ AlikeSound' /\ given' = given
  BY GivenStep, GivenKept
<1> DEFINE Rest == PlaceSound /\ UsedSound /\ LeftsFirst /\ LoneIsRejected
<1>2. CASE MatchNone
  <2>1. merged \in Nat
    BY DEF IInv, PlaceSound
  <2>. QED BY <1>1, <1>2, <2>1, NoneEffect, AppendKeeps DEF IInv
<1>3. CASE MatchBest
  <2>1. PICK n \in DOMAIN yandex[kind], close \in BOOLEAN :
              LET l == youtube[kind][merged + 1]
                  r == yandex[kind][n]
                  verdict == Verdict(l, r, close)
                  right == IF verdict = "reject" THEN NoHit ELSE r
                  it == [kind |-> kind, left |-> merged + 1, right |-> right,
                         decision |-> verdict, score |-> ScoreOf(l, r)]
              IN  /\ r # NoHit
                  /\ it \in Item /\ items' = Append(items, it)
                  /\ used' = IF verdict = "reject" THEN used ELSE used \cup {r.id}
    BY <1>3, BestEffect
  <2> DEFINE r == yandex[kind][n]
             verdict == Verdict(youtube[kind][merged + 1], r, close)
             right == IF verdict = "reject" THEN NoHit ELSE r
             score == ScoreOf(youtube[kind][merged + 1], r)
             it == [kind |-> kind, left |-> merged + 1, right |-> right,
                    decision |-> verdict, score |-> score]
  <2>2. it \in Item /\ items' = Append(items, it) /\ r # NoHit
        /\ used' = IF verdict = "reject" THEN used ELSE used \cup {r.id}
    BY <2>1
  <2>3. it.right = right /\ it.kind = kind /\ it.left = merged + 1
    OBVIOUS
  <2>4. kind \in Turns /\ merged < Lefts /\ merged' = merged + 1 /\ kind' = kind
    BY <1>3, BestEffect
  <2>5. used' = IF right = NoHit THEN used ELSE used \cup {right.id}
    BY <2>2
  <2>6. merged + 1 # 0
    BY DEF IInv, PlaceSound
  <2> HIDE DEF it, right
  <2>7. PlaceSound' /\ UsedSound' /\ LeftsFirst' /\ LoneIsRejected'
    BY <1>1, <2>2, <2>3, <2>4, <2>5, <2>6, AppendKeeps
  <2>. QED BY <1>1, <2>7 DEF IInv
<1>4. CASE LeaveOver
  <2>1. /\ kind \in Turns /\ merged >= Lefts /\ merged' = merged + 1 /\ Lefts \in Nat
        /\ used' = used /\ kind' = kind
    BY <1>4, LeaveEffect
  <2>2. CASE items' = items
    <3>1. Lefts' = Lefts /\ merged \in Nat
      BY <1>1, <2>1 DEF Lefts, given, IInv, PlaceSound
    <3>. QED BY <1>1, <2>1, <2>2, <3>1
            DEF IInv, PlaceSound, UsedSound, LeftsFirst, LoneIsRejected
  <2>3. CASE \E it \in Item : /\ items' = Append(items, it) /\ it.kind = kind
                              /\ it.left = 0 /\ it.decision = "reject"
    BY <1>1, <2>1, <2>3, AppendKeeps DEF IInv
  <2>. QED BY <1>4, <2>2, <2>3, LeaveEffect
<1>5. CASE NextKind
  <2>1. /\ kind' = kind + 1 /\ merged' = 0 /\ used' = {} /\ items' = items /\ kind \in 1..3
    BY <1>5, NextKindEffect
  <2>2. \A i \in DOMAIN items : items[i].kind \in Nat /\ items[i].kind # kind'
    <3>. SUFFICES ASSUME NEW i \in DOMAIN items
                  PROVE  items[i].kind \in Nat /\ items[i].kind # kind'
      OBVIOUS
    <3>1. items[i] \in Item /\ items[i].kind <= kind
      BY DEF IInv, PlaceSound
    <3>. QED BY <2>1, <3>1, KindFacts DEF Item
  <2>. QED BY <1>1, <2>1, <2>2 DEF IInv, PlaceSound, UsedSound, LeftsFirst, LoneIsRejected
<1>6. CASE Answer \/ UNCHANGED vars
  <2>1. UNCHANGED <<given, kind, merged, used, items>>
    BY <1>6, QuietEffect
  <2>2. Lefts' = Lefts
    BY <2>1 DEF Lefts, given
  <2>. QED BY <1>1, <2>1, <2>2
          DEF IInv, PlaceSound, UsedSound, LeftsFirst, LoneIsRejected
<1>. QED BY <1>2, <1>3, <1>4, <1>5, <1>6, StepCases

LEMMA InitIInv ==
  Init => IInv
<1>. SUFFICES ASSUME Init PROVE IInv
  OBVIOUS
<1>1. PICK w \in Worlds : youtube \in w.youtube /\ yandex \in w.yandex
  BY DEF Init
<1>2. ListsSound
  BY <1>1, MatchingAssumption DEF ListsSound
<1>3. /\ Len(Kinds) = 3 /\ kind = 1 /\ merged = 0 /\ used = {} /\ items = <<>>
  BY KindFacts DEF Init
<1>4. PlaceSound /\ UsedSound /\ LeftsFirst /\ LoneIsRejected
  BY <1>3 DEF PlaceSound, UsedSound, LeftsFirst, LoneIsRejected
<1>5. \A k \in Turns : alike[k] \in Tables(k, youtube[k], yandex[k])
  BY KindFacts DEF Init
<1>6. ASSUME NEW k \in Turns, NEW m \in DOMAIN youtube[k], NEW n \in DOMAIN yandex[k]
      PROVE  alike[k][<<youtube[k][m], yandex[k][n]>>] \in
               Outcomes(Kinds[k], youtube[k][m].entity, yandex[k][n].entity)
  <2> DEFINE p == <<youtube[k][m], yandex[k][n]>>
             pairs == {youtube[k][i] : i \in DOMAIN youtube[k]} \X {yandex[k][i] : i \in DOMAIN yandex[k]}
  <2>1. p \in pairs /\ p[1] = youtube[k][m] /\ p[2] = yandex[k][n]
    OBVIOUS
  <2>2. \A q \in pairs : alike[k][q] \in Outcomes(Kinds[k], q[1].entity, q[2].entity)
    BY <1>5 DEF Tables
  <2> HIDE DEF p, pairs
  <2>3. alike[k][p] \in Outcomes(Kinds[k], p[1].entity, p[2].entity)
    BY <2>1, <2>2
  <2>. QED BY <2>1, <2>3 DEF p
<1>7. AlikeSound
  BY <1>6 DEF AlikeSound
<1>. QED BY <1>2, <1>4, <1>7 DEF IInv

\* The inductive invariant: the lists are given, and the merge is at its place.
THEOREM Inductive == Spec => []IInv
BY InitIInv, NextIInv, PTL DEF Spec

-----------------------------------------------------------------------------
(* The properties, item by item.  A step leaves the items there are alone, *)
(* so it is enough to look at the one it appends.                          *)

OnlyEarlier(i) ==
  items[i].left # 0 =>
    LET k == items[i].kind  l == youtube[k][items[i].left] IN
    \A n \in DOMAIN yandex[k] :
      LET r == yandex[k][n] IN
      alike[k][<<l, r>>].score >= Ambiguous /\ alike[k][<<l, r>>].score >= Candidate =>
        \/ items[i].right # NoHit /\ items[i].score >= alike[k][<<l, r>>].score
        \/ Taken(r, k, i)

NoRival(i) ==
  items[i].decision = "auto" =>
    LET k == items[i].kind  l == youtube[k][items[i].left] IN
    /\ ~ Taken(items[i].right, k, i)
    /\ \E best \in DOMAIN yandex[k] :
         /\ yandex[k][best] = items[i].right
         /\ \A n \in DOMAIN yandex[k] \ {best} :
              LET r == yandex[k][n] IN
              \/ alike[k][<<l, r>>].score < Candidate
              \/ items[i].score - alike[k][<<l, r>>].score >= Gap
              \/ Taken(r, k, i)

Earned(i) ==
  items[i].decision = "auto" =>
    LET k == items[i].kind  l == youtube[k][items[i].left].entity  r == items[i].right.entity IN
    /\ ~ Nameless(l, r) /\ l.tags = r.tags
    /\ k = 3 => r.release = {}

\* Twins, by what a table of the scorer says of them.
TwinsIn(table, l, r) ==
  /\ l.entity.name # {} /\ table[<<l, r>>].similarity = One
  /\ \A field \in {"name", "artists", "release", "tags"} : l.entity[field] = r.entity[field]
  /\ \A field \in {"year", "count", "duration"} :
       l.entity[field] = r.entity[field] \/ Unknown \in {l.entity[field], r.entity[field]}

\* A second hit whose score does not fall short of the first one's by more than Gap.
Near(table, l, first, second) == table[<<l, second>>].score >= table[<<l, first>>].score - Gap

TwinIsAuto(i) ==
  items[i].left # 0 =>
    LET k == items[i].kind  l == youtube[k][items[i].left] IN
    \A n \in DOMAIN yandex[k] : TwinsIn(alike[k], l, yandex[k][n]) =>
      \/ items[i].decision = "auto"
      \/ Taken(yandex[k][n], k, i)
      \/ \E m \in DOMAIN yandex[k] \ {n} :
           /\ ~ Taken(yandex[k][m], k, i)
           /\ Near(alike[k], l, yandex[k][n], yandex[k][m])

\* The items there are keep their properties.
LEMMA OldItems ==
  ASSUME IInv, [Next]_vars, NEW i \in DOMAIN items
  PROVE  /\ OnlyEarlier(i) => OnlyEarlier(i)'
         /\ NoRival(i) => NoRival(i)'
         /\ Earned(i) => Earned(i)'
         /\ TwinIsAuto(i) => TwinIsAuto(i)'
<1>1. UNCHANGED <<youtube, yandex, alike>>
  BY GivenKept DEF given
<1>2. items \in Seq(Item) /\ items' \in Seq(Item)
  BY NextIInv DEF IInv, PlaceSound
<1>3. Len(items) <= Len(items') /\ \A j \in DOMAIN items : items'[j] = items[j]
  <2>1. \/ items' = items
        \/ \E it \in Item : items' = Append(items, it)
    <3>1. CASE MatchNone
      BY <3>1, NoneEffect
    <3>2. CASE MatchBest
      BY <3>2, BestEffect
    <3>3. CASE LeaveOver
      BY <3>3, LeaveEffect
    <3>4. CASE NextKind
      BY <3>4, NextKindEffect
    <3>5. CASE Answer \/ UNCHANGED vars
      BY <3>5, QuietEffect
    <3>. QED BY <3>1, <3>2, <3>3, <3>4, <3>5, StepCases
  <2>2. CASE items' = items
    BY <1>2, <2>2
  <2>3. ASSUME NEW it \in Item, items' = Append(items, it)
        PROVE  Len(items) <= Len(items') /\ \A j \in DOMAIN items : items'[j] = items[j]
    BY <1>2, <2>3
  <2>. QED BY <2>1, <2>2, <2>3
<1>4. items'[i] = items[i] /\ \A j \in 1..(i - 1) : items'[j] = items[j]
  BY <1>2, <1>3
<1>5. ASSUME OnlyEarlier(i) PROVE OnlyEarlier(i)'
  <2> DEFINE k == items[i].kind  l == youtube[k][items[i].left]
  <2>1. SUFFICES ASSUME items[i].left # 0, NEW n \in DOMAIN yandex[k],
                        alike[k][<<l, yandex[k][n]>>].score >= Ambiguous,
                        alike[k][<<l, yandex[k][n]>>].score >= Candidate
                 PROVE  \/ items[i].right # NoHit
                             /\ items[i].score >= alike[k][<<l, yandex[k][n]>>].score
                        \/ Taken(yandex[k][n], k, i)'
    BY <1>1, <1>4 DEF OnlyEarlier, Taken
  <2>. QED BY <1>5, <1>1, <1>4, <2>1 DEF OnlyEarlier, Taken
<1>6. NoRival(i) => NoRival(i)'
  BY <1>1, <1>4 DEF NoRival, Taken
<1>7. Earned(i) => Earned(i)'
  BY <1>1, <1>4 DEF Earned, Nameless
<1>8. TwinIsAuto(i) => TwinIsAuto(i)'
  BY <1>1, <1>4 DEF TwinIsAuto, Taken
<1>. QED BY <1>5, <1>6, <1>7, <1>8

\* What is said of a step's new item, it being the last.
LEMMA NewItem ==
  ASSUME IInv, [Next]_vars, NEW i \in DOMAIN items', i \notin DOMAIN items
  PROVE  /\ i = Len(items) + 1 /\ items'[i] \in Item
         /\ \A j \in 1..(i - 1) : j \in DOMAIN items /\ items'[j] = items[j]
         /\ MatchNone \/ MatchBest \/ (items'[i].left = 0 /\ items'[i].decision = "reject")
         /\ items' = Append(items, items'[i])
<1>1. items \in Seq(Item)
  BY DEF IInv, PlaceSound
<1>2. ASSUME NEW it \in Item, items' = Append(items, it)
      PROVE  /\ i = Len(items) + 1 /\ items'[i] = it
             /\ \A j \in 1..(i - 1) : j \in DOMAIN items /\ items'[j] = items[j]
  BY <1>1, <1>2, AppendFacts
<1>3. CASE MatchNone
  BY <1>2, <1>3, NoneEffect
<1>4. CASE MatchBest
  <2>1. PICK it \in Item : items' = Append(items, it)
    BY <1>4, BestEffect
  <2>2. /\ i = Len(items) + 1 /\ items'[i] = it
        /\ \A j \in 1..(i - 1) : j \in DOMAIN items /\ items'[j] = items[j]
    BY <1>2, <2>1
  <2>3. items'[i] \in Item /\ items' = Append(items, items'[i])
    BY <2>1, <2>2
  <2>. QED BY <1>4, <2>2, <2>3
<1>5. CASE LeaveOver
  BY <1>2, <1>5, LeaveEffect
<1>6. CASE NextKind
  BY <1>6, NextKindEffect
<1>7. CASE Answer \/ UNCHANGED vars
  BY <1>7, QuietEffect
<1>. QED BY <1>3, <1>4, <1>5, <1>6, <1>7, StepCases

\* Whose id is used has been taken by an earlier item.
LEMMA UsedIsTaken ==
  ASSUME IInv, [Next]_vars, NEW i \in DOMAIN items', i \notin DOMAIN items,
         NEW r, r.id \in used, NEW k, k = kind
  PROVE  Taken(r, k, i)'
<1>1. PICK j \in DOMAIN items :
        items[j].kind = kind /\ items[j].right # NoHit /\ items[j].right.id = r.id
  BY DEF IInv, UsedSound
<1>2. j \in 1..(i - 1) /\ items'[j] = items[j]
  <2>1. i = Len(items) + 1 /\ items \in Seq(Item)
    BY NewItem DEF IInv, PlaceSound
  <2>2. j \in 1..(i - 1)
    BY <2>1
  <2>. QED BY <2>2, NewItem
<1>. QED BY <1>1, <1>2 DEF Taken

\* And whose id is not has not, while youtube hits are merged.
LEMMA UnusedIsFree ==
  ASSUME IInv, [Next]_vars, NEW i \in DOMAIN items', i \notin DOMAIN items,
         kind \in Turns, merged < Lefts, NEW r, r.id \notin used, NEW k, k = kind
  PROVE  ~ Taken(r, k, i)'
<1>. SUFFICES ASSUME NEW j \in 1..(i - 1), items'[j].kind = kind,
                     items'[j].right # NoHit, items'[j].right.id = r.id
              PROVE  FALSE
  BY DEF Taken
<1>1. j \in DOMAIN items /\ items'[j] = items[j]
  BY NewItem
<1>2. items[j].left # 0
  <2>1. merged \in Nat /\ Lefts \in Nat
    BY DEF IInv, PlaceSound, ListsSound, Lefts
  <2>. QED BY <1>1, <2>1 DEF IInv, LeftsFirst
<1>. QED BY <1>1, <1>2 DEF IInv, UsedSound

-----------------------------------------------------------------------------
(* The new item. *)

\* The item that MatchBest appends, spelled out.
Decided(i, n, close) ==
  LET l == youtube[kind][merged + 1]  r == yandex[kind][n]  verdict == Verdict(l, r, close) IN
  /\ Best(l, n) /\ close \in TooClose(l, n)
  /\ r \in Hits /\ r # NoHit /\ ScoreOf(l, r) \in 0..One
  /\ items'[i].kind = kind /\ items'[i].left = merged + 1
  /\ items'[i].right = (IF verdict = "reject" THEN NoHit ELSE r)
  /\ items'[i].decision = verdict /\ items'[i].score = ScoreOf(l, r)

LEMMA NewDecided ==
  ASSUME IInv, MatchBest, NEW i \in DOMAIN items', i \notin DOMAIN items
  PROVE  \E n \in DOMAIN yandex[kind] : \E close \in BOOLEAN : Decided(i, n, close)
<1>1. PICK n \in DOMAIN yandex[kind], close \in BOOLEAN :
              LET l == youtube[kind][merged + 1]
                  r == yandex[kind][n]
                  verdict == Verdict(l, r, close)
                  right == IF verdict = "reject" THEN NoHit ELSE r
                  it == [kind |-> kind, left |-> merged + 1, right |-> right,
                         decision |-> verdict, score |-> ScoreOf(l, r)]
              IN  /\ Best(l, n) /\ close \in TooClose(l, n)
                  /\ r \in Hits /\ r # NoHit /\ ScoreOf(l, r) \in 0..One
                  /\ it \in Item /\ items' = Append(items, it)
  BY BestEffect
<1> DEFINE l == youtube[kind][merged + 1]
           r == yandex[kind][n]
           verdict == Verdict(l, r, close)
           right == IF verdict = "reject" THEN NoHit ELSE r
           score == ScoreOf(l, r)
           it == [kind |-> kind, left |-> merged + 1, right |-> right,
                  decision |-> verdict, score |-> score]
<1>2. it \in Item /\ items' = Append(items, it)
  BY <1>1
<1>3. /\ it.kind = kind /\ it.left = merged + 1 /\ it.right = right
      /\ it.decision = verdict /\ it.score = score
  OBVIOUS
<1>4. items'[i] = it
  <2>1. items \in Seq(Item)
    BY DEF IInv, PlaceSound
  <2> HIDE DEF it
  <2>. QED BY <1>2, <2>1, AppendFacts
<1> HIDE DEF it
<1>5. /\ items'[i].kind = kind /\ items'[i].left = merged + 1 /\ items'[i].right = right
      /\ items'[i].decision = verdict /\ items'[i].score = score
  BY <1>3, <1>4
<1>6. Decided(i, n, close)
  BY <1>1, <1>5 DEF Decided
<1>. QED BY <1>6

\* The item in turn: its youtube hit, the facts on the scores of the others.
LEMMA InTurn ==
  ASSUME IInv, kind \in Turns, merged + 1 \in DOMAIN youtube[kind],
         NEW n \in DOMAIN yandex[kind]
  PROVE  /\ ScoreOf(youtube[kind][merged + 1], yandex[kind][n]) \in Int
         /\ ScoreOf(youtube[kind][merged + 1], yandex[kind][n]) >= Candidate =>
              n \in Considered(youtube[kind][merged + 1]) \/ yandex[kind][n].id \in used
<1>1. ScoreOf(youtube[kind][merged + 1], yandex[kind][n]) \in Int
  <2>1. ScoreOf(youtube[kind][merged + 1], yandex[kind][n]) \in 0..One
    BY ScoresAreInts DEF IInv, ScoreOf
  <2>2. \A x \in 0..One : x \in Int
    OBVIOUS
  <2>. QED BY <2>1, <2>2
<1>. QED BY <1>1 DEF Considered

LEMMA NewOnlyEarlier ==
  ASSUME IInv, [Next]_vars, NEW i \in DOMAIN items', i \notin DOMAIN items
  PROVE  OnlyEarlier(i)'
<1>1. UNCHANGED <<youtube, yandex, alike>>
  BY GivenKept DEF given
<1>2. CASE MatchBest
  <2>1. PICK b \in DOMAIN yandex[kind], close \in BOOLEAN : Decided(i, b, close)
    BY <1>2, NewDecided
  <2> DEFINE l == youtube[kind][merged + 1]
             s(n) == alike[kind][<<l, yandex[kind][n]>>].score
  <2>2. kind \in Turns /\ merged + 1 \in DOMAIN youtube[kind]
    BY <1>2, BestEffect
  <2>3. items'[i].kind = kind /\ items'[i].left = merged + 1
    BY <2>1 DEF Decided
  <2>4. ASSUME NEW n \in DOMAIN yandex[kind], s(n) >= Ambiguous, s(n) >= Candidate,
               NEW r, r = yandex[kind][n], NEW k, k = kind
        PROVE  \/ items'[i].right # NoHit /\ items'[i].score >= s(n)
               \/ Taken(r, k, i)'
    <3>1. CASE yandex[kind][n].id \in used
      BY <2>4, <3>1, UsedIsTaken
    <3>2. CASE n \in Considered(l)
      <4>1. /\ s(n) \in Int /\ s(b) \in Int
        BY <2>2, InTurn DEF ScoreOf
      <4>2. s(b) >= s(n)
        BY <2>1, <3>2, <4>1 DEF Decided, Best, ScoreOf
      <4>3. s(b) >= Ambiguous
        BY <2>4, <4>1, <4>2, MatchingAssumption
      <4>4. Verdict(l, yandex[kind][b], close) # "reject"
        BY <4>1, <4>3, MatchingAssumption DEF Verdict, ScoreOf
      <4>. QED BY <2>1, <4>2, <4>4 DEF Decided, ScoreOf
    <3>3. n \in Considered(l) \/ yandex[kind][n].id \in used
      BY <2>2, <2>4, InTurn DEF ScoreOf
    <3>. QED BY <3>1, <3>2, <3>3
  <2>. QED BY <1>1, <2>3, <2>4 DEF OnlyEarlier, Taken
<1>3. CASE MatchNone
  <2> DEFINE l == youtube[kind][merged + 1]
             s(n) == alike[kind][<<l, yandex[kind][n]>>].score
  <2>1. /\ kind \in Turns /\ merged < Lefts /\ Considered(l) = {}
    BY <1>3, NoneEffect
  <2>2. merged + 1 \in DOMAIN youtube[kind]
    BY <2>1 DEF Lefts, IInv, ListsSound, PlaceSound
  <2>3. items'[i].kind = kind /\ items'[i].left = merged + 1
    <3>1. items \in Seq(Item)
      BY DEF IInv, PlaceSound
    <3>. QED BY <1>3, <3>1, NoneEffect, AppendFacts
  <2>4. ASSUME NEW n \in DOMAIN yandex[kind], s(n) >= Candidate,
               NEW r, r = yandex[kind][n], NEW k, k = kind
        PROVE  Taken(r, k, i)'
    <3>1. yandex[kind][n].id \in used
      BY <2>1, <2>2, <2>4, InTurn DEF ScoreOf
    <3>. QED BY <2>4, <3>1, UsedIsTaken
  <2>. QED BY <1>1, <2>3, <2>4 DEF OnlyEarlier, Taken
<1>4. CASE items'[i].left = 0
  BY <1>4 DEF OnlyEarlier
<1>. QED BY <1>2, <1>3, <1>4, NewItem

LEMMA NewNoRival ==
  ASSUME IInv, [Next]_vars, NEW i \in DOMAIN items', i \notin DOMAIN items
  PROVE  NoRival(i)'
<1>1. UNCHANGED <<youtube, yandex, alike>>
  BY GivenKept DEF given
<1>2. CASE MatchBest /\ items'[i].decision = "auto"
  <2>1. PICK b \in DOMAIN yandex[kind], close \in BOOLEAN : Decided(i, b, close)
    BY <1>2, NewDecided
  <2> DEFINE l == youtube[kind][merged + 1]
             s(n) == alike[kind][<<l, yandex[kind][n]>>].score
  <2>2. kind \in Turns /\ merged < Lefts /\ merged + 1 \in DOMAIN youtube[kind]
    BY <1>2, BestEffect
  <2>3. /\ items'[i].kind = kind /\ items'[i].left = merged + 1
        /\ items'[i].right = yandex[kind][b] /\ items'[i].score = s(b)
        /\ b \in Considered(l) /\ close \in TooClose(l, b)
        /\ Verdict(l, yandex[kind][b], close) = "auto"
    BY <1>2, <2>1 DEF Decided, Best, ScoreOf
  <2>4. ~ close
    BY <2>3 DEF Verdict
  <2>5. ASSUME NEW m \in Considered(l) \ {b} PROVE s(b) - s(m) >= Gap
    <3>1. s(b) \in Int /\ s(m) \in Int
      BY <2>2, InTurn DEF ScoreOf, Considered
    <3> DEFINE gaps == {ScoreOf(l, yandex[kind][b]) - ScoreOf(l, yandex[kind][n]) :
                          n \in Considered(l) \ {b}}
    <3>2. ~ \E g \in gaps : g < Gap
      BY <2>3, <2>4 DEF TooClose
    <3>3. s(b) - s(m) \in gaps
      BY DEF ScoreOf
    <3> HIDE DEF gaps
    <3>4. ~ (s(b) - s(m) < Gap)
      BY <3>2, <3>3
    <3>. QED BY <3>1, <3>4, MatchingAssumption
  <2>6. ASSUME NEW r, r = yandex[kind][b], NEW k, k = kind
        PROVE  ~ Taken(r, k, i)'
    BY <2>2, <2>3, <2>6, UnusedIsFree DEF Considered
  <2>7. ASSUME NEW n \in DOMAIN yandex[kind] \ {b}, NEW r, r = yandex[kind][n], NEW k, k = kind
        PROVE  \/ s(n) < Candidate
               \/ items'[i].score - s(n) >= Gap
               \/ Taken(r, k, i)'
    <3>1. CASE yandex[kind][n].id \in used
      BY <2>7, <3>1, UsedIsTaken
    <3>2. CASE n \in Considered(l)
      BY <2>3, <2>5, <3>2
    <3>3. s(n) \in Int /\ (s(n) >= Candidate => n \in Considered(l) \/ yandex[kind][n].id \in used)
      BY <2>2, InTurn DEF ScoreOf
    <3>. QED BY <3>1, <3>2, <3>3, ScoringAssumption
  <2>8. ~ Taken(items[i].right, items[i].kind, i)'
    BY <2>3, <2>6 DEF Taken
  <2> HIDE DEF l
  <2>9. \A n \in DOMAIN yandex'[kind] \ {b} :
          \/ alike'[kind][<<l, yandex'[kind][n]>>].score < Candidate
          \/ items'[i].score - alike'[kind][<<l, yandex'[kind][n]>>].score >= Gap
          \/ \E j \in 1..(i - 1) : /\ items'[j].kind = kind /\ items'[j].right # NoHit
                                   /\ items'[j].right.id = yandex'[kind][n].id
    BY <1>1, <2>7 DEF Taken
  <2>. QED BY <1>1, <2>3, <2>8, <2>9 DEF NoRival, Taken, l
<1>3. CASE items'[i].decision # "auto"
  BY <1>3 DEF NoRival
<1>4. CASE MatchNone
  <2>1. items \in Seq(Item)
    BY DEF IInv, PlaceSound
  <2>2. items'[i].decision = "reject"
    BY <1>4, <2>1, NoneEffect, AppendFacts
  <2>. QED BY <2>2, <1>3
<1>. QED BY <1>2, <1>3, <1>4, NewItem

\* With a threshold above seven eighths, what AutoIsEarned excludes is excluded.
LEMMA NewEarned ==
  ASSUME Automatic > 8750, IInv, [Next]_vars, NEW i \in DOMAIN items', i \notin DOMAIN items
  PROVE  Earned(i)'
<1>1. UNCHANGED <<youtube, yandex, alike>>
  BY GivenKept DEF given
<1>2. CASE MatchBest /\ items'[i].decision = "auto"
  <2>1. PICK b \in DOMAIN yandex[kind], close \in BOOLEAN : Decided(i, b, close)
    BY <1>2, NewDecided
  <2>2. kind \in Turns /\ merged + 1 \in DOMAIN youtube[kind]
    BY <1>2, BestEffect
  <2>3. PICK h : h = youtube[kind][merged + 1]
    OBVIOUS
  <2>4. PICK l : l = h.entity
    OBVIOUS
  <2>5. PICK r : r = yandex[kind][b].entity
    OBVIOUS
  <2>6. /\ items'[i].kind = kind /\ items'[i].left = merged + 1
        /\ items'[i].right = yandex[kind][b]
        /\ Verdict(h, yandex[kind][b], close) = "auto"
    BY <1>2, <2>1, <2>3 DEF Decided
  <2>7. PICK o : o = alike[kind][<<h, yandex[kind][b]>>]
    OBVIOUS
  <2>8. o \in Outcomes(Kinds[kind], l, r)
    BY <2>2, <2>3, <2>4, <2>5, <2>7 DEF IInv, AlikeSound
  <2>9. Kinds[kind] \in {"artist", "release", "track"}
    BY <2>2, KindFacts
  <2>10. o.score \in 0..One /\ o.conflict \in BOOLEAN
    BY <2>8, <2>9, ScoresInRange
  <2>11. ~ (o.score < Automatic) /\ ~ o.conflict
    BY <2>6, <2>7 DEF Verdict, ScoreOf
  <2>12. ~ (o.score <= 8750)
    <3>1. o.score \in 0..One
      BY <2>10
    <3>2. PICK score \in 0..One : score = o.score
      BY <3>1
    <3>. QED BY <2>11, <3>2, Thresholds DEF One
  <2>13. l \in YoutubeEntity(Kinds[kind]) /\ r \in Entity(Kinds[kind])
    <3>1. yandex[kind][b] \in Hit(kind)
      BY <2>2 DEF IInv, ListsSound
    <3>2. r \in Entity(Kinds[kind])
      BY <2>5, <3>1 DEF Hit
    <3>3. l \in YoutubeEntity(Kinds[kind])
      BY <2>2, <2>3, <2>4 DEF IInv, ListsSound
    <3>. QED BY <3>2, <3>3
  <2>14. l \in Entity(Kinds[kind]) /\ l.duration = Unknown /\ l.release = {}
    BY <2>13 DEF YoutubeEntity
  <2>15. Scored(l) /\ Scored(r) /\ (Kinds[kind] = "artist" => l.tags = r.tags)
    BY <2>13, <2>14, <2>9, EntityFacts
  <2>16. ~ Nameless(l, r)
    <3>1. ASSUME Nameless(l, r) PROVE o.score <= 8000
      BY <2>8, <2>9, <2>15, <3>1, NamelessIsUncertain DEF Nameless
    <3>2. o.score \in 0..One
      BY <2>10
    <3>3. PICK score \in 0..One : score = o.score
      BY <3>2
    <3>4. ~ (score <= 8750)
      BY <2>12, <3>3
    <3>5. ~ (score <= 8000)
      BY <3>4 DEF One
    <3>6. ~ (o.score <= 8000)
      BY <3>3, <3>5
    <3>. QED BY <3>1, <3>6
  <2>17. l.tags = r.tags
    BY <2>8, <2>9, <2>11, <2>15, OtherVersionConflicts
  <2>18. kind = 3 => r.release = {}
    <3>1. kind = 3 => o \in Outcomes("track", l, r)
      BY <2>8, KindFacts DEF KindsAre
    <3>. QED BY <2>12, <2>14, <3>1, LoneAlbumIsUncertain
  <2>19. youtube'[items'[i].kind][items'[i].left].entity = l /\ items'[i].right.entity = r
    BY <1>1, <2>3, <2>4, <2>5, <2>6
  <2>. QED BY <1>1, <2>6, <2>16, <2>17, <2>18, <2>19 DEF Earned, Nameless
<1>3. CASE items'[i].decision # "auto"
  BY <1>3 DEF Earned
<1>4. CASE MatchNone
  <2>1. items \in Seq(Item)
    BY DEF IInv, PlaceSound
  <2>2. items'[i].decision = "reject"
    BY <1>4, <2>1, NoneEffect, AppendFacts
  <2>. QED BY <2>2, <1>3
<1>. QED BY <1>2, <1>3, <1>4, NewItem

\* Scoring gives a pair of twins a high score.
LEMMA TwinScores ==
  ASSUME IInv, NEW k \in Turns, NEW m \in DOMAIN youtube[k], NEW n \in DOMAIN yandex[k],
         TwinsIn(alike[k], youtube[k][m], yandex[k][n])
  PROVE  /\ alike[k][<<youtube[k][m], yandex[k][n]>>].score >= 8950
         /\ ~ alike[k][<<youtube[k][m], yandex[k][n]>>].conflict
<1>1. PICK l : l = youtube[k][m].entity
  OBVIOUS
<1>2. PICK r : r = yandex[k][n].entity
  OBVIOUS
<1>3. PICK o : o = alike[k][<<youtube[k][m], yandex[k][n]>>]
  OBVIOUS
<1>4. PICK c : c = Kinds[k]
  OBVIOUS
<1>5. c \in {"artist", "release", "track"}
  BY <1>4, KindFacts
<1>6. l \in Entity(c) /\ r \in Entity(c)
  <2>1. youtube[k][m] \in Hit(k) /\ yandex[k][n] \in Hit(k)
    BY DEF IInv, ListsSound
  <2>. QED BY <1>1, <1>2, <1>4, <2>1 DEF Hit
<1>7. o \in Outcomes(c, l, r)
  BY <1>1, <1>2, <1>3, <1>4 DEF IInv, AlikeSound
<1>8. /\ o.similarity = One
      /\ l.name = r.name /\ l.artists = r.artists /\ l.release = r.release /\ l.tags = r.tags
      /\ Agree(l.year, r.year) /\ Agree(l.count, r.count) /\ Agree(l.duration, r.duration)
  <2>1. /\ o.similarity = One
        /\ \A field \in {"name", "artists", "release", "tags"} : l[field] = r[field]
        /\ \A field \in {"year", "count", "duration"} : Agree(l[field], r[field])
    BY <1>1, <1>2, <1>3 DEF TwinsIn, Agree
  <2>. QED BY <2>1
<1>9. o.score >= 8950 /\ ~ o.conflict
  BY <1>5, <1>6, <1>7, <1>8, TwinsScoreHigh
<1>. QED BY <1>3, <1>9

\* So one that nobody took is considered.
LEMMA TwinInTurn ==
  ASSUME Candidate <= 8950, IInv, kind \in Turns, merged + 1 \in DOMAIN youtube[kind],
         NEW n \in DOMAIN yandex[kind],
         TwinsIn(alike[kind], youtube[kind][merged + 1], yandex[kind][n])
  PROVE  n \in Considered(youtube[kind][merged + 1]) \/ yandex[kind][n].id \in used
<1> DEFINE l == youtube[kind][merged + 1]  s == alike[kind][<<l, yandex[kind][n]>>].score
<1>1. s >= 8950
  BY TwinScores
<1>2. s \in Int /\ (s >= Candidate => n \in Considered(l) \/ yandex[kind][n].id \in used)
  BY InTurn DEF ScoreOf
<1>3. s >= Candidate
  <2>1. \A x, c \in Int : x >= 8950 /\ c <= 8950 => x >= c
    OBVIOUS
  <2>2. Candidate \in Int /\ Candidate <= 8950
    BY ScoringAssumption DEF One
  <2>. QED BY <1>1, <1>2, <2>1, <2>2
<1>. QED BY <1>2, <1>3

\* If the next best is too close, there is one.
LEMMA CloseHasRival ==
  ASSUME NEW b, NEW close \in BOOLEAN, close, close \in TooClose(youtube[kind][merged + 1], b)
  PROVE  \E m \in Considered(youtube[kind][merged + 1]) \ {b} :
           \/ ScoreOf(youtube[kind][merged + 1], yandex[kind][b])
                - ScoreOf(youtube[kind][merged + 1], yandex[kind][m]) < Gap
           \/ ScoreOf(youtube[kind][merged + 1], yandex[kind][b])
                - ScoreOf(youtube[kind][merged + 1], yandex[kind][m]) = Gap
<1> DEFINE l == youtube[kind][merged + 1]
           gaps == {ScoreOf(l, yandex[kind][b]) - ScoreOf(l, yandex[kind][m]) :
                      m \in Considered(l) \ {b}}
<1>1. TooClose(l, b) = IF \E g \in gaps : g < Gap THEN {TRUE}
                       ELSE IF Gap \in gaps THEN BOOLEAN ELSE {FALSE}
  BY DEF TooClose
<1>2. TRUE \in TooClose(l, b)
  BY Zenon
<1>3. \E g \in gaps : g < Gap \/ g = Gap
  <2> HIDE DEF gaps, l
  <2>1. CASE \E g \in gaps : g < Gap
    BY <2>1
  <2>2. CASE Gap \in gaps
    BY <2>2
  <2>3. CASE (~ \E g \in gaps : g < Gap) /\ Gap \notin gaps
    <3>1. TooClose(l, b) = {FALSE}
      BY <1>1, <2>3
    <3>. QED BY <1>2, <3>1, Zenon
  <2>. QED BY <2>1, <2>2, <2>3, Zenon
<1>. QED BY <1>3

\* And that is so if the best one, for all its score, is no match without doubt.
LEMMA DoubtHasRival ==
  ASSUME NEW b, NEW close \in BOOLEAN, close \in TooClose(youtube[kind][merged + 1], b),
         ~ (ScoreOf(youtube[kind][merged + 1], yandex[kind][b]) < Ambiguous),
         ~ (ScoreOf(youtube[kind][merged + 1], yandex[kind][b]) < Automatic),
         ~ alike[kind][<<youtube[kind][merged + 1], yandex[kind][b]>>].conflict,
         Verdict(youtube[kind][merged + 1], yandex[kind][b], close) # "auto"
  PROVE  \E m \in Considered(youtube[kind][merged + 1]) \ {b} :
           \/ ScoreOf(youtube[kind][merged + 1], yandex[kind][b])
                - ScoreOf(youtube[kind][merged + 1], yandex[kind][m]) < Gap
           \/ ScoreOf(youtube[kind][merged + 1], yandex[kind][b])
                - ScoreOf(youtube[kind][merged + 1], yandex[kind][m]) = Gap
<1>1. close
  BY DEF Verdict
<1>. QED BY <1>1, CloseHasRival, Zenon

LEMMA NewTwinIsAuto ==
  ASSUME Candidate <= 8950, Ambiguous <= 8950, Automatic <= 8950,
         IInv, [Next]_vars, NEW i \in DOMAIN items', i \notin DOMAIN items
  PROVE  TwinIsAuto(i)'
<1>1. UNCHANGED <<youtube, yandex, alike>>
  BY GivenKept DEF given
<1> DEFINE l == youtube[kind][merged + 1]
           s(n) == alike[kind][<<l, yandex[kind][n]>>].score
           TakenBy(r) == \E j \in 1..(i - 1) : /\ items'[j].kind = kind /\ items'[j].right # NoHit
                                               /\ items'[j].right.id = r.id
\* It is enough to look at one twin.
<1>3. ASSUME items'[i].left = merged + 1, items'[i].kind = kind,
             \A n \in DOMAIN yandex[kind] : TwinsIn(alike[kind], l, yandex[kind][n]) =>
               \/ items'[i].decision = "auto"
               \/ TakenBy(yandex[kind][n])
               \/ \E m \in DOMAIN yandex[kind] \ {n} :
                    ~ TakenBy(yandex[kind][m]) /\ Near(alike[kind], l, yandex[kind][n], yandex[kind][m])
      PROVE  TwinIsAuto(i)'
  BY <1>1, <1>3 DEF TwinIsAuto, Taken
<1>4. ASSUME NEW n \in DOMAIN yandex[kind], yandex[kind][n].id \in used
      PROVE  TakenBy(yandex[kind][n])
  <2>1. ASSUME NEW r, r = yandex[kind][n], NEW k, k = kind PROVE Taken(r, k, i)'
    BY <1>4, <2>1, UsedIsTaken
  <2>. QED BY <1>1, <2>1 DEF Taken
<1>5. CASE MatchBest
  <2>1. PICK b \in DOMAIN yandex[kind], close \in BOOLEAN : Decided(i, b, close)
    BY <1>5, NewDecided
  <2>2. kind \in Turns /\ merged < Lefts /\ merged + 1 \in DOMAIN youtube[kind]
    BY <1>5, BestEffect
  <2>3. /\ items'[i].kind = kind /\ items'[i].left = merged + 1
        /\ items'[i].decision = Verdict(l, yandex[kind][b], close)
        /\ b \in Considered(l) /\ close \in TooClose(l, b) /\ Best(l, b)
    BY <2>1 DEF Decided, Best
  <2>4. ASSUME NEW n \in DOMAIN yandex[kind], TwinsIn(alike[kind], l, yandex[kind][n]),
               items'[i].decision # "auto", yandex[kind][n].id \notin used
        PROVE  \E m \in Considered(l) \ {n} : Near(alike[kind], l, yandex[kind][n], yandex[kind][m])
    <3>1. /\ s(n) \in Int /\ s(n) >= 8950 /\ ~ alike[kind][<<l, yandex[kind][n]>>].conflict
          /\ n \in Considered(l)
      <4>1. n \in Considered(l)
        BY <2>2, <2>4, TwinInTurn
      <4>2. s(n) \in Int
        BY <2>2, InTurn DEF ScoreOf
      <4>3. s(n) >= 8950 /\ ~ alike[kind][<<l, yandex[kind][n]>>].conflict
        BY <2>2, <2>4, TwinScores
      <4>. QED BY <4>1, <4>2, <4>3
    <3>2. Gap \in Nat /\ Ambiguous \in Nat /\ Automatic \in Nat
      BY Thresholds
    <3>3. ASSUME NEW m \in Considered(l) PROVE s(m) \in Int
      BY <2>2, InTurn DEF ScoreOf, Considered
    <3>4. CASE b # n
      <4>1. s(b) \in Int /\ s(b) >= s(n)
        <5>1. s(b) \in Int
          BY <2>3, <3>3
        <5>2. s(n) < s(b) \/ s(n) = s(b)
          BY <2>3, <3>1 DEF Best, ScoreOf
        <5>. QED BY <3>1, <5>1, <5>2
      <4>2. s(b) >= s(n) - Gap
        BY <3>1, <3>2, <4>1
      <4>. QED BY <2>3, <3>4, <4>2 DEF Near
    <3>5. CASE b = n
      <4>1. ~ (s(b) < Ambiguous) /\ ~ (s(b) < Automatic)
        <5>1. \A x \in Int : x >= 8950 => ~ (x < Ambiguous) /\ ~ (x < Automatic)
          BY <3>2
        <5>. QED BY <3>1, <3>5, <5>1
      <4>2. PICK m \in Considered(youtube[kind][merged + 1]) \ {b} :
              \/ ScoreOf(youtube[kind][merged + 1], yandex[kind][b])
                   - ScoreOf(youtube[kind][merged + 1], yandex[kind][m]) < Gap
              \/ ScoreOf(youtube[kind][merged + 1], yandex[kind][b])
                   - ScoreOf(youtube[kind][merged + 1], yandex[kind][m]) = Gap
        <5>1. /\ ~ (ScoreOf(l, yandex[kind][b]) < Ambiguous)
              /\ ~ (ScoreOf(l, yandex[kind][b]) < Automatic)
          BY <4>1 DEF ScoreOf
        <5>2. close \in TooClose(l, b) /\ Verdict(l, yandex[kind][b], close) # "auto"
          BY <2>3, <2>4
        <5>3. ~ alike[kind][<<l, yandex[kind][b]>>].conflict
          BY <3>1, <3>5
        <5>. QED BY <5>1, <5>2, <5>3, DoubtHasRival
      <4>3. s(b) - s(m) < Gap \/ s(b) - s(m) = Gap
        BY <4>2 DEF ScoreOf
      <4>4. s(m) \in Int /\ s(b) \in Int
        BY <2>3, <3>3, <4>2
      <4>5. s(m) >= s(b) - Gap
        BY <3>2, <4>3, <4>4
      <4>. QED BY <3>5, <4>2, <4>5 DEF Near
    <3>. QED BY <3>4, <3>5
  <2>5. ASSUME NEW m \in Considered(l) PROVE ~ TakenBy(yandex[kind][m])
    <3>1. ASSUME NEW r, r = yandex[kind][m], NEW k, k = kind PROVE ~ Taken(r, k, i)'
      BY <2>2, <2>5, <3>1, UnusedIsFree DEF Considered
    <3>. QED BY <1>1, <3>1 DEF Taken
  <2>6. ASSUME NEW n \in DOMAIN yandex[kind], TwinsIn(alike[kind], l, yandex[kind][n])
        PROVE  \/ items'[i].decision = "auto"
               \/ TakenBy(yandex[kind][n])
               \/ \E m \in DOMAIN yandex[kind] \ {n} :
                    ~ TakenBy(yandex[kind][m]) /\ Near(alike[kind], l, yandex[kind][n], yandex[kind][m])
    BY <1>4, <2>4, <2>5, <2>6 DEF Considered
  <2>. QED BY <1>3, <2>3, <2>6
<1>6. CASE MatchNone
  <2>1. kind \in Turns /\ merged < Lefts /\ Considered(l) = {}
    BY <1>6, NoneEffect
  <2>2. merged + 1 \in DOMAIN youtube[kind]
    BY <2>1 DEF Lefts, IInv, ListsSound, PlaceSound
  <2>3. items'[i].kind = kind /\ items'[i].left = merged + 1
    <3>1. items \in Seq(Item)
      BY DEF IInv, PlaceSound
    <3>. QED BY <1>6, <3>1, NoneEffect, AppendFacts
  <2>4. ASSUME NEW n \in DOMAIN yandex[kind], TwinsIn(alike[kind], l, yandex[kind][n])
        PROVE  TakenBy(yandex[kind][n])
    <3>1. n \in Considered(l) \/ yandex[kind][n].id \in used
      BY <2>1, <2>2, <2>4, TwinInTurn
    <3>2. yandex[kind][n].id \in used
      BY <2>1, <3>1
    <3>. QED BY <1>4, <3>2
  <2>. QED BY <1>3, <2>3, <2>4
<1>7. CASE items'[i].left = 0
  BY <1>7 DEF TwinIsAuto
<1>. QED BY <1>5, <1>6, <1>7, NewItem

-----------------------------------------------------------------------------
(* The theorems. *)

\* A youtube hit goes without a yandex hit that is like it, or has one that is
\* less like it, only if an earlier youtube hit has taken that one.
THEOREM TakenOnlyByEarlier == Spec => []OnlyEarlierTakes
<1>1. OnlyEarlierTakes <=> \A i \in DOMAIN items : OnlyEarlier(i)
  BY DEF OnlyEarlierTakes, OnlyEarlier
<1>2. Init => OnlyEarlierTakes
  BY DEF Init, OnlyEarlierTakes
<1>3. IInv /\ OnlyEarlierTakes /\ [Next]_vars => OnlyEarlierTakes'
  <2>. SUFFICES ASSUME IInv, OnlyEarlierTakes, [Next]_vars, NEW i \in DOMAIN items'
                PROVE  OnlyEarlier(i)'
    BY DEF OnlyEarlierTakes, OnlyEarlier
  <2>1. CASE i \in DOMAIN items
    BY <1>1, <2>1, OldItems
  <2>2. CASE i \notin DOMAIN items
    BY <2>2, NewOnlyEarlier
  <2>. QED BY <2>1, <2>2
<1>. QED BY <1>2, <1>3, Inductive, PTL DEF Spec

\* A match without doubt has no rival, and no yandex hit is matched twice,
\* whatever the platforms list.
THEOREM AutoStandsAlone == Spec => []AutoHasNoRival
<1>1. AutoHasNoRival <=> \A i \in DOMAIN items : NoRival(i)
  BY DEF AutoHasNoRival, NoRival
<1>2. Init => AutoHasNoRival
  BY DEF Init, AutoHasNoRival
<1>3. IInv /\ AutoHasNoRival /\ [Next]_vars => AutoHasNoRival'
  <2>. SUFFICES ASSUME IInv, AutoHasNoRival, [Next]_vars, NEW i \in DOMAIN items'
                PROVE  NoRival(i)'
    BY DEF AutoHasNoRival, NoRival
  <2>1. CASE i \in DOMAIN items
    BY <1>1, <2>1, OldItems
  <2>2. CASE i \notin DOMAIN items
    BY <2>2, NewNoRival
  <2>. QED BY <2>1, <2>2
<1>. QED BY <1>2, <1>3, Inductive, PTL DEF Spec

\* With a threshold above seven eighths, as the default is, no other version,
\* no pair of names without a token and no track whose album only yandex knows
\* becomes a match without doubt, whatever the words and the ratios are.
THEOREM AutoMustBeEarned ==
  ASSUME Automatic > 8750
  PROVE  Spec => []AutoIsEarned
<1>1. AutoIsEarned <=> \A i \in DOMAIN items : Earned(i)
  BY DEF AutoIsEarned, Earned
<1>2. Init => AutoIsEarned
  BY DEF Init, AutoIsEarned
<1>3. IInv /\ AutoIsEarned /\ [Next]_vars => AutoIsEarned'
  <2>. SUFFICES ASSUME IInv, AutoIsEarned, [Next]_vars, NEW i \in DOMAIN items'
                PROVE  Earned(i)'
    BY DEF AutoIsEarned, Earned
  <2>1. CASE i \in DOMAIN items
    BY <1>1, <2>1, OldItems
  <2>2. CASE i \notin DOMAIN items
    BY <2>2, NewEarned
  <2>. QED BY <2>1, <2>2
<1>. QED BY <1>2, <1>3, Inductive, PTL DEF Spec

LEMMA TwinRules ==
  ASSUME \A i \in DOMAIN items : TwinIsAuto(i) PROVE TwinsAreAuto
<1>1. \A k, l, r : Twins(k, l, r) => TwinsIn(alike[k], l, r)
  BY DEF Twins, TwinsIn
<1>. QED BY <1>1, Zenon DEF TwinsAreAuto, TwinIsAuto, Near

\* A pair of which everything that is known agrees is a match without doubt,
\* unless an earlier youtube hit has taken the yandex hit or a rival is near:
\* with no threshold above 0.895, what is missing on one side never costs the match.
THEOREM TwinsAreMatched ==
  ASSUME Candidate <= 8950, Ambiguous <= 8950, Automatic <= 8950
  PROVE  Spec => []TwinsAreAuto
<1> DEFINE TwinRule == \A i \in DOMAIN items : TwinIsAuto(i)
<1>1. TwinRule => TwinsAreAuto
  BY TwinRules
<1>2. Init => TwinRule
  BY DEF Init
<1>3. IInv /\ TwinRule /\ [Next]_vars => TwinRule'
  <2>. SUFFICES ASSUME IInv, TwinRule, [Next]_vars, NEW i \in DOMAIN items'
                PROVE  TwinIsAuto(i)'
    OBVIOUS
  <2>1. CASE i \in DOMAIN items
    BY <2>1, OldItems
  <2>2. CASE i \notin DOMAIN items
    BY <2>2, NewTwinIsAuto
  <2>. QED BY <2>1, <2>2
<1> HIDE DEF TwinRule
<1>. QED BY <1>1, <1>2, <1>3, Inductive, PTL DEF Spec

-----------------------------------------------------------------------------
(* What is shown.  The merge counts the hits of a kind off, youtube's      *)
(* first; the answer is the items, each at the place of its rank.          *)

\* The hits of a kind that are merged.
Done(k) ==
  IF k < kind THEN Len(youtube[k]) + Len(yandex[k]) ELSE IF k = kind THEN merged ELSE 0

Matches(k) == {i \in ItemsOf(items, k) : items[i].left # 0 /\ items[i].right # NoHit}

TakenIds(k) == {items[i].right.id : i \in Matches(k)}

\* The items that show a yandex hit alone, and the places that call for one.
Lone(k, h) == {i \in ItemsOf(items, k) : items[i].left = 0 /\ items[i].right = h}

LeftOver(k, h) ==
  {n \in DOMAIN yandex[k] : /\ Len(youtube[k]) + n <= Done(k) /\ yandex[k][n] = h
                            /\ h.id \notin TakenIds(k)}

\* The lists are those of one world, and one table goes with each turn.
WorldSound ==
  /\ \E w \in Worlds : youtube \in w.youtube /\ yandex \in w.yandex
  /\ DOMAIN alike = Turns

\* No turn goes on after its last hit.
MergedBounded == kind \in Turns => merged <= Lefts + Rights

\* used holds the ids of the kind's matches and no other.
UsedIsTakenIds == kind \in Turns => used = TakenIds(kind)

\* Every youtube hit that is merged is in one item.
LeftsShown ==
  /\ \A k \in Turns : \A i \in ItemsOf(items, k) : items[i].left <= Done(k)
  /\ \A i, j \in DOMAIN items :
       items[i].kind = items[j].kind /\ items[i].left = items[j].left /\ items[i].left # 0 => i = j
  /\ \A k \in Turns : \A n \in DOMAIN youtube[k] :
       n <= Done(k) => \E i \in ItemsOf(items, k) : items[i].left = n

\* A match is with a hit of the list, and with no hit twice.
MatchedOnce ==
  \A k \in Turns :
    /\ \A i \in Matches(k) : \E n \in DOMAIN yandex[k] : items[i].right = yandex[k][n]
    /\ \A i, j \in Matches(k) : items[i].right.id = items[j].right.id => i = j

\* A yandex hit that is left over is alone as often as it has been listed.
LonesCounted ==
  \A k \in Turns : \A n \in DOMAIN yandex[k] :
    Cardinality(Lone(k, yandex[k][n])) = Cardinality(LeftOver(k, yandex[k][n]))

\* One sequence is the other in some order.
Permutes(s, t) ==
  \E f \in Bijection(DOMAIN t, DOMAIN s) : \A i \in DOMAIN t : s[f[i]] = t[i]

Answered ==
  /\ answer \in Seq(Item)
  /\ answer # <<>> => kind = 4 /\ Permutes(answer, items)

\* The invariant of the counting: the match takes what it counts, and the answer
\* is the items in another order.
SInv ==
  /\ WorldSound /\ MergedBounded /\ UsedIsTakenIds /\ LeftsShown /\ MatchedOnce
  /\ LonesCounted /\ Answered

LEMMA ListFacts ==
  ASSUME IInv, NEW k \in Turns
  PROVE  /\ Len(youtube[k]) \in Nat /\ DOMAIN youtube[k] = 1..Len(youtube[k])
         /\ Len(yandex[k]) \in Nat /\ DOMAIN yandex[k] = 1..Len(yandex[k])
         /\ Done(k) \in Nat /\ k \in Nat
<1>1. youtube[k] \in Seq(Hit(k)) /\ yandex[k] \in Seq(Hit(k))
  BY DEF IInv, ListsSound
<1>2. merged \in Nat /\ k \in Nat
  BY KindFacts DEF IInv, PlaceSound
<1>3. /\ Len(youtube[k]) \in Nat /\ DOMAIN youtube[k] = 1..Len(youtube[k])
      /\ Len(yandex[k]) \in Nat /\ DOMAIN yandex[k] = 1..Len(yandex[k])
  BY <1>1
<1>4. Len(youtube[k]) + Len(yandex[k]) \in Nat
  <2>1. \A a, b \in Nat : a + b \in Nat
    OBVIOUS
  <2>. QED BY <1>3, <2>1, Zenon
<1>. QED BY <1>2, <1>3, <1>4, Zenon DEF Done

LEMMA ItemFacts ==
  ASSUME IInv, NEW i \in DOMAIN items
  PROVE  /\ items[i].kind \in Turns /\ items[i].left \in Nat
         /\ items[i].right \in Hits \cup {NoHit} /\ items[i].score \in Nat
         /\ items[i].decision \in Decisions /\ items[i].kind <= kind
<1>1. items[i] \in Item /\ items[i].kind <= kind
  BY DEF IInv, PlaceSound
<1>. QED BY <1>1 DEF Item

\* The counting goes on while the items stay.
LEMMA ShownKept ==
  ASSUME items' = items, given' = given, \A k \in Turns : Done(k)' = Done(k), IInv,
         LeftsShown, MatchedOnce, LonesCounted
  PROVE  LeftsShown' /\ MatchedOnce' /\ LonesCounted'
<1>1. youtube' = youtube /\ yandex' = yandex
  BY DEF given
<1>2. ASSUME NEW k \in Turns
      PROVE  /\ ItemsOf(items, k)' = ItemsOf(items, k)
             /\ Matches(k)' = Matches(k) /\ TakenIds(k)' = TakenIds(k)
  BY DEF ItemsOf, Matches, TakenIds
<1>3. ASSUME NEW k \in Turns, NEW h
      PROVE  Lone(k, h)' = Lone(k, h) /\ LeftOver(k, h)' = LeftOver(k, h)
  <2>1. Lone(k, h)' = Lone(k, h)
    BY DEF Lone, ItemsOf
  <2>2. TakenIds(k)' = TakenIds(k) /\ Done(k)' = Done(k)
    BY <1>2
  <2>. QED BY <1>1, <2>1, <2>2 DEF LeftOver
<1>4. LeftsShown'
  BY <1>1, <1>2 DEF LeftsShown
<1>5. MatchedOnce'
  BY <1>1, <1>2 DEF MatchedOnce
<1>6. LonesCounted'
  <2>. SUFFICES ASSUME NEW k \in Turns, NEW n \in DOMAIN yandex[k], NEW h, h = yandex[k][n]
                PROVE  Cardinality(Lone(k, h)') = Cardinality(LeftOver(k, h)')
    BY <1>1 DEF LonesCounted
  <2>. QED BY <1>3 DEF LonesCounted
<1>. QED BY <1>4, <1>5, <1>6

LEMMA FiniteShown ==
  ASSUME IInv, NEW k \in Turns, NEW h
  PROVE  IsFiniteSet(Lone(k, h)) /\ IsFiniteSet(LeftOver(k, h))
<1>1. Len(items) \in Nat /\ DOMAIN items = 1..Len(items)
  BY DEF IInv, PlaceSound
<1>2. IsFiniteSet(DOMAIN items) /\ IsFiniteSet(DOMAIN yandex[k])
  <2>1. \A n \in Nat : IsFiniteSet(1..n)
    BY FS_Interval
  <2>2. Len(yandex[k]) \in Nat /\ DOMAIN yandex[k] = 1..Len(yandex[k])
    BY ListFacts
  <2>. QED BY <1>1, <2>1, <2>2, Zenon
<1>3. Lone(k, h) \in SUBSET DOMAIN items /\ LeftOver(k, h) \in SUBSET DOMAIN yandex[k]
  BY DEF Lone, ItemsOf, LeftOver
<1>. QED BY <1>2, <1>3, FS_Subset

\* A youtube hit is merged, with a yandex hit or without.
Merged(it) ==
  /\ items' = Append(items, it) /\ it.kind = kind /\ it.left = merged + 1
  /\ it.right # NoHit =>
       /\ \E n \in DOMAIN yandex[kind] : it.right = yandex[kind][n]
       /\ it.right.id \notin used
  /\ used' = IF it.right = NoHit THEN used ELSE used \cup {it.right.id}
  /\ kind \in Turns /\ merged < Lefts /\ merged' = merged + 1
  /\ kind' = kind /\ given' = given /\ answer' = answer

LEMMA MergedItem ==
  ASSUME IInv, MatchNone \/ MatchBest
  PROVE  \E it \in Item : Merged(it)
<1>1. CASE MatchNone
  <2> DEFINE it == [kind |-> kind, left |-> merged + 1, right |-> NoHit,
                    decision |-> "reject", score |-> 0]
  <2>1. it \in Item /\ items' = Append(items, it) /\ used' = used
    BY <1>1, NoneEffect
  <2>2. it.kind = kind /\ it.left = merged + 1 /\ it.right = NoHit
    OBVIOUS
  <2>3. /\ kind \in Turns /\ merged < Lefts /\ merged' = merged + 1
        /\ kind' = kind /\ given' = given /\ answer' = answer
    BY <1>1 DEF MatchNone, Merge
  <2> HIDE DEF it
  <2>4. Merged(it)
    BY <2>1, <2>2, <2>3 DEF Merged
  <2>. QED BY <2>1, <2>4
<1>2. CASE MatchBest
  <2>1. PICK n \in DOMAIN yandex[kind], close \in BOOLEAN :
              LET l == youtube[kind][merged + 1]
                  r == yandex[kind][n]
                  verdict == Verdict(l, r, close)
                  right == IF verdict = "reject" THEN NoHit ELSE r
                  it == [kind |-> kind, left |-> merged + 1, right |-> right,
                         decision |-> verdict, score |-> ScoreOf(l, r)]
              IN  /\ Best(l, n) /\ r # NoHit
                  /\ it \in Item /\ items' = Append(items, it)
                  /\ used' = IF verdict = "reject" THEN used ELSE used \cup {r.id}
    BY <1>2, BestEffect
  <2> DEFINE l == youtube[kind][merged + 1]
             r == yandex[kind][n]
             verdict == Verdict(l, r, close)
             right == IF verdict = "reject" THEN NoHit ELSE r
             score == ScoreOf(l, r)
             it == [kind |-> kind, left |-> merged + 1, right |-> right,
                    decision |-> verdict, score |-> score]
  <2>2. it \in Item /\ items' = Append(items, it)
    BY <2>1
  <2>3. it.kind = kind /\ it.left = merged + 1 /\ it.right = right
    OBVIOUS
  <2>4. r # NoHit /\ r.id \notin used
    BY <2>1 DEF Best, Considered
  <2>5. used' = IF right = NoHit THEN used ELSE used \cup {right.id}
    BY <2>1, <2>4
  <2>6. right # NoHit => right = yandex[kind][n] /\ right.id \notin used
    BY <2>4
  <2>7. /\ kind \in Turns /\ merged < Lefts /\ merged' = merged + 1
        /\ kind' = kind /\ given' = given /\ answer' = answer
    BY <1>2 DEF MatchBest, Merge
  <2> HIDE DEF it, right
  <2>8. n \in DOMAIN yandex[kind]
    BY <2>1
  <2>9. Merged(it)
    BY <2>2, <2>3, <2>5, <2>6, <2>7, <2>8 DEF Merged
  <2>. QED BY <2>2, <2>9
<1>. QED BY <1>1, <1>2

LEMMA MergedKeeps ==
  ASSUME IInv, SInv, NEW it \in Item, Merged(it)
  PROVE  SInv'
<1> DEFINE last == Len(items) + 1
<1>1. /\ DOMAIN items' = DOMAIN items \cup {last} /\ last \notin DOMAIN items
      /\ \A i \in DOMAIN items : items'[i] = items[i]
      /\ items'[last] = it
  <2>1. items \in Seq(Item)
    BY DEF IInv, PlaceSound
  <2>. QED BY <2>1, AppendFacts DEF Merged
<1> HIDE DEF last
<1>2. /\ youtube' = youtube /\ yandex' = yandex /\ alike' = alike /\ kind' = kind
      /\ kind \in Turns /\ merged' = merged + 1 /\ answer' = answer
      /\ it.kind = kind /\ it.left = merged + 1
  BY DEF Merged, given
<1>3. /\ merged \in Nat /\ kind \in Nat /\ merged < Len(youtube[kind])
      /\ Len(youtube[kind]) \in Nat /\ Len(yandex[kind]) \in Nat
  BY <1>2, ListFacts DEF Merged, Lefts, IInv, PlaceSound
<1>4. ASSUME NEW k \in Turns
      PROVE  Done(k)' = (IF k = kind THEN merged + 1 ELSE Done(k)) /\ (k = kind => Done(k) = merged)
  <2>1. CASE k = kind
    <3>1. ~ (k < kind)
      BY <1>3, <2>1
    <3>. QED BY <1>2, <2>1, <3>1 DEF Done
  <2>2. CASE k # kind
    BY <1>2, <2>2 DEF Done
  <2>. QED BY <2>1, <2>2
<1>5. ASSUME NEW k \in Turns
      PROVE  /\ ItemsOf(items, k)' = ItemsOf(items, k) \cup (IF k = kind THEN {last} ELSE {})
             /\ Matches(k)' = Matches(k) \cup
                  (IF k = kind /\ it.right # NoHit THEN {last} ELSE {})
  BY <1>1, <1>2, <1>3 DEF ItemsOf, Matches
<1>6. ASSUME NEW k \in Turns
      PROVE  TakenIds(k)' = TakenIds(k) \cup
               (IF k = kind /\ it.right # NoHit THEN {it.right.id} ELSE {})
  <2>1. \A i \in Matches(k) : i \in DOMAIN items
    BY DEF Matches, ItemsOf
  <2>. QED BY <1>1, <1>5, <2>1 DEF TakenIds
<1>7. WorldSound'
  BY <1>2 DEF SInv, WorldSound
<1>8. MergedBounded'
  <2>1. merged + 1 <= Len(youtube[kind]) + Len(yandex[kind])
    <3>1. \A m, a, b \in Nat : m < a => m + 1 <= a + b
      OBVIOUS
    <3>. QED BY <1>3, <3>1, Zenon
  <2>. QED BY <1>2, <2>1 DEF MergedBounded, Lefts, Rights
<1>9. UsedIsTakenIds'
  BY <1>2, <1>6 DEF SInv, UsedIsTakenIds, Merged
<1>10. LeftsShown'
  <2>1. ASSUME NEW k \in Turns, NEW i \in ItemsOf(items, k)' PROVE items'[i].left <= Done(k)'
    <3>1. CASE i \in ItemsOf(items, k)
      <4>1. items[i].left <= Done(k) /\ items[i].left \in Nat /\ Done(k) \in Nat
        BY <3>1, ItemFacts, ListFacts DEF SInv, LeftsShown, ItemsOf
      <4>2. Done(k)' \in Nat /\ Done(k) <= Done(k)'
        BY <1>3, <1>4, <4>1
      <4>3. items[i].left <= Done(k)'
        BY <4>1, <4>2
      <4>. QED BY <1>1, <3>1, <4>3 DEF ItemsOf
    <3>2. CASE i = last /\ k = kind
      <4>1. Done(k)' = merged + 1
        BY <1>4, <3>2
      <4>. QED BY <1>1, <1>2, <1>3, <3>2, <4>1
    <3>. QED BY <1>5, <3>1, <3>2
  <2>2. ASSUME NEW i \in DOMAIN items', NEW j \in DOMAIN items',
               items'[i].kind = items'[j].kind, items'[i].left = items'[j].left, items'[i].left # 0
        PROVE  i = j
    <3>1. ASSUME NEW m \in DOMAIN items, items[m].kind = kind PROVE items[m].left # merged + 1
      <4>1. PICK k \in Turns : k = kind
        BY <1>2
      <4>2. items[m].left <= merged /\ items[m].left \in Nat
        BY <1>4, <3>1, <4>1, ItemFacts DEF SInv, LeftsShown, ItemsOf
      <4>. QED BY <1>3, <4>2
    <3>. QED BY <1>1, <1>2, <2>2, <3>1 DEF SInv, LeftsShown
  <2>3. ASSUME NEW k \in Turns, NEW n \in DOMAIN youtube[k], n <= Done(k)'
        PROVE  \E i \in ItemsOf(items, k)' : items'[i].left = n
    <3>1. CASE n <= Done(k)
      <4>1. PICK i \in ItemsOf(items, k) : items[i].left = n
        BY <3>1 DEF SInv, LeftsShown
      <4>. QED BY <1>1, <1>5, <4>1 DEF ItemsOf
    <3>2. CASE k = kind /\ n = merged + 1
      BY <1>1, <1>2, <1>5, <3>2
    <3>3. n \in Nat
      BY ListFacts
    <3>. QED BY <1>3, <1>4, <2>3, <3>1, <3>2, <3>3
  <2>4. \A k \in Turns : \A n \in DOMAIN youtube'[k] :
          n <= Done(k)' => \E i \in ItemsOf(items, k)' : items'[i].left = n
    BY <1>2, <2>3
  <2>. QED BY <2>1, <2>2, <2>4 DEF LeftsShown
<1>11. MatchedOnce'
  <2>. SUFFICES ASSUME NEW k \in Turns
                PROVE  /\ \A i \in Matches(k)' : \E n \in DOMAIN yandex[k] : items'[i].right = yandex[k][n]
                       /\ \A i, j \in Matches(k)' : items'[i].right.id = items'[j].right.id => i = j
    BY <1>2 DEF MatchedOnce
  <2>1. \A i \in Matches(k) : i \in DOMAIN items /\ items'[i] = items[i] /\ items[i].right.id \in TakenIds(k)
    BY <1>1 DEF Matches, ItemsOf, TakenIds
  <2>2. /\ \A i \in Matches(k) : \E n \in DOMAIN yandex[k] : items[i].right = yandex[k][n]
        /\ \A i, j \in Matches(k) : items[i].right.id = items[j].right.id => i = j
    BY DEF SInv, MatchedOnce
  <2>3. CASE k = kind /\ it.right # NoHit
    <3>1. it.right.id \notin TakenIds(k) /\ \E n \in DOMAIN yandex[k] : it.right = yandex[k][n]
      BY <1>2, <2>3 DEF SInv, UsedIsTakenIds, Merged
    <3>2. Matches(k)' = Matches(k) \cup {last}
      BY <1>5, <2>3
    <3>. QED BY <1>1, <2>1, <2>2, <3>1, <3>2
  <2>4. CASE ~ (k = kind /\ it.right # NoHit)
    <3>1. Matches(k)' = Matches(k)
      BY <1>5, <2>4
    <3>. QED BY <2>1, <2>2, <3>1
  <2>. QED BY <2>3, <2>4
<1>12. LonesCounted'
  <2>. SUFFICES ASSUME NEW k \in Turns, NEW n \in DOMAIN yandex[k], NEW h, h = yandex[k][n]
                PROVE  Cardinality(Lone(k, h)') = Cardinality(LeftOver(k, h)')
    BY <1>2 DEF LonesCounted
  <2>1. Lone(k, h)' = Lone(k, h)
    BY <1>1, <1>2, <1>3, <1>5 DEF Lone, ItemsOf
  <2>2. LeftOver(k, h)' = LeftOver(k, h)
    <3>1. CASE k = kind
      <4>1. \A m \in DOMAIN yandex[k] :
              /\ ~ (Len(youtube[k]) + m <= Done(k)) /\ ~ (Len(youtube[k]) + m <= merged + 1)
        BY <1>3, <1>4, <3>1, ListFacts
      <4>2. Done(k)' = merged + 1
        BY <1>4, <3>1
      <4>. QED BY <1>2, <4>1, <4>2 DEF LeftOver
    <3>2. CASE k # kind
      <4>1. TakenIds(k)' = TakenIds(k) /\ Done(k)' = Done(k)
        BY <1>4, <1>6, <3>2
      <4>. QED BY <1>2, <4>1 DEF LeftOver
    <3>. QED BY <3>1, <3>2
  <2>. QED BY <2>1, <2>2 DEF SInv, LonesCounted
<1>13. Answered'
  <2>1. kind # 4
    BY <1>2, KindFacts
  <2>. QED BY <1>2, <2>1 DEF SInv, Answered
<1>. QED BY <1>7, <1>8, <1>9, <1>10, <1>11, <1>12, <1>13 DEF SInv

LEMMA LeftOverKeeps ==
  ASSUME IInv, SInv, LeaveOver
  PROVE  SInv'
<1>1. /\ kind \in Turns /\ merged >= Lefts /\ merged < Lefts + Rights /\ merged' = merged + 1
      /\ youtube' = youtube /\ yandex' = yandex /\ alike' = alike /\ given' = given
      /\ kind' = kind /\ used' = used /\ answer' = answer
  BY DEF LeaveOver, given
<1>2. /\ merged \in Nat /\ kind \in Nat
      /\ Len(youtube[kind]) \in Nat /\ Len(yandex[kind]) \in Nat
      /\ Lefts = Len(youtube[kind]) /\ Rights = Len(yandex[kind])
  BY <1>1, ListFacts DEF Lefts, Rights, IInv, PlaceSound
<1>3. PICK p : p = (merged - Lefts) + 1
  OBVIOUS
<1>4. p \in Nat /\ p \in DOMAIN yandex[kind] /\ Len(youtube[kind]) + p = merged + 1
  <2>1. \A m, a, b \in Nat : m >= a /\ m < a + b =>
          (m - a) + 1 \in Nat /\ (m - a) + 1 \in 1..b /\ a + ((m - a) + 1) = m + 1
    OBVIOUS
  <2>2. DOMAIN yandex[kind] = 1..Len(yandex[kind])
    BY <1>1, ListFacts
  <2>3. merged >= Len(youtube[kind]) /\ merged < Len(youtube[kind]) + Len(yandex[kind])
    BY <1>1, <1>2, Zenon
  <2>4. p = (merged - Len(youtube[kind])) + 1
    BY <1>2, <1>3, Zenon
  <2>. QED BY <1>2, <2>1, <2>2, <2>3, <2>4, Zenon
<1>5. PICK r : r = yandex[kind][p]
  OBVIOUS
<1>6. PICK it : it = [kind |-> kind, left |-> 0, right |-> r, decision |-> "reject", score |-> 0]
  OBVIOUS
<1>7. items' = IF r.id \in used THEN items ELSE Append(items, it)
  BY <1>3, <1>5, <1>6 DEF LeaveOver
<1>8. it \in Item /\ it.kind = kind /\ it.left = 0 /\ it.right = r
  <2>1. r \in Hits
    <3>1. r \in Hit(kind)
      BY <1>1, <1>4, <1>5 DEF IInv, ListsSound
    <3>. QED BY <1>1, <3>1 DEF Hits
  <2>. QED BY <1>1, <1>6, <2>1 DEF Item, Decisions
<1> DEFINE last == Len(items) + 1
           New == IF r.id \in used THEN {} ELSE {last}
<1>9. /\ DOMAIN items' = DOMAIN items \cup New /\ last \notin DOMAIN items
      /\ \A i \in DOMAIN items : items'[i] = items[i]
      /\ \A i \in New : items'[i] = it
  <2>1. items \in Seq(Item)
    BY DEF IInv, PlaceSound
  <2>2. last \notin DOMAIN items
    BY <2>1
  <2>3. CASE r.id \in used
    BY <1>7, <2>2, <2>3
  <2>4. CASE r.id \notin used
    BY <1>7, <1>8, <2>1, <2>4, AppendFacts
  <2>. QED BY <2>3, <2>4
<1> HIDE DEF last, New
<1>10. ASSUME NEW k \in Turns
       PROVE  Done(k)' = (IF k = kind THEN merged + 1 ELSE Done(k)) /\ (k = kind => Done(k) = merged)
  <2>1. CASE k = kind
    <3>1. ~ (k < kind)
      BY <1>2, <2>1
    <3>. QED BY <1>1, <2>1, <3>1 DEF Done
  <2>2. CASE k # kind
    BY <1>1, <2>2 DEF Done
  <2>. QED BY <2>1, <2>2
<1>11. ASSUME NEW k \in Turns
       PROVE  /\ ItemsOf(items, k)' = ItemsOf(items, k) \cup (IF k = kind THEN New ELSE {})
              /\ Matches(k)' = Matches(k)
  BY <1>8, <1>9 DEF ItemsOf, Matches
<1>12. ASSUME NEW k \in Turns PROVE TakenIds(k)' = TakenIds(k)
  <2>1. \A i \in Matches(k) : i \in DOMAIN items
    BY DEF Matches, ItemsOf
  <2>. QED BY <1>9, <1>11, <2>1 DEF TakenIds
<1>13. WorldSound' /\ UsedIsTakenIds'
  BY <1>1, <1>12 DEF SInv, WorldSound, UsedIsTakenIds
<1>14. MergedBounded'
  <2>1. \A m, a, b \in Nat : m < a + b => m + 1 <= a + b
    OBVIOUS
  <2>2. merged < Len(youtube[kind]) + Len(yandex[kind])
    BY <1>1, <1>2, Zenon
  <2>3. merged + 1 <= Len(youtube[kind]) + Len(yandex[kind])
    BY <1>2, <2>1, <2>2, Zenon
  <2>. QED BY <1>1, <2>3 DEF MergedBounded, Lefts, Rights
<1>15. LeftsShown'
  <2>1. ASSUME NEW k \in Turns, NEW i \in ItemsOf(items, k)' PROVE items'[i].left <= Done(k)'
    <3>1. Done(k) \in Nat /\ Done(k)' \in Nat /\ Done(k) <= Done(k)'
      BY <1>2, <1>10, ListFacts
    <3>2. CASE i \in ItemsOf(items, k)
      <4>1. items[i].left <= Done(k) /\ items[i].left \in Nat
        BY <3>2, ItemFacts DEF SInv, LeftsShown, ItemsOf
      <4>2. items[i].left <= Done(k)'
        BY <3>1, <4>1
      <4>. QED BY <1>9, <3>2, <4>2 DEF ItemsOf
    <3>3. CASE i \in New
      BY <1>8, <1>9, <3>1, <3>3
    <3>. QED BY <1>11, <3>2, <3>3
  <2>2. \A i, j \in DOMAIN items' :
          items'[i].kind = items'[j].kind /\ items'[i].left = items'[j].left /\ items'[i].left # 0
            => i = j
    BY <1>8, <1>9 DEF SInv, LeftsShown
  <2>3. ASSUME NEW k \in Turns, NEW n \in DOMAIN youtube[k], n <= Done(k)'
        PROVE  \E i \in ItemsOf(items, k)' : items'[i].left = n
    <3>1. n <= Done(k)
      <4>1. k = kind => n <= Done(k)
        BY <1>1, <1>2, <1>10, ListFacts
      <4>. QED BY <1>10, <2>3, <4>1
    <3>2. PICK i \in ItemsOf(items, k) : items[i].left = n
      BY <3>1 DEF SInv, LeftsShown
    <3>. QED BY <1>9, <1>11, <3>2 DEF ItemsOf
  <2>4. \A k \in Turns : \A n \in DOMAIN youtube'[k] :
          n <= Done(k)' => \E i \in ItemsOf(items, k)' : items'[i].left = n
    BY <1>1, <2>3
  <2>. QED BY <2>1, <2>2, <2>4 DEF LeftsShown
<1>16. MatchedOnce'
  <2>1. \A k \in Turns : \A i \in Matches(k) : i \in DOMAIN items
    BY DEF Matches, ItemsOf
  <2>. QED BY <1>1, <1>9, <1>11, <2>1 DEF SInv, MatchedOnce
<1>17. LonesCounted'
  <2>. SUFFICES ASSUME NEW k \in Turns, NEW n \in DOMAIN yandex[k], NEW h, h = yandex[k][n]
                PROVE  Cardinality(Lone(k, h)') = Cardinality(LeftOver(k, h)')
    BY <1>1 DEF LonesCounted
  <2>1. Cardinality(Lone(k, h)) = Cardinality(LeftOver(k, h))
    BY DEF SInv, LonesCounted
  <2>2. CASE k = kind /\ h = r /\ r.id \notin used
    <3>1. New = {last}
      BY <2>2 DEF New
    <3>2. Lone(k, h)' = Lone(k, h) \cup {last} /\ last \notin Lone(k, h)
      BY <1>8, <1>9, <1>11, <2>2, <3>1 DEF Lone, ItemsOf
    <3>3. LeftOver(k, h)' = LeftOver(k, h) \cup {p} /\ p \notin LeftOver(k, h)
      <4>1. h.id \notin TakenIds(k) /\ Done(k)' = merged + 1 /\ Done(k) = merged
        BY <1>1, <1>10, <2>2 DEF SInv, UsedIsTakenIds
      <4>2. \A m \in DOMAIN yandex[k] :
              /\ Len(youtube[k]) + m <= merged + 1 <=> Len(youtube[k]) + m <= merged \/ m = p
              /\ ~ (Len(youtube[k]) + p <= merged)
        BY <1>2, <1>4, <2>2, ListFacts
      <4>. QED BY <1>1, <1>4, <1>5, <1>12, <2>2, <4>1, <4>2 DEF LeftOver
    <3>4. IsFiniteSet(Lone(k, h)) /\ IsFiniteSet(LeftOver(k, h))
      BY FiniteShown
    <3>5. /\ Cardinality(Lone(k, h) \cup {last}) = Cardinality(Lone(k, h)) + 1
          /\ Cardinality(LeftOver(k, h) \cup {p}) = Cardinality(LeftOver(k, h)) + 1
      BY <3>2, <3>3, <3>4, FS_AddElement
    <3>. QED BY <2>1, <3>2, <3>3, <3>5
  <2>3. CASE ~ (k = kind /\ h = r /\ r.id \notin used)
    <3>1. Lone(k, h)' = Lone(k, h)
      <4>1. ASSUME k = kind, NEW i \in New PROVE h # it.right
        BY <1>8, <2>3, <4>1 DEF New
      <4>. QED BY <1>8, <1>9, <1>11, <4>1 DEF Lone, ItemsOf
    <3>2. LeftOver(k, h)' = LeftOver(k, h)
      <4>1. CASE k # kind
        <5>1. Done(k)' = Done(k)
          BY <1>10, <4>1
        <5>. QED BY <1>1, <1>12, <5>1 DEF LeftOver
      <4>2. CASE k = kind
        <5>1. Done(k)' = merged + 1 /\ Done(k) = merged
          BY <1>10, <4>2
        <5>2. \A m \in DOMAIN yandex[k] :
                Len(youtube[k]) + m <= merged + 1 <=> Len(youtube[k]) + m <= merged \/ m = p
          BY <1>2, <1>4, <4>2, ListFacts
        <5>3. yandex[k][p] = h => h.id \in TakenIds(k)
          BY <1>1, <1>5, <2>3, <4>2 DEF SInv, UsedIsTakenIds
        <5>. QED BY <1>1, <1>12, <5>1, <5>2, <5>3 DEF LeftOver
      <4>. QED BY <4>1, <4>2
    <3>. QED BY <2>1, <3>1, <3>2
  <2>. QED BY <2>2, <2>3
<1>18. Answered'
  <2>1. kind # 4
    BY <1>1, KindFacts
  <2>. QED BY <1>1, <2>1 DEF SInv, Answered
<1>. QED BY <1>13, <1>14, <1>15, <1>16, <1>17, <1>18 DEF SInv

-----------------------------------------------------------------------------
(* The order of the answer: every item has a rank of its own. *)

\* The order of keys: rank and score of one item and its place, and of another.
Precedes(a, s, m, b, t, n) == a < b \/ (a = b /\ s > t) \/ (a = b /\ s = t /\ m < n)

LEMMA PrecedesIsTotal ==
  ASSUME NEW a \in Nat, NEW s \in Nat, NEW m \in Nat, NEW b \in Nat, NEW t \in Nat, NEW n \in Nat
  PROVE  /\ ~ Precedes(a, s, m, a, s, m)
         /\ m # n => Precedes(a, s, m, b, t, n) \/ Precedes(b, t, n, a, s, m)
BY DEF Precedes

LEMMA PrecedesIsTransitive ==
  ASSUME NEW a \in Nat, NEW s \in Nat, NEW m \in Nat, NEW b \in Nat, NEW t \in Nat, NEW n \in Nat,
         NEW c \in Nat, NEW u \in Nat, NEW o \in Nat,
         Precedes(a, s, m, b, t, n), Precedes(b, t, n, c, u, o)
  PROVE  Precedes(a, s, m, c, u, o)
BY DEF Precedes

\* Before is a strict order of the places, and a total one.
LEMMA BeforeOrders ==
  ASSUME IInv, NEW i \in DOMAIN items, NEW j \in DOMAIN items
  PROVE  /\ ~ Before(i, i)
         /\ i # j => Before(i, j) \/ Before(j, i)
         /\ \A m \in DOMAIN items : Before(m, i) /\ Before(i, j) => Before(m, j)
<1>1. ASSUME NEW m \in DOMAIN items
      PROVE  Rank(items[m].decision) \in 0..2 /\ items[m].score \in Nat /\ m \in Nat
  <2>1. items[m].decision \in {"auto", "ambiguous", "reject"} /\ items[m].score \in Nat
    BY ItemFacts DEF Decisions
  <2>2. \A d \in {"auto", "ambiguous", "reject"} : Rank(d) \in 0..2
    BY DEF Rank
  <2>3. m \in Nat
    BY DEF IInv, PlaceSound
  <2>. QED BY <2>1, <2>2, <2>3
<1>3. \A m, n \in DOMAIN items :
        Before(m, n) <=> Precedes(Rank(items[m].decision), items[m].score, m,
                                  Rank(items[n].decision), items[n].score, n)
  BY DEF Before, Precedes
<1>2. \A m \in DOMAIN items :
        Rank(items[m].decision) \in Nat /\ items[m].score \in Nat /\ m \in Nat
  BY <1>1
<1>4. ASSUME NEW m \in DOMAIN items, Before(m, i), Before(i, j)
      PROVE  Before(m, j)
  <2>1. PICK a, s, b, t, c, u :
          /\ a = Rank(items[m].decision) /\ s = items[m].score
          /\ b = Rank(items[i].decision) /\ t = items[i].score
          /\ c = Rank(items[j].decision) /\ u = items[j].score
    OBVIOUS
  <2>2. a \in Nat /\ s \in Nat /\ b \in Nat /\ t \in Nat /\ c \in Nat /\ u \in Nat
        /\ m \in Nat /\ i \in Nat /\ j \in Nat
    BY <1>2, <2>1
  <2>3. Precedes(a, s, m, b, t, i) /\ Precedes(b, t, i, c, u, j)
    BY <1>3, <1>4, <2>1
  <2>4. Precedes(a, s, m, c, u, j)
    BY <2>2, <2>3, PrecedesIsTransitive
  <2>. QED BY <1>3, <2>1, <2>4
<1>5. ~ Before(i, i) /\ (i # j => Before(i, j) \/ Before(j, i))
  <2>1. PICK a, s, b, t :
          /\ a = Rank(items[i].decision) /\ s = items[i].score
          /\ b = Rank(items[j].decision) /\ t = items[j].score
    OBVIOUS
  <2>2. a \in Nat /\ s \in Nat /\ b \in Nat /\ t \in Nat /\ i \in Nat /\ j \in Nat
    BY <1>2, <2>1
  <2>3. /\ ~ Precedes(a, s, i, a, s, i)
        /\ i # j => Precedes(a, s, i, b, t, j) \/ Precedes(b, t, j, a, s, i)
    BY <2>2, PrecedesIsTotal
  <2>. QED BY <1>3, <2>1, <2>3
<1>. QED BY <1>4, <1>5

LEMMA RankFacts ==
  ASSUME IInv
  PROVE  /\ \A i \in DOMAIN items : Ahead(i) \in 0..(Len(items) - 1)
         /\ \A i, j \in DOMAIN items : Ahead(i) = Ahead(j) => i = j
<1> DEFINE n == Len(items)
           Earlier(i) == {m \in DOMAIN items : Before(m, i)}
<1>1. n \in Nat /\ DOMAIN items = 1..n
  BY DEF IInv, PlaceSound
<1> HIDE DEF n
<1>2. IsFiniteSet(DOMAIN items) /\ Cardinality(DOMAIN items) = n
  <2>1. IsFiniteSet(1..n) /\ Cardinality(1..n) = n
    BY <1>1, FS_Interval
  <2>. QED BY <1>1, <2>1
<1>3. ASSUME NEW i \in DOMAIN items
      PROVE  IsFiniteSet(Earlier(i)) /\ Ahead(i) \in Nat /\ Ahead(i) < n
  <2>1. Earlier(i) \in SUBSET DOMAIN items /\ i \notin Earlier(i)
    BY BeforeOrders
  <2> HIDE DEF Earlier
  <2>2. /\ IsFiniteSet(Earlier(i)) /\ Cardinality(Earlier(i)) <= n
        /\ Cardinality(Earlier(i)) # n
    BY <1>2, <2>1, FS_Subset
  <2>3. Cardinality(Earlier(i)) \in Nat
    BY <2>2, FS_CardinalityType
  <2>4. Ahead(i) = Cardinality(Earlier(i))
    BY DEF Ahead, Earlier
  <2>. QED BY <1>1, <2>2, <2>3, <2>4
<1>4. ASSUME NEW i \in DOMAIN items, NEW j \in DOMAIN items, Before(i, j)
      PROVE  Ahead(i) < Ahead(j)
  <2>1. Earlier(i) \in SUBSET Earlier(j) /\ i \in Earlier(j) /\ i \notin Earlier(i)
    BY <1>4, BeforeOrders
  <2>2. IsFiniteSet(Earlier(j)) /\ Ahead(i) \in Nat /\ Ahead(j) \in Nat
    BY <1>3
  <2>3. Ahead(i) = Cardinality(Earlier(i)) /\ Ahead(j) = Cardinality(Earlier(j))
    BY DEF Ahead
  <2> HIDE DEF Earlier
  <2>4. Cardinality(Earlier(i)) <= Cardinality(Earlier(j))
        /\ Cardinality(Earlier(i)) # Cardinality(Earlier(j))
    BY <2>1, <2>2, FS_Subset
  <2>. QED BY <2>2, <2>3, <2>4
<1>5. \A i \in DOMAIN items : Ahead(i) \in 0..(n - 1)
  <2>1. \A a, b \in Nat : a < b => a \in 0..(b - 1)
    OBVIOUS
  <2>. QED BY <1>1, <1>3, <2>1, Zenon
<1>6. ASSUME NEW i \in DOMAIN items, NEW j \in DOMAIN items, Ahead(i) = Ahead(j), i # j
      PROVE  FALSE
  <2>1. Before(i, j) \/ Before(j, i)
    BY <1>6, BeforeOrders
  <2>2. Ahead(i) < Ahead(j) \/ Ahead(j) < Ahead(i)
    BY <1>4, <2>1
  <2>3. Ahead(i) \in Nat /\ Ahead(j) \in Nat
    BY <1>3
  <2>4. \A a, b \in Nat : a < b \/ b < a => a # b
    OBVIOUS
  <2>. QED BY <1>6, <2>2, <2>3, <2>4, Zenon
<1>. QED BY <1>5, <1>6 DEF n

\* So the answer is the items in some order.
LEMMA AnswerPermutes ==
  ASSUME IInv, Answer
  PROVE  answer' \in Seq(Item) /\ Permutes(answer', items)
<1>1. /\ DOMAIN answer' = DOMAIN items
      /\ \A p \in DOMAIN items : answer'[p] = items[CHOOSE i \in DOMAIN items : Ahead(i) = p - 1]
  BY DEF Answer
<1>2. Len(items) \in Nat /\ DOMAIN items = 1..Len(items)
  BY DEF IInv, PlaceSound
<1>3. PICK D : D = DOMAIN items
  OBVIOUS
<1>4. PICK n \in Nat : n = Len(items) /\ D = 1..n
  BY <1>2, <1>3
<1>5. PICK f : f = [i \in D |-> Ahead(i) + 1]
  OBVIOUS
<1>6. f \in Injection(D, D)
  <2>1. ASSUME NEW i \in D PROVE Ahead(i) \in Nat /\ f[i] = Ahead(i) + 1 /\ f[i] \in D
    <3>1. Ahead(i) \in 0..(n - 1)
      BY <1>3, <1>4, RankFacts
    <3>. QED BY <1>4, <1>5, <3>1
  <2>2. \A i, j \in D : f[i] = f[j] => i = j
    <3>1. \A i, j \in D : Ahead(i) = Ahead(j) => i = j
      BY <1>3, RankFacts
    <3>2. ASSUME NEW i \in D, NEW j \in D, f[i] = f[j] PROVE Ahead(i) = Ahead(j)
      BY <2>1, <3>2
    <3>. QED BY <3>1, <3>2
  <2>3. f \in [D -> D]
    BY <1>5, <2>1
  <2>. QED BY <2>2, <2>3 DEF Injection, IsInjective
<1>7. f \in Bijection(D, D)
  <2>1. IsFiniteSet(D)
    BY <1>4, FS_Interval
  <2>2. f \in Surjection(D, D)
    BY <1>6, <2>1, FS_Injection
  <2>. QED BY <1>6, <2>2 DEF Bijection
<1>8. ASSUME NEW i \in D PROVE answer'[f[i]] = items[i]
  <2>1. f[i] \in D /\ f[i] = Ahead(i) + 1
    BY <1>5, <1>6 DEF Injection
  <2>2. Ahead(i) \in Int
    BY <1>3, <1>4, RankFacts
  <2>3. (CHOOSE j \in D : Ahead(j) = f[i] - 1) = i
    <3>1. f[i] - 1 = Ahead(i)
      BY <2>1, <2>2
    <3>2. \A j \in D : Ahead(j) = Ahead(i) => j = i
      BY <1>3, RankFacts
    <3>. QED BY <3>1, <3>2
  <2>. QED BY <1>1, <1>3, <2>1, <2>3
<1>9. answer' \in Seq(Item)
  <2>1. ASSUME NEW p \in D PROVE answer'[p] \in Item
    <3>1. PICK i \in D : f[i] = p
      BY <1>7 DEF Bijection, Surjection
    <3>2. answer'[p] = items[i]
      BY <1>8, <3>1
    <3>. QED BY <1>3, <3>2 DEF IInv, PlaceSound
  <2>2. answer' \in [1..n -> Item]
    <3>1. answer' = [p \in D |-> items[CHOOSE i \in D : Ahead(i) = p - 1]]
      BY <1>3 DEF Answer
    <3>2. answer' = [p \in D |-> answer'[p]]
      BY <3>1
    <3>. QED BY <1>4, <2>1, <3>2
  <2>. QED BY <2>2, SeqDef
<1>. QED BY <1>1, <1>3, <1>7, <1>8, <1>9 DEF Permutes

-----------------------------------------------------------------------------
(* The counting is kept. *)

LEMMA InitSInv ==
  Init => SInv
<1>. SUFFICES ASSUME Init PROVE SInv
  OBVIOUS
<1>1. IInv /\ kind = 1 /\ merged = 0 /\ used = {} /\ items = <<>> /\ answer = <<>>
  BY InitIInv DEF Init
<1>2. WorldSound
  <2>1. DOMAIN alike = 1..3
    BY DEF Init
  <2>. QED BY <2>1, KindFacts DEF Init, WorldSound
<1>3. MergedBounded
  <2>1. \A a, b \in Nat : 0 <= a + b
    OBVIOUS
  <2>2. \A k \in Turns : 0 <= Len(youtube[k]) + Len(yandex[k])
    BY <1>1, <2>1, ListFacts, Zenon
  <2>. QED BY <1>1, <2>2 DEF MergedBounded, Lefts, Rights
<1>4. \A k \in Turns : Done(k) = 0 /\ ItemsOf(items, k) = {} /\ Matches(k) = {}
  <2>1. \A k \in Turns : ~ (k < 1)
    BY KindFacts
  <2>2. \A k \in Turns : Done(k) = 0
    BY <1>1, <2>1 DEF Done
  <2>. QED BY <1>1, <2>2 DEF ItemsOf, Matches
<1>5. UsedIsTakenIds
  BY <1>1, <1>4 DEF UsedIsTakenIds, TakenIds
<1>6. \A k \in Turns : \A n \in (DOMAIN youtube[k]) \cup (DOMAIN yandex[k]) :
        ~ (n <= 0) /\ ~ (Len(youtube[k]) + n <= 0)
  <2>1. \A a \in Nat, n \in Nat \ {0} : ~ (n <= 0) /\ ~ (a + n <= 0)
    OBVIOUS
  <2>2. ASSUME NEW k \in Turns
        PROVE  /\ Len(youtube[k]) \in Nat
               /\ (DOMAIN youtube[k]) \cup (DOMAIN yandex[k]) \subseteq Nat \ {0}
    BY <1>1, ListFacts
  <2>. QED BY <2>1, <2>2
<1>7. LeftsShown
  BY <1>1, <1>4, <1>6 DEF LeftsShown
<1>8. MatchedOnce
  BY <1>4 DEF MatchedOnce
<1>9. \A k \in Turns : \A h : Lone(k, h) = {} /\ LeftOver(k, h) = {}
  BY <1>4, <1>6 DEF Lone, LeftOver
<1>10. LonesCounted
  BY <1>9 DEF LonesCounted
<1>11. Answered
  BY <1>1 DEF Answered
<1>. QED BY <1>2, <1>3, <1>5, <1>7, <1>8, <1>10, <1>11 DEF SInv

LEMMA NextKindKeeps ==
  ASSUME IInv, SInv, NextKind
  PROVE  SInv'
<1>1. /\ kind \in Turns /\ kind' = kind + 1 /\ merged = Lefts + Rights /\ merged' = 0
      /\ used' = {} /\ items' = items /\ answer' = answer /\ given' = given
      /\ youtube' = youtube /\ yandex' = yandex /\ alike' = alike
  BY DEF NextKind, given
<1>2. ASSUME NEW k \in Turns PROVE Done(k)' = Done(k)
  <2>1. kind \in Nat /\ k \in Nat
    BY <1>1, KindFacts
  <2>2. CASE k < kind
    <3>1. k < kind + 1
      BY <2>1, <2>2
    <3>. QED BY <1>1, <2>2, <3>1 DEF Done
  <2>3. CASE k = kind
    <3>1. kind < kind + 1 /\ ~ (kind < kind)
      BY <2>1
    <3>. QED BY <1>1, <2>3, <3>1 DEF Done, Lefts, Rights
  <2>4. CASE kind < k
    <3>1. ~ (k < kind + 1) /\ ~ (k < kind) /\ k # kind
      BY <2>1, <2>4
    <3>. QED BY <1>1, <2>4, <3>1 DEF Done
  <2>. QED BY <2>1, <2>2, <2>3, <2>4
<1>3. WorldSound'
  BY <1>1 DEF SInv, WorldSound
<1>4. MergedBounded'
  <2>. SUFFICES ASSUME NEW k \in Turns, k = kind'
                PROVE  0 <= Len(youtube[k]) + Len(yandex[k])
    BY <1>1 DEF MergedBounded, Lefts, Rights
  <2>1. \A a, b \in Nat : 0 <= a + b
    OBVIOUS
  <2>. QED BY <2>1, ListFacts, Zenon
<1>5. UsedIsTakenIds'
  <2>. SUFFICES ASSUME NEW k \in Turns, k = kind' PROVE TakenIds(k)' = {}
    BY <1>1 DEF UsedIsTakenIds
  <2>1. \A i \in DOMAIN items : items[i].kind # k
    <3>1. kind \in Nat
      BY <1>1, KindFacts
    <3>2. ASSUME NEW i \in DOMAIN items PROVE items[i].kind \in Nat /\ items[i].kind <= kind
      BY ItemFacts, KindFacts
    <3>. QED BY <1>1, <3>1, <3>2
  <2>. QED BY <1>1, <2>1 DEF TakenIds, Matches, ItemsOf
<1>6. LeftsShown' /\ MatchedOnce' /\ LonesCounted'
  BY <1>1, <1>2, ShownKept DEF SInv
<1>7. Answered'
  <2>1. kind # 4
    BY <1>1, KindFacts
  <2>. QED BY <1>1, <2>1 DEF SInv, Answered
<1>. QED BY <1>3, <1>4, <1>5, <1>6, <1>7 DEF SInv

LEMMA QuietKeeps ==
  ASSUME IInv, SInv, Answer \/ UNCHANGED vars
  PROVE  SInv'
<1>1. /\ kind' = kind /\ merged' = merged /\ used' = used /\ items' = items /\ given' = given
      /\ youtube' = youtube /\ yandex' = yandex /\ alike' = alike
  BY QuietEffect DEF given
<1>2. ASSUME NEW k \in Turns PROVE Done(k)' = Done(k) /\ TakenIds(k)' = TakenIds(k)
  BY <1>1 DEF Done, TakenIds, Matches, ItemsOf
<1>3. LeftsShown' /\ MatchedOnce' /\ LonesCounted'
  BY <1>1, <1>2, ShownKept DEF SInv
<1>4. WorldSound' /\ MergedBounded' /\ UsedIsTakenIds'
  BY <1>1, <1>2 DEF SInv, WorldSound, MergedBounded, UsedIsTakenIds, Lefts, Rights
<1>5. Answered'
  <2>1. CASE Answer
    <3>1. answer' \in Seq(Item) /\ Permutes(answer', items) /\ kind = 4
      BY <2>1, AnswerPermutes, KindFacts DEF Answer
    <3>. QED BY <1>1, <3>1 DEF Answered, Permutes
  <2>2. CASE UNCHANGED vars
    BY <2>2 DEF SInv, Answered, Permutes, vars
  <2>. QED BY <2>1, <2>2
<1>. QED BY <1>3, <1>4, <1>5 DEF SInv

LEMMA NextSInv ==
  ASSUME IInv, SInv, [Next]_vars
  PROVE  SInv'
BY StepCases, MergedItem, MergedKeeps, LeftOverKeeps, NextKindKeeps, QuietKeeps

\* The counting of what is shown is kept.
THEOREM ShownInductive == Spec => []SInv
BY Inductive, InitSInv, NextSInv, PTL DEF Spec

\* At the end, the items show every hit.
LEMMA ItemsShow ==
  ASSUME IInv, SInv, kind = 4, NEW k \in Turns
  PROVE  /\ \A n \in DOMAIN youtube[k] : \E i \in DOMAIN items :
              {j \in ItemsOf(items, k) : items[j].left = n} = {i}
         /\ \A n \in DOMAIN yandex[k] :
              LET shown == {i \in ItemsOf(items, k) : items[i].right = yandex[k][n]}
                  listed == {m \in DOMAIN yandex[k] : yandex[k][m] = yandex[k][n]} IN
              \/ \E i \in DOMAIN items : shown = {i} /\ items[i].left # 0
              \/ Cardinality(shown) = Cardinality(listed) /\ \A i \in shown : items[i].left = 0
<1>1. Done(k) = Len(youtube[k]) + Len(yandex[k])
  <2>1. k < kind
    BY KindFacts
  <2>. QED BY <2>1 DEF Done
<1>2. /\ Len(youtube[k]) \in Nat /\ DOMAIN youtube[k] = 1..Len(youtube[k])
      /\ Len(yandex[k]) \in Nat /\ DOMAIN yandex[k] = 1..Len(yandex[k])
  BY ListFacts
<1>3. ASSUME NEW n \in DOMAIN youtube[k]
      PROVE  \E i \in DOMAIN items : {j \in ItemsOf(items, k) : items[j].left = n} = {i}
  <2>1. n <= Done(k) /\ n # 0
    <3>1. \A a, b \in Nat : \A m \in 1..a : m <= a + b /\ m # 0
      OBVIOUS
    <3>. QED BY <1>1, <1>2, <3>1, Zenon
  <2>2. PICK i \in ItemsOf(items, k) : items[i].left = n
    BY <2>1 DEF SInv, LeftsShown
  <2>3. \A j \in ItemsOf(items, k) : items[j].left = n => j = i
    BY <2>1, <2>2 DEF SInv, LeftsShown, ItemsOf
  <2>. QED BY <2>2, <2>3 DEF ItemsOf
<1>4. ASSUME NEW n \in DOMAIN yandex[k], NEW h, h = yandex[k][n]
      PROVE  LET shown == {i \in ItemsOf(items, k) : items[i].right = h}
                 listed == {m \in DOMAIN yandex[k] : yandex[k][m] = h} IN
             \/ \E i \in DOMAIN items : shown = {i} /\ items[i].left # 0
             \/ Cardinality(shown) = Cardinality(listed) /\ \A i \in shown : items[i].left = 0
  <2> DEFINE shown == {i \in ItemsOf(items, k) : items[i].right = h}
             listed == {m \in DOMAIN yandex[k] : yandex[k][m] = h}
  <2>1. h # NoHit
    <3>1. h \in Hit(k)
      BY <1>4 DEF IInv, ListsSound
    <3>. QED BY <3>1, MatchingAssumption DEF Hits
  <2>2. Cardinality(Lone(k, h)) = Cardinality(LeftOver(k, h))
    BY <1>4 DEF SInv, LonesCounted
  <2>3. shown = Lone(k, h) \cup {i \in Matches(k) : items[i].right = h}
    BY <2>1 DEF Lone, Matches
  <2>4. CASE h.id \in TakenIds(k)
    <3>1. PICK i \in Matches(k) : items[i].right.id = h.id
      BY <2>4 DEF TakenIds
    <3>2. items[i].right = h
      <4>1. PICK m \in DOMAIN yandex[k] : items[i].right = yandex[k][m]
        BY DEF SInv, MatchedOnce
      <4>2. PICK w \in Worlds : yandex \in w.yandex
        BY DEF SInv, WorldSound
      <4>3. yandex[k][m].id = yandex[k][n].id => yandex[k][m] = yandex[k][n]
        BY <4>2, MatchingAssumption DEF OneEntityPerId
      <4>. QED BY <1>4, <3>1, <4>1, <4>3
    <3>3. \A j \in Matches(k) : items[j].right = h => j = i
      BY <3>1 DEF SInv, MatchedOnce
    <3>4. Lone(k, h) = {}
      <4>1. LeftOver(k, h) = {}
        BY <2>4 DEF LeftOver
      <4>2. Cardinality(Lone(k, h)) = 0 /\ IsFiniteSet(Lone(k, h))
        BY <2>2, <4>1, FiniteShown, FS_EmptySet
      <4>. QED BY <4>2, FS_EmptySet
    <3>5. shown = {i} /\ i \in DOMAIN items /\ items[i].left # 0
      BY <2>3, <3>2, <3>3, <3>4 DEF Matches, ItemsOf
    <3>. QED BY <3>5
  <2>5. CASE h.id \notin TakenIds(k)
    <3>1. {i \in Matches(k) : items[i].right = h} = {}
      BY <2>5 DEF TakenIds
    <3>2. LeftOver(k, h) = listed
      <4>1. \A m \in DOMAIN yandex[k] : Len(youtube[k]) + m <= Done(k)
        <5>1. \A a, b \in Nat : \A m \in 1..b : a + m <= a + b
          OBVIOUS
        <5>. QED BY <1>1, <1>2, <5>1, Zenon
      <4>. QED BY <2>5, <4>1 DEF LeftOver
    <3>3. shown = Lone(k, h)
      BY <2>3, <3>1
    <3>4. \A i \in shown : items[i].left = 0
      BY <3>3 DEF Lone
    <3>5. Cardinality(shown) = Cardinality(listed)
      BY <2>2, <3>2, <3>3
    <3> HIDE DEF shown, listed
    <3>. QED BY <3>4, <3>5 DEF shown, listed
  <2>. QED BY <2>4, <2>5
<1>. QED BY <1>3, <1>4

-----------------------------------------------------------------------------
(* What the answer shows. *)

\* The answer holds as many items of a sort as the items, and no other item.
LEMMA AnswerShows ==
  ASSUME Permutes(answer, items), IsFiniteSet(DOMAIN items)
  PROVE  /\ \A Q : Cardinality({p \in DOMAIN answer : answer[p] \in Q})
                    = Cardinality({i \in DOMAIN items : items[i] \in Q})
         /\ \A p \in DOMAIN answer : \E i \in DOMAIN items : answer[p] = items[i]
<1>1. PICK f \in Bijection(DOMAIN items, DOMAIN answer) : \A i \in DOMAIN items : answer[f[i]] = items[i]
  BY DEF Permutes
<1>2. /\ f \in [DOMAIN items -> DOMAIN answer]
      /\ \A i, j \in DOMAIN items : f[i] = f[j] => i = j
      /\ \A p \in DOMAIN answer : \E i \in DOMAIN items : f[i] = p
  BY <1>1 DEF Bijection, Injection, Surjection, IsInjective
<1>3. ASSUME NEW Q
      PROVE  Cardinality({p \in DOMAIN answer : answer[p] \in Q})
             = Cardinality({i \in DOMAIN items : items[i] \in Q})
  <2> DEFINE S == {p \in DOMAIN answer : answer[p] \in Q}
             T == {i \in DOMAIN items : items[i] \in Q}
  <2>1. PICK g : g = [i \in T |-> f[i]]
    OBVIOUS
  <2>2. g \in Bijection(T, S)
    <3>1. g \in [T -> S]
      BY <1>1, <1>2, <2>1
    <3>2. \A i, j \in T : g[i] = g[j] => i = j
      BY <1>2, <2>1
    <3>3. \A p \in S : \E i \in T : g[i] = p
      BY <1>1, <1>2, <2>1
    <3> HIDE DEF S, T
    <3>. QED BY <3>1, <3>2, <3>3 DEF Bijection, Injection, Surjection, IsInjective
  <2>3. IsFiniteSet(T)
    BY FS_Subset
  <2> HIDE DEF S, T
  <2>4. Cardinality(S) = Cardinality(T)
    <3>1. ExistsBijection(T, S)
      BY <2>2 DEF ExistsBijection
    <3>2. PICK X, Y : X = T /\ Y = S
      OBVIOUS
    <3>. QED BY <2>3, <3>1, <3>2, FS_Bijection
  <2>. QED BY <2>4 DEF S, T
<1>. QED BY <1>1, <1>2, <1>3

\* The types of the variables, whatever the platforms list.
THEOREM TypeCorrect == Spec => []TypeOK
<1>1. IInv /\ SInv => TypeOK
  <2>. SUFFICES ASSUME IInv, SInv PROVE TypeOK
    OBVIOUS
  <2>1. used \subseteq Ids
    <3>1. ASSUME NEW id \in used PROVE id \in Ids
      <4>1. PICK j \in DOMAIN items : items[j].right # NoHit /\ items[j].right.id = id
        BY DEF IInv, UsedSound
      <4>2. items[j].right \in Hits
        BY <4>1, ItemFacts
      <4>. QED BY <4>1, <4>2 DEF Hits, Hit
    <3>. QED BY <3>1
  <2>2. kind \in 1..(Len(Kinds) + 1) /\ merged \in Nat /\ items \in Seq(Item)
    BY KindFacts DEF IInv, PlaceSound
  <2>. QED BY <2>1, <2>2 DEF SInv, WorldSound, MergedBounded, Answered, TypeOK
<1>. QED BY <1>1, Inductive, ShownInductive, PTL

\* The answer shows every hit: a youtube hit as often as it was listed, and a
\* yandex hit either in one match or, as often as it was listed, alone, however
\* long the lists are and however often they repeat a hit.
THEOREM ShowsEveryHit == Spec => []EveryHitShown
<1>1. IInv /\ SInv => EveryHitShown
  <2>. SUFFICES ASSUME IInv, SInv, answer # <<>>, NEW k \in Turns
                PROVE  /\ \A n \in DOMAIN youtube[k] :
                            Cardinality({i \in ItemsOf(answer, k) : answer[i].left = n}) = 1
                       /\ \A n \in DOMAIN yandex[k] :
                            LET shown  == {i \in ItemsOf(answer, k) : answer[i].right = yandex[k][n]}
                                listed == {m \in DOMAIN yandex[k] : yandex[k][m] = yandex[k][n]}
                            IN  \/ Cardinality(shown) = 1 /\ \A i \in shown : answer[i].left # 0
                                \/ Cardinality(shown) = Cardinality(listed)
                                     /\ \A i \in shown : answer[i].left = 0
    BY DEF EveryHitShown
  <2>1. kind = 4 /\ Permutes(answer, items) /\ answer \in Seq(Item) /\ items \in Seq(Item)
    BY DEF SInv, Answered, IInv, PlaceSound
  <2>2. IsFiniteSet(DOMAIN items)
    <3>1. Len(items) \in Nat /\ DOMAIN items = 1..Len(items)
      BY <2>1
    <3>2. \A n \in Nat : IsFiniteSet(1..n)
      BY FS_Interval
    <3>. QED BY <3>1, <3>2, Zenon
  <2>3. (\A p \in DOMAIN answer : answer[p] \in Item) /\ (\A i \in DOMAIN items : items[i] \in Item)
    BY <2>1
  <2>6. /\ \A Q : Cardinality({p \in DOMAIN answer : answer[p] \in Q})
                     = Cardinality({i \in DOMAIN items : items[i] \in Q})
        /\ \A p \in DOMAIN answer : \E i \in DOMAIN items : answer[p] = items[i]
    BY <2>1, <2>2, AnswerShows
  <2>4. ASSUME NEW n \in DOMAIN youtube[k]
        PROVE  Cardinality({i \in ItemsOf(answer, k) : answer[i].left = n}) = 1
    <3> DEFINE Q == {it \in Item : it.kind = k /\ it.left = n}
    <3>1. {i \in ItemsOf(answer, k) : answer[i].left = n} = {p \in DOMAIN answer : answer[p] \in Q}
      BY <2>3 DEF ItemsOf
    <3>2. {i \in ItemsOf(items, k) : items[i].left = n} = {i \in DOMAIN items : items[i] \in Q}
      BY <2>3 DEF ItemsOf
    <3> HIDE DEF Q
    <3>3. PICK i \in DOMAIN items : {j \in ItemsOf(items, k) : items[j].left = n} = {i}
      BY <2>1, ItemsShow
    <3>4. Cardinality({p \in DOMAIN answer : answer[p] \in Q}) = Cardinality({j \in DOMAIN items : items[j] \in Q})
      BY <2>6
    <3>5. Cardinality({i}) = 1
      BY FS_Singleton
    <3>. QED BY <3>1, <3>2, <3>3, <3>4, <3>5
  <2>5. ASSUME NEW n \in DOMAIN yandex[k]
        PROVE  LET shown  == {i \in ItemsOf(answer, k) : answer[i].right = yandex[k][n]}
                   listed == {m \in DOMAIN yandex[k] : yandex[k][m] = yandex[k][n]}
               IN  \/ Cardinality(shown) = 1 /\ \A i \in shown : answer[i].left # 0
                   \/ Cardinality(shown) = Cardinality(listed) /\ \A i \in shown : answer[i].left = 0
    <3> DEFINE Q == {it \in Item : it.kind = k /\ it.right = yandex[k][n]}
               shown == {i \in ItemsOf(answer, k) : answer[i].right = yandex[k][n]}
               among == {i \in ItemsOf(items, k) : items[i].right = yandex[k][n]}
               listed == {m \in DOMAIN yandex[k] : yandex[k][m] = yandex[k][n]}
    <3>1. shown = {p \in DOMAIN answer : answer[p] \in Q}
      BY <2>3 DEF ItemsOf
    <3>2. among = {i \in DOMAIN items : items[i] \in Q}
      BY <2>3 DEF ItemsOf
    <3>3. \/ \E i \in DOMAIN items : among = {i} /\ items[i].left # 0
          \/ Cardinality(among) = Cardinality(listed) /\ \A i \in among : items[i].left = 0
      BY <2>1, ItemsShow
    <3> HIDE DEF Q, shown, among, listed
    <3>4. Cardinality(shown) = Cardinality(among)
      BY <3>1, <3>2, <2>6
    <3>5. ASSUME NEW p \in shown PROVE \E i \in among : answer[p] = items[i]
      <4>1. PICK i \in DOMAIN items : answer[p] = items[i]
        BY <3>1, <2>6
      <4>. QED BY <3>1, <3>2, <4>1
    <3>6. CASE \E i \in DOMAIN items : among = {i} /\ items[i].left # 0
      <4>1. Cardinality(among) = 1
        BY <3>6, FS_Singleton
      <4>. QED BY <3>4, <3>5, <3>6, <4>1 DEF shown
    <3>7. CASE Cardinality(among) = Cardinality(listed) /\ \A i \in among : items[i].left = 0
      BY <3>4, <3>5, <3>7 DEF shown, listed
    <3>. QED BY <3>3, <3>6, <3>7
  <2>. QED BY <2>4, <2>5
<1>. QED BY <1>1, Inductive, ShownInductive, PTL
=============================================================================
