--------------------------- MODULE LinkingProofs ---------------------------
(***************************************************************************)
(* The canonical layer is sound for any number of sessions, rows and ids:  *)
(* no youtube row gets two canonical rows, none is visible in part, and    *)
(* what sessions commit is what whole searches, one at a time, would.      *)
(*                                                                         *)
(* The argument rests on the row locks.  A session links rows only that it *)
(* has written, and no other session can have written them: what it found  *)
(* out about the links of its left row is still true when it writes its    *)
(* own, and when it commits them.                                          *)
(***************************************************************************)
EXTENDS EntityDetails, FiniteSetTheorems, TLAPS

\* The left row has one canonical row at most, by the links of L.
LinkedOnce(L, l) ==
  \A c, d \in Canonicals : <<c, l>> \in L /\ <<d, l>> \in L => c = d

\* The canonical row is linked on both platforms, by the links of L.
Whole(L, c) == (\E l \in Lefts : <<c, l>> \in L) /\ (\E r \in Rights : <<c, r>> \in L)

\* No two sessions have written the same row.
Locks == \A s, t \in Sessions : s # t => held[s] \cap held[t] = {}

\* The rows of the match in hand, as far as they are written, are held.
PairHeld(s) ==
  /\ pc[s] \in {"idle", "ready"} => pair[s] = <<>>
  /\ pair[s] # <<>> /\ pc[s] \in {"look", "update", "insert"} =>
       cur[s] = pair[s][1] \/ (cur[s] = pair[s][2] /\ pair[s][1] \in held[s])
  /\ pc[s] \in {"left", "right", "link"} => pair[s][1] \in held[s] /\ pair[s][2] \in held[s]

\* What the session flushed joins rows that it holds to canonical rows it sees.
LinksHeld(s) ==
  /\ \A c \in Canonicals, e \in Entities :
       <<c, e>> \in new[s] => e \in held[s] /\ c \in canon \cup made[s]
  /\ pc[s] = "link" => target[s] \in canon \cup made[s]

\* The session sees one canonical row of a left row at most, and none but its
\* target of the left row of its match.
SeenOnce(s) ==
  /\ \A l \in Lefts : LinkedOnce(LinksSeen(s), l)
  /\ pc[s] = "right" => \A c \in Canonicals : <<c, pair[s][1]>> \notin LinksSeen(s)
  /\ pc[s] = "link" =>
       \A c \in Canonicals : <<c, pair[s][1]>> \in LinksSeen(s) => c = target[s]

\* What it made is whole, but for the target that it is about to link.
MadeWhole(s) ==
  \A c \in made[s] : Whole(LinksSeen(s), c) \/ (pc[s] = "link" /\ c = target[s])

Sound(s) == PairHeld(s) /\ LinksHeld(s) /\ SeenOnce(s) /\ MadeWhole(s)

Committed == LeftLinkedOnce /\ CanonicalIsWhole

IInv == TypeOK /\ Locks /\ Committed /\ \A s \in Sessions : Sound(s)

-----------------------------------------------------------------------------
LEMMA OnceIsOnce == LeftLinkedOnce <=> \A l \in Lefts : LinkedOnce(links, l)
BY DEF LeftLinkedOnce, LinkedOnce, CanonicalsOf

LEMMA WholeGrows ==
  ASSUME NEW L, NEW M, L \subseteq M, NEW c, Whole(L, c)
  PROVE  Whole(M, c)
BY DEF Whole

LEMMA SessionFacts ==
  ASSUME TypeOK, NEW s \in Sessions
  PROVE  /\ pc[s] \in {"idle"} \cup BusyPcs /\ todo[s] \subseteq Entities
         /\ pair[s] # <<>> => pair[s] \in Lefts \X Rights
         /\ pc[s] \in {"left", "right", "link"} => pair[s] \in Lefts \X Rights
         /\ cur[s] \in Entities \cup {NoEntity}
         /\ target[s] \in Canonicals \cup {NoCanonical}
         /\ held[s] \subseteq Entities
         /\ new[s] \subseteq Canonicals \X Entities
         /\ made[s] \subseteq Canonicals
BY DEF TypeOK

\* What is private to a session and has not changed is sound as it was, while
\* the committed links are the same.
LEMMA SoundStays ==
  ASSUME NEW s \in Sessions, Sound(s), UNCHANGED <<canon, links>>,
         pc'[s] = pc[s], pair'[s] = pair[s], cur'[s] = cur[s], target'[s] = target[s],
         held'[s] = held[s], new'[s] = new[s], made'[s] = made[s]
  PROVE  Sound(s)'
BY DEF Sound, PairHeld, LinksHeld, SeenOnce, MadeWhole, LinksSeen, LinkedOnce, Whole

\* A session that does nothing is sound.
LEMMA IdleIsSound ==
  ASSUME LeftLinkedOnce', NEW s \in Sessions, pc'[s] = "idle", pair'[s] = <<>>,
         new'[s] = {}, made'[s] = {}
  PROVE  Sound(s)'
<1>1. \A l \in Lefts : LinkedOnce(links', l)
  BY DEF LeftLinkedOnce, LinkedOnce, CanonicalsOf
<1>2. LinksSeen(s)' = links'
  BY DEF LinksSeen
<1>3. SeenOnce(s)'
  BY <1>1, <1>2 DEF SeenOnce
<1>. QED BY <1>3 DEF Sound, PairHeld, LinksHeld, MadeWhole

\* A step of one session that commits nothing.
Alone(s) ==
  /\ UNCHANGED <<canon, links, rows>>
  /\ \A t \in Sessions \ {s} :
       /\ pc'[t] = pc[t] /\ pair'[t] = pair[t] /\ cur'[t] = cur[t] /\ target'[t] = target[t]
       /\ held'[t] = held[t] /\ new'[t] = new[t] /\ made'[t] = made[t]

LEMMA AloneKeeps ==
  ASSUME IInv, NEW s \in Sessions, Alone(s), TypeOK', Sound(s)',
         \A t \in Sessions \ {s} : held'[s] \cap held[t] = {}
  PROVE  IInv'
<1>1. Committed'
  BY DEF IInv, Committed, Alone, LeftLinkedOnce, CanonicalIsWhole, CanonicalsOf
<1>2. Locks'
  BY DEF IInv, Locks, Alone
<1>3. \A t \in Sessions \ {s} : Sound(t)'
  BY SoundStays DEF IInv, Alone
<1>. QED BY <1>1, <1>2, <1>3 DEF IInv

\* A step of one session that neither flushes nor commits anything.
LEMMA QuietKeeps ==
  ASSUME IInv, NEW s \in Sessions, Alone(s), TypeOK', PairHeld(s)',
         held'[s] = held[s], new'[s] = new[s], made'[s] = made[s],
         pc'[s] = "link" => target'[s] \in canon \cup made[s],
         pc'[s] = "right" => \A c \in Canonicals : <<c, pair'[s][1]>> \notin LinksSeen(s),
         pc'[s] = "link" =>
           \A c \in Canonicals : <<c, pair'[s][1]>> \in LinksSeen(s) => c = target'[s],
         pc[s] # "link"
  PROVE  IInv'
<1>1. LinksSeen(s)' = LinksSeen(s) /\ canon' = canon
  BY DEF LinksSeen, Alone
<1>2. Sound(s)
  BY DEF IInv
<1>3. SeenOnce(s)'
  BY <1>1, <1>2 DEF Sound, SeenOnce, LinkedOnce
<1>4. LinksHeld(s)'
  BY <1>1, <1>2 DEF Sound, LinksHeld
<1>5. MadeWhole(s)'
  BY <1>1, <1>2 DEF Sound, MadeWhole, Whole
<1>6. \A t \in Sessions \ {s} : held'[s] \cap held[t] = {}
  BY DEF IInv, Locks
<1>. QED BY <1>3, <1>4, <1>5, <1>6, AloneKeeps DEF Sound

-----------------------------------------------------------------------------
(* Type correctness, which needs nothing else. *)

LEMMA InitTypeOK == Init => TypeOK
BY LinkingAssumption DEF Init, TypeOK, BusyPcs

LEMMA CloseTypeOK ==
  ASSUME TypeOK, NEW s \in Sessions, Close(s), UNCHANGED db
  PROVE  TypeOK'
BY DEF TypeOK, Close, db, BusyPcs

LEMMA CommitTypeOK ==
  ASSUME TypeOK, NEW s \in Sessions, Commit(s)
  PROVE  TypeOK'
<1>1. canon' \in SUBSET Canonicals /\ links' \in SUBSET (Canonicals \X Entities)
      /\ rows' \in SUBSET Entities
  BY SessionFacts DEF Commit, TypeOK
<1>. QED BY <1>1 DEF TypeOK, Commit, Close, BusyPcs

LEMMA BeginTypeOK ==
  ASSUME TypeOK, NEW s \in Sessions, Merge(s) \/ Refresh(s)
  PROVE  TypeOK'
<1>0. pc' = [pc EXCEPT ![s] = "ready"]
  BY DEF Merge, Refresh
<1>1. \A t \in Sessions : pc'[t] = "ready" \/ pc'[t] = pc[t]
  BY <1>0 DEF TypeOK
<1>2. pc' \in [Sessions -> {"idle"} \cup BusyPcs]
  BY DEF TypeOK, Merge, Refresh, BusyPcs
<1>3. todo' \in [Sessions -> SUBSET Entities]
  <2>1. PICK listed \in SUBSET Entities : todo' = [todo EXCEPT ![s] = listed]
    BY DEF Merge, Refresh
  <2>. QED BY <2>1 DEF TypeOK
<1>4. UNCHANGED <<canon, links, rows, pair, cur, target, held, new, made>>
  BY DEF Merge, Refresh, db
<1>. QED BY <1>1, <1>2, <1>3, <1>4 DEF TypeOK

LEMMA PersistTypeOK ==
  ASSUME TypeOK, NEW s \in Sessions,
         (\E l \in Lefts, r \in Rights : PersistMatch(s, l, r))
           \/ (\E e \in Entities : PersistEntity(s, e) \/ SkipEntity(s, e))
  PROVE  TypeOK'
<1>1. CASE \E l \in Lefts, r \in Rights : PersistMatch(s, l, r)
  <2>1. PICK l \in Lefts, r \in Rights : PersistMatch(s, l, r)
    BY <1>1
  <2>2. l \in Entities /\ l # NoEntity
    BY LinkingAssumption DEF Entities
  <2>3. UNCHANGED <<canon, links, rows, target, held, new, made>>
    BY <2>1 DEF PersistMatch, db
  <2>4. pair' \in [Sessions -> {<<>>} \cup Lefts \X Rights]
    BY <2>1 DEF PersistMatch, TypeOK
  <2>5. /\ pc' \in [Sessions -> {"idle"} \cup BusyPcs] /\ todo' \in [Sessions -> SUBSET Entities]
        /\ cur' \in [Sessions -> Entities \cup {NoEntity}]
    BY <2>1, <2>2 DEF PersistMatch, TypeOK, BusyPcs
  <2>6. pc'[s] = "look" /\ cur'[s] = l
        /\ \A t \in Sessions \ {s} : pc'[t] = pc[t] /\ cur'[t] = cur[t] /\ pair'[t] = pair[t]
    BY <2>1 DEF PersistMatch, TypeOK
  <2>. QED BY <2>2, <2>3, <2>4, <2>5, <2>6 DEF TypeOK
<1>2. CASE \E e \in Entities : PersistEntity(s, e) \/ SkipEntity(s, e)
  <2>1. PICK e \in Entities : PersistEntity(s, e) \/ SkipEntity(s, e)
    BY <1>2
  <2>2. e # NoEntity
    BY LinkingAssumption
  <2>. QED BY <2>1, <2>2 DEF PersistEntity, SkipEntity, TypeOK, db, BusyPcs
<1>. QED BY <1>1, <1>2

LEMMA WrittenTypeOK ==
  ASSUME TypeOK, NEW s \in Sessions, pc[s] \in {"update", "insert"}, Written(s)
  PROVE  TypeOK'
<1>1. cur[s] \in Entities
  BY DEF TypeOK
<1>2. UNCHANGED <<canon, links, rows, todo, pair, target, new, made>>
  BY DEF Written, db
<1>3. held' \in [Sessions -> SUBSET Entities]
  BY <1>1 DEF Written, TypeOK
<1>4. pair[s] # <<>> => pair[s][1] \in Lefts /\ pair[s][2] \in Rights
  BY DEF TypeOK
<1>5. pair[s] # <<>> => pair[s][2] \in Entities /\ pair[s][2] # NoEntity
  BY <1>4, LinkingAssumption DEF Entities
<1>6. /\ pc' \in [Sessions -> {"idle"} \cup BusyPcs]
      /\ cur' \in [Sessions -> Entities \cup {NoEntity}]
      /\ \A t \in Sessions \ {s} : pc'[t] = pc[t] /\ cur'[t] = cur[t] /\ held'[t] = held[t]
      /\ pc'[s] \in {"ready", "look", "left"} /\ (pc'[s] = "look" => cur'[s] # NoEntity)
      /\ (pc'[s] = "left" => pair[s] # <<>>)
  BY <1>5 DEF Written, TypeOK, BusyPcs
<1>. QED BY <1>2, <1>3, <1>6 DEF TypeOK

LEMMA ResolveTypeOK ==
  ASSUME TypeOK, NEW s \in Sessions, ResolveLeft(s) \/ ResolveRight(s)
  PROVE  TypeOK'
<1>1. CASE \E c \in Canonicals : pc[s] \in {"left", "right"} /\ UseTarget(s, c)
  <2>1. PICK c \in Canonicals : pc[s] \in {"left", "right"} /\ UseTarget(s, c)
    BY <1>1
  <2>2. c # NoCanonical
    BY LinkingAssumption
  <2>. QED BY <2>1, <2>2 DEF UseTarget, TypeOK, db, BusyPcs
<1>2. CASE pc[s] = "left" /\ pc' = [pc EXCEPT ![s] = "right"] /\ UNCHANGED <<db, mine>>
  BY <1>2 DEF TypeOK, db, mine, BusyPcs
<1>. QED BY <1>1, <1>2 DEF ResolveLeft, ResolveRight, CanonicalsOf

LEMMA CreateTypeOK ==
  ASSUME TypeOK, NEW s \in Sessions, CreateCanonical(s)
  PROVE  TypeOK'
<1>1. PICK c \in Canonicals : /\ made' = [made EXCEPT ![s] = @ \cup {c}]
                              /\ target' = [target EXCEPT ![s] = c]
                              /\ pc' = [pc EXCEPT ![s] = "link"]
  BY DEF CreateCanonical
<1>2. c # NoCanonical /\ pc[s] = "right"
  BY LinkingAssumption DEF CreateCanonical
<1>3. UNCHANGED <<canon, links, rows, todo, pair, cur, held, new>>
  BY DEF CreateCanonical, db
<1>4. made' \in [Sessions -> SUBSET Canonicals]
  BY <1>1 DEF TypeOK
<1>5. /\ pc' \in [Sessions -> {"idle"} \cup BusyPcs]
      /\ target' \in [Sessions -> Canonicals \cup {NoCanonical}]
      /\ pc'[s] = "link" /\ target'[s] = c
      /\ \A t \in Sessions \ {s} : /\ pc'[t] = pc[t] /\ target'[t] = target[t]
                                   /\ made'[t] = made[t]
  BY <1>1 DEF TypeOK, BusyPcs
<1>. QED BY <1>2, <1>3, <1>4, <1>5 DEF TypeOK

LEMMA UpsertTypeOK ==
  ASSUME TypeOK, NEW s \in Sessions, UpsertLinks(s)
  PROVE  TypeOK'
<1>1. pc[s] = "link" /\ UNCHANGED <<canon, links, rows, todo, cur, held, made>>
  BY DEF UpsertLinks, db
<1>2. target[s] \in Canonicals /\ pair[s] \in Lefts \X Rights
  BY <1>1 DEF TypeOK
<1>3. {<<target[s], pair[s][1]>>, <<target[s], pair[s][2]>>} \ links
        \in SUBSET (Canonicals \X Entities)
  BY <1>2 DEF Entities
<1>4. new' \in [Sessions -> SUBSET (Canonicals \X Entities)]
  BY <1>3 DEF UpsertLinks, TypeOK
<1>5. /\ pc' \in [Sessions -> {"idle"} \cup BusyPcs]
      /\ pair' \in [Sessions -> {<<>>} \cup Lefts \X Rights]
      /\ target' \in [Sessions -> Canonicals \cup {NoCanonical}]
      /\ pc'[s] = "ready"
      /\ \A t \in Sessions \ {s} : /\ pc'[t] = pc[t] /\ target'[t] = target[t]
                                   /\ pair'[t] = pair[t] /\ new'[t] = new[t]
  BY DEF UpsertLinks, TypeOK, BusyPcs
<1>. QED BY <1>1, <1>4, <1>5 DEF TypeOK

LEMMA NextTypeOK == TypeOK /\ [Next]_vars => TypeOK'
<1> SUFFICES ASSUME TypeOK, [Next]_vars PROVE TypeOK'
  OBVIOUS
<1>1. CASE UNCHANGED vars
  BY <1>1 DEF vars, db, mine, TypeOK
<1>2. ASSUME NEW s \in Sessions, Statement(s) PROVE TypeOK'
  <2>1. CASE Look(s)
    BY <2>1 DEF Look, TypeOK, db, mine, BusyPcs
  <2>2. CASE Update(s) \/ Insert(s)
    BY <2>2, WrittenTypeOK DEF Update, Insert
  <2>3. CASE InsertConflict(s)
    BY <2>3, CloseTypeOK DEF InsertConflict
  <2>. QED BY <1>2, <2>1, <2>2, <2>3, ResolveTypeOK, CreateTypeOK, UpsertTypeOK, CommitTypeOK
           DEF Statement
<1>3. Searches \subseteq Sessions /\ Syncs \subseteq Sessions
  BY DEF Sessions
<1>4. ASSUME NEW s \in Sessions, Choice(s) \/ Fail(s) \/ Deadlock(s) PROVE TypeOK'
  BY <1>4, CloseTypeOK, PersistTypeOK DEF Choice, Fail, Deadlock
<1>5. ASSUME NEW s \in Searches, Merge(s) \/ (\E l \in Lefts, r \in Rights : PersistMatch(s, l, r))
      PROVE TypeOK'
  BY <1>3, <1>5, BeginTypeOK, PersistTypeOK
<1>6. ASSUME NEW w \in Syncs, Refresh(w) \/ (\E e \in Entities : SkipEntity(w, e))
      PROVE TypeOK'
  BY <1>3, <1>6, BeginTypeOK, PersistTypeOK
<1>. QED BY <1>1, <1>2, <1>4, <1>5, <1>6 DEF Next

\* No statement works on a row or a match that is not there.
THEOREM TypeCorrect == Spec => []TypeOK
BY InitTypeOK, NextTypeOK, PTL DEF Spec

-----------------------------------------------------------------------------
(* The locks and the links. *)

LEMMA InitIInv == Init => IInv
<1> SUFFICES ASSUME Init PROVE IInv
  OBVIOUS
<1>1. Locks /\ Committed
  BY DEF Init, Locks, Committed, LeftLinkedOnce, CanonicalIsWhole, CanonicalsOf
<1>2. \A s \in Sessions : Sound(s)
  BY DEF Init, Sound, PairHeld, LinksHeld, SeenOnce, MadeWhole, LinksSeen, LinkedOnce
<1>. QED BY <1>1, <1>2, InitTypeOK DEF IInv

LEMMA CloseKeeps ==
  ASSUME IInv, NEW s \in Sessions, Close(s), UNCHANGED db
  PROVE  IInv'
<1>1. TypeOK'
  BY CloseTypeOK DEF IInv
<1>2. /\ pc'[s] = "idle" /\ pair'[s] = <<>> /\ held'[s] = {} /\ new'[s] = {} /\ made'[s] = {}
      /\ Alone(s)
  BY DEF Close, db, Alone, IInv, TypeOK
<1>3. LeftLinkedOnce'
  BY <1>2 DEF IInv, Committed, Alone, LeftLinkedOnce, CanonicalsOf
<1>4. Sound(s)'
  BY <1>2, <1>3, IdleIsSound
<1>. QED BY <1>1, <1>2, <1>4, AloneKeeps

LEMMA BeginKeeps ==
  ASSUME IInv, NEW s \in Sessions, Merge(s) \/ Refresh(s)
  PROVE  IInv'
<1>1. TypeOK'
  BY BeginTypeOK DEF IInv
<1>2. pc' = [pc EXCEPT ![s] = "ready"] /\ pc[s] = "idle"
      /\ UNCHANGED <<canon, links, rows, pair, cur, target, held, new, made>>
  BY DEF Merge, Refresh, db, Active
<1>3. Alone(s) /\ pc'[s] = "ready"
  BY <1>2 DEF Alone, IInv, TypeOK
<1>4. pair[s] = <<>>
  BY <1>2 DEF IInv, Sound, PairHeld
<1>. QED BY <1>1, <1>2, <1>3, <1>4, QuietKeeps DEF PairHeld

LEMMA PersistKeeps ==
  ASSUME IInv, NEW s \in Sessions,
         (\E l \in Lefts, r \in Rights : PersistMatch(s, l, r))
           \/ (\E e \in Entities : PersistEntity(s, e) \/ SkipEntity(s, e))
  PROVE  IInv'
<1>1. TypeOK'
  BY PersistTypeOK DEF IInv
<1>2. pc[s] = "ready" /\ pair[s] = <<>>
  BY DEF PersistMatch, PersistEntity, SkipEntity, IInv, Sound, PairHeld
<1>3. UNCHANGED <<canon, links, rows, target, held, new, made>>
  BY DEF PersistMatch, PersistEntity, SkipEntity, db
<1>4. CASE \E l \in Lefts, r \in Rights : PersistMatch(s, l, r)
  <2>1. PICK l \in Lefts, r \in Rights : PersistMatch(s, l, r)
    BY <1>4
  <2>2. /\ pc' = [pc EXCEPT ![s] = "look"] /\ cur' = [cur EXCEPT ![s] = l]
        /\ pair' = [pair EXCEPT ![s] = <<l, r>>]
    BY <2>1 DEF PersistMatch
  <2>3. Alone(s) /\ pc'[s] = "look" /\ cur'[s] = l /\ pair'[s] = <<l, r>>
    BY <1>3, <2>2 DEF Alone, IInv, TypeOK
  <2>4. PairHeld(s)'
    BY <2>3 DEF PairHeld
  <2>. QED BY <1>1, <1>2, <1>3, <2>3, <2>4, QuietKeeps
<1>5. CASE \E e \in Entities : PersistEntity(s, e) \/ SkipEntity(s, e)
  <2>1. PICK e \in Entities : PersistEntity(s, e) \/ SkipEntity(s, e)
    BY <1>5
  <2>2. UNCHANGED pair /\ (UNCHANGED <<pc, cur>> \/ (/\ pc' = [pc EXCEPT ![s] = "look"]
                                                     /\ cur' = [cur EXCEPT ![s] = e]))
    BY <2>1 DEF PersistEntity, SkipEntity
  <2>3. Alone(s) /\ pc'[s] \in {"ready", "look"} /\ pair'[s] = <<>>
    BY <1>2, <1>3, <2>2 DEF Alone, IInv, TypeOK
  <2>4. PairHeld(s)'
    BY <2>3 DEF PairHeld
  <2>. QED BY <1>1, <1>2, <1>3, <2>3, <2>4, QuietKeeps
<1>. QED BY <1>4, <1>5

LEMMA LookKeeps == ASSUME IInv, NEW s \in Sessions, Look(s) PROVE IInv'
<1>1. UNCHANGED <<canon, links, rows, todo, pair, cur, target, held, new, made>>
      /\ pc[s] = "look" /\ (\E p \in {"update", "insert"} : pc' = [pc EXCEPT ![s] = p])
  BY DEF Look, db, mine
<1>2. Alone(s) /\ pc'[s] \in {"update", "insert"} /\ TypeOK'
  BY <1>1 DEF Alone, IInv, TypeOK, BusyPcs
<1>3. PairHeld(s)'
  BY <1>1, <1>2 DEF IInv, Sound, PairHeld
<1>. QED BY <1>1, <1>2, <1>3, QuietKeeps

\* The only step that takes a lock takes one that nobody has.
LEMMA WrittenKeeps ==
  ASSUME IInv, NEW s \in Sessions, pc[s] \in {"update", "insert"}, Blockers(s) = {}, Written(s)
  PROVE  IInv'
<1>1. TypeOK'
  BY WrittenTypeOK DEF IInv
<1>2. \A t \in Sessions \ {s} : cur[s] \notin held[t]
  BY DEF Blockers
<1>3. UNCHANGED <<canon, links, rows, todo, pair, target, new, made>>
  BY DEF Written, db
<1>4. held'[s] = held[s] \cup {cur[s]}
      /\ \A t \in Sessions \ {s} : held'[t] = held[t]
  BY DEF Written, IInv, TypeOK
<1>5. pair[s] # <<>> => pair[s] \in Lefts \X Rights /\ pair[s][1] # pair[s][2]
  BY LinkingAssumption DEF IInv, TypeOK
<1>6. \/ pair[s] = <<>> /\ pc'[s] = "ready"
      \/ pair[s] # <<>> /\ cur[s] = pair[s][1] /\ pc'[s] = "look" /\ cur'[s] = pair[s][2]
      \/ pair[s] # <<>> /\ cur[s] = pair[s][2] /\ pc'[s] = "left"
  BY DEF Written, IInv, TypeOK
<1>7. \A t \in Sessions \ {s} : pc'[t] = pc[t] /\ cur'[t] = cur[t]
  BY DEF Written, IInv, TypeOK
<1>8. Alone(s)
  BY <1>3, <1>4, <1>7 DEF Alone
<1>9. PairHeld(s)'
  BY <1>3, <1>4, <1>5, <1>6 DEF IInv, Sound, PairHeld
<1>10. LinksHeld(s)'
  BY <1>3, <1>4, <1>6 DEF IInv, Sound, LinksHeld
<1>11. SeenOnce(s)' /\ MadeWhole(s)'
  BY <1>3, <1>6 DEF IInv, Sound, SeenOnce, MadeWhole, LinksSeen, LinkedOnce, Whole
<1>12. \A t \in Sessions \ {s} : held'[s] \cap held[t] = {}
  BY <1>2, <1>4 DEF IInv, Locks
<1>. QED BY <1>1, <1>8, <1>9, <1>10, <1>11, <1>12, AloneKeeps DEF Sound

LEMMA ResolveKeeps ==
  ASSUME IInv, NEW s \in Sessions, ResolveLeft(s) \/ ResolveRight(s)
  PROVE  IInv'
<1>1. TypeOK'
  BY ResolveTypeOK DEF IInv
<1>2. pair[s] \in Lefts \X Rights /\ pc[s] \in {"left", "right"}
  BY DEF ResolveLeft, ResolveRight, IInv, TypeOK
<1>3. CASE \E c \in Canonicals, e \in {pair[s][1], pair[s][2]} :
             /\ UseTarget(s, c) /\ <<c, e>> \in LinksSeen(s)
             /\ e = pair[s][1] \/ pc[s] = "right"
  <2>1. PICK c \in Canonicals, e \in {pair[s][1], pair[s][2]} :
          /\ UseTarget(s, c) /\ <<c, e>> \in LinksSeen(s)
          /\ e = pair[s][1] \/ pc[s] = "right"
    BY <1>3
  <2>2. /\ pc' = [pc EXCEPT ![s] = "link"] /\ target' = [target EXCEPT ![s] = c]
        /\ UNCHANGED <<canon, links, rows, todo, pair, cur, held, new, made>>
    BY <2>1 DEF UseTarget, db
  <2>3. Alone(s) /\ pc'[s] = "link" /\ target'[s] = c
    BY <2>2 DEF Alone, IInv, TypeOK
  <2>4. c \in canon \cup made[s]
    <3>1. CASE <<c, e>> \in links
      <4>1. <<c, e>>[1] \in canon
        BY <3>1 DEF IInv, Committed, CanonicalIsWhole
      <4>. QED BY <4>1
    <3>2. CASE <<c, e>> \in new[s]
      BY <1>2, <3>2 DEF IInv, Sound, LinksHeld, Entities
    <3>. QED BY <2>1, <3>1, <3>2 DEF LinksSeen
  <2>5. \A d \in Canonicals : <<d, pair[s][1]>> \in LinksSeen(s) => d = c
    BY <1>2, <2>1 DEF IInv, Sound, SeenOnce, LinkedOnce
  <2>6. PairHeld(s)'
    BY <1>2, <2>2, <2>3 DEF IInv, Sound, PairHeld
  <2>. QED BY <1>1, <1>2, <2>2, <2>3, <2>4, <2>5, <2>6, QuietKeeps
<1>4. CASE /\ pc[s] = "left" /\ CanonicalsOf(LinksSeen(s), pair[s][1]) = {}
           /\ pc' = [pc EXCEPT ![s] = "right"] /\ UNCHANGED <<db, mine>>
  <2>1. UNCHANGED <<canon, links, rows, todo, pair, cur, target, held, new, made>>
    BY <1>4 DEF db, mine
  <2>2. Alone(s) /\ pc'[s] = "right"
    BY <1>4, <2>1 DEF Alone, IInv, TypeOK
  <2>3. \A c \in Canonicals : <<c, pair[s][1]>> \notin LinksSeen(s)
    BY <1>4 DEF CanonicalsOf
  <2>4. PairHeld(s)'
    BY <1>2, <2>1, <2>2 DEF IInv, Sound, PairHeld
  <2>. QED BY <1>1, <1>2, <2>1, <2>2, <2>3, <2>4, QuietKeeps
<1>. QED BY <1>3, <1>4 DEF ResolveLeft, ResolveRight, CanonicalsOf

LEMMA CreateKeeps == ASSUME IInv, NEW s \in Sessions, CreateCanonical(s) PROVE IInv'
<1>1. TypeOK'
  BY CreateTypeOK DEF IInv
<1>2. pc[s] = "right" /\ UNCHANGED <<canon, links, rows, todo, pair, cur, held, new>>
  BY DEF CreateCanonical, db
<1>3. PICK c \in Canonicals : /\ made' = [made EXCEPT ![s] = @ \cup {c}]
                              /\ target' = [target EXCEPT ![s] = c]
                              /\ pc' = [pc EXCEPT ![s] = "link"]
  BY DEF CreateCanonical
<1>4. Alone(s) /\ pc'[s] = "link" /\ target'[s] = c /\ made'[s] = made[s] \cup {c}
  BY <1>2, <1>3 DEF Alone, IInv, TypeOK
<1>5. LinksSeen(s)' = LinksSeen(s)
  BY <1>2 DEF LinksSeen
<1>6. PairHeld(s)' /\ LinksHeld(s)'
  BY <1>2, <1>4 DEF IInv, Sound, PairHeld, LinksHeld
<1>7. SeenOnce(s)'
  BY <1>2, <1>4, <1>5 DEF IInv, Sound, SeenOnce, LinkedOnce
<1>8. MadeWhole(s)'
  BY <1>2, <1>4, <1>5 DEF IInv, Sound, MadeWhole, Whole
<1>9. \A t \in Sessions \ {s} : held'[s] \cap held[t] = {}
  BY <1>2 DEF IInv, Locks
<1>. QED BY <1>1, <1>4, <1>6, <1>7, <1>8, <1>9, AloneKeeps DEF Sound

LEMMA UpsertKeeps == ASSUME IInv, NEW s \in Sessions, UpsertLinks(s) PROVE IInv'
<1>1. TypeOK'
  BY UpsertTypeOK DEF IInv
<1>2. pc[s] = "link" /\ UNCHANGED <<canon, links, rows, todo, cur, held, made>>
  BY DEF UpsertLinks, db
<1>3. PICK c, l, r : c = target[s] /\ l = pair[s][1] /\ r = pair[s][2]
  OBVIOUS
<1>4. c \in Canonicals /\ l \in Lefts /\ r \in Rights /\ l \in held[s] /\ r \in held[s]
      /\ c \in canon \cup made[s]
  <2>1. target[s] \in Canonicals /\ pair[s] \in Lefts \X Rights
    BY <1>2 DEF IInv, TypeOK
  <2>. QED BY <1>2, <1>3, <2>1 DEF IInv, Sound, PairHeld, LinksHeld
<1>5. /\ pc'[s] = "ready" /\ pair'[s] = <<>> /\ new'[s] = new[s] \cup ({<<c, l>>, <<c, r>>} \ links)
      /\ Alone(s)
  BY <1>2, <1>3 DEF UpsertLinks, Alone, IInv, TypeOK
<1>6. LinksSeen(s)' = LinksSeen(s) \cup {<<c, l>>, <<c, r>>}
  BY <1>2, <1>5 DEF LinksSeen
<1>7. PairHeld(s)'
  BY <1>5 DEF PairHeld
<1>8. LinksHeld(s)'
  BY <1>2, <1>4, <1>5 DEF IInv, Sound, LinksHeld
<1>9. SeenOnce(s)'
  <2>1. \A d \in Canonicals : <<d, l>> \in LinksSeen(s) => d = c
    BY <1>2, <1>3 DEF IInv, Sound, SeenOnce
  <2>2. ASSUME NEW k \in Lefts PROVE LinkedOnce(LinksSeen(s)', k)
    <3>1. LinkedOnce(LinksSeen(s), k) /\ k # r
      BY <1>4, LinkingAssumption DEF IInv, Sound, SeenOnce
    <3>2. \A d \in Canonicals :
            <<d, k>> \in LinksSeen(s)' <=> <<d, k>> \in LinksSeen(s) \/ (d = c /\ k = l)
      BY <1>6, <3>1
    <3>. QED BY <2>1, <3>1, <3>2 DEF LinkedOnce
  <2>. QED BY <1>5, <2>2 DEF SeenOnce
<1>10. MadeWhole(s)'
  <2>1. Whole(LinksSeen(s)', c)
    BY <1>4, <1>6 DEF Whole
  <2>2. \A d \in made[s] : Whole(LinksSeen(s), d) => Whole(LinksSeen(s)', d)
    BY <1>6 DEF Whole
  <2>3. \A d \in made[s] : Whole(LinksSeen(s), d) \/ d = c
    BY <1>2, <1>3 DEF IInv, Sound, MadeWhole
  <2>4. \A d \in made[s] : Whole(LinksSeen(s)', d)
    BY <2>1, <2>2, <2>3
  <2>. QED BY <1>2, <2>4 DEF MadeWhole
<1>11. \A t \in Sessions \ {s} : held'[s] \cap held[t] = {}
  BY <1>2 DEF IInv, Locks
<1>. QED BY <1>1, <1>5, <1>7, <1>8, <1>9, <1>10, <1>11, AloneKeeps DEF Sound

\* What a session commits is what it saw; the others hold other rows.
LEMMA CommitKeeps == ASSUME IInv, NEW s \in Sessions, Commit(s) PROVE IInv'
<1>1. TypeOK'
  BY CommitTypeOK DEF IInv
<1>2. pc[s] = "ready" /\ canon' = canon \cup made[s] /\ links' = LinksSeen(s)
      /\ rows' = rows \cup held[s]
  BY DEF Commit, LinksSeen
<1>3. /\ pc'[s] = "idle" /\ pair'[s] = <<>> /\ held'[s] = {} /\ new'[s] = {} /\ made'[s] = {}
      /\ \A t \in Sessions \ {s} :
           /\ pc'[t] = pc[t] /\ pair'[t] = pair[t] /\ cur'[t] = cur[t] /\ target'[t] = target[t]
           /\ held'[t] = held[t] /\ new'[t] = new[t] /\ made'[t] = made[t]
  BY DEF Commit, Close, IInv, TypeOK
<1>4. LeftLinkedOnce'
  BY <1>2 DEF IInv, Sound, SeenOnce, LinkedOnce, LeftLinkedOnce, CanonicalsOf
<1>5. CanonicalIsWhole'
  <2>1. \A c \in canon : Whole(links, c)
    BY DEF IInv, Committed, CanonicalIsWhole, Whole
  <2>2. \A c \in made[s] : Whole(links', c)
    BY <1>2 DEF IInv, Sound, MadeWhole
  <2>3. \A c \in canon' : Whole(links', c)
    BY <1>2, <2>1, <2>2 DEF Whole, LinksSeen
  <2>4. \A k \in links : k[1] \in canon /\ k[2] \in rows
    BY DEF IInv, Committed, CanonicalIsWhole
  <2>5. ASSUME NEW k \in new[s] PROVE k[1] \in canon' /\ k[2] \in rows'
    <3>1. PICK c \in Canonicals, e \in Entities : k = <<c, e>>
      BY DEF IInv, TypeOK
    <3>2. e \in held[s] /\ c \in canon \cup made[s]
      BY <3>1 DEF IInv, Sound, LinksHeld
    <3>. QED BY <1>2, <3>1, <3>2
  <2>. QED BY <1>2, <2>3, <2>4, <2>5 DEF CanonicalIsWhole, Whole, LinksSeen
<1>6. Locks'
  BY <1>3 DEF IInv, Locks
<1>7. Sound(s)'
  BY <1>3, <1>4, IdleIsSound
<1>8. ASSUME NEW t \in Sessions, t # s PROVE Sound(t)'
  <2>1. LinksSeen(t)' = LinksSeen(t) \cup new[s]
    BY <1>2, <1>3, <1>8 DEF LinksSeen
  <2>2. \A e \in held[t], c \in Canonicals : e \in Entities => <<c, e>> \notin new[s]
    BY <1>8 DEF IInv, Locks, Sound, LinksHeld
  <2>3. PairHeld(t)'
    BY <1>3, <1>8 DEF IInv, Sound, PairHeld
  <2>4. LinksHeld(t)'
    BY <1>2, <1>3, <1>8 DEF IInv, Sound, LinksHeld
  <2>5. MadeWhole(t)'
    BY <1>3, <1>8, <2>1 DEF IInv, Sound, MadeWhole, Whole
  <2>6. ASSUME NEW l \in Lefts PROVE LinkedOnce(LinksSeen(t)', l)
    <3>1. l \in Entities
      BY DEF Entities
    <3>2. LinkedOnce(LinksSeen(t), l) /\ LinkedOnce(LinksSeen(s), l)
      BY DEF IInv, Sound, SeenOnce
    <3>3. CASE l \in held[t]
      BY <2>1, <2>2, <3>1, <3>2, <3>3 DEF LinkedOnce
    <3>4. CASE l \notin held[t]
      <4>1. \A c \in Canonicals : <<c, l>> \notin new[t]
        BY <3>1, <3>4 DEF IInv, Sound, LinksHeld
      <4>. QED BY <2>1, <3>2, <4>1 DEF LinkedOnce, LinksSeen
    <3>. QED BY <3>3, <3>4
  <2>7. pc[t] \in {"right", "link"} => /\ pair[t][1] \in held[t] /\ pair[t][1] \in Entities
                                      /\ pair'[t] = pair[t] /\ pc'[t] = pc[t]
                                      /\ target'[t] = target[t]
    <3>1. pc[t] \in {"right", "link"} => pair[t] \in Lefts \X Rights
      BY DEF IInv, TypeOK
    <3>. QED BY <1>3, <1>8, <3>1 DEF IInv, Sound, PairHeld, Entities
  <2>8. pc[t] \in {"right", "link"} =>
          \A c \in Canonicals : <<c, pair[t][1]>> \in LinksSeen(t)'
                               => <<c, pair[t][1]>> \in LinksSeen(t)
    BY <2>1, <2>2, <2>7
  <2>9. SeenOnce(t)'
    BY <1>3, <1>8, <2>6, <2>7, <2>8 DEF IInv, Sound, SeenOnce
  <2>. QED BY <2>3, <2>4, <2>5, <2>9 DEF Sound
<1>. QED BY <1>1, <1>4, <1>5, <1>6, <1>7, <1>8 DEF IInv, Committed

-----------------------------------------------------------------------------
\* Every step of every session keeps the locks, and what they stand for.
THEOREM Inductive == IInv /\ [Next]_vars => IInv'
<1> SUFFICES ASSUME IInv, [Next]_vars PROVE IInv'
  OBVIOUS
<1>1. CASE UNCHANGED vars
  <2>1. UNCHANGED <<canon, links, rows, pc, todo, pair, cur, target, held, new, made>>
    BY <1>1 DEF vars, db, mine
  <2>2. TypeOK'
    BY <1>1, NextTypeOK DEF IInv
  <2>3. Committed' /\ Locks'
    BY <2>1 DEF IInv, Committed, LeftLinkedOnce, CanonicalIsWhole, CanonicalsOf, Locks
  <2>4. \A s \in Sessions : Sound(s)'
    BY <2>1, SoundStays DEF IInv
  <2>. QED BY <2>2, <2>3, <2>4 DEF IInv
<1>2. Searches \subseteq Sessions /\ Syncs \subseteq Sessions
  BY DEF Sessions
<1>3. ASSUME NEW s \in Sessions, Statement(s) PROVE IInv'
  BY <1>3, LookKeeps, WrittenKeeps, CloseKeeps, ResolveKeeps, CreateKeeps, UpsertKeeps, CommitKeeps
     DEF Statement, Update, Insert, InsertConflict
<1>4. ASSUME NEW s \in Sessions, Choice(s) \/ Fail(s) \/ Deadlock(s) PROVE IInv'
  BY <1>4, CloseKeeps, PersistKeeps DEF Choice, Fail, Deadlock
<1>5. ASSUME NEW s \in Searches, Merge(s) \/ (\E l \in Lefts, r \in Rights : PersistMatch(s, l, r))
      PROVE IInv'
  BY <1>2, <1>5, BeginKeeps, PersistKeeps
<1>6. ASSUME NEW w \in Syncs, Refresh(w) \/ (\E e \in Entities : SkipEntity(w, e))
      PROVE IInv'
  BY <1>2, <1>6, BeginKeeps, PersistKeeps
<1>. QED BY <1>1, <1>3, <1>4, <1>5, <1>6 DEF Next

\* However many searches and syncs overlap, a youtube row has one canonical row.
THEOREM LeftRowsLinkedOnce == Spec => []LeftLinkedOnce
<1>1. IInv => LeftLinkedOnce
  BY DEF IInv, Committed
<1>. QED BY <1>1, InitIInv, Inductive, PTL DEF Spec

\* A canonical row that is committed is linked on both platforms, to rows that
\* are committed too.
THEOREM CanonicalsAreWhole == Spec => []CanonicalIsWhole
<1>1. IInv => CanonicalIsWhole
  BY DEF IInv, Committed
<1>. QED BY <1>1, InitIInv, Inductive, PTL DEF Spec

-----------------------------------------------------------------------------
(* The page of a canonical row, loaded while sessions commit. *)

\* What remains to be loaded while the links are still to come.
BeforeLinks ==
  { <<"aliases", "release_credits", "track_credits", "links", "platform_rows">>,
    <<"release_credits", "track_credits", "links", "platform_rows">>,
    <<"track_credits", "links", "platform_rows">>,
    <<"artists", "tracks", "links", "platform_rows">>,
    <<"tracks", "links", "platform_rows">>,
    <<"artists", "releases", "links", "platform_rows">>,
    <<"releases", "links", "platform_rows">>,
    <<"links", "platform_rows">> }

\* Rows of both platforms, that the links of L join to the canonical row c.
OnBoth(L, c, E) ==
  /\ E \subseteq Entities /\ \A e \in E : <<c, e>> \in L
  /\ (\E e \in E : e \in Lefts) /\ (\E e \in E : e \in Rights)

PageType == [pc : {"idle", "loading", "sent", "not_found"},
             loads : BeforeLinks \cup {<<"platform_rows">>, <<>>},
             id : Canonicals \cup {NoCanonical},
             linked : SUBSET Entities, rows : SUBSET Entities,
             shown : [Platforms -> Entities \cup {NoEntity}]]

\* A page that is being loaded is of a canonical row that is there for good, and
\* has both platforms as soon as it has any.
PageSound ==
  /\ page \in PageType
  /\ page.pc = "loading" =>
       /\ page.id \in canon
       /\ page.loads = <<"platform_rows">> => OnBoth(links, page.id, page.linked)
       /\ page.loads = <<>> => OnBoth(links, page.id, page.rows)
  /\ DetailIsSound

LEMMA LoadsFacts ==
  /\ Loads \subseteq BeforeLinks
  /\ \A q \in BeforeLinks : /\ q # <<>> /\ q # <<"platform_rows">> /\ Head(q) # "platform_rows"
                            /\ Tail(q) \in BeforeLinks \cup {<<"platform_rows">>}
                            /\ Tail(q) = <<"platform_rows">> => Head(q) = "links"
BY DEF Loads, ArtistLoads, ReleaseLoads, TrackLoads, BeforeLinks

LEMMA LastLoad ==
  /\ <<"platform_rows">> # <<>> /\ Head(<<"platform_rows">>) = "platform_rows"
  /\ Tail(<<"platform_rows">>) = <<>>
OBVIOUS

\* Nothing takes a canonical row or a link away.
LEMMA CatalogueGrows ==
  ASSUME [Next]_vars
  PROVE  canon \subseteq canon' /\ links \subseteq links'
<1>1. ASSUME NEW s \in Sessions, Statement(s) PROVE canon \subseteq canon' /\ links \subseteq links'
  BY <1>1 DEF Statement, Look, Update, Insert, InsertConflict, Written, ResolveLeft, ResolveRight,
              UseTarget, CreateCanonical, UpsertLinks, Commit, db
<1>2. \/ UNCHANGED <<canon, links>>
      \/ \E s \in Sessions : Statement(s)
  BY DEF Next, vars, db, Choice, Fail, Deadlock, Merge, PersistMatch, PersistEntity, Refresh,
         SkipEntity
<1>. QED BY <1>1, <1>2

LEMMA PageStays ==
  ASSUME PageSound, canon \subseteq canon', links \subseteq links', UNCHANGED page
  PROVE  PageSound'
BY DEF PageSound, OnBoth, DetailIsSound, MissingPlatforms, PlatformOf

LEMMA LoadKeeps == ASSUME IInv, PageSound, Load PROVE PageSound'
<1>1. UNCHANGED <<canon, links, rows>> /\ page \in PageType /\ page.pc = "loading"
  BY DEF Load, vars, db, PageSound
<1>2. page.id \in canon /\ page.loads # <<>>
  BY <1>1 DEF PageSound, Load
<1>3. /\ page'.pc = "loading" /\ page'.id = page.id /\ page'.shown = page.shown
      /\ page'.loads = Tail(page.loads)
      /\ page'.linked = IF Head(page.loads) = "links"
                        THEN {e \in Entities : <<page.id, e>> \in links} ELSE page.linked
      /\ page'.rows = IF Head(page.loads) = "platform_rows" THEN page.linked \cap rows ELSE page.rows
  BY <1>1 DEF Load, PageType
<1>4. DetailIsSound'
  BY <1>3 DEF DetailIsSound
<1>5. page' = [pc |-> page'.pc, loads |-> page'.loads, id |-> page'.id,
               linked |-> page'.linked, rows |-> page'.rows, shown |-> page'.shown]
  BY <1>1 DEF Load, PageType
<1>6. /\ page.linked \subseteq Entities /\ page.rows \subseteq Entities
      /\ page.id \in Canonicals \cup {NoCanonical}
      /\ page.shown \in [Platforms -> Entities \cup {NoEntity}]
      /\ page.loads \in BeforeLinks \cup {<<"platform_rows">>, <<>>}
  BY <1>1 DEF PageType
<1>7. page'.linked \subseteq Entities /\ page'.rows \subseteq Entities
  BY <1>3, <1>6
<1>8. CASE page.loads \in BeforeLinks
  <2>1. page'.loads \in BeforeLinks \cup {<<"platform_rows">>} /\ page'.loads # <<>>
    BY <1>3, <1>8, LoadsFacts, LastLoad
  <2>2. page' \in PageType
    BY <1>3, <1>5, <1>6, <1>7, <2>1 DEF PageType
  <2>3. ASSUME page'.loads = <<"platform_rows">> PROVE OnBoth(links', page'.id, page'.linked)
    <3>1. Head(page.loads) = "links"
      BY <1>3, <1>8, <2>3, LoadsFacts
    <3>2. page'.linked = {e \in Entities : <<page.id, e>> \in links}
      BY <1>3, <3>1
    <3>3. (\E l \in Lefts : <<page.id, l>> \in links) /\ (\E r \in Rights : <<page.id, r>> \in links)
      BY <1>2 DEF IInv, Committed, CanonicalIsWhole
    <3>. QED BY <1>1, <1>3, <3>2, <3>3 DEF OnBoth, Entities
  <2>. QED BY <1>1, <1>2, <1>3, <1>4, <2>1, <2>2, <2>3 DEF PageSound
<1>9. CASE page.loads = <<"platform_rows">>
  <2>1. page'.loads = <<>> /\ page'.rows = page.linked \cap rows
    BY <1>3, <1>9, LastLoad
  <2>2. OnBoth(links, page.id, page.linked)
    BY <1>1, <1>9 DEF PageSound
  <2>3. page.linked \subseteq rows
    <3>1. ASSUME NEW e \in page.linked PROVE e \in rows
      <4>1. <<page.id, e>> \in links
        BY <2>2 DEF OnBoth
      <4>2. <<page.id, e>>[2] \in rows
        BY <4>1 DEF IInv, Committed, CanonicalIsWhole
      <4>. QED BY <4>2
    <3>. QED BY <3>1
  <2>4. OnBoth(links', page'.id, page'.rows)
    BY <1>1, <1>3, <2>1, <2>2, <2>3 DEF OnBoth
  <2>5. page' \in PageType
    BY <1>3, <1>5, <1>6, <1>7, <2>1 DEF PageType
  <2>. QED BY <1>1, <1>2, <1>3, <1>4, <2>1, <2>4, <2>5, LastLoad DEF PageSound
<1>. QED BY <1>2, <1>6, <1>8, <1>9

LEMMA BuildKeeps == ASSUME PageSound, BuildPlatformMap PROVE PageSound'
<1>1. UNCHANGED <<canon, links, rows>> /\ page \in PageType /\ page.pc = "loading" /\ page.loads = <<>>
  BY DEF BuildPlatformMap, vars, db, PageSound
<1>2. PICK f \in Shown([p \in Platforms |-> {e \in page.rows : PlatformOf(e) = p}]) :
        page' = [page EXCEPT !.pc = "sent", !.shown = f, !.linked = {}, !.rows = {}]
  BY DEF BuildPlatformMap
<1>3. f \in [Platforms -> Entities \cup {NoEntity}]
  BY DEF Shown
<1>4. /\ page'.pc = "sent" /\ page'.shown = f /\ page'.id = page.id
      /\ page' \in PageType
  BY <1>1, <1>2, <1>3 DEF PageType
<1>5. OnBoth(links, page.id, page.rows)
  BY <1>1 DEF PageSound
<1>6. ASSUME NEW p \in Platforms
      PROVE  f[p] \in page.rows /\ PlatformOf(f[p]) = p
  <2>1. \E e \in page.rows : PlatformOf(e) = p
    <3>1. \A e \in Rights : PlatformOf(e) = "yandex"
      BY LinkingAssumption DEF PlatformOf
    <3>2. \A e \in Lefts : PlatformOf(e) = "youtube"
      BY DEF PlatformOf
    <3>. QED BY <1>5, <3>1, <3>2 DEF OnBoth, Platforms
  <2>2. f[p] \in {e \in page.rows : PlatformOf(e) = p}
    BY <2>1 DEF Shown
  <2>. QED BY <2>2
<1>7. \A p \in Platforms : f[p] # NoEntity /\ <<page.id, f[p]>> \in links
  BY <1>5, <1>6, LinkingAssumption DEF OnBoth
<1>8. DetailIsSound'
  <2>1. links' = links /\ \A p \in Platforms : page'.shown[p] = f[p]
    BY <1>1, <1>4
  <2>2. MissingPlatforms' = {}
    BY <1>7, <2>1 DEF MissingPlatforms
  <2>3. \A p \in Platforms : <<page'.id, page'.shown[p]>> \in links' /\ PlatformOf(page'.shown[p]) = p
    BY <1>4, <1>6, <1>7, <2>1
  <2>. QED BY <2>2, <2>3 DEF DetailIsSound, PlatformOf
<1>. QED BY <1>4, <1>8 DEF PageSound

LEMMA FirstKeeps == ASSUME IInv, PageSound, GetModel \/ NotFound PROVE PageSound'
<1>1. NoPage \in PageType
  BY DEF NoPage, PageType, Platforms
<1>2. CASE GetModel
  <2>1. PICK c \in canon, loads \in Loads :
          page' = [NoPage EXCEPT !.pc = "loading", !.loads = loads, !.id = c]
    BY <1>2 DEF GetModel
  <2>2. c \in Canonicals /\ loads \in BeforeLinks /\ canon' = canon
    BY <1>2, <2>1, LoadsFacts DEF IInv, TypeOK, GetModel, vars, db
  <2>3. /\ page' \in PageType /\ page'.pc = "loading" /\ page'.id = c /\ page'.loads = loads
    BY <1>1, <2>1, <2>2 DEF PageType
  <2>. QED BY <2>1, <2>2, <2>3, LoadsFacts DEF PageSound, DetailIsSound
<1>3. CASE NotFound
  <2>1. PICK c \in Canonicals \ canon : page' = [NoPage EXCEPT !.pc = "not_found", !.id = c]
    BY <1>3 DEF NotFound
  <2>2. page' \in PageType /\ page'.pc = "not_found"
    BY <1>1, <2>1 DEF PageType
  <2>. QED BY <2>2 DEF PageSound, DetailIsSound
<1>. QED BY <1>2, <1>3

LEMMA DetailStep == IInv /\ PageSound /\ [DetailNext]_detailVars => IInv' /\ PageSound'
<1> SUFFICES ASSUME IInv, PageSound, [DetailNext]_detailVars PROVE IInv' /\ PageSound'
  OBVIOUS
<1>1. [Next]_vars
  BY DEF DetailNext, detailVars, GetModel, NotFound, Load, BuildPlatformMap
<1>2. IInv' /\ canon \subseteq canon' /\ links \subseteq links'
  BY <1>1, Inductive, CatalogueGrows
<1>3. GetModel \/ NotFound \/ Load \/ BuildPlatformMap \/ UNCHANGED page
  BY DEF DetailNext, detailVars
<1>. QED BY <1>2, <1>3, FirstKeeps, LoadKeeps, BuildKeeps, PageStays

\* A page that was loaded statement by statement, whatever was committed in
\* between, shows a row of both platforms, and its links are still there.
THEOREM PagesAreSound == DetailSpec => []DetailIsSound
<1>1. DetailInit => IInv /\ PageSound
  <2>1. NoPage \in PageType /\ NoPage.pc = "idle"
    BY DEF NoPage, PageType, Platforms
  <2>. QED BY <2>1, InitIInv DEF DetailInit, PageSound, DetailIsSound
<1>2. PageSound => DetailIsSound
  BY DEF PageSound
<1>. QED BY <1>1, <1>2, DetailStep, PTL DEF DetailSpec

-----------------------------------------------------------------------------
(* The sessions keep the promise of Catalogue.  At any time, what a session *)
(* sees and the committed layer does not have is what some matches, made    *)
(* one after the other from that layer, would have brought about.  The      *)
(* commit of another session does not change that, for the rows of the      *)
(* matches are locked and the canonical rows that a session makes are its   *)
(* own.                                                                     *)

\* What n matches ps with the canonical rows cs bring about.
Brought(ps, cs, n) == {<<cs[i], ps[i][1]>> : i \in 1..n} \cup {<<cs[i], ps[i][2]>> : i \in 1..n}
Used(cs, n)        == {cs[i] : i \in 1..n}

\* The canonical row of a match that is about to be linked.
Pending(s) == IF pc[s] = "link" THEN {target[s]} ELSE {}

\* n matches explain what the session has flushed; they are not made again.
Explains(s, n, ps, cs) ==
  /\ n \in Nat /\ ps \in [1..n -> Lefts \X Rights] /\ cs \in [1..n -> Canonicals]
  /\ Promise!RightsOnce(ps) /\ Promise!InTurn(ps, cs)
  /\ \A i \in 1..n : /\ ps[i][1] \in held[s] /\ ps[i][2] \in held[s] /\ ps[i][2] \notin todo[s]
                     /\ pair[s] # <<>> => ps[i][2] # pair[s][2]
  /\ LinksSeen(s) = links \cup Brought(ps, cs, n)
  /\ canon \cup made[s] = canon \cup Used(cs, n) \cup Pending(s)
  /\ pc[s] = "link" => target[s] \in Promise!Targets(canon \cup Used(cs, n), LinksSeen(s),
                                                     pair[s][1], pair[s][2])

Explained(s) == \E n, ps, cs : Explains(s, n, ps, cs)

\* No canonical row is made twice.
MadeOnce == \A s \in Sessions : /\ made[s] \cap canon = {}
                                /\ \A t \in Sessions \ {s} : made[s] \cap made[t] = {}

\* The right row of the match in hand is not persisted again.
RightTaken == \A s \in Sessions : pair[s] # <<>> => pair[s][2] \notin todo[s]

PInv == IInv /\ MadeOnce /\ RightTaken /\ \A s \in Sessions : Explained(s)

LEMMA AfterIs ==
  ASSUME NEW ps, NEW cs, NEW n
  PROVE  /\ Promise!CanonAfter(cs, n) = canon \cup Used(cs, n)
         /\ Promise!LinksAfter(ps, cs, n) = links \cup Brought(ps, cs, n)
BY DEF Promise!CanonAfter, Promise!LinksAfter, Used, Brought

\* A target stays one while nobody links the two rows or takes its id.
LEMMA TargetStays ==
  ASSUME NEW C, NEW L, NEW D, NEW M, NEW l, NEW r, NEW c, c \in Promise!Targets(C, L, l, r),
         Promise!CanonicalsOf(M, l) = Promise!CanonicalsOf(L, l),
         Promise!CanonicalsOf(M, r) = Promise!CanonicalsOf(L, r),
         c \in D => c \in C
  PROVE  c \in Promise!Targets(D, M, l, r)
BY DEF Promise!Targets

\* So matches made in turn are still made in turn from a layer that has grown.
LEMMA InTurnStays ==
  ASSUME NEW n \in Nat, NEW ps \in [1..n -> Lefts \X Rights], NEW cs \in [1..n -> Canonicals],
         Promise!InTurn(ps, cs),
         \A i \in 1..n : \A k \in {1, 2} : \A c \in Canonicals :
           <<c, ps[i][k]>> \in links' <=> <<c, ps[i][k]>> \in links,
         \A i \in 1..n : cs[i] \in canon' => cs[i] \in canon
  PROVE  Promise!InTurn(ps, cs)'
<1> SUFFICES ASSUME NEW i \in 1..n
             PROVE  cs[i] \in Promise!Targets(canon' \cup Used(cs, i - 1), links' \cup Brought(ps, cs, i - 1),
                                              ps[i][1], ps[i][2])
  BY AfterIs DEF Promise!InTurn, Promise!CanonAfter, Promise!LinksAfter, Used, Brought
<1>1. cs[i] \in Promise!Targets(canon \cup Used(cs, i - 1), links \cup Brought(ps, cs, i - 1),
                                ps[i][1], ps[i][2])
  BY AfterIs DEF Promise!InTurn
<1>2. \A k \in {1, 2} : Promise!CanonicalsOf(links' \cup Brought(ps, cs, i - 1), ps[i][k])
                        = Promise!CanonicalsOf(links \cup Brought(ps, cs, i - 1), ps[i][k])
  BY DEF Promise!CanonicalsOf
<1>3. cs[i] \in canon' \cup Used(cs, i - 1) => cs[i] \in canon \cup Used(cs, i - 1)
  OBVIOUS
<1>. QED BY <1>1, <1>2, <1>3, TargetStays

LEMMA SameUse ==
  ASSUME NEW m, NEW cs, NEW ds, \A i \in 1..m : ds[i] = cs[i]
  PROVE  Used(ds, m) = Used(cs, m)
<1>1. ASSUME NEW x \in Used(ds, m) PROVE x \in Used(cs, m)
  BY DEF Used
<1>2. ASSUME NEW x \in Used(cs, m) PROVE x \in Used(ds, m)
  BY DEF Used
<1>. QED BY <1>1, <1>2

\* qs and ds are ps and cs with one match more.
Longer(qs, ds, n, ps, cs, p, c) ==
  /\ qs \in [1..(n + 1) -> Lefts \X Rights] /\ ds \in [1..(n + 1) -> Canonicals]
  /\ \A i \in 1..n : qs[i] = ps[i] /\ ds[i] = cs[i]
  /\ qs[n + 1] = p /\ ds[n + 1] = c
  /\ \A m \in 0..n : Brought(qs, ds, m) = Brought(ps, cs, m) /\ Used(ds, m) = Used(cs, m)
  /\ Brought(qs, ds, n + 1) = Brought(ps, cs, n) \cup {<<c, p[1]>>, <<c, p[2]>>}
  /\ Used(ds, n + 1) = Used(cs, n) \cup {c}

LEMMA OneMore ==
  ASSUME NEW n \in Nat, NEW ps \in [1..n -> Lefts \X Rights], NEW cs \in [1..n -> Canonicals],
         NEW p \in Lefts \X Rights, NEW c \in Canonicals
  PROVE  \E qs, ds : Longer(qs, ds, n, ps, cs, p, c)
<1>0. PICK qs, ds : /\ qs = [i \in 1..(n + 1) |-> IF i <= n THEN ps[i] ELSE p]
                    /\ ds = [i \in 1..(n + 1) |-> IF i <= n THEN cs[i] ELSE c]
  OBVIOUS
<1>1. \A i \in 1..n : qs[i] = ps[i] /\ ds[i] = cs[i] 
  BY <1>0
<1>2. qs[n + 1] = p /\ ds[n + 1] = c
  BY <1>0
<1>3. qs \in [1..(n + 1) -> Lefts \X Rights] /\ ds \in [1..(n + 1) -> Canonicals]
  BY <1>0
<1>4. ASSUME NEW m \in 0..n
      PROVE  Brought(qs, ds, m) = Brought(ps, cs, m) /\ Used(ds, m) = Used(cs, m)
  <2>1. \A i \in 1..m : qs[i] = ps[i] /\ ds[i] = cs[i]
    BY <1>1
  <2>2. {<<ds[i], qs[i][1]>> : i \in 1..m} = {<<cs[i], ps[i][1]>> : i \in 1..m}
    BY <2>1
  <2>3. {<<ds[i], qs[i][2]>> : i \in 1..m} = {<<cs[i], ps[i][2]>> : i \in 1..m}
    BY <2>1
  <2>. QED BY <2>1, <2>2, <2>3, SameUse DEF Brought
<1>5. 1..(n + 1) = 1..n \cup {n + 1}
  OBVIOUS
<1>6. Brought(qs, ds, n + 1) = Brought(qs, ds, n) \cup {<<ds[n + 1], qs[n + 1][1]>>, <<ds[n + 1], qs[n + 1][2]>>}
      /\ Used(ds, n + 1) = Used(ds, n) \cup {ds[n + 1]}
  <2>1. {<<ds[i], qs[i][1]>> : i \in 1..(n + 1)}
        = {<<ds[i], qs[i][1]>> : i \in 1..n} \cup {<<ds[n + 1], qs[n + 1][1]>>}
    BY <1>5
  <2>2. {<<ds[i], qs[i][2]>> : i \in 1..(n + 1)}
        = {<<ds[i], qs[i][2]>> : i \in 1..n} \cup {<<ds[n + 1], qs[n + 1][2]>>}
    BY <1>5
  <2>3. {ds[i] : i \in 1..(n + 1)} = {ds[i] : i \in 1..n} \cup {ds[n + 1]}
    BY <1>5
  <2>. QED BY <2>1, <2>2, <2>3 DEF Brought, Used
<1>7. n \in 0..n
  OBVIOUS
<1>8. Brought(qs, ds, n) = Brought(ps, cs, n) /\ Used(ds, n) = Used(cs, n)
  BY <1>4, <1>7
<1>. QED BY <1>1, <1>2, <1>3, <1>4, <1>6, <1>8 DEF Longer

\* A session that has flushed nothing has nothing to explain.
LEMMA IdleExplained ==
  ASSUME NEW s \in Sessions, new'[s] = {}, made'[s] = {}, pc'[s] = "idle"
  PROVE  Explained(s)'
<1> DEFINE none == [i \in 1..0 |-> 0]
<1>1. /\ none \in [1..0 -> Lefts \X Rights] /\ none \in [1..0 -> Canonicals] /\ DOMAIN none = {}
      /\ 1..0 = {}
  OBVIOUS
<1>2. Brought(none, none, 0) = {} /\ Used(none, 0) = {}
  BY <1>1 DEF Brought, Used
<1> HIDE DEF none
<1>3. Promise!RightsOnce(none)' /\ Promise!InTurn(none, none)'
  BY <1>1 DEF Promise!RightsOnce, Promise!InTurn
<1>4. LinksSeen(s)' = links' /\ Pending(s)' = {}
  BY DEF LinksSeen, Pending
<1>5. Explains(s, 0, none, none)'
  BY <1>1, <1>2, <1>3, <1>4 DEF Explains
<1>6. \E n, ps, cs : Explains(s, n, ps, cs)'
  BY <1>1, <1>5
<1>. QED BY <1>6 DEF Explained

\* What another session commits is about other rows.
LEMMA ExplainedStays ==
  ASSUME TypeOK, NEW t \in Sessions, Explained(t),
         pc'[t] = pc[t], pair'[t] = pair[t], target'[t] = target[t], todo'[t] = todo[t],
         held'[t] = held[t], new'[t] = new[t], made'[t] = made[t],
         pc[t] = "link" => pair[t][1] \in held[t] /\ pair[t][2] \in held[t],
         links \subseteq links', canon \subseteq canon', canon' \cap made[t] \subseteq canon,
         \A e \in held[t], c \in Canonicals : <<c, e>> \in links' <=> <<c, e>> \in links
  PROVE  Explained(t)'
<1>1. PICK n, ps, cs : Explains(t, n, ps, cs)
  BY DEF Explained
<1>0. n \in Nat /\ ps \in [1..n -> Lefts \X Rights] /\ cs \in [1..n -> Canonicals]
  BY <1>1 DEF Explains
<1>2. \A i \in 1..n : ps[i][1] \in held[t] /\ ps[i][2] \in held[t]
  BY <1>0, <1>1 DEF Explains
<1>3. \A c \in canon \cup Used(cs, n) \cup Pending(t) : c \in canon' => c \in canon
  BY <1>0, <1>1 DEF Explains
<1>4. \A i \in 1..n : cs[i] \in canon' => cs[i] \in canon
  BY <1>0, <1>3 DEF Used
<1>5. Promise!InTurn(ps, cs)'
  <2>1. Promise!InTurn(ps, cs)
    BY <1>0, <1>1 DEF Explains
  <2>. QED BY <1>0, <1>2, <1>4, <2>1, InTurnStays
<1>6. LinksSeen(t)' = links' \cup Brought(ps, cs, n)
  BY <1>0, <1>1 DEF Explains, LinksSeen
<1>7. canon' \cup made'[t] = canon' \cup Used(cs, n) \cup Pending(t)'
  BY <1>0, <1>1 DEF Explains, Pending
<1>8. ASSUME pc[t] = "link"
      PROVE  target[t] \in Promise!Targets(canon' \cup Used(cs, n), LinksSeen(t)', pair[t][1], pair[t][2])
  <2>1. target[t] \in Promise!Targets(canon \cup Used(cs, n), LinksSeen(t), pair[t][1], pair[t][2])
    BY <1>0, <1>1, <1>8 DEF Explains
  <2>2. \A e \in held[t] : Promise!CanonicalsOf(LinksSeen(t)', e) = Promise!CanonicalsOf(LinksSeen(t), e)
    BY <1>0, <1>1, <1>6 DEF Explains, Promise!CanonicalsOf
  <2>3. target[t] \in canon' \cup Used(cs, n) => target[t] \in canon \cup Used(cs, n)
    BY <1>3, <1>8 DEF Pending
  <2>. QED BY <1>8, <2>1, <2>2, <2>3, TargetStays
<1>9. Explains(t, n, ps, cs)'
  <2>1. Promise!RightsOnce(ps)'
    BY <1>0, <1>1 DEF Explains, Promise!RightsOnce
  <2>2. \A i \in 1..n : /\ ps[i][1] \in held'[t] /\ ps[i][2] \in held'[t] /\ ps[i][2] \notin todo'[t]
                        /\ pair'[t] # <<>> => ps[i][2] # pair'[t][2]
    BY <1>0, <1>1 DEF Explains
  <2>. QED BY <1>0, <1>5, <1>6, <1>7, <1>8, <2>1, <2>2 DEF Explains
<1>. QED BY <1>9 DEF Explained

\* A session that flushes no link and no canonical row matches as before.
LEMMA QuietExplained ==
  ASSUME TypeOK, NEW s \in Sessions, Explained(s), Alone(s), pc[s] # "link",
         held[s] \subseteq held'[s], new'[s] = new[s], made'[s] = made[s],
         todo'[s] \subseteq todo[s] \/ held[s] = {},
         pair'[s] # <<>> => pair'[s] = pair[s] \/ pair'[s][2] \in todo[s],
         pc'[s] = "link" =>
           /\ target'[s] \in canon \cup made[s]
           /\ target'[s] \in Promise!Targets(canon \cup made[s], LinksSeen(s), pair'[s][1], pair'[s][2])
  PROVE  Explained(s)'
<1>1. PICK n, ps, cs : Explains(s, n, ps, cs)
  BY DEF Explained
<1>0. n \in Nat /\ ps \in [1..n -> Lefts \X Rights] /\ cs \in [1..n -> Canonicals]
  BY <1>1 DEF Explains
<1>2. canon' = canon /\ links' = links /\ LinksSeen(s)' = LinksSeen(s)
  BY DEF Alone, LinksSeen
<1>3. canon \cup made[s] = canon \cup Used(cs, n)
  BY <1>0, <1>1 DEF Explains, Pending
<1>4. Promise!RightsOnce(ps)' /\ Promise!InTurn(ps, cs)'
  <2>1. Promise!InTurn(ps, cs) /\ Promise!RightsOnce(ps)
    BY <1>0, <1>1 DEF Explains
  <2>2. Promise!InTurn(ps, cs)'
    BY <1>0, <1>2, <2>1, InTurnStays
  <2>. QED BY <2>1, <2>2 DEF Promise!RightsOnce
<1>5. \A i \in 1..n : /\ ps[i][1] \in held'[s] /\ ps[i][2] \in held'[s] /\ ps[i][2] \notin todo'[s]
                      /\ pair'[s] # <<>> => ps[i][2] # pair'[s][2]
  BY <1>0, <1>1 DEF Explains
<1>6. canon' \cup made'[s] = canon' \cup Used(cs, n) \cup Pending(s)'
  BY <1>2, <1>3 DEF Pending
<1>7. LinksSeen(s)' = links' \cup Brought(ps, cs, n)
  BY <1>0, <1>1, <1>2 DEF Explains
<1>8. Explains(s, n, ps, cs)'
  BY <1>0, <1>2, <1>3, <1>4, <1>5, <1>6, <1>7 DEF Explains
<1>. QED BY <1>8 DEF Explained

LEMMA CreateExplained ==
  ASSUME PInv, NEW s \in Sessions, CreateCanonical(s)
  PROVE  Explained(s)'
<1>1. PICK n, ps, cs : Explains(s, n, ps, cs)
  BY DEF PInv, Explained
<1>0. n \in Nat /\ ps \in [1..n -> Lefts \X Rights] /\ cs \in [1..n -> Canonicals]
  BY <1>1 DEF Explains
<1>2. PICK c \in Canonicals \ (canon \cup UNION {made[t] : t \in Sessions}) :
        /\ made' = [made EXCEPT ![s] = @ \cup {c}]
        /\ target' = [target EXCEPT ![s] = c]
        /\ pc' = [pc EXCEPT ![s] = "link"]
  BY DEF CreateCanonical
<1>3. /\ pc[s] = "right" /\ CanonicalsOf(LinksSeen(s), pair[s][2]) = {}
      /\ UNCHANGED <<canon, links, rows, todo, pair, cur, held, new>>
  BY DEF CreateCanonical, db
<1>4. pc'[s] = "link" /\ target'[s] = c /\ made'[s] = made[s] \cup {c}
  BY <1>2 DEF PInv, IInv, TypeOK
<1>5. canon \cup made[s] = canon \cup Used(cs, n)
  BY <1>0, <1>1, <1>3 DEF Explains, Pending
<1>6. c \in Promise!Targets(canon \cup Used(cs, n), LinksSeen(s), pair[s][1], pair[s][2])
  <2>1. CanonicalsOf(LinksSeen(s), pair[s][1]) = {}
    BY <1>3 DEF PInv, IInv, Sound, SeenOnce, CanonicalsOf
  <2>2. c \in Canonicals \ (canon \cup Used(cs, n))
    BY <1>5
  <2>. QED BY <1>3, <2>1, <2>2 DEF Promise!Targets, Promise!CanonicalsOf, CanonicalsOf
<1>7. LinksSeen(s)' = LinksSeen(s) /\ Pending(s)' = {c}
  BY <1>3, <1>4 DEF LinksSeen, Pending
<1>8. Promise!RightsOnce(ps)' /\ Promise!InTurn(ps, cs)'
  <2>1. Promise!InTurn(ps, cs) /\ Promise!RightsOnce(ps)
    BY <1>0, <1>1 DEF Explains
  <2>2. Promise!InTurn(ps, cs)'
    BY <1>0, <1>3, <2>1, InTurnStays
  <2>. QED BY <2>1, <2>2 DEF Promise!RightsOnce
<1>9. Explains(s, n, ps, cs)'
  BY <1>0, <1>1, <1>3, <1>4, <1>5, <1>6, <1>7, <1>8 DEF Explains
<1>. QED BY <1>9 DEF Explained

\* The match that is linked comes after those before it.
LEMMA UpsertExplained ==
  ASSUME PInv, NEW s \in Sessions, UpsertLinks(s)
  PROVE  Explained(s)'
<1>1. PICK n, ps, cs : Explains(s, n, ps, cs)
  BY DEF PInv, Explained
<1>0. n \in Nat /\ ps \in [1..n -> Lefts \X Rights] /\ cs \in [1..n -> Canonicals]
  BY <1>1 DEF Explains
<1>2. pc[s] = "link" /\ UNCHANGED <<canon, links, rows, todo, cur, held, made>>
  BY DEF UpsertLinks, db
<1>3. PICK c, p : c = target[s] /\ p = pair[s]
  OBVIOUS
<1>4. c \in Canonicals /\ p \in Lefts \X Rights
  BY <1>2, <1>3 DEF PInv, IInv, TypeOK
<1>5. /\ pc'[s] = "ready" /\ pair'[s] = <<>> /\ new'[s] = new[s] \cup ({<<c, p[1]>>, <<c, p[2]>>} \ links)
  BY <1>3 DEF UpsertLinks, PInv, IInv, TypeOK
<1>6. PICK qs, ds : Longer(qs, ds, n, ps, cs, p, c)
  BY <1>0, <1>4, OneMore
<1>7. /\ qs \in [1..(n + 1) -> Lefts \X Rights] /\ ds \in [1..(n + 1) -> Canonicals]
      /\ \A i \in 1..n : qs[i] = ps[i] /\ ds[i] = cs[i]
      /\ qs[n + 1] = p /\ ds[n + 1] = c
      /\ \A m \in 0..n : Brought(qs, ds, m) = Brought(ps, cs, m) /\ Used(ds, m) = Used(cs, m)
      /\ Brought(qs, ds, n + 1) = Brought(ps, cs, n) \cup {<<c, p[1]>>, <<c, p[2]>>}
      /\ Used(ds, n + 1) = Used(cs, n) \cup {c}
  BY <1>6 DEF Longer
<1>8. ASSUME NEW i \in 1..(n + 1)
      PROVE  (i \in 1..n /\ qs[i] = ps[i] /\ ds[i] = cs[i]) \/ (i = n + 1 /\ qs[i] = p /\ ds[i] = c)
  BY <1>0, <1>7
<1>9. /\ p[1] \in held[s] /\ p[2] \in held[s] /\ p[2] \notin todo[s] /\ p # <<>>
  <2>1. p[1] \in held[s] /\ p[2] \in held[s]
    BY <1>2, <1>3 DEF PInv, IInv, Sound, PairHeld
  <2>2. p # <<>>
    BY <1>2, <1>3 DEF PInv, IInv, TypeOK
  <2>. QED BY <1>3, <2>1, <2>2 DEF PInv, RightTaken
<1>10. Promise!RightsOnce(qs)'
  <2>1. \A i \in 1..n : ps[i][2] # p[2]
    BY <1>0, <1>1, <1>3, <1>9 DEF Explains
  <2>2. \A i, j \in 1..n : i # j => ps[i][2] # ps[j][2]
    BY <1>0, <1>1 DEF Explains, Promise!RightsOnce
  <2>. QED BY <1>7, <1>8, <2>1, <2>2 DEF Promise!RightsOnce
<1>11. Promise!InTurn(qs, ds)'
  <2>1. ASSUME NEW i \in 1..(n + 1)
        PROVE  ds[i] \in Promise!Targets(canon \cup Used(ds, i - 1), links \cup Brought(qs, ds, i - 1),
                                         qs[i][1], qs[i][2])
    <3>1. i - 1 \in 0..n
      BY <1>0
    <3>2. CASE i \in 1..n
      <4>1. cs[i] \in Promise!Targets(canon \cup Used(cs, i - 1), links \cup Brought(ps, cs, i - 1),
                                      ps[i][1], ps[i][2])
        BY <1>0, <1>1, <3>2, AfterIs DEF Explains, Promise!InTurn
      <4>2. qs[i] = ps[i] /\ ds[i] = cs[i]
        BY <1>0, <1>7, <3>2
      <4>. QED BY <1>0, <1>7, <3>1, <4>1, <4>2
    <3>3. CASE i = n + 1
      <4>1. c \in Promise!Targets(canon \cup Used(cs, n), links \cup Brought(ps, cs, n), p[1], p[2])
        BY <1>0, <1>1, <1>2, <1>3 DEF Explains
      <4>2. qs[i] = p /\ ds[i] = c /\ i - 1 = n /\ n \in 0..n
        BY <1>0, <1>7, <3>3
      <4>. QED BY <1>7, <4>1, <4>2
    <3>. QED BY <1>0, <3>2, <3>3
  <2>2. DOMAIN qs = 1..(n + 1) /\ canon' = canon /\ links' = links
    BY <1>2, <1>7
  <2>. QED BY <2>1, <2>2 DEF Promise!InTurn, Promise!CanonAfter, Promise!LinksAfter, Used, Brought
<1>12. LinksSeen(s)' = links' \cup Brought(qs, ds, n + 1)
  BY <1>0, <1>1, <1>2, <1>5, <1>7 DEF Explains, LinksSeen
<1>13. canon' \cup made'[s] = canon' \cup Used(ds, n + 1) \cup Pending(s)'
  BY <1>0, <1>1, <1>2, <1>3, <1>5, <1>7 DEF Explains, Pending
<1>14. \A i \in 1..(n + 1) : qs[i][1] \in held'[s] /\ qs[i][2] \in held'[s] /\ qs[i][2] \notin todo'[s]
  BY <1>0, <1>1, <1>2, <1>8, <1>9 DEF Explains
<1>15. n + 1 \in Nat
  BY <1>0
<1>16. Explains(s, n + 1, qs, ds)'
  BY <1>5, <1>7, <1>15, <1>10, <1>11, <1>12, <1>13, <1>14 DEF Explains
<1>. QED BY <1>16 DEF Explained

\* A step of a session that commits nothing leaves the others' explanations.
LEMMA OthersStay ==
  ASSUME PInv, NEW s \in Sessions, Alone(s), \A t \in Sessions \ {s} : todo'[t] = todo[t],
         Explained(s)'
  PROVE  \A t \in Sessions : Explained(t)'
<1> SUFFICES ASSUME NEW t \in Sessions \ {s} PROVE Explained(t)'
  OBVIOUS
<1>1. pc[t] = "link" => pair[t][1] \in held[t] /\ pair[t][2] \in held[t]
  BY DEF PInv, IInv, Sound, PairHeld
<1>2. TypeOK /\ Explained(t)
  BY DEF PInv, IInv
<1>. QED BY <1>1, <1>2, ExplainedStays DEF Alone

\* While nothing is made and nothing committed, it is enough that right rows
\* stay taken.
LEMMA QuietPromise ==
  ASSUME PInv, NEW s \in Sessions, Alone(s), \A t \in Sessions \ {s} : todo'[t] = todo[t],
         Explained(s)', IInv', made'[s] \subseteq made[s],
         pair'[s] # <<>> => pair'[s][2] \notin todo'[s]
  PROVE  PInv'
<1>1. MadeOnce'
  BY DEF PInv, MadeOnce, Alone
<1>2. RightTaken'
  BY DEF PInv, RightTaken, Alone
<1>. QED BY <1>1, <1>2, OthersStay DEF PInv

LEMMA ClosePromise ==
  ASSUME PInv, NEW s \in Sessions, Close(s), UNCHANGED db, IInv'
  PROVE  PInv'
<1>1. /\ pc'[s] = "idle" /\ pair'[s] = <<>> /\ new'[s] = {} /\ made'[s] = {}
      /\ Alone(s) /\ \A t \in Sessions \ {s} : todo'[t] = todo[t]
  BY DEF Close, db, Alone, PInv, IInv, TypeOK
<1>. QED BY <1>1, IdleExplained, QuietPromise

LEMMA BeginPromise ==
  ASSUME PInv, NEW s \in Sessions, Merge(s) \/ Refresh(s), IInv'
  PROVE  PInv'
<1>1. pc' = [pc EXCEPT ![s] = "ready"] /\ pc[s] = "idle"
      /\ UNCHANGED <<canon, links, rows, pair, cur, target, held, new, made>>
  BY DEF Merge, Refresh, db, Active
<1>2. PICK listed : todo' = [todo EXCEPT ![s] = listed]
  BY DEF Merge, Refresh
<1>3. /\ Alone(s) /\ pc'[s] = "ready" /\ \A t \in Sessions \ {s} : todo'[t] = todo[t]
  BY <1>1, <1>2 DEF Alone, PInv, IInv, TypeOK
<1>4. pair[s] = <<>> /\ held[s] = {}
  BY <1>1 DEF PInv, IInv, TypeOK, Sound, PairHeld
<1>5. TypeOK /\ Explained(s)
  BY DEF PInv, IInv
<1>6. Explained(s)'
  BY <1>1, <1>3, <1>4, <1>5, QuietExplained
<1>. QED BY <1>1, <1>3, <1>4, <1>6, QuietPromise

LEMMA PersistPromise ==
  ASSUME PInv, NEW s \in Sessions, IInv',
         (\E l \in Lefts, r \in Rights : PersistMatch(s, l, r))
           \/ (\E e \in Entities : PersistEntity(s, e) \/ SkipEntity(s, e))
  PROVE  PInv'
<1>1. pc[s] = "ready" /\ pair[s] = <<>>
  BY DEF PersistMatch, PersistEntity, SkipEntity, PInv, IInv, Sound, PairHeld
<1>2. UNCHANGED <<canon, links, rows, target, held, new, made>>
  BY DEF PersistMatch, PersistEntity, SkipEntity, db
<1>3. TypeOK /\ Explained(s)
  BY DEF PInv, IInv
<1>4. CASE \E l \in Lefts, r \in Rights : PersistMatch(s, l, r)
  <2>1. PICK l \in Lefts, r \in Rights : PersistMatch(s, l, r)
    BY <1>4
  <2>2. PICK done \in {{r}, {l, r}} : todo' = [todo EXCEPT ![s] = @ \ done]
    BY <2>1 DEF PersistMatch
  <2>3. /\ pc' = [pc EXCEPT ![s] = "look"] /\ cur' = [cur EXCEPT ![s] = l]
        /\ pair' = [pair EXCEPT ![s] = <<l, r>>] /\ r \in todo[s]
    BY <2>1 DEF PersistMatch
  <2>4. /\ Alone(s) /\ pc'[s] = "look" /\ pair'[s] = <<l, r>> /\ todo'[s] = todo[s] \ done
        /\ \A t \in Sessions \ {s} : todo'[t] = todo[t]
    BY <1>2, <2>2, <2>3 DEF Alone, PInv, IInv, TypeOK
  <2>5. Explained(s)'
    <3>1. pair'[s][2] \in todo[s] /\ todo'[s] \subseteq todo[s] /\ pc[s] # "link" /\ pc'[s] # "link"
      BY <1>1, <2>3, <2>4
    <3>2. held'[s] = held[s] /\ new'[s] = new[s] /\ made'[s] = made[s]
      BY <1>2
    <3>. QED BY <1>3, <2>4, <3>1, <3>2, QuietExplained
  <2>. QED BY <1>2, <2>2, <2>4, <2>5, QuietPromise
<1>5. CASE \E e \in Entities : PersistEntity(s, e) \/ SkipEntity(s, e)
  <2>1. PICK e \in Entities : PersistEntity(s, e) \/ SkipEntity(s, e)
    BY <1>5
  <2>2. /\ UNCHANGED pair /\ todo' = [todo EXCEPT ![s] = @ \ {e}]
        /\ UNCHANGED <<pc, cur>> \/ (/\ pc' = [pc EXCEPT ![s] = "look"]
                                     /\ cur' = [cur EXCEPT ![s] = e])
    BY <2>1 DEF PersistEntity, SkipEntity
  <2>3. /\ Alone(s) /\ pc'[s] \in {"ready", "look"} /\ pair'[s] = <<>> /\ todo'[s] \subseteq todo[s]
        /\ \A t \in Sessions \ {s} : todo'[t] = todo[t]
    BY <1>1, <1>2, <2>2 DEF Alone, PInv, IInv, TypeOK
  <2>4. Explained(s)'
    BY <1>1, <1>2, <1>3, <2>3, QuietExplained
  <2>. QED BY <1>2, <2>3, <2>4, QuietPromise
<1>. QED BY <1>4, <1>5

LEMMA UpsertRowPromise ==
  ASSUME PInv, NEW s \in Sessions, IInv',
         Look(s) \/ (pc[s] \in {"update", "insert"} /\ Written(s))
  PROVE  PInv'
<1>1. UNCHANGED <<canon, links, rows, todo, pair, target, new, made>>
  BY DEF Look, Written, db, mine
<1>2. /\ pc[s] # "link" /\ pc'[s] # "link" /\ held[s] \subseteq held'[s] /\ Alone(s)
  BY <1>1 DEF Look, Written, mine, Alone, PInv, IInv, TypeOK
<1>3. TypeOK /\ Explained(s)
  BY DEF PInv, IInv
<1>4. Explained(s)'
  BY <1>1, <1>2, <1>3, QuietExplained
<1>. QED BY <1>1, <1>2, <1>4, QuietPromise DEF PInv, RightTaken

LEMMA ResolvePromise ==
  ASSUME PInv, NEW s \in Sessions, ResolveLeft(s) \/ ResolveRight(s), IInv'
  PROVE  PInv'
<1>1. UNCHANGED <<canon, links, rows, todo, pair, cur, held, new, made>> /\ pc[s] \in {"left", "right"}
  BY DEF ResolveLeft, ResolveRight, UseTarget, db, mine
<1>2. Alone(s)
  BY <1>1 DEF ResolveLeft, ResolveRight, UseTarget, db, mine, Alone, PInv, IInv, TypeOK
<1>3. ASSUME pc'[s] = "link"
      PROVE  /\ target'[s] \in canon \cup made[s]
             /\ target'[s] \in Promise!Targets(canon \cup made[s], LinksSeen(s), pair[s][1], pair[s][2])
  <2>1. canon' \cup made'[s] = canon \cup made[s] /\ target'[s] \in canon' \cup made'[s]
    BY <1>1, <1>3 DEF IInv, Sound, LinksHeld
  <2>2. CASE ResolveLeft(s)
    <3>1. PICK c \in CanonicalsOf(LinksSeen(s), pair[s][1]) : target' = [target EXCEPT ![s] = c]
      BY <1>3, <2>2 DEF ResolveLeft, UseTarget, PInv, IInv, TypeOK
    <3>2. target'[s] = c
      BY <3>1 DEF PInv, IInv, TypeOK
    <3>. QED BY <2>1, <3>1, <3>2 DEF Promise!Targets, Promise!CanonicalsOf, CanonicalsOf
  <2>3. CASE ResolveRight(s)
    <3>1. PICK c \in CanonicalsOf(LinksSeen(s), pair[s][2]) : target' = [target EXCEPT ![s] = c]
      BY <2>3 DEF ResolveRight, UseTarget
    <3>2. target'[s] = c
      BY <3>1 DEF PInv, IInv, TypeOK
    <3>3. CanonicalsOf(LinksSeen(s), pair[s][1]) = {}
      BY <2>3 DEF ResolveRight, PInv, IInv, Sound, SeenOnce, CanonicalsOf
    <3>. QED BY <2>1, <3>1, <3>2, <3>3 DEF Promise!Targets, Promise!CanonicalsOf, CanonicalsOf
  <2>. QED BY <2>2, <2>3
<1>4. TypeOK /\ Explained(s)
  BY DEF PInv, IInv
<1>5. Explained(s)'
  BY <1>1, <1>2, <1>3, <1>4, QuietExplained
<1>. QED BY <1>1, <1>2, <1>5, QuietPromise DEF PInv, RightTaken

LEMMA CreatePromise ==
  ASSUME PInv, NEW s \in Sessions, CreateCanonical(s), IInv'
  PROVE  PInv'
<1>1. PICK c \in Canonicals \ (canon \cup UNION {made[t] : t \in Sessions}) :
        /\ made' = [made EXCEPT ![s] = @ \cup {c}]
        /\ target' = [target EXCEPT ![s] = c]
        /\ pc' = [pc EXCEPT ![s] = "link"]
  BY DEF CreateCanonical
<1>2. UNCHANGED <<canon, links, rows, todo, pair, cur, held, new>>
  BY DEF CreateCanonical, db
<1>3. Alone(s) /\ made'[s] = made[s] \cup {c} /\ \A t \in Sessions \ {s} : made'[t] = made[t]
  BY <1>1, <1>2 DEF Alone, PInv, IInv, TypeOK
<1>4. c \notin canon /\ \A t \in Sessions : c \notin made[t]
  OBVIOUS
<1>5. MadeOnce'
  <2>1. \A t \in Sessions : made'[t] \cap canon = {}
    BY <1>3, <1>4 DEF PInv, MadeOnce
  <2>2. \A t, u \in Sessions : t # u => made'[t] \cap made'[u] = {}
    BY <1>3, <1>4 DEF PInv, MadeOnce
  <2>. QED BY <1>2, <2>1, <2>2 DEF MadeOnce
<1>6. RightTaken'
  BY <1>2 DEF PInv, RightTaken
<1>7. Explained(s)'
  BY CreateExplained
<1>. QED BY <1>2, <1>3, <1>5, <1>6, <1>7, OthersStay DEF PInv

LEMMA UpsertPromise ==
  ASSUME PInv, NEW s \in Sessions, UpsertLinks(s), IInv'
  PROVE  PInv'
<1>1. /\ pair'[s] = <<>> /\ Alone(s) /\ UNCHANGED <<todo, made>>
  BY DEF UpsertLinks, db, Alone, PInv, IInv, TypeOK
<1>. QED BY <1>1, UpsertExplained, QuietPromise

LEMMA CommitPromise ==
  ASSUME PInv, NEW s \in Sessions, Commit(s), IInv'
  PROVE  PInv'
<1>1. /\ canon' = canon \cup made[s] /\ links' = links \cup new[s]
      /\ pc'[s] = "idle" /\ pair'[s] = <<>> /\ new'[s] = {} /\ made'[s] = {}
      /\ \A t \in Sessions \ {s} :
           /\ pc'[t] = pc[t] /\ pair'[t] = pair[t] /\ target'[t] = target[t] /\ todo'[t] = todo[t]
           /\ held'[t] = held[t] /\ new'[t] = new[t] /\ made'[t] = made[t]
  BY DEF Commit, Close, PInv, IInv, TypeOK
<1>2. MadeOnce'
  BY <1>1 DEF PInv, MadeOnce
<1>3. RightTaken'
  BY <1>1 DEF PInv, RightTaken
<1>4. ASSUME NEW t \in Sessions \ {s} PROVE Explained(t)'
  <2>1. \A e \in held[t], c \in Canonicals : <<c, e>> \notin new[s]
    <3>1. held[t] \subseteq Entities
      BY SessionFacts DEF PInv, IInv
    <3>. QED BY <3>1 DEF PInv, IInv, Locks, Sound, LinksHeld
  <2>2. pc[t] = "link" => pair[t][1] \in held[t] /\ pair[t][2] \in held[t]
    BY DEF PInv, IInv, Sound, PairHeld
  <2>3. canon' \cap made[t] \subseteq canon
    BY <1>1 DEF PInv, MadeOnce
  <2>4. TypeOK /\ Explained(t)
    BY DEF PInv, IInv
  <2>. QED BY <1>1, <2>1, <2>2, <2>3, <2>4, ExplainedStays
<1>5. Explained(s)'
  BY <1>1, IdleExplained
<1>. QED BY <1>2, <1>3, <1>4, <1>5 DEF PInv

LEMMA PromiseStays ==
  ASSUME PInv, UNCHANGED vars, IInv'
  PROVE  PInv'
<1>1. UNCHANGED <<canon, links, rows, pc, todo, pair, cur, target, held, new, made>>
  BY DEF vars, db, mine
<1>2. ASSUME NEW t \in Sessions PROVE Explained(t)'
  <2>1. pc[t] = "link" => pair[t][1] \in held[t] /\ pair[t][2] \in held[t]
    BY DEF PInv, IInv, Sound, PairHeld
  <2>2. TypeOK /\ Explained(t)
    BY DEF PInv, IInv
  <2>. QED BY <1>1, <2>1, <2>2, ExplainedStays
<1>. QED BY <1>1, <1>2 DEF PInv, MadeOnce, RightTaken

LEMMA PromiseKept == PInv /\ [Next]_vars => PInv'
<1> SUFFICES ASSUME PInv, [Next]_vars PROVE PInv'
  OBVIOUS
<1>0. IInv'
  BY Inductive DEF PInv
<1>1. CASE UNCHANGED vars
  BY <1>0, <1>1, PromiseStays
<1>2. Searches \subseteq Sessions /\ Syncs \subseteq Sessions
  BY DEF Sessions
<1>3. ASSUME NEW s \in Sessions, Statement(s) PROVE PInv'
  BY <1>0, <1>3, UpsertRowPromise, ClosePromise, ResolvePromise, CreatePromise, UpsertPromise,
     CommitPromise
     DEF Statement, Update, Insert, InsertConflict
<1>4. ASSUME NEW s \in Sessions, Choice(s) \/ Fail(s) \/ Deadlock(s) PROVE PInv'
  BY <1>0, <1>4, ClosePromise, PersistPromise DEF Choice, Fail, Deadlock
<1>5. ASSUME NEW s \in Searches, Merge(s) \/ (\E l \in Lefts, r \in Rights : PersistMatch(s, l, r))
      PROVE PInv'
  BY <1>0, <1>2, <1>5, BeginPromise, PersistPromise
<1>6. ASSUME NEW w \in Syncs, Refresh(w) \/ (\E e \in Entities : SkipEntity(w, e))
      PROVE PInv'
  BY <1>0, <1>2, <1>6, BeginPromise, PersistPromise
<1>. QED BY <1>1, <1>3, <1>4, <1>5, <1>6 DEF Next

LEMMA InitPromise == Init => PInv
<1> SUFFICES ASSUME Init PROVE PInv
  OBVIOUS
<1>1. IInv
  BY InitIInv
<1>2. MadeOnce /\ RightTaken
  BY DEF Init, MadeOnce, RightTaken
<1>3. ASSUME NEW s \in Sessions PROVE Explained(s)
  <2> DEFINE none == [i \in 1..0 |-> 0]
  <2>1. /\ none \in [1..0 -> Lefts \X Rights] /\ none \in [1..0 -> Canonicals] /\ DOMAIN none = {}
        /\ 1..0 = {}
    OBVIOUS
  <2>2. Brought(none, none, 0) = {} /\ Used(none, 0) = {}
    BY <2>1 DEF Brought, Used
  <2> HIDE DEF none
  <2>3. Promise!RightsOnce(none) /\ Promise!InTurn(none, none)
    BY <2>1 DEF Promise!RightsOnce, Promise!InTurn
  <2>4. pc[s] = "idle" /\ new[s] = {} /\ made[s] = {} /\ LinksSeen(s) = links
    BY DEF Init, LinksSeen
  <2>5. Explains(s, 0, none, none)
    BY <2>1, <2>2, <2>3, <2>4 DEF Explains, Pending
  <2>. QED BY <2>5 DEF Explained
<1>. QED BY <1>1, <1>2, <1>3 DEF PInv

\* What a session commits is a search.
LEMMA CommitIsSearch ==
  ASSUME PInv, NEW s \in Sessions, Commit(s)
  PROVE  Promise!Search
<1>1. PICK n, ps, cs : Explains(s, n, ps, cs)
  BY DEF PInv, Explained
<1>2. n \in Nat /\ ps \in [1..n -> Lefts \X Rights] /\ cs \in [1..n -> Canonicals]
  BY <1>1 DEF Explains
<1>3. Promise!RightsOnce(ps) /\ Promise!InTurn(ps, cs)
  BY <1>1 DEF Explains
<1>4. n <= Cardinality(Rights) /\ Cardinality(Rights) \in Nat
  <2>1. PICK f : f = [i \in 1..n |-> ps[i][2]]
    OBVIOUS
  <2>2. f \in [1..n -> Rights] /\ \A i, j \in 1..n : f[i] = f[j] => i = j
    BY <1>2, <1>3, <2>1 DEF Promise!RightsOnce
  <2>3. f \in Injection(1..n, Rights)
    BY <2>2 DEF Injection, IsInjective
  <2>4. IsFiniteSet(Rights)
    BY LinkingAssumption
  <2>5. Cardinality(1..n) <= Cardinality(Rights)
    BY <2>3, <2>4, FS_Injection
  <2>6. Cardinality(1..n) = n
    BY <1>2, FS_Interval
  <2>. QED BY <2>4, <2>5, <2>6, FS_CardinalityType
<1>5. ps \in Promise!Merges
  <2>1. ps \in Promise!BoundedSeq(Lefts \X Rights, Cardinality(Rights))
    BY <1>2, <1>4 DEF Promise!BoundedSeq, Promise!SeqOf
  <2>2. Promise!Cardinality(Rights) = Cardinality(Rights)
    BY DEF Promise!Cardinality, Cardinality
  <2>. QED BY <1>3, <2>1, <2>2 DEF Promise!Merges
<1>6. DOMAIN ps = 1..n /\ Len(ps) = n
  BY <1>2
<1>7. canon' = canon \cup made[s] /\ links' = LinksSeen(s) /\ Pending(s) = {}
  BY DEF Commit, LinksSeen, Pending
<1>8. canon' = Promise!CanonAfter(cs, Len(ps)) /\ links' = Promise!LinksAfter(ps, cs, Len(ps))
  BY <1>1, <1>6, <1>7, AfterIs DEF Explains
<1>. QED BY <1>2, <1>3, <1>5, <1>6, <1>8 DEF Promise!Search

\* However sessions overlap, fail, conflict or are aborted, the canonical layer
\* changes as by whole searches, one after the other (SearchService's commit of
\* everything LinkService.persist_match flushed).
THEOREM SearchesAreSerial == Spec => SerialMerges
<1>1. Init => Promise!Init
  BY DEF Init, Promise!Init
<1>2. PInv /\ [Next]_vars => [Promise!Search]_<<canon, links>>
  <2> SUFFICES ASSUME PInv, [Next]_vars PROVE Promise!Search \/ UNCHANGED <<canon, links>>
    OBVIOUS
  <2>1. \/ UNCHANGED <<canon, links>>
        \/ \E s \in Sessions : Commit(s)
    BY DEF Next, vars, db, mine, Statement, Choice, Fail, Deadlock, Merge, PersistMatch, PersistEntity,
           Refresh, SkipEntity, Look, Update, Insert, InsertConflict, Written, ResolveLeft,
           ResolveRight, UseTarget, CreateCanonical, UpsertLinks
  <2>. QED BY <2>1, CommitIsSearch
<1>3. Init => PInv
  BY InitPromise
<1>4. PInv /\ [Next]_vars => PInv'
  BY PromiseKept
<1>. QED BY <1>1, <1>2, <1>3, <1>4, PTL DEF Spec, SerialMerges, Promise!Spec
=============================================================================
