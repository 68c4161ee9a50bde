------------------------------ MODULE Linking ------------------------------
(***************************************************************************)
(* The platform rows, the canonical rows and the links between them, as    *)
(* database sessions write them (LinkService): a search persists what the  *)
(* providers listed and links what matched, a sync refreshes the rows of   *)
(* its target.  Every kind of entity has tables of its own and the same    *)
(* code; one kind is modelled.                                             *)
(*                                                                         *)
(* The database is PostgreSQL at READ COMMITTED (docker-compose.yml):  a   *)
(* SELECT sees what is committed and what its own session flushed.  An     *)
(* UPDATE or an INSERT of a row that another session has written waits for *)
(* that session to end, and one session of a cycle of waits is aborted.    *)
(* An upsert always writes its row, since fetched_at changes: it keeps the *)
(* row to itself until the session ends.                                   *)
(***************************************************************************)
EXTENDS Naturals, FiniteSets

CONSTANTS
  Lefts,        \* rows of youtube: the left side of every match
  Rights,       \* rows of yandex
  Canonicals,   \* ids of canonical rows
  Searches,     \* sessions that run searches
  Syncs,        \* sessions of the worker that refresh a target
  NoEntity, NoCanonical

Entities == Lefts \cup Rights
Sessions == Searches \cup Syncs

\* yandex lists finitely many rows, so a merge ends.
ASSUME LinkingAssumption ==
  /\ Lefts \cap Rights = {} /\ Searches \cap Syncs = {}
  /\ NoEntity \notin Entities /\ NoCanonical \notin Canonicals
  /\ IsFiniteSet(Rights)

VARIABLES
  canon,        \* committed canonical rows
  links,        \* committed links <<canonical, platform row>>
  rows,         \* committed platform rows
  pc,           \* where each session is
  todo,         \* what it still has to persist
  pair,         \* the match it is persisting: <<>> or <<left, right>>
  cur,          \* the entity it is persisting
  target,       \* the canonical row of the match
  held,         \* the rows it has written
  new,          \* the links it has flushed
  made          \* the canonical rows it has flushed

db   == <<canon, links, rows>>
mine == <<todo, pair, cur, target, held, new, made>>
vars == <<db, pc, mine>>

-----------------------------------------------------------------------------
BusyPcs == {"ready", "look", "update", "insert", "left", "right", "link"}

Active(s) == pc[s] # "idle"

Init ==
  /\ canon = {} /\ links = {} /\ rows = {}
  /\ pc     = [s \in Sessions |-> "idle"]
  /\ todo   = [s \in Sessions |-> {}]
  /\ pair   = [s \in Sessions |-> <<>>]
  /\ cur    = [s \in Sessions |-> NoEntity]
  /\ target = [s \in Sessions |-> NoCanonical]
  /\ held   = [s \in Sessions |-> {}]
  /\ new    = [s \in Sessions |-> {}]
  /\ made   = [s \in Sessions |-> {}]

CanonicalsOf(L, e) == {c \in Canonicals : <<c, e>> \in L}

\* What a SELECT of a session finds.
LinksSeen(s) == links \cup new[s]
RowsSeen(s)  == rows \cup held[s]

\* The sessions whose end a statement of s waits for.
Blockers(s) == IF pc[s] \in {"update", "insert"}
               THEN {t \in Sessions \ {s} : cur[s] \in held[t]} ELSE {}

\* s waits, over others, for itself.
OnCycle(s) ==
  \E S \in SUBSET Sessions :
    /\ s \in S
    /\ \A t \in S : (\E u \in S : u \in Blockers(t)) /\ (\E u \in S : t \in Blockers(u))

\* Mutants, here and below, are definitions changed as a plausible bug would.

-----------------------------------------------------------------------------
(* The end of a session *)

\* Mutant: the session is not closed and keeps its rows.
MutKeepRows(s) ==
  /\ pc'     = [pc EXCEPT ![s] = "idle"]
  /\ todo'   = [todo EXCEPT ![s] = {}]
  /\ pair'   = [pair EXCEPT ![s] = <<>>]
  /\ cur'    = [cur EXCEPT ![s] = NoEntity]
  /\ target' = [target EXCEPT ![s] = NoCanonical]
  /\ new'    = [new EXCEPT ![s] = {}]
  /\ made'   = [made EXCEPT ![s] = {}]
  /\ held'   = held

\* The session is closed: its locks go, and what it has not committed.
Close(s) ==
  /\ pc'     = [pc EXCEPT ![s] = "idle"]
  /\ todo'   = [todo EXCEPT ![s] = {}]
  /\ pair'   = [pair EXCEPT ![s] = <<>>]
  /\ cur'    = [cur EXCEPT ![s] = NoEntity]
  /\ target' = [target EXCEPT ![s] = NoCanonical]
  /\ held'   = [held EXCEPT ![s] = {}]
  /\ new'    = [new EXCEPT ![s] = {}]
  /\ made'   = [made EXCEPT ![s] = {}]

\* Everything that was asked for is persisted: the session commits.
Commit(s) ==
  /\ pc[s] = "ready" /\ todo[s] = {}
  /\ canon' = canon \cup made[s]
  /\ links' = links \cup new[s]
  /\ rows'  = rows \cup held[s]
  /\ Close(s)

\* Any statement or callback of the session raises: it is rolled back.
Fail(s) == Active(s) /\ Close(s) /\ UNCHANGED db

\* Of sessions that wait for each other in a cycle the database aborts one.
Deadlock(s) == OnCycle(s) /\ Close(s) /\ UNCHANGED db

-----------------------------------------------------------------------------
(* What a session persists *)

\* The providers listed some entities, and the merge begins.
Merge(s) ==
  /\ ~ Active(s)
  /\ \E listed \in SUBSET Entities : todo' = [todo EXCEPT ![s] = listed]
  /\ pc' = [pc EXCEPT ![s] = "ready"]
  /\ UNCHANGED <<db, pair, cur, target, held, new, made>>

\* The worker loads the rows that its target is linked to.
Refresh(w) ==
  /\ ~ Active(w)
  /\ \E c \in canon :
       todo' = [todo EXCEPT ![w] = {e \in Entities : <<c, e>> \in links}]
  /\ pc' = [pc EXCEPT ![w] = "ready"]
  /\ UNCHANGED <<db, pair, cur, target, held, new, made>>

\* The matching accepts a right row that no earlier left row used.  The left row
\* stays if it is listed again: it may then match another right row.
PersistMatch(s, l, r) ==
  /\ pc[s] = "ready" /\ l \in todo[s] \cap Lefts /\ r \in todo[s] \cap Rights
  /\ \E done \in {{r}, {l, r}} : todo' = [todo EXCEPT ![s] = @ \ done]
  /\ pair' = [pair EXCEPT ![s] = <<l, r>>]
  /\ cur'  = [cur EXCEPT ![s] = l]
  /\ pc'   = [pc EXCEPT ![s] = "look"]
  /\ UNCHANGED <<db, target, held, new, made>>

\* Left rows without a match, then right rows that are left over; a row that
\* the worker has fetched anew.
PersistEntity(s, e) ==
  /\ pc[s] = "ready" /\ e \in todo[s]
  /\ s \in Searches /\ e \in Rights => todo[s] \cap Lefts = {}
  /\ todo' = [todo EXCEPT ![s] = @ \ {e}]
  /\ cur'  = [cur EXCEPT ![s] = e]
  /\ pc'   = [pc EXCEPT ![s] = "look"]
  /\ UNCHANGED <<db, pair, target, held, new, made>>

\* A provider cannot give the row to the worker, which goes on without it.
SkipEntity(w, e) ==
  /\ pc[w] = "ready" /\ e \in todo[w]
  /\ todo' = [todo EXCEPT ![w] = @ \ {e}]
  /\ UNCHANGED <<db, pc, pair, cur, target, held, new, made>>

-----------------------------------------------------------------------------
(* The upsert of a platform row *)

Look(s) ==
  /\ pc[s] = "look"
  /\ pc' = [pc EXCEPT ![s] = IF cur[s] \in RowsSeen(s) THEN "update" ELSE "insert"]
  /\ UNCHANGED <<db, mine>>

\* The row is flushed: on to the right row, to the links, or to the next one.
Written(s) ==
  /\ held' = [held EXCEPT ![s] = @ \cup {cur[s]}]
  /\ \/ /\ pair[s] = <<>>
        /\ pc' = [pc EXCEPT ![s] = "ready"]
        /\ cur' = [cur EXCEPT ![s] = NoEntity]
     \/ /\ pair[s] # <<>> /\ cur[s] = pair[s][1]
        /\ pc' = [pc EXCEPT ![s] = "look"]
        /\ cur' = [cur EXCEPT ![s] = pair[s][2]]
     \/ /\ pair[s] # <<>> /\ cur[s] = pair[s][2]
        /\ pc' = [pc EXCEPT ![s] = "left"]
        /\ cur' = [cur EXCEPT ![s] = NoEntity]
  /\ UNCHANGED <<db, todo, pair, target, new, made>>

\* Mutant: a row that has not changed is not written, and not locked.
MutUpdateNothing(s) ==
  /\ pc[s] = "update"
  /\ \/ /\ pair[s] = <<>>
        /\ pc' = [pc EXCEPT ![s] = "ready"]
        /\ cur' = [cur EXCEPT ![s] = NoEntity]
     \/ /\ pair[s] # <<>> /\ cur[s] = pair[s][1]
        /\ pc' = [pc EXCEPT ![s] = "look"]
        /\ cur' = [cur EXCEPT ![s] = pair[s][2]]
     \/ /\ pair[s] # <<>> /\ cur[s] = pair[s][2]
        /\ pc' = [pc EXCEPT ![s] = "left"]
        /\ cur' = [cur EXCEPT ![s] = NoEntity]
  /\ UNCHANGED <<db, todo, pair, target, held, new, made>>

Update(s) == pc[s] = "update" /\ Blockers(s) = {} /\ Written(s)

Insert(s) == pc[s] = "insert" /\ Blockers(s) = {} /\ cur[s] \notin rows /\ Written(s)

\* Another session has inserted the row meanwhile: IntegrityError.
InsertConflict(s) ==
  /\ pc[s] = "insert" /\ Blockers(s) = {} /\ cur[s] \in rows
  /\ Close(s) /\ UNCHANGED db

-----------------------------------------------------------------------------
(* The links of a match *)

UseTarget(s, c) ==
  /\ target' = [target EXCEPT ![s] = c]
  /\ pc'     = [pc EXCEPT ![s] = "link"]
  /\ UNCHANGED <<db, todo, pair, cur, held, new, made>>

\* The left row's canonical row goes before the right row's.
ResolveLeft(s) ==
  /\ pc[s] = "left"
  /\ \/ \E c \in CanonicalsOf(LinksSeen(s), pair[s][1]) : UseTarget(s, c)
     \/ /\ CanonicalsOf(LinksSeen(s), pair[s][1]) = {}
        /\ pc' = [pc EXCEPT ![s] = "right"]
        /\ UNCHANGED <<db, mine>>

\* A right row may have several: the SELECT returns any.
ResolveRight(s) ==
  /\ pc[s] = "right"
  /\ \E c \in CanonicalsOf(LinksSeen(s), pair[s][2]) : UseTarget(s, c)

\* Mutant: the canonical row is committed as soon as it is created.
MutCreateCommits(s) ==
  /\ pc[s] = "right"
  /\ CanonicalsOf(LinksSeen(s), pair[s][2]) = {}
  /\ \E c \in Canonicals \ (canon \cup UNION {made[t] : t \in Sessions}) :
       /\ canon'  = canon \cup {c}
       /\ target' = [target EXCEPT ![s] = c]
       /\ pc'     = [pc EXCEPT ![s] = "link"]
  /\ UNCHANGED <<links, rows, todo, pair, cur, held, new, made>>

\* Mutant: the right row's link is not looked at.
MutCreateForLeft(s) ==
  /\ pc[s] = "right"
  /\ \E c \in Canonicals \ (canon \cup UNION {made[t] : t \in Sessions}) :
       /\ made'   = [made EXCEPT ![s] = @ \cup {c}]
       /\ target' = [target EXCEPT ![s] = c]
       /\ pc'     = [pc EXCEPT ![s] = "link"]
  /\ UNCHANGED <<db, todo, pair, cur, held, new>>

\* Neither has one: a canonical row is made from the left entity.
CreateCanonical(s) ==
  /\ pc[s] = "right"
  /\ CanonicalsOf(LinksSeen(s), pair[s][2]) = {}
  /\ \E c \in Canonicals \ (canon \cup UNION {made[t] : t \in Sessions}) :
       /\ made'   = [made EXCEPT ![s] = @ \cup {c}]
       /\ target' = [target EXCEPT ![s] = c]
       /\ pc'     = [pc EXCEPT ![s] = "link"]
  /\ UNCHANGED <<db, todo, pair, cur, held, new>>

\* Both links are upserted; those that exist change their score only.
UpsertLinks(s) ==
  /\ pc[s] = "link"
  /\ new'    = [new EXCEPT ![s] = @ \cup ({<<target[s], pair[s][1]>>, <<target[s], pair[s][2]>>} \ links)]
  /\ pair'   = [pair EXCEPT ![s] = <<>>]
  /\ target' = [target EXCEPT ![s] = NoCanonical]
  /\ pc'     = [pc EXCEPT ![s] = "ready"]
  /\ UNCHANGED <<db, todo, cur, held, made>>

Statement(s) ==
  \/ Look(s) \/ Update(s) \/ Insert(s) \/ InsertConflict(s)
  \/ ResolveLeft(s) \/ ResolveRight(s) \/ CreateCanonical(s) \/ UpsertLinks(s)
  \/ Commit(s)

Choice(s) == \E e \in Entities : PersistEntity(s, e)

Next ==
  \/ \E s \in Sessions : Statement(s) \/ Choice(s) \/ Fail(s) \/ Deadlock(s)
  \/ \E s \in Searches : Merge(s) \/ (\E l \in Lefts, r \in Rights : PersistMatch(s, l, r))
  \/ \E w \in Syncs : Refresh(w) \/ (\E e \in Entities : SkipEntity(w, e))

Spec == Init /\ [][Next]_vars

-----------------------------------------------------------------------------
(* Properties *)

Promise == INSTANCE Catalogue

\* Every variable holds a value of its kind; a session that is not at work
\* holds nothing, and one that works has what its next statement needs.
TypeOK ==
  /\ canon \in SUBSET Canonicals
  /\ links \in SUBSET (Canonicals \X Entities)
  /\ rows \in SUBSET Entities
  /\ pc \in [Sessions -> {"idle"} \cup BusyPcs]
  /\ todo \in [Sessions -> SUBSET Entities]
  /\ pair \in [Sessions -> {<<>>} \cup Lefts \X Rights]
  /\ cur \in [Sessions -> Entities \cup {NoEntity}]
  /\ target \in [Sessions -> Canonicals \cup {NoCanonical}]
  /\ held \in [Sessions -> SUBSET Entities]
  /\ new \in [Sessions -> SUBSET (Canonicals \X Entities)]
  /\ made \in [Sessions -> SUBSET Canonicals]
  /\ \A s \in Sessions :
       /\ pc[s] = "idle" => held[s] = {} /\ new[s] = {} /\ made[s] = {}
       /\ pc[s] \in {"look", "update", "insert"} => cur[s] # NoEntity
       /\ pc[s] \in {"left", "right", "link"} => pair[s] # <<>>
       /\ pc[s] = "link" => target[s] # NoCanonical

\* However sessions overlap, a youtube row never belongs to two canonical
\* rows (links.py has no constraint that says so): what resolves a left row,
\* and the page it leads to, is not a matter of chance.
LeftLinkedOnce ==
  \A l \in Lefts : \A c, d \in CanonicalsOf(links, l) : c = d

\* A canonical row that anybody can see has a row on both platforms, and links
\* join rows that are there: the page of an entity is never partial.
CanonicalIsWhole ==
  /\ \A c \in canon : /\ \E l \in Lefts : <<c, l>> \in links
                      /\ \E r \in Rights : <<c, r>> \in links
  /\ \A k \in links : k[1] \in canon /\ k[2] \in rows

\* Overlapping, failing, conflicting and aborted sessions change the canonical
\* layer exactly as whole searches would, one after the other.
SerialMerges == Promise!Spec
=============================================================================
