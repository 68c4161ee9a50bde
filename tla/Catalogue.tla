----------------------------- MODULE Catalogue -----------------------------
(***************************************************************************)
(* What a search promises of the canonical layer, seen from outside: it    *)
(* matches some left rows with some right rows, and its matches take       *)
(* effect all at once, as if they had been made one after the other with   *)
(* nobody else around (LinkService.persist_match under the merge of        *)
(* SearchService).  One kind of entity; the others have tables like it.    *)
(***************************************************************************)
EXTENDS Naturals, SequencesExt

CONSTANTS
  Lefts,        \* platform rows of youtube
  Rights,       \* platform rows of yandex
  Canonicals    \* ids of canonical rows

VARIABLES
  canon,        \* the canonical rows
  links         \* which platform row is linked to which canonical row

CanonicalsOf(L, e) == {c \in Canonicals : <<c, e>> \in L}

\* A match uses a canonical row of its left row, else one of its right row, else
\* a new one.
Targets(rowsThere, L, l, r) ==
  LET cl == CanonicalsOf(L, l)
      cr == CanonicalsOf(L, r)
  IN  IF cl # {} THEN cl ELSE IF cr # {} THEN cr ELSE Canonicals \ rowsThere

\* The canonical rows and the links after the first n matches of ps, which use
\* the canonical rows cs.
CanonAfter(cs, n) == canon \cup {cs[i] : i \in 1..n}

LinksAfter(ps, cs, n) ==
  links \cup {<<cs[i], ps[i][1]>> : i \in 1..n} \cup {<<cs[i], ps[i][2]>> : i \in 1..n}

\* Each match finds what the matches before it have left.
InTurn(ps, cs) ==
  \A i \in DOMAIN ps :
    cs[i] \in Targets(CanonAfter(cs, i - 1), LinksAfter(ps, cs, i - 1), ps[i][1], ps[i][2])

\* The greedy merge uses every right row once at most; a left row may be listed
\* more than once.
RightsOnce(ps) == \A i, j \in DOMAIN ps : i # j => ps[i][2] # ps[j][2]

Merges == {ps \in BoundedSeq(Lefts \X Rights, Cardinality(Rights)) : RightsOnce(ps)}

Init == canon = {} /\ links = {}

Search == \E ps \in Merges : \E cs \in [DOMAIN ps -> Canonicals] :
  /\ InTurn(ps, cs)
  /\ canon' = CanonAfter(cs, Len(ps))
  /\ links' = LinksAfter(ps, cs, Len(ps))

Spec == Init /\ [][Search]_<<canon, links>>
=============================================================================
