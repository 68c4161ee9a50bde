--------------------------- MODULE EntityDetails ---------------------------
(***************************************************************************)
(* The page of a canonical entity (GET /artists/{id}, /releases/{id},      *)
(* /tracks/{id}) while searches write: the services load the row and then, *)
(* one SELECT each, what hangs on it, so a page may see more of the        *)
(* database in its later statements than in its first.  Credits, aliases   *)
(* and track lists are written by nothing in the program: of what a page   *)
(* loads, the platform links and their rows are modelled.                  *)
(***************************************************************************)
EXTENDS Linking, Sequences

VARIABLE page   \* what a request has loaded, and the platforms it shows

detailVars == <<vars, page>>

\* The SELECTs that follow the one of the row itself.
ArtistLoads  == <<"aliases", "release_credits", "track_credits", "links", "platform_rows">>
ReleaseLoads == <<"artists", "tracks", "links", "platform_rows">>
TrackLoads   == <<"artists", "releases", "links", "platform_rows">>

Loads == {ArtistLoads, ReleaseLoads, TrackLoads}

PlatformOf(e) == IF e \in Lefts THEN "youtube" ELSE "yandex"
Platforms == {"youtube", "yandex"}

NoPage == [pc |-> "idle", loads |-> <<>>, id |-> NoCanonical, linked |-> {}, rows |-> {},
           shown |-> [p \in Platforms |-> NoEntity]]

DetailInit == Init /\ page = NoPage

GetModel ==
  /\ page.pc # "loading"
  /\ \E c \in canon, loads \in Loads :
       page' = [NoPage EXCEPT !.pc = "loading", !.loads = loads, !.id = c]
  /\ UNCHANGED vars

NotFound ==
  /\ page.pc # "loading"
  /\ \E c \in Canonicals \ canon : page' = [NoPage EXCEPT !.pc = "not_found", !.id = c]
  /\ UNCHANGED vars

\* One SELECT, of what is committed when it is made.
Load ==
  /\ page.pc = "loading" /\ page.loads # <<>>
  /\ page' = [page EXCEPT
       !.loads  = Tail(@),
       !.linked = IF Head(page.loads) = "links"
                  THEN {e \in Entities : <<page.id, e>> \in links} ELSE @,
       !.rows   = IF Head(page.loads) = "platform_rows" THEN page.linked \cap rows ELSE @]
  /\ UNCHANGED vars

\* Mutant: the rows are dealt to the platforms in the order they came.
MutShownInOrder(on) == {f \in [Platforms -> Entities \cup {NoEntity}] :
                          \A p \in Platforms : f[p] \in UNION {on[q] : q \in Platforms}}

\* Of several rows of a platform the last that the SELECT returned is shown.
Shown(on) == {f \in [Platforms -> Entities \cup {NoEntity}] :
                \A p \in Platforms : IF on[p] = {} THEN f[p] = NoEntity ELSE f[p] \in on[p]}

BuildPlatformMap ==
  /\ page.pc = "loading" /\ page.loads = <<>>
  /\ \E f \in Shown([p \in Platforms |-> {e \in page.rows : PlatformOf(e) = p}]) :
       page' = [page EXCEPT !.pc = "sent", !.shown = f, !.linked = {}, !.rows = {}]
  /\ UNCHANGED vars

DetailNext ==
  \/ GetModel \/ NotFound \/ Load \/ BuildPlatformMap
  \/ Next /\ UNCHANGED page

DetailSpec == DetailInit /\ [][DetailNext]_detailVars

-----------------------------------------------------------------------------
(* Properties *)

MissingPlatforms == {p \in Platforms : page.shown[p] = NoEntity}

\* A page whose statements straddle the commits of searches is never partial,
\* and what it shows stays true: whoever finds a canonical row finds it linked
\* on both platforms, and later commits take no link away.
DetailIsSound ==
  page.pc = "sent" =>
    /\ MissingPlatforms = {}
    /\ \A p \in Platforms :
         <<page.id, page.shown[p]>> \in links /\ PlatformOf(page.shown[p]) = p
=============================================================================
