----------------------------- MODULE MCMatching -----------------------------
(***************************************************************************)
(* Instances of Matching for TLC: every pair of entities, alone in its     *)
(* search; and crowds of repeated and interchangeable releases, with a     *)
(* track whose id is that of a release.                                    *)
(*                                                                         *)
(* Titles overlap wholly, by four fifths, by less and not at all, or have  *)
(* no token; years are equal, near and unknown.                            *)
(***************************************************************************)
EXTENDS Matching

MCNames == {{}, {1, 2, 3, 4}, {1, 2, 3, 4, 5}, {1, 2, 6}}
MCAlbums == {{}, {1, 2}}
MCAliasSets == {{}, {{1, 2}}, {{7}, {1, 2, 3, 4}}}
MCArtistSets == {{}, {"x"}, {"y"}, {"x", "y"}}
MCYears == {2000, 2001}
MCCounts == {10, 12}
MCDurations == {200000}
MCTagSets == {{}, {"live"}, {"remaster"}}
MCSimilarities == {4000, 7500, 10000}

Listed(k, list) == [i \in Turns |-> IF i = k THEN list ELSE <<>>]

As(id, entity) == [id |-> id, entity |-> entity]

Alone(k, entities) == {Listed(k, <<As("a", e)>>) : e \in entities}

Pairs == {[youtube |-> Alone(k, YoutubeEntity(Kinds[k])),
           yandex  |-> Alone(k, Entity(Kinds[k]))] : k \in Turns}

Blank == [name |-> {}, aliases |-> {}, artists |-> {}, year |-> Unknown, count |-> Unknown,
          duration |-> Unknown, release |-> {}, tags |-> {}]
Plain == [Blank EXCEPT !.name = {1, 2, 3, 4}, !.artists = {"x"}, !.year = 2000]
Kin   == {Plain, [Plain EXCEPT !.name = {1, 2, 3, 4, 5}], [Plain EXCEPT !.tags = {"live"}]}

Crowd(e) ==   \* of the hits a and b, which are the entities e[1] and e[2]
  LET a == As("a", e[1])  b == As("b", e[2]) IN
  {<<>>, <<a>>, <<a, b>>, <<b, b>>, <<b, a, b>>}

WithTrack(list) == <<<<>>, list, <<As("a", Blank)>>>>

Crowds ==
  {[youtube |-> {WithTrack(l) : l \in {l \in Crowd(<<Plain, e[1]>>) : Len(l) < 3}},
    yandex  |-> {WithTrack(r) : r \in Crowd(<<e[2], e[3]>>)}] : e \in Kin \X Kin \X Kin}

MCWorlds == Pairs \cup Crowds
=============================================================================
