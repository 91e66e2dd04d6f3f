------------------------------- MODULE Selection -------------------------------
(***************************************************************************)
(* internal/pick: sorting the streams of a manifest, the expressions of    *)
(* -sv, -sa and -ss, and the choice of what is downloaded.  A regular      *)
(* expression is the set of values it matches.                             *)
(***************************************************************************)
EXTENDS Manifest

(* An expression; no filter without for= keeps every match.                *)
Expr(take, n, filters) == [none |-> FALSE, take |-> take, n |-> n, filters |-> filters]
NoneOfIt == [none |-> TRUE, take |-> "all", n |-> 0, filters |-> <<>>]
Bound(key, num) == [key |-> key, num |-> num, values |-> {}, neg |-> FALSE]
Matches(key, values, neg) == [key |-> key, num |-> 0, values |-> values, neg |-> neg]

IsExpr(e) ==
  /\ e.none \in BOOLEAN /\ e.take \in {"all", "worst", "best"} /\ e.n \in Nat
  /\ IsList(e.filters) /\ \A i \in DOMAIN e.filters : e.filters[i].num \in Int

IsDim(f) == f.key \in {"hmin", "hmax"}

--------------------------------------------------------------------------------
TypeRank(st) == CASE st.type = "video" -> 0 [] st.type = "audio" -> 1 [] st.type = "subtitles" -> 2 [] OTHER -> 3
Rank(b) == IF b THEN 1 ELSE 0

(* What Sort compares, the most important first; larger goes first.        *)
Merits(st) ==
  <<-TypeRank(st),
    IF st.type = "video" THEN st.height ELSE 0,
    IF st.type = "audio" THEN Rank(st.default) ELSE 0,
    IF st.type = "audio" THEN st.channels ELSE 0,
    st.bw>>
Above(a, b) ==
  \E k \in DOMAIN Merits(a) :
    /\ Merits(a)[k] > Merits(b)[k]
    /\ \A j \in 1 .. k - 1 : Merits(a)[j] = Merits(b)[j]

Sort(streams) ==
  LET before(i, j) == Above(streams[i], streams[j]) \/ (~Above(streams[j], streams[i]) /\ i < j)
      place == [i \in DOMAIN streams |-> Cardinality({j \in DOMAIN streams : j = i \/ before(j, i)})]
  IN [k \in DOMAIN streams |-> streams[CHOOSE i \in DOMAIN streams : place[i] = k]]

(* What a regular expression looks at.                                     *)
Field(st, key) ==
  CASE key = "lang" -> st.lang [] key = "id" -> st.id [] key = "channel" -> st.channels

(* One filter; 0 is an unknown value, which only bwmin does not let pass.  *)
Passes(f, st) ==
  CASE f.key = "hmin"  -> st.height > 0 => st.height >= f.num
    [] f.key = "hmax"  -> st.height > 0 => st.height <= f.num
    [] f.key = "bwmin" -> st.bw >= f.num
    [] f.key = "bwmax" -> st.bw <= f.num
    [] f.key = "segsmin" -> Len(st.segs) > 0 => Len(st.segs) >= f.num
    [] f.key = "segsmax" -> Len(st.segs) > 0 => Len(st.segs) <= f.num
    [] f.key = "plistdurmin" -> Duration(st) > 0 => Duration(st) >= f.num
    [] f.key = "plistdurmax" -> Duration(st) > 0 => Duration(st) <= f.num
    [] OTHER -> (Field(st, f.key) \in f.values) # f.neg

Match(e, st, relax) == \A i \in DOMAIN e.filters : (relax /\ IsDim(e.filters[i])) \/ Passes(e.filters[i], st)

(* How far a stream is outside the bounds.                                 *)
Distance(e, st) ==
  Max({0} \union {IF st.height <= 0 THEN 0
                  ELSE IF e.filters[i].key = "hmax" THEN st.height - e.filters[i].num
                  ELSE e.filters[i].num - st.height :
                  i \in {k \in DOMAIN e.filters : IsDim(e.filters[k])}})

FirstOf(streams) == IF streams = <<>> THEN <<>> ELSE <<Head(streams)>>

\* Mutant: the first stream is given, near or not.
NearestAny(e, streams) ==
  IF \A i \in DOMAIN e.filters : ~IsDim(e.filters[i]) THEN <<>>
  ELSE FirstOf(Those(streams, {k \in DOMAIN streams : Match(e, streams[k], TRUE)}))

(* Bounds that exclude every stream give the one nearest to them, the      *)
(* first of equals; without bounds nothing is nearest.                     *)
Nearest(e, streams) ==
  LET able == {k \in DOMAIN streams : Match(e, streams[k], TRUE)}
      near == {k \in able : \A j \in able : Distance(e, streams[k]) <= Distance(e, streams[j])}
  IN IF able = {} \/ \A i \in DOMAIN e.filters : ~IsDim(e.filters[i]) THEN <<>>
     ELSE <<streams[Min(near)]>>

Apply(e, streams) ==
  LET matching == Those(streams, {k \in DOMAIN streams : Match(e, streams[k], FALSE)})
      pool     == IF matching # <<>> THEN matching ELSE Nearest(e, streams)
      n        == Min({e.n, Len(pool)})
  IN IF e.none THEN <<>>
     ELSE CASE e.take = "all"   -> pool
            [] e.take = "worst" -> SubSeq(pool, Len(pool) - n + 1, Len(pool))
            [] e.take = "best"  -> SubSeq(pool, 1, n)

--------------------------------------------------------------------------------
OfType(streams, type) == Those(streams, {k \in DOMAIN streams : streams[k].type = type})

(* The group the one picked video names, if it has any member.             *)
PreferGroup(pool, group) ==
  LET members == Those(pool, {k \in DOMAIN pool : pool[k].group = group})
  IN IF group # "" /\ members # <<>> THEN members ELSE pool

BestPerLanguage(streams) ==
  Those(streams, {k \in DOMAIN streams : \A j \in 1 .. k - 1 : streams[j].lang # streams[k].lang})

AllMuxed(videos) == videos # <<>> /\ \A i \in DOMAIN videos : videos[i].muxed

(* Without -sa: the best rendition of each language; an audio-only variant *)
(* only if there is no rendition and the video has no sound of its own.    *)
DefaultAudio(pool, videos) ==
  LET renditions == Those(pool, {k \in DOMAIN pool : pool[k].group # ""})
      variants   == Those(pool, {k \in DOMAIN pool : pool[k].group = ""})
  IN IF renditions # <<>> THEN BestPerLanguage(renditions)
     ELSE IF AllMuxed(videos) THEN <<>>
     ELSE FirstOf(variants)

(* What is selected of sorted streams beside the videos picked of them; ae *)
(* and se are sequences of at most one expression.                         *)
Select(sorted, videos, ae, se) ==
  LET one   == Len(videos) = 1
      audio == PreferGroup(OfType(sorted, "audio"), IF one THEN videos[1].audio ELSE "")
      subs  == PreferGroup(OfType(sorted, "subtitles"), IF one THEN videos[1].subs ELSE "")
  IN videos \o (IF ae = <<>> THEN DefaultAudio(audio, videos) ELSE Apply(ae[1], audio))
            \o (IF se = <<>> THEN subs ELSE Apply(se[1], subs))

--------------------------------------------------------------------------------
(* What a selection has to be.                                             *)

OfKind(streams, type) == {st \in ToSet(streams) : st.type = type}

(* The best video within the bounds if there is one, else the one nearest  *)
(* to them, never none while a stream passes the other filters.            *)
BoundsHonored(streams, ve, selected) ==
  LET others == {st \in OfKind(streams, "video") :
                   \A i \in DOMAIN ve.filters : IsDim(ve.filters[i]) \/ Passes(ve.filters[i], st)}
      inside == {st \in others : Distance(ve, st) = 0}
      picked == OfKind(selected, "video")
  IN ~ve.none /\ (ve.take = "all" \/ ve.n > 0) /\ others # {} /\ (inside # {} \/ \E i \in DOMAIN ve.filters : IsDim(ve.filters[i])) =>
       /\ picked # {}
       /\ inside # {} => picked \subseteq inside
       /\ \A st \in picked, o \in others : Distance(ve, st) <= Distance(ve, o)
       /\ ve.take = "best" /\ ve.n = 1 =>
            \A st \in picked, o \in inside : inside # {} => ~Above(o, st)

(* Without -sa no picture is left silent that could have sound, and sound  *)
(* comes from the picture's own group, each language once and at its best. *)
SoundKept(streams, videos, selected) ==
  LET audio  == OfKind(streams, "audio")
      groups == {st \in audio : st.group # ""}
      picked == OfKind(selected, "audio")
      named  == {st \in groups : Len(videos) = 1 /\ st.group = videos[1].audio}
      pool   == IF named # {} THEN named ELSE groups
  IN /\ audio # {} => picked # {} \/ AllMuxed(videos)
     /\ groups # {} =>
          /\ picked \subseteq pool
          /\ {st.lang : st \in picked} = {st.lang : st \in pool}
          /\ Cardinality({st.lang : st \in picked}) = Cardinality(picked)
          /\ \A st \in picked, o \in pool : o.lang = st.lang => ~Above(o, st)
================================================================================
