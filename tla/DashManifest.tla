------------------------------ MODULE DashManifest -----------------------------
(***************************************************************************)
(* dash.Parse: an MPD becomes one stream for every representation, its     *)
(* segments listed from a template (a timeline or numbers), a list or one  *)
(* indexed file, and the periods of one track concatenated when they       *)
(* continue it.                                                            *)
(*                                                                         *)
(* Time is in ticks of the timescale, which is one for a document.  The    *)
(* code divides and multiplies seconds as float64: a result that ought to  *)
(* be whole may come out just beside it and be cut or rounded up to its    *)
(* neighbour.  A representation carries which of its results do (float); a *)
(* result that is not whole is cut where it ought to be.                   *)
(***************************************************************************)
EXTENDS Manifest

CONSTANT
  Word     \* the arithmetic of an S element is modulo this (2^64 in the code)

ASSUME WordAssumption == Word \in Nat \ {0}

--------------------------------------------------------------------------------
(* The document.  0, "" and None stand for an absent attribute.            *)

Run(t, d, r) == [t |-> t, d |-> d, r |-> r]

NoTemplate == [media |-> "", init |-> "", d |-> 0, start |-> None, timeline |-> <<>>]
NoList == [files |-> <<>>, init |-> "", range |-> NoRange, d |-> 0]
NoBase == [present |-> FALSE, init |-> NoRange, index |-> NoRange]

(* end: the period's end in ticks falls one short; count: there is one     *)
(* segment too many in the period or the window; edge: one too few is      *)
(* complete at the live edge.                                              *)
Roundings == [end : {0, 1}, count : {0, 1}, edge : {0, 1}]
Exact == [end |-> 0, count |-> 0, edge |-> 0]

Rep(id, codecs) ==
  [id |-> id, codecs |-> codecs, mime |-> "video", height |-> 0, bw |-> 0, lang |-> "", trick |-> FALSE,
   urls |-> <<>>, template |-> NoTemplate, list |-> NoList, base |-> NoBase, kids |-> <<>>,
   float |-> Exact]

Adaptation(reps) ==
  [reps |-> reps, codecs |-> "", mime |-> "", height |-> 0, lang |-> "", trick |-> FALSE, roles |-> {},
   urls |-> <<>>, template |-> NoTemplate, list |-> NoList, kids |-> <<>>]

(* What an MPD is made of: the attributes are unsigned but for r, and a    *)
(* duration is less than half of what a word counts.                       *)
Durations == {d \in Nat : 2 * d < Word}
RunSet == [t : Nat \union {None}, d : Nat, r : Int]
IsTemplate(t) == t.d \in Nat /\ t.start \in Nat \union {None} /\ t.timeline \in Seq(RunSet)
IsSet(set) ==
  /\ IsTemplate(set.template) /\ IsList(set.list.files) /\ set.height \in Int /\ IsList(set.reps)
  /\ \A r \in DOMAIN set.reps :
       LET rep == set.reps[r]
       IN /\ IsTemplate(rep.template) /\ IsList(rep.list.files) /\ rep.base.index.first \in Int
          /\ rep.height \in Int /\ rep.bw \in Int /\ rep.float \in Roundings
IsMPD(doc) ==
  /\ doc.live \in BOOLEAN /\ doc.dur \in Durations /\ doc.window \in Nat /\ doc.elapsed \in Int
  /\ doc.timescale \in Nat \ {0} /\ IsList(doc.periods)
  /\ \A p \in DOMAIN doc.periods :
       /\ doc.periods[p].dur \in Durations /\ doc.periods[p].start \in Nat
       /\ IsList(doc.periods[p].sets)
       /\ \A a \in DOMAIN doc.periods[p].sets : IsSet(doc.periods[p].sets[a])

Period(dur, sets) == [start |-> 0, dur |-> dur, urls |-> <<>>, sets |-> sets]

(* elapsed is the wall clock since availabilityStartTime, None without it. *)
Static(dur, periods) ==
  [live |-> FALSE, dur |-> dur, window |-> 0, elapsed |-> None, update |-> 0, timescale |-> 1,
   urls |-> <<"mpd">>, periods |-> periods]
Dynamic(window, elapsed, periods) ==
  [Static(0, periods) EXCEPT !.live = TRUE, !.window = window, !.elapsed = elapsed]

--------------------------------------------------------------------------------
(* One representation.                                                     *)

ResolveChain(base, urls) == IF urls = <<>> THEN base ELSE Append(base, Head(urls))

(* isTrickMode: an I-frame track is dropped.                               *)
IsTrickMode(set, rep) == set.trick \/ rep.trick

TypeOf(mime, codecs, rep) ==
  IF mime \in {"video", "audio"} THEN mime
  ELSE IF mime = "text" \/ codecs \in {"stpp", "wvtt"} THEN "subtitles"
  ELSE IF rep.height > 0 THEN "video" ELSE "unknown"

BuildStream(set, rep, a, r) ==
  LET codecs == FirstSet("", <<rep.codecs, set.codecs>>)
      mime   == FirstSet("", <<rep.mime, set.mime>>)
  IN [BlankStream EXCEPT
        !.id = <<FirstSet("", <<rep.id, "r">>), a, r>>, !.bw = rep.bw,
        !.height = FirstSet(0, <<rep.height, set.height>>), !.codecs = codecs,
        !.lang = FirstSet("", <<rep.lang, set.lang>>),
        !.type = IF "subtitle" \in set.roles THEN "subtitles" ELSE TypeOf(mime, codecs, rep)]

(* The representation's template wins; the adaptation set's fills gaps.    *)
MergeTemplates(rep, set) ==
  [media    |-> FirstSet("", <<rep.media, set.media>>),
   init     |-> FirstSet("", <<rep.init, set.init>>),
   d        |-> FirstSet(0, <<rep.d, set.d>>),
   start    |-> FirstSet(None, <<rep.start, set.start>>),
   timeline |-> FirstSet(<<>>, <<rep.timeline, set.timeline>>)]

Listing(segs, init) == [err |-> FALSE, segs |-> segs, init |-> init]
Failure == [err |-> TRUE, segs |-> <<>>, init |-> NoInit]

Piece(c, t, num, time, d) ==
  [BlankSegment EXCEPT !.url = [path |-> c.base \o <<t.media, c.rep.id>>, num |-> num, time |-> time],
                       !.dur = d, !.seq = num]

(* The conversion of a word to a signed number of its width.               *)
Signed(x) == IF 2 * x < Word THEN x ELSE x - Word

PeriodEnd(c) == c.dur - c.rep.float.end
Fitting(s, cur, c) == Signed(((PeriodEnd(c) - cur) % Word) \div s.d)

\* Mutant: the first segment of the run is not counted off.
RepeatsOneMore(s, cur, c) ==
  IF s.r >= 0 THEN s.r
  ELSE IF c.dur > 0 /\ s.d > 0 THEN Fitting(s, cur, c) ELSE 0

(* How often an S element repeats: r = -1 is until the period ends.        *)
Repeats(s, cur, c) ==
  IF s.r >= 0 THEN s.r
  ELSE IF c.dur > 0 /\ s.d > 0
       THEN LET n == Fitting(s, cur, c) IN IF n > 0 THEN n - 1 ELSE n
       ELSE 0

(* The segments of the first elements of a timeline.                       *)
Element(c, t, acc, s) ==
  LET cur == IF s.t # None THEN s.t ELSE acc.cur
      n   == Max({0, Repeats(s, cur, c) + 1})
  IN [cur |-> cur + n * s.d, num |-> acc.num + n,
      segs |-> acc.segs \o [i \in 1 .. n |-> Piece(c, t, acc.num + i - 1, cur + (i - 1) * s.d, s.d)]]
FromTimeline(c, t, start) ==
  LET upTo[i \in 0 .. Len(t.timeline)] ==
        IF i = 0 THEN [cur |-> 0, num |-> start, segs |-> <<>>]
        ELSE Element(c, t, upTo[i - 1], t.timeline[i])
  IN upTo[Len(t.timeline)].segs

Numbers(c, t, first, count) ==
  [i \in 1 .. count |-> Piece(c, t, first + i - 1, (i - 1) * t.d, t.d)]

(* math.Ceil of a quotient, and the whole part of one: exact unless the    *)
(* quotient is whole.                                                      *)
Whole(a, b, slip) == IF a % b = 0 THEN slip ELSE 0
Covering(c, t, span) == CeilDiv(span, t.d) + Whole(span, t.d, c.rep.float.count)
Complete(c, t) ==
  LET age == c.elapsed - c.start IN age \div t.d - Whole(age, t.d, c.rep.float.edge)

(* The DVR window up to the live edge; without a depth, a minute of it.    *)
LiveWindow(c) == IF c.window > 0 THEN c.window ELSE 60 * c.timescale
Behind(c, t) ==
  IF c.elapsed = None THEN 0 ELSE Max({0, Complete(c, t) - Covering(c, t, LiveWindow(c))})

SegmentsFromTemplate(c, t) ==
  LET start == FirstSet(None, <<t.start, 1>>)
      init  == IF t.init = "" THEN NoInit
               ELSE [NoInit EXCEPT !.url = URL(c.base \o <<t.init, c.rep.id>>)]
  IN IF t.timeline # <<>> THEN Listing(FromTimeline(c, t, start), init)
     ELSE IF t.d = 0 \/ (~c.live /\ c.dur <= 0) THEN Failure
     ELSE IF c.live
          THEN Listing(Numbers(c, t, start + Behind(c, t), Covering(c, t, LiveWindow(c))), init)
          ELSE Listing(Numbers(c, t, start, Covering(c, t, c.dur)), init)

SegmentsFromList(c, l) ==
  Listing([i \in DOMAIN l.files |->
             [BlankSegment EXCEPT !.url = URL(IF l.files[i].media = "" THEN c.base
                                              ELSE Append(c.base, l.files[i].media)),
                                  !.dur = l.d, !.range = l.files[i].range, !.seq = i - 1]],
          IF l.init = "" /\ l.range = NoRange THEN NoInit
          ELSE [url |-> URL(IF l.init = "" THEN c.base ELSE Append(c.base, l.init)), range |-> l.range])

(* SegmentBase: the whole file after its header, to be split at its index. *)
SegmentsFromBase(c, b) ==
  LET whole == [BlankSegment EXCEPT !.url = URL(c.base), !.dur = c.dur, !.index = b.index]
  IN IF b.init = NoRange THEN Listing(<<whole>>, NoInit)
     ELSE Listing(<<[whole EXCEPT !.range = Bytes(b.init.last + 1, None)]>>,
                  [url |-> URL(c.base), range |-> b.init])

BuildSegments(c) ==
  LET t == MergeTemplates(c.rep.template, c.set.template)
      l == FirstSet(NoList, <<c.rep.list, c.set.list>>)
  IN IF t # NoTemplate THEN SegmentsFromTemplate(c, t)
     ELSE IF l # NoList THEN SegmentsFromList(c, l)
     ELSE SegmentsFromBase(c, c.rep.base)

--------------------------------------------------------------------------------
(* The presentation.                                                       *)

DefaultKID(rep, set) == FirstSet("zero", rep.kids \o set.kids)

(* ContentProtection encrypts every segment of the representation.         *)
Protect(rep, set, segs) ==
  IF rep.kids \o set.kids = <<>> THEN segs
  ELSE [i \in DOMAIN segs |->
          [segs[i] EXCEPT !.key = [NoKey EXCEPT !.method = "CENC", !.kid = DefaultKID(rep, set)]]]

FirstSegKey(segs) == IF segs = <<>> THEN NoKey ELSE Head(segs).key

\* Mutant: the keys are not compared.
MergeAnyKey(prev, st, init, key) ==
  prev.codecs = st.codecs /\ prev.height = st.height /\ prev.init.url = init.url

(* A later period continues a track only if codecs, resolution, init and   *)
(* key are the track's own.                                                *)
MergeCompatible(prev, st, init, key) ==
  /\ prev.codecs = st.codecs
  /\ prev.height = st.height
  /\ prev.init.url = init.url
  /\ LET mine == FirstSegKey(prev.segs) IN mine.method = key.method /\ mine.kid = key.kid

Continued(segs, base) ==
  [i \in DOMAIN segs |-> [segs[i] EXCEPT !.seq = base + i - 1, !.disc = @ \/ i = 1]]

(* The period-unique id of a track that does not continue its namesake.    *)
OwnID(id, p) == Append(id, p)

(* Where the period begins: its own @start, else where the last one ended. *)
Lasts(doc, p) ==
  IF doc.periods[p].dur = 0 /\ Len(doc.periods) = 1 THEN doc.dur ELSE doc.periods[p].dur
Begins(doc, p) ==
  LET b[q \in 0 .. p] ==
        IF q = 0 THEN [at |-> 0, next |-> 0]
        ELSE LET at == IF doc.periods[q].start > 0 THEN doc.periods[q].start ELSE b[q - 1].next
             IN [at |-> at, next |-> at + Lasts(doc, q)]
  IN b[p].at

Context(doc, at) ==
  LET period == doc.periods[at.p]
      set    == period.sets[at.a]
      rep    == set.reps[at.r]
  IN [base |-> ResolveChain(ResolveChain(ResolveChain(doc.urls, period.urls), set.urls), rep.urls),
      rep |-> rep, set |-> set, dur |-> Lasts(doc, at.p), start |-> Begins(doc, at.p),
      live |-> doc.live, window |-> doc.window, elapsed |-> doc.elapsed, timescale |-> doc.timescale]

(* The representations read: of a live presentation those of its first     *)
(* period, and no trick-mode ones.                                         *)
IsRead(doc, at) ==
  /\ doc.live => at.p = 1
  /\ ~IsTrickMode(doc.periods[at.p].sets[at.a], doc.periods[at.p].sets[at.a].reps[at.r])
Places(doc) ==
  LET ofSet(p, a) == {Place(p, a, r) : r \in DOMAIN doc.periods[p].sets[a].reps}
      ofPeriod(p) == UNION {ofSet(p, a) : a \in DOMAIN doc.periods[p].sets}
  IN {x \in UNION {ofPeriod(p) : p \in DOMAIN doc.periods} : IsRead(doc, x)}

Refresh(doc) ==
  IF ~doc.live THEN 0 ELSE IF doc.update > 0 THEN doc.update ELSE Max({doc.window \div 2, 2 * doc.timescale})

AddTrack(doc, acc, at) ==
  LET c     == Context(doc, at)
      built == BuildSegments(c)
      segs  == Protect(c.rep, c.set, built.segs)
      st    == BuildStream(c.set, c.rep, at.a, at.r)
      namesakes == {i \in DOMAIN acc.streams : acc.streams[i].id = st.id}
      own   == [st EXCEPT !.id = IF namesakes = {} THEN @ ELSE OwnID(@, at.p), !.live = doc.live,
                          !.url = URL(doc.urls), !.refresh = Refresh(doc), !.init = built.init,
                          !.segs = segs, !.full = TRUE]
      continues == {i \in namesakes :
                      segs # <<>> /\ MergeCompatible(acc.streams[i], st, built.init, FirstSegKey(segs))}
  IN IF acc.err \/ built.err THEN [acc EXCEPT !.err = TRUE]
     ELSE IF continues = {} THEN [acc EXCEPT !.streams = Append(@, own)]
     ELSE LET i == CHOOSE i \in continues : TRUE
          IN [acc EXCEPT !.streams[i].segs = @ \o Continued(segs, Len(@))]

ParseDASH(doc) ==
  LET places == InOrder(Places(doc))
      read[n \in 0 .. Cardinality(Places(doc))] ==
        IF n = 0 THEN [err |-> FALSE, streams |-> <<>>] ELSE AddTrack(doc, read[n - 1], places[n])
  IN read[Cardinality(Places(doc))]
--------------------------------------------------------------------------------
(* What a listing has to be, without saying how it is computed.            *)

End(seg) == seg.url.time + seg.dur

(* A timeline lists every run it names, each segment where the last one    *)
(* ended or where an S@t puts it; an open run that begins before the       *)
(* period's end stops where the next segment would leave the period, or    *)
(* would end with it when the period's end was rounded down.               *)
Announced(runs) ==
  LET named[i \in 0 .. Len(runs)] ==
        IF i = 0 THEN 0 ELSE named[i - 1] + IF runs[i].r < 0 THEN 0 ELSE runs[i].r + 1
  IN named
TimelineFits(c, t, segs) ==
  LET last   == t.timeline[Len(t.timeline)]
      open   == last.r < 0
      early  == \E i \in 1 .. Len(t.timeline) - 1 : t.timeline[i].r < 0
      named  == Announced(t.timeline)[Len(t.timeline)]
      begins == IF last.t # None THEN last.t ELSE IF named = 0 THEN 0 ELSE End(segs[named])
      placed == {t.timeline[i].t : i \in DOMAIN t.timeline}
      final  == segs[Len(segs)]
  IN /\ \A k \in 2 .. Len(segs) :
          segs[k].url.time = End(segs[k - 1]) \/ segs[k].url.time \in placed
     /\ ~open /\ ~early => Len(segs) = named
     /\ open /\ ~early /\ last.d > 0 /\ c.dur > 0 /\ begins <= PeriodEnd(c) =>
          /\ Len(segs) > named
          /\ End(final) + final.dur > PeriodEnd(c)
          /\ Len(segs) > named + 1 => End(final) <= c.dur

(* Numbers of a live presentation end with the newest segment that is      *)
(* complete, once a window's worth of them is, or with the one before it   *)
(* when the edge was rounded down, and never with one that is not; those   *)
(* of a finished one cover it to its end, and one that would begin there   *)
(* is listed only when the count was rounded up.                           *)
NumbersFit(c, t, first, segs) ==
  LET complete == {n \in first .. first + c.elapsed : (n - first + 1) * t.d <= c.elapsed - c.start}
  IN IF c.live
     THEN /\ Len(segs) * t.d >= LiveWindow(c)
          /\ c.elapsed # None /\ Cardinality(complete) >= Len(segs) =>
               Max(complete) - segs[Len(segs)].seq \in 0 .. c.rep.float.edge
     ELSE /\ Len(segs) * t.d >= c.dur
          /\ (Len(segs) - 1) * t.d < c.dur + c.rep.float.count

TemplateFits(c) ==
  LET t     == MergeTemplates(c.rep.template, c.set.template)
      segs  == BuildSegments(c).segs
      first == IF t.start = None THEN 1 ELSE t.start
  IN t # NoTemplate /\ segs # <<>> =>
       /\ \A k \in DOMAIN segs : segs[k].seq = segs[1].seq + k - 1
       /\ IF t.timeline # <<>> THEN segs[1].seq = first /\ TimelineFits(c, t, segs)
          ELSE NumbersFit(c, t, first, segs)

(* "negative r: repeat until period end" (dash.go:404): an open last run   *)
(* is listed up to the end of the period and does not begin after it.      *)
OpenRunReaches(c) ==
  LET t    == MergeTemplates(c.rep.template, c.set.template)
      last == t.timeline[Len(t.timeline)]
      segs == BuildSegments(c).segs
  IN t.timeline # <<>> /\ last.r < 0 /\ last.d > 0 /\ c.dur > 0 =>
       segs # <<>> /\ End(segs[Len(segs)]) >= c.dur /\ segs[Len(segs)].url.time < c.dur

DashListingFits(doc) ==
  \A x \in Places(doc) : TemplateFits(Context(doc, x))

(* Where the segments of x are, whole and in order, and whether a track    *)
(* has the codecs, the init and the key of x.                              *)
PartOf(doc, x) == BuildSegments(Context(doc, x))
Urls(doc, x) == {PartOf(doc, x).segs[i].url : i \in DOMAIN PartOf(doc, x).segs}
Homes(doc, x, streams) ==
  LET segs == PartOf(doc, x).segs
  IN {i \in DOMAIN streams : \E k \in 0 .. Len(streams[i].segs) - Len(segs) :
        \A j \in DOMAIN segs : streams[i].segs[k + j].url = segs[j].url}
Suits(doc, x, st) ==
  LET c == Context(doc, x)
  IN /\ st.codecs = FirstSet("", <<c.rep.codecs, c.set.codecs>>)
     /\ st.init.url = PartOf(doc, x).init.url
     /\ \A k \in DOMAIN st.segs : st.segs[k].key.kid = DefaultKID(c.rep, c.set)

(* Tracks have ids of their own.  Every representation read is in a track  *)
(* that suits it, and if no other shares a URL with it in no other track:  *)
(* nothing is spliced.                                                     *)
PeriodsApart(doc, streams) ==
  /\ \A i, j \in DOMAIN streams : streams[i].id = streams[j].id => i = j
  /\ \A x \in Places(doc) : PartOf(doc, x).segs # <<>> =>
       /\ \E i \in Homes(doc, x, streams) : Suits(doc, x, streams[i])
       /\ (\A y \in Places(doc) \ {x} : Urls(doc, y) \intersect Urls(doc, x) = {}) =>
            Cardinality(Homes(doc, x, streams)) = 1
================================================================================
