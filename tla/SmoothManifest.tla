----------------------------- MODULE SmoothManifest ----------------------------
(***************************************************************************)
(* mss.Parse: every quality level of a Smooth Streaming stream index       *)
(* becomes a track, its chunks listed from the index's timeline.           *)
(***************************************************************************)
EXTENDS Manifest

(* A chunk element: None is an absent t or d; r counts every chunk.        *)
Chunk(t, d, r) == [t |-> t, d |-> d, r |-> r]

(* A quality level is known if an init can be synthesized from it.         *)
Level(bw, known) == [bw |-> bw, height |-> 0, known |-> known]
(* What a manifest is made of.                                             *)
ChunkSet == [t : Nat \union {None}, d : Nat \union {None}, r : Int]
IsSmooth(doc) ==
  /\ doc.dur \in Nat /\ IsList(doc.indexes)
  /\ \A i \in DOMAIN doc.indexes :
       LET index == doc.indexes[i]
       IN /\ index.chunks \in Seq(ChunkSet) /\ index.height \in Int /\ IsList(index.levels)
          /\ \A q \in DOMAIN index.levels : index.levels[q].height \in Int /\ index.levels[q].bw \in Int

Index(type, levels, chunks) ==
  [type |-> type, height |-> 0, lang |-> "", levels |-> levels, chunks |-> chunks]
Smooth(dur, live, kid, indexes) == [dur |-> dur, live |-> live, kid |-> kid, indexes |-> indexes]

(* How long the chunks of the i-th element last: @d, else up to the next   *)
(* element's @t, else up to the end of the presentation.                   *)
ChunkLength(cs, i, cur, total) ==
  IF cs[i].d # None THEN cs[i].d
  ELSE IF i < Len(cs) /\ cs[i + 1].t # None /\ cs[i + 1].t > cur THEN cs[i + 1].t - cur
  ELSE Max({total - cur, 0})

Counted(c) == Max({c.r, 1})
Elapsed(cs, i, acc, total) ==
  LET cur == IF cs[i].t # None THEN cs[i].t ELSE acc.cur
      d   == ChunkLength(cs, i, cur, total)
      n   == Counted(cs[i])
  IN [cur |-> cur + n * d, list |-> acc.list \o [j \in 1 .. n |-> [t |-> cur + (j - 1) * d, d |-> d]]]
Timeline(cs, total) ==
  LET upTo[i \in 0 .. Len(cs)] ==
        IF i = 0 THEN [cur |-> 0, list |-> <<>>] ELSE Elapsed(cs, i, upTo[i - 1], total)
  IN upTo[Len(cs)].list

MediaType(type) ==
  CASE type = "text" -> "subtitles" [] type \in {"video", "audio"} -> type [] OTHER -> "unknown"

Key(doc) == IF doc.kid = "" THEN NoKey ELSE [NoKey EXCEPT !.method = "CENC", !.kid = doc.kid]

(* One track: its init is a data: URL of its own, and a subtitle has none  *)
(* and is never encrypted.                                                 *)
Track(doc, i, q) ==
  LET index  == doc.indexes[i]
      level  == index.levels[q]
      chunks == Timeline(index.chunks, doc.dur)
      type   == MediaType(index.type)
      segs   == [k \in DOMAIN chunks |->
                   [BlankSegment EXCEPT
                      !.url = [path |-> <<index.type, ToString(i), ToString(q)>>, num |-> 0, time |-> chunks[k].t],
                      !.dur = chunks[k].d, !.seq = k - 1,
                      !.key = IF type = "subtitles" THEN NoKey ELSE Key(doc)]]
  IN [BlankStream EXCEPT
        !.type = type, !.id = <<index.type, i, q>>, !.url = URL(<<"manifest">>), !.bw = level.bw,
        !.height = FirstSet(0, <<level.height, index.height>>), !.lang = index.lang,
        !.live = doc.live, !.segs = segs, !.full = TRUE,
        !.init = IF type = "subtitles" THEN NoInit
                 ELSE [NoInit EXCEPT !.url = URL(<<"data", index.type, ToString(i), ToString(q)>>)],
        !.refresh = IF doc.live THEN Max({2} \union {chunks[k].d : k \in DOMAIN chunks}) ELSE 0]

(* A level no init can be synthesized for is left out; none left is an     *)
(* error.                                                                  *)
ParseMSS(doc) ==
  LET levels(i) == {Place(1, i, q) : q \in DOMAIN doc.indexes[i].levels}
      known  == {x \in UNION {levels(i) : i \in DOMAIN doc.indexes} :
                   doc.indexes[x.a].levels[x.r].known \/ doc.indexes[x.a].type = "text"}
      places == InOrder(known)
  IN [err |-> known = {}, streams |-> [k \in DOMAIN places |-> Track(doc, places[k].a, places[k].r)]]

Wanted(cs) ==
  LET wanted[k \in 0 .. Len(cs)] ==
        IF k = 0 THEN 0 ELSE wanted[k - 1] + IF cs[k].r > 1 THEN cs[k].r ELSE 1
  IN wanted

(* The chunks run on: each starts where the last one ended or where an     *)
(* element puts it, as many as the elements count, and a last element      *)
(* without a length ends with the presentation.                            *)
ChunksFit(doc) ==
  \A i \in DOMAIN doc.indexes :
    LET cs     == doc.indexes[i].chunks
        chunks == Timeline(cs, doc.dur)
        placed == {cs[k].t : k \in DOMAIN cs}
        last   == cs[Len(cs)]
        final  == chunks[Len(chunks)]
    IN cs # <<>> =>
         /\ Len(chunks) = Wanted(cs)[Len(cs)]
         /\ \A k \in 2 .. Len(chunks) :
              chunks[k].t = chunks[k - 1].t + chunks[k - 1].d \/ chunks[k].t \in placed
         /\ (last.d = None /\ last.r <= 1 /\ final.t <= doc.dur) => final.t + final.d = doc.dur
================================================================================
