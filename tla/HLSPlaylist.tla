------------------------------ MODULE HLSPlaylist ------------------------------
(***************************************************************************)
(* hls.ParseMaster and hls.ParseMedia, and the list of titles that is no   *)
(* HLS playlist (source/playlist.go): all three read the text line by line *)
(* and carry what the tags said to the next URI.                           *)
(***************************************************************************)
EXTENDS Manifest

Line(tag, value) == [tag |-> tag, value |-> value]
Tagged(lines, tag) == {i \in DOMAIN lines : lines[i].tag = tag}

(* What the lines carry: numbers where numbers are.                        *)
IsText(lines) ==
  /\ IsList(lines)
  /\ \A i \in DOMAIN lines :
       LET v == lines[i].value
       IN CASE lines[i].tag = "range"      -> v.offset \in Nat \union {None} /\ v.length \in Nat
            [] lines[i].tag = "sequence"   -> v \in Int
            [] lines[i].tag = "key"        -> v.badIV \in BOOLEAN
            [] lines[i].tag = "stream-inf" -> v.average \in Int /\ v.bw \in Int /\ v.height \in Int
            [] lines[i].tag = "media"      -> v.channels \in Int /\ v.default \in BOOLEAN
            [] OTHER                       -> TRUE

Resolve(base, ref) == URL(Append(base, ref))

(* A list of titles has none of the tags every HLS playlist needs one of.  *)
IsPlaylist(lines) == \A i \in DOMAIN lines : lines[i].tag \notin {"target", "stream-inf", "media"}

IsMaster(lines) == \E i \in DOMAIN lines : lines[i].tag \in {"stream-inf", "media"}

--------------------------------------------------------------------------------
(* The media playlist.                                                     *)

(* parseKey: a Widevine or PlayReady format means CENC whatever the method *)
(* says, and an IV that is no hex number refuses the playlist.             *)
MethodOf(attrs) ==
  IF attrs.format = "drm" THEN "CENC"
  ELSE IF attrs.method \in {"SAMPLE-AES-CTR", "SAMPLE-AES-CENC"} THEN "SAMPLE-AES" ELSE attrs.method
ParseKey(attrs) ==
  IF attrs.method = "NONE" THEN NoKey
  ELSE [method |-> MethodOf(attrs), iv |-> attrs.iv, kid |-> "zero",
        uri |-> IF MethodOf(attrs) = "CENC" THEN "" ELSE attrs.uri]

(* parseByteRange: without an offset the range starts where prev ended.    *)
ParseByteRange(value, prev) ==
  LET offset == IF value.offset = None THEN prev ELSE value.offset
  IN Bytes(offset, offset + value.length - 1)

\* Mutant: a segment without a range does not break the chain.
NextByteKept(acc) == acc.next

(* Ranges chain only across consecutive ranged segments.                   *)
NextByte(acc) == IF acc.range = NoRange THEN 0 ELSE acc.next

(* A URI takes what the tags before it said.                               *)
Closed(acc, base, ref) ==
  [acc EXCEPT !.segs = Append(@, [BlankSegment EXCEPT
                                    !.url = Resolve(base, ref), !.dur = acc.dur, !.key = acc.key,
                                    !.init = acc.init, !.seq = acc.seq, !.disc = acc.disc,
                                    !.range = acc.range]),
              !.next = NextByte(acc), !.seq = @ + 1, !.dur = 0, !.disc = FALSE, !.range = NoRange]

MediaLine(acc, base, line) ==
  LET v == line.value IN
  CASE line.tag = "target"   -> [acc EXCEPT !.target = v]
    [] line.tag = "sequence" -> [acc EXCEPT !.seq = v]
    [] line.tag \in {"vod", "endlist"} -> [acc EXCEPT !.live = FALSE]
    [] line.tag = "disc"     -> [acc EXCEPT !.disc = TRUE]
    [] line.tag = "key"      -> [acc EXCEPT !.key = ParseKey(v), !.err = v.method # "NONE" /\ v.badIV]
    [] line.tag = "map"      -> [acc EXCEPT !.init = [url |-> Resolve(base, v.uri), range |->
                                    IF v.length = None THEN NoRange ELSE ParseByteRange(v, 0)]]
    [] line.tag = "inf"      -> [acc EXCEPT !.dur = v]
    [] line.tag = "range"    -> LET r == ParseByteRange(v, acc.next)
                                IN [acc EXCEPT !.range = r, !.next = r.last + 1]
    [] line.tag = "uri"      -> Closed(acc, base, v)
    [] OTHER                 -> acc

(* The first bad key ends the parse.                                       *)
Unread ==
  [err |-> FALSE, live |-> TRUE, target |-> 0, seq |-> 0, key |-> NoKey, init |-> NoInit,
   dur |-> 0, disc |-> FALSE, next |-> 0, range |-> NoRange, segs |-> <<>>]
ReadMedia(lines, base) ==
  LET read[i \in 0 .. Len(lines)] ==
        IF i = 0 THEN Unread
        ELSE IF read[i - 1].err THEN read[i - 1] ELSE MediaLine(read[i - 1], base, lines[i])
  IN read[Len(lines)]
ParseMedia(lines, base, st) ==
  LET acc == ReadMedia(lines, base)
  IN [err |-> acc.err,
      stream |-> [st EXCEPT !.segs = acc.segs, !.live = acc.live, !.full = TRUE,
                            !.refresh = IF acc.live THEN acc.target \div 2 ELSE @,
                            !.init = IF @ = NoInit THEN acc.init ELSE @]]

--------------------------------------------------------------------------------
(* The master playlist.                                                    *)

VideoCodecs == {"avc1", "hvc1", "av01"}
AudioCodecs == {"mp4a", "ec-3"}

(* A variant: an audio-only one is audio, one with an audio codec carries  *)
(* its sound in its segments.                                              *)
Variant(v, n) ==
  LET onlyAudio == v.height = 0 /\ v.codecs # {} /\ v.codecs \intersect VideoCodecs = {}
  IN [BlankStream EXCEPT
        !.id = <<"v", n>>, !.bw = FirstSet(0, <<v.average, v.bw>>), !.height = v.height,
        !.codecs = v.codecs, !.audio = v.audio, !.subs = v.subs,
        !.type = IF onlyAudio THEN "audio" ELSE "video",
        !.muxed = ~onlyAudio /\ v.codecs \intersect AudioCodecs # {}]

(* A rendition has no codecs: the same nothing as a variant without them.  *)
Rendition(v, n, base) ==
  [BlankStream EXCEPT !.type = v.type, !.id = <<v.type, n>>, !.url = Resolve(base, v.uri),
                      !.group = v.group, !.lang = v.lang, !.default = v.default,
                      !.channels = v.channels, !.codecs = {}]

Numbered(streams, type) == Cardinality({i \in DOMAIN streams : streams[i].id[1] = type}) + 1

MasterLine(acc, base, line) ==
  LET v == line.value IN
  CASE line.tag = "stream-inf" ->
         [acc EXCEPT !.variants = @ + 1, !.pending = <<Variant(v, acc.variants + 1)>>]
    [] line.tag = "media" /\ v.uri # "" /\ v.type \in {"audio", "subtitles"} ->
         [acc EXCEPT !.streams = Append(@, Rendition(v, Numbered(@, v.type), base))]
    [] line.tag = "uri" /\ acc.pending # <<>> ->
         [acc EXCEPT !.streams = Append(@, [acc.pending[1] EXCEPT !.url = Resolve(base, v)]),
                     !.pending = <<>>]
    [] OTHER -> acc

ReadMaster(lines, base) ==
  LET read[i \in 0 .. Len(lines)] ==
        IF i = 0 THEN [variants |-> 0, pending |-> <<>>, streams |-> <<>>]
        ELSE MasterLine(read[i - 1], base, lines[i])
  IN read[Len(lines)]
ParseMaster(lines, base) ==
  IF IsMaster(lines) THEN [err |-> FALSE, streams |-> ReadMaster(lines, base).streams]
  ELSE LET bare == ParseMedia(lines, base, [BlankStream EXCEPT !.type = "video", !.id = <<"v", 1>>,
                                                               !.url = URL(base)])
       IN [err |-> bare.err, streams |-> IF bare.err THEN <<>> ELSE <<bare.stream>>]

(* The list of titles: the #EXTINF text, else tvg-name, else the URL's own *)
(* name; group-title, else a preceding #EXTGRP.                            *)
TitleLine(acc, base, line) ==
  LET v == line.value IN
  CASE line.tag = "title" -> [acc EXCEPT !.title = FirstSet("", <<v.title, v.name>>), !.group = v.group]
    [] line.tag = "group" -> [acc EXCEPT !.group = FirstSet("", <<@, v>>)]
    [] line.tag = "uri"   -> [title |-> "", group |-> "", streams |-> Append(acc.streams,
                                [BlankStream EXCEPT !.id = <<FirstSet("", <<acc.title, v>>), Len(acc.streams) + 1>>,
                                                    !.group = acc.group, !.url = Resolve(base, v)])]
    [] OTHER -> acc
ParsePlaylist(lines, base) ==
  FoldLeft(LAMBDA a, line : TitleLine(a, base, line),
           [title |-> "", group |-> "", streams |-> <<>>], lines).streams

--------------------------------------------------------------------------------
(* The same by position: what each URI stands for, from the lines before   *)
(* it alone.                                                               *)

LastBefore(lines, tag, p) == Max({0} \union {i \in Tagged(lines, tag) : i < p})
UriBefore(lines, p) == LastBefore(lines, "uri", p)

(* Where the range of line p starts: at its offset, else where the range   *)
(* of the segment just before ended, if that segment has one.              *)
RangeStart(lines) ==
  LET start[p \in Tagged(lines, "range")] ==
        LET q == LastBefore(lines, "range", p)
            u == UriBefore(lines, p)
        IN IF lines[p].value.offset # None THEN lines[p].value.offset
           ELSE IF q # 0 /\ (u < q \/ UriBefore(lines, u) < q) THEN start[q] + lines[q].value.length
           ELSE 0
  IN start

(* The segment of the URI on line p, by position.                          *)
SegmentAt(lines, base, p) ==
  LET at(tag) == LastBefore(lines, tag, p)
      fresh(tag) == at(tag) > UriBefore(lines, p)
      s == at("sequence")
  IN [BlankSegment EXCEPT
        !.url = Resolve(base, lines[p].value),
        !.key = IF at("key") = 0 THEN NoKey ELSE ParseKey(lines[at("key")].value),
        !.init = IF at("map") = 0 THEN NoInit
                 ELSE LET v == lines[at("map")].value
                      IN [url |-> Resolve(base, v.uri),
                          range |-> IF v.length = None THEN NoRange ELSE ParseByteRange(v, 0)],
        !.dur = IF fresh("inf") THEN lines[at("inf")].value ELSE 0,
        !.disc = fresh("disc"),
        !.seq = (IF s = 0 THEN 0 ELSE lines[s].value) +
                Cardinality({q \in Tagged(lines, "uri") : s < q /\ q < p}),
        !.range = IF ~fresh("range") THEN NoRange
                  ELSE LET r == at("range")
                       IN Bytes(RangeStart(lines)[r], RangeStart(lines)[r] + lines[r].value.length - 1)]

MediaByPosition(lines, base, segs) ==
  LET uris == Tagged(lines, "uri")
  IN /\ Len(segs) = Cardinality(uris)
     /\ \A p \in uris : segs[Upto(uris, p)] = SegmentAt(lines, base, p)

(* The variants are the STREAM-INF lines with a URI before the next one.   *)
MasterByPosition(lines, base, streams) ==
  LET uri(p)  == Min({Len(lines) + 1} \union {q \in Tagged(lines, "uri") : q > p})
      next(p) == Min({Len(lines) + 1} \union {q \in Tagged(lines, "stream-inf") : q > p})
      paired  == {p \in Tagged(lines, "stream-inf") : uri(p) < next(p)}
      listed  == {p \in Tagged(lines, "media") :
                    lines[p].value.uri # "" /\ lines[p].value.type \in {"audio", "subtitles"}}
  IN /\ Len(streams) = Cardinality(paired) + Cardinality(listed)
     /\ \A p \in paired : \E i \in DOMAIN streams :
          /\ streams[i].url = Resolve(base, lines[uri(p)].value)
          /\ streams[i].height = lines[p].value.height
          /\ streams[i].audio = lines[p].value.audio
     /\ \A p \in listed : \E i \in DOMAIN streams :
          /\ streams[i].url = Resolve(base, lines[p].value.uri)
          /\ streams[i].group = lines[p].value.group
================================================================================
