------------------------------- MODULE ByteLayout ------------------------------
(***************************************************************************)
(* How one file becomes segments: a direct file cut into chunks            *)
(* (source/file.go), and an on-demand media file cut at the subsegments    *)
(* its index names (source/sidx.go, mp4/sidx.go).                          *)
(***************************************************************************)
EXTENDS Manifest

CONSTANTS
  FileChunk,     \* bytes of a chunk (4 MiB in the code)
  FileMaxChunks  \* chunks a file is cut into at most (4096)

ASSUME LayoutAssumption == {FileChunk, FileMaxChunks} \subseteq Nat \ {0}

(* A file too big for that many chunks gets bigger ones.                   *)
ChunkSize(size) ==
  IF CeilDiv(size, FileChunk) > FileMaxChunks THEN CeilDiv(size, FileMaxChunks) ELSE FileChunk

PlanChunks(size) ==
  LET c == ChunkSize(size)
  IN [i \in 1 .. CeilDiv(size, c) |-> Bytes((i - 1) * c, Min({i * c, size}) - 1)]

(* The answer to a request of the first byte: status, and the range and    *)
(* the total it states.                                                    *)
RangesHonored(probe, size) ==
  ~probe.err /\ probe.status = 206 /\ probe.range = Bytes(0, 0) /\ probe.total = size

(* isDirectFile: what begins like a manifest never is, an attachment is,   *)
(* a page is not, and else a body too big for a manifest or not text is.   *)
IsDirectFile(answer) ==
  /\ ~answer.manifest
  /\ answer.attachment \/ (~answer.html /\ (answer.huge \/ ~answer.text))

(* A file is cut if its length is known, worth it and ranges are honored;  *)
(* it stays one segment otherwise.  Its stream remembers the URL as given. *)
FileMaster(url, size, probe) ==
  LET chunks == IF size > FileChunk /\ RangesHonored(probe, size) THEN PlanChunks(size) ELSE <<>>
      whole  == [BlankSegment EXCEPT !.url = url]
  IN [BlankStream EXCEPT
        !.id = <<"file">>, !.url = url,
        !.segs = IF Len(chunks) < 2 THEN <<whole>>
                 ELSE [i \in DOMAIN chunks |-> [whole EXCEPT !.range = chunks[i], !.seq = i - 1]]]

(* FileSize: known from the last range.                                    *)
FileSize(st) ==
  IF st.segs # <<>> /\ Last(st.segs).range # NoRange THEN Last(st.segs).range.last + 1 ELSE None

--------------------------------------------------------------------------------
(* The index of a file: where its sidx box ends, the distance from there   *)
(* to the first subsegment, the timescale, and the references.             *)

Ref(size, dur, media) == [size |-> size, dur |-> dur, media |-> media]
IsSidx(answer) ==
  /\ answer.err \in BOOLEAN /\ answer.end \in Nat /\ answer.offset \in Nat /\ answer.timescale \in Nat
  /\ IsList(answer.refs) /\ \A i \in DOMAIN answer.refs : answer.refs[i].size \in Nat

(* ParseSidx: no box, a zero timescale or a reference to another index is  *)
(* an error.                                                               *)
Parsed(answer) ==
  /\ ~answer.err
  /\ answer.timescale > 0
  /\ \A i \in DOMAIN answer.refs : answer.refs[i].media

(* The bytes of the first i references.                                    *)
RefBytes(refs) ==
  LET sum[i \in 0 .. Len(refs)] == IF i = 0 THEN 0 ELSE sum[i - 1] + refs[i].size IN sum

(* indexedSegments: one segment for every reference, end to end.           *)
IndexedSegments(seg, answer) ==
  LET first == seg.index.first + answer.end + answer.offset
      upTo  == RefBytes(answer.refs)
  IN [i \in DOMAIN answer.refs |->
        [seg EXCEPT !.range = Bytes(first + upTo[i - 1], first + upTo[i] - 1), !.index = NoRange,
                    !.dur = answer.refs[i].dur, !.disc = @ /\ i = 1]]

Usable(index, url) == url \in DOMAIN index /\ Parsed(index[url]) /\ index[url].refs # <<>>

(* What one segment becomes: itself, its subsegments, nothing if its file  *)
(* and index were expanded before, or itself whole if the index is no use. *)
ExpandedEach(st, i, index) ==
  LET seg == st.segs[i] IN
  IF seg.index = NoRange THEN <<seg>>
  ELSE IF Usable(index, seg.url) THEN IndexedSegments(seg, index[seg.url])
  ELSE <<[seg EXCEPT !.index = NoRange]>>
Expanded(st, i, index) ==
  LET seg    == st.segs[i]
      before == \E j \in 1 .. i - 1 : st.segs[j].index = seg.index /\ st.segs[j].url = seg.url
  IN IF seg.index # NoRange /\ before THEN <<>> ELSE ExpandedEach(st, i, index)

(* ExpandIndexed: index is the answer to the request for each file's sidx. *)
ExpandIndexed(st, index) ==
  IF \A i \in DOMAIN st.segs : st.segs[i].index = NoRange THEN st
  ELSE LET upTo[n \in 0 .. Len(st.segs)] ==
             IF n = 0 THEN <<>> ELSE upTo[n - 1] \o Expanded(st, n, index)
           segs == upTo[Len(st.segs)]
       IN [st EXCEPT !.segs = [k \in DOMAIN segs |-> [segs[k] EXCEPT !.seq = k - 1]]]

--------------------------------------------------------------------------------
(* What a plan has to be.                                                  *)

(* The ranges run from first to last without a gap or an overlap.          *)
Tiles(ranges, first, last) ==
  /\ ranges # <<>> /\ Head(ranges).first = first /\ Last(ranges).last = last
  /\ \A i \in DOMAIN ranges : ranges[i].first <= ranges[i].last
  /\ \A i \in 2 .. Len(ranges) : ranges[i].first = ranges[i - 1].last + 1

(* A file is cut into at most so many chunks that tile it.                 *)
FileTiled(st, size) ==
  Len(st.segs) > 1 =>
    /\ Tiles([i \in DOMAIN st.segs |-> st.segs[i].range], 0, size - 1)
    /\ Len(st.segs) <= FileMaxChunks
    /\ FileSize(st) = size

(* Every file of a stream that has one index, and holds something at each  *)
(* reference, is in the plan once, tiled from its first subsegment to its  *)
(* end, and the plan is numbered without a gap.                            *)
OneIndex(old, i) == \A j \in DOMAIN old.segs : old.segs[j].url = old.segs[i].url => old.segs[j].index = old.segs[i].index
IndexTiled(old, new, index) ==
  /\ \A k \in DOMAIN new.segs : new.segs[k].index = NoRange
  /\ (\E i \in DOMAIN old.segs : old.segs[i].index # NoRange) =>
       \A k \in DOMAIN new.segs : new.segs[k].seq = k - 1
  /\ \A i \in DOMAIN old.segs :
       LET seg    == old.segs[i]
           mine   == Those(new.segs, {k \in DOMAIN new.segs : new.segs[k].url = seg.url})
           answer == index[seg.url]
           bytes  == RefBytes(answer.refs)[Len(answer.refs)]
           first  == seg.index.first + answer.end + answer.offset
       IN seg.index # NoRange /\ OneIndex(old, i) /\ Usable(index, seg.url)
          /\ (\A r \in DOMAIN answer.refs : answer.refs[r].size > 0) =>
            Tiles([k \in DOMAIN mine |-> mine[k].range], first, first + bytes - 1)
================================================================================
