--------------------------------- MODULE Title ---------------------------------
(***************************************************************************)
(* One title before and beside its download: run loads what the URL points *)
(* to, download selects streams and expands them, DownloadStream opens     *)
(* each one, and the writer takes the layers off each segment.  The parse, *)
(* the selection, the cuts and the ciphers are the operators of the        *)
(* modules below; moving the bytes is Pipeline's.                          *)
(***************************************************************************)
EXTENDS DashManifest, SmoothManifest, HLSPlaylist, Selection, ByteLayout, Decryption

(* What the user gives and what the servers answer, in families of inputs. *)
(* body is what the URL holds and page what a scan of it finds; answer the *)
(* headers and first bytes; media the playlist behind a URL, index the     *)
(* answer to a request of a file's sidx, served the key behind a URI; tenc *)
(* is the key id the inits name ("" for none) and secret the key the       *)
(* packager used; keys are those given with -key; ve, ae, se the selection.*)
CONSTANT Inputs

(* A manifest is what the decoders make of it, and so is an expression.    *)
WellFormed(body) ==
  /\ body.format = "m3u" => IsText(body.content)
  /\ body.format = "mpd" => IsMPD(body.content)
  /\ body.format = "ism" => IsSmooth(body.content)
ASSUME InputsAssumption ==
  \A f \in DOMAIN Inputs : \A x \in Inputs[f] :
    /\ WellFormed(x.body) /\ (x.page # <<>> => WellFormed(Head(x.page)))
    /\ \A u \in DOMAIN x.media : IsText(x.media[u])
    /\ x.size \in Int /\ \A u \in DOMAIN x.index : IsSidx(x.index[u])
    /\ IsExpr(x.ve) /\ (x.ae # <<>> => IsExpr(x.ae[1])) /\ (x.se # <<>> => IsExpr(x.se[1]))

VARIABLES
  input,    \* one of Inputs
  phase,    \* where run, download and the pipeline are
  kind,     \* what LoadManifest found
  tracks,   \* master.Streams
  chosen,   \* the selected streams
  at,       \* the selected stream looked at
  decs,     \* the decryptor of each selected stream, in order
  piece     \* the last segment taken and what became of it

titleVars == <<input, phase, kind, tracks, chosen, at, decs, piece>>

NoPiece == [seg |-> BlankSegment, verbatim |-> FALSE, err |-> FALSE, data |-> <<>>]
Base == <<"base">>

Init ==
  /\ \E f \in DOMAIN Inputs : input \in Inputs[f]
  /\ phase = "load" /\ kind = "" /\ tracks = <<>> /\ chosen = <<>> /\ at = 1 /\ decs = <<>>
  /\ piece = NoPiece

--------------------------------------------------------------------------------
Loaded(what, parsed) == [kind |-> what, err |-> parsed.err, streams |-> parsed.streams]
Listed(what, streams) == [kind |-> what, err |-> FALSE, streams |-> streams]

(* parseManifest: the format that recognizes the body.                     *)
Recognized(body) == body.format \in {"m3u", "mpd", "ism"}
ParseManifest(body) ==
  CASE body.format = "m3u" /\ IsPlaylist(body.content) -> Listed("playlist", ParsePlaylist(body.content, Base))
    [] body.format = "m3u" /\ ~IsPlaylist(body.content) -> Loaded("hls", ParseMaster(body.content, Base))
    [] body.format = "mpd" -> Loaded("dash", ParseDASH(body.content))
    [] body.format = "ism" -> Loaded("mss", ParseMSS(body.content))
    [] OTHER -> [kind |-> "", err |-> TRUE, streams |-> <<>>]

(* LoadManifest: a direct file, else a manifest, else the first stream a   *)
(* scan of the page finds.  A local file is a manifest or nothing.         *)
Source == IF input.local \/ Recognized(input.body) \/ input.page = <<>> THEN input.body ELSE Head(input.page)
LoadManifest ==
  IF ~input.local /\ IsDirectFile(input.answer)
  THEN Listed("file", <<FileMaster(URL(Base), input.size, input.probe)>>)
  ELSE ParseManifest(Source)

Load ==
  /\ phase = "load"
  /\ \E master \in {LoadManifest} :
       /\ kind' = master.kind
       /\ tracks' = master.streams
       /\ phase' = IF master.err THEN "refused"
                   ELSE IF master.kind \in {"playlist", "file"} THEN master.kind ELSE "select"
  /\ UNCHANGED <<input, chosen, at, decs, piece>>

List ==
  /\ phase = "select" /\ input.list
  /\ tracks' = Sort(tracks)
  /\ phase' = "listed"
  /\ UNCHANGED <<input, kind, chosen, at, decs, piece>>

(* pick.Select; nothing selected ends the title.                           *)
Choose ==
  /\ phase = "select" /\ ~input.list
  /\ \E sorted \in {Sort(tracks)} : \E videos \in {Apply(input.ve, OfType(sorted, "video"))} :
       chosen' = Select(sorted, videos, input.ae, input.se)
  /\ phase' = IF chosen' = <<>> THEN "refused" ELSE "expand"
  /\ UNCHANGED <<input, kind, tracks, at, decs, piece>>

(* The media playlist of an HLS stream, the subsegments of a DASH one.     *)
Refused == [err |-> TRUE, stream |-> BlankStream]
ExpandStream(st) ==
  IF kind = "hls" /\ ~st.full
  THEN IF st.url \in DOMAIN input.media THEN ParseMedia(input.media[st.url], st.url.path, st) ELSE Refused
  ELSE [err |-> FALSE, stream |-> IF kind = "dash" THEN ExpandIndexed(st, input.index) ELSE st]

(* A stream without segments is refused, and so is one that says it is     *)
(* protected when no key was given.                                        *)
Unusable(st) ==
  st.segs = <<>> \/ (IsCENC(Head(st.segs).key) /\ DOMAIN input.keys = {})

Expand ==
  /\ phase = "expand" /\ at <= Len(chosen)
  /\ LET whole == ExpandStream(chosen[at])
     IN IF whole.err \/ Unusable(whole.stream)
        THEN phase' = "refused" /\ UNCHANGED <<chosen, at>>
        ELSE chosen' = [chosen EXCEPT ![at] = whole.stream] /\ at' = at + 1 /\ UNCHANGED phase
  /\ UNCHANGED <<input, kind, tracks, decs, piece>>

(* A live entry of a list is skipped; -serve republishes; else the streams *)
(* are downloaded.                                                         *)
Live == \E i \in DOMAIN chosen : chosen[i].live
Settle ==
  /\ phase = "expand" /\ at > Len(chosen)
  /\ phase' = IF Live /\ input.skipLive THEN "skipped" ELSE IF input.serve THEN "serve" ELSE "open"
  /\ at' = 1
  /\ UNCHANGED <<input, kind, tracks, chosen, decs, piece>>

(* The prologue of DownloadStream.  A subtitle that cannot be opened is    *)
(* left out; anything else ends the title.                                 *)
Open ==
  /\ phase = "open" /\ at <= Len(chosen)
  /\ LET opened == OpenStream(chosen[at], input.tenc, input.keys, input.served)
     IN /\ decs' = Append(decs, opened)
        /\ phase' = IF opened.err /\ chosen[at].type # "subtitles" THEN "refused" ELSE phase
  /\ at' = at + 1
  /\ UNCHANGED <<input, kind, tracks, chosen, piece>>

(* What the packager made of a segment: encrypted by the manifest's word   *)
(* or the init's, under an image header or not, BBTS inside it or not.     *)
Headers == {<<>>, <<Image>>}
Marks == IF input.bbts = "" THEN {<<>>} ELSE {<<>>, <<Layer("bbts", input.bbts, None)>>}
Packaged(st, seg, header, mark) ==
  LET iv   == IF seg.key.iv = None THEN seg.seq ELSE seg.key.iv
      cenc == st.init # NoInit /\ input.tenc # ""
  IN CASE seg.key.method = "AES-128" -> <<Layer("aes", input.secret, iv)>> \o header \o mark
       [] seg.key.method # "AES-128" /\ cenc -> header \o <<Layer("cenc", input.secret, None)>>
       [] seg.key.method = "SAMPLE-AES" /\ ~cenc -> header \o <<Layer("sample", input.secret, iv)>>
       [] OTHER -> header \o mark

(* A segment of an opened stream reaches the disk: by the writer, every    *)
(* layer off that has a key, or as it is.                                  *)
Take ==
  /\ phase = "open" /\ at > Len(chosen)
  /\ \E i \in DOMAIN decs :
       /\ ~decs[i].err
       /\ \E k \in DOMAIN chosen[i].segs, header \in Headers, mark \in Marks :
            LET seg  == chosen[i].segs[k]
                data == Packaged(chosen[i], seg, header, mark)
                sole == SingleFile(chosen[i])
                out  == IF sole THEN [err |-> FALSE, data |-> data]
                        ELSE DecryptSegment(seg, decs[i].key, input.keys, input.served, input.bbts, data)
            IN piece' = [seg |-> seg, verbatim |-> sole, err |-> out.err, data |-> out.data]
  /\ phase' = "taken"
  /\ UNCHANGED <<input, kind, tracks, chosen, at, decs>>

Next == Load \/ List \/ Choose \/ Expand \/ Settle \/ Open \/ Take

Spec == Init /\ [][Next]_titleVars

--------------------------------------------------------------------------------
Doc == Source.content

(* What is listed of a template or a timeline is what the presentation     *)
(* has, give or take what one float64 product or quotient is off: runs     *)
(* without gaps, as much of an open run as fits whole into the period it   *)
(* begins in, numbers up to the period's end or the live edge and not      *)
(* past it (dash.go segmentsFromTemplate, mss.go timeline).                *)
ListingFits ==
  /\ phase = "select" /\ kind = "dash" => DashListingFits(Doc)
  /\ phase = "select" /\ kind = "mss" => ChunksFit(Doc)

(* "negative r: repeat until period end" (dash.go:404).                    *)
OpenRunEnds ==
  phase = "select" /\ kind = "dash" => \A x \in Places(Doc) : OpenRunReaches(Context(Doc, x))

(* Over all periods every representation is in one track, whole, and that  *)
(* track has one init, one codec and one key: an advertisement is never    *)
(* spliced into the film (dash.go Parse, mergeCompatible).  The engine     *)
(* builds one decryptor for a stream and relies on it.                     *)
NothingSpliced ==
  phase = "select" /\ kind = "dash" => PeriodsApart(Doc, tracks)

(* A playlist says of each URI what its position says: key, init, range,   *)
(* discontinuity and number come from the lines before it and from no      *)
(* others (hls.go ParseMaster, ParseMedia).                                *)
PlaylistByPosition ==
  /\ phase = "select" /\ kind = "hls" =>
       IF IsMaster(Doc) THEN MasterByPosition(Doc, Base, tracks)
       ELSE MediaByPosition(Doc, Base, tracks[1].segs)
  /\ phase = "open" /\ kind = "hls" /\ IsMaster(Doc) => \A i \in DOMAIN chosen :
       /\ chosen[i].url \in DOMAIN input.media
       /\ MediaByPosition(input.media[chosen[i].url], chosen[i].url.path, chosen[i].segs)

(* A height bound is kept if any stream can, gives the nearest one if none *)
(* can, and never loses the picture; without -sa the picture is not left   *)
(* silent (pick.go Select, nearest).                                       *)
SelectionKept ==
  phase = "expand" /\ at = 1 =>
    /\ BoundsHonored(tracks, input.ve, chosen)
    /\ input.ae = <<>> => SoundKept(tracks, OfType(chosen, "video"), chosen)

(* The byte ranges a title is fetched in tile its files: nothing is        *)
(* fetched twice and nothing is left out (file.go planChunks, sidx.go      *)
(* ExpandIndexed).                                                         *)
BytesTiled ==
  /\ phase = "file" => FileTiled(tracks[1], input.size)
  /\ phase = "open" /\ at = 1 /\ kind = "dash" =>
       \A i \in DOMAIN chosen : \A j \in DOMAIN tracks :
         tracks[j].id = chosen[i].id => IndexTiled(tracks[j], chosen[i], input.index)

(* No key that counts is wrong: what is given under an id that the init,   *)
(* the manifest or the segment names, a bare key given alone, and what a   *)
(* key server answers is the packager's.                                   *)
Naming == {i \in DOMAIN decs : \E k \in DOMAIN chosen[i].segs : chosen[i].segs[k] = piece.seg}
Named == {input.tenc, piece.seg.key.kid} \union {ManifestKID(chosen[i]) : i \in Naming}
KeysTrue ==
  /\ \A kid \in DOMAIN input.keys :
       kid \in Named \/ (kid = "zero" /\ Cardinality(DOMAIN input.keys) = 1) =>
         input.keys[kid] = input.secret
  /\ \A uri \in DOMAIN input.served : input.served[uri] \in {"", input.secret}

(* With true keys, a segment the manifest calls encrypted comes out with   *)
(* every layer off, or is refused, and so does any that the writer takes   *)
(* of a title whose init names no key: ciphertext is never taken for media *)
(* (engine.go decryptSegment, cenc.go resolveKey).  The sole segment of a  *)
(* stream without a key is excepted, which is stored as it comes.          *)
Enciphered(key) == key.method \in {"CENC", "SAMPLE-AES", "AES-128"}
ClearOrRefused ==
  phase = "taken" /\ KeysTrue /\ (Enciphered(piece.seg.key) \/ (input.tenc = "" /\ ~piece.verbatim)) =>
    piece.err \/ piece.data = <<>>

(* The same of every segment the writer takes: "The init segment is the    *)
(* authority" on what is encrypted (cenc_detect_test.go, cenc.go           *)
(* newCencDecryptor).                                                      *)
InitIsAuthority == phase = "taken" /\ KeysTrue /\ ~piece.verbatim => piece.err \/ piece.data = <<>>

(* The same of a sole segment: "set -> every .ts segment is                *)
(* BBTS-decrypted" (engine.go:37), and an image header comes off.          *)
SoleSegmentOpened ==
  phase = "taken" /\ input.tenc = "" /\ piece.verbatim => piece.data = <<>>

(* A bare key given beside others opens no stream whose init names a key   *)
(* id: it is a fallback only as "the sole unlabelled key" (cenc.go         *)
(* resolveKey); the zero id of a manifest that names none defeats that.    *)
BareKeyAlone ==
  phase = "taken" /\ input.tenc # "" /\ input.tenc \notin DOMAIN input.keys
  /\ piece.seg.key.method = "SAMPLE-AES" /\ Cardinality(DOMAIN input.keys) > 1
    => piece.err \/ piece.data = <<>>
================================================================================
