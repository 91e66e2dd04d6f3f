------------------------------- MODULE Decryption ------------------------------
(***************************************************************************)
(* The keys of a stream and what a segment goes through on its way to the  *)
(* writer (engine/cenc.go and decryptSegment).  Data is the layers that    *)
(* were put around it, the outermost first: a layer comes off where it is  *)
(* on the outside, and taking one off that is not there garbles the data.  *)
(***************************************************************************)
EXTENDS Manifest

Layer(kind, key, iv) == [kind |-> kind, key |-> key, iv |-> iv]
Image == Layer("image", "", None)
Garbled == <<Layer("garbled", "", None)>>

Error == [err |-> TRUE, key |-> ""]
Found(key) == [err |-> FALSE, key |-> key]

(* resolveKey: the first known key id, else a bare key given alone (keys   *)
(* is a function of key ids); "" is no key.                                *)
ResolveKey(keys, kids) ==
  LET known == {i \in DOMAIN kids : kids[i] \in DOMAIN keys}
  IN IF known # {} THEN keys[kids[Min(known)]]
     ELSE IF "zero" \in DOMAIN keys /\ Cardinality(DOMAIN keys) = 1 THEN keys["zero"] ELSE ""

(* keyCache.get: what the server answers for a URI, "" an error or a key   *)
(* of a wrong length.                                                      *)
Fetch(served, uri) ==
  IF uri \in DOMAIN served /\ served[uri] # "" THEN Found(served[uri]) ELSE Error
Fetchable(served, uri) == uri \in DOMAIN served

IsCENC(key) == key.method = "CENC"
IsSample(key) == key.method = "SAMPLE-AES"

(* The key of the first of some places in a stream.                        *)
FirstKey(st, places) == IF places = {} THEN NoKey ELSE st.segs[Min(places)].key
HasCENC(st) == \E k \in DOMAIN st.segs : IsCENC(st.segs[k].key)
Sampled(st) == {k \in DOMAIN st.segs : IsSample(st.segs[k].key)}
ManifestKID(st) == FirstKey(st, {k \in DOMAIN st.segs : st.segs[k].key.kid # "zero"}).kid

(* newCencDecryptor: the init is the authority on whether the stream is    *)
(* encrypted; tenc is its key id, "" when it has none.                     *)
NewDecryptor(st, tenc, keys, served) ==
  LET own    == ResolveKey(keys, <<tenc, ManifestKID(st)>>)
      sample == FirstKey(st, Sampled(st))
  IN IF tenc = "" THEN IF HasCENC(st) THEN Error ELSE Found("")
     ELSE IF own # "" THEN Found(own)
     ELSE IF sample # NoKey /\ Fetchable(served, sample.uri) THEN Fetch(served, sample.uri)
     ELSE Error

(* DownloadStream, up to how it fetches: the decryptor of the stream, ""   *)
(* for none, or the reason there is no use in downloading it.              *)
OpenStream(st, tenc, keys, served) ==
  LET dec    == NewDecryptor(st, tenc, keys, served)
      sample == FirstKey(st, Sampled(st))
      open   == IF st.init # NoInit THEN dec
                ELSE IF HasCENC(st) THEN Error ELSE Found("")
  IN IF open.err \/ open.key # "" THEN open
     ELSE IF sample # NoKey /\ ~Fetchable(served, sample.uri) /\ ResolveKey(keys, <<sample.kid>>) = ""
          THEN Error ELSE open

(* The one segment of a finished stream, without a key and a range, goes   *)
(* past the pipeline: it is stored as it comes (downloadSingleFile), and   *)
(* the init is not.                                                        *)
SingleFile(st) ==
  ~st.live /\ DOMAIN st.segs = {1} /\ st.segs[1].key = NoKey /\ st.segs[1].range = NoRange

SampleKey(key, keys, served) ==
  IF Fetchable(served, key.uri) THEN Fetch(served, key.uri)
  ELSE LET own == ResolveKey(keys, <<key.kid>>) IN IF own = "" THEN Error ELSE Found(own)

(* One layer off, or the data garbled; what carries no such layer at all   *)
(* is passed through by the ciphers that look for their own marks.         *)
Peel(data, layer) == IF data # <<>> /\ Head(data) = layer THEN Tail(data) ELSE Garbled
PeelMarked(data, layer) ==
  IF data = <<>> \/ Head(data).kind # layer.kind THEN data ELSE Peel(data, layer)
StripImage(data) == IF data # <<>> /\ Head(data) = Image THEN Tail(data) ELSE data

\* Mutant: without an IV it is zero.
IVOfKey(seg) == IF seg.key.iv = None THEN 0 ELSE seg.key.iv

(* The IV of a segment: its key's, else its media sequence number.         *)
IVOf(seg) == IF seg.key.iv = None THEN seg.seq ELSE seg.key.iv

(* decryptSegment: an image header off what is not encrypted whole, then   *)
(* the samples, or the elementary streams, or the whole segment and the    *)
(* image header inside it, then BBTS.                                      *)
DecryptSegment(seg, dec, keys, served, bbts, data) ==
  LET method == seg.key.method
      bare   == IF method = "AES-128" THEN data ELSE StripImage(data)
      mine   == CASE dec # "" /\ method \in {"CENC", "SAMPLE-AES"} -> Found(dec)
                  [] dec = "" /\ method = "SAMPLE-AES" -> SampleKey(seg.key, keys, served)
                  [] method = "AES-128" -> Fetch(served, seg.key.uri)
                  [] OTHER -> Found("")
      opened == IF mine.key = "" THEN bare
                ELSE CASE method = "AES-128" -> StripImage(Peel(bare, Layer("aes", mine.key, IVOf(seg))))
                       [] method # "AES-128" /\ dec # "" -> Peel(bare, Layer("cenc", mine.key, None))
                       [] OTHER -> PeelMarked(bare, Layer("sample", mine.key, IVOf(seg)))
  IN IF mine.err THEN [err |-> TRUE, data |-> data]
     ELSE [err |-> FALSE,
           data |-> IF bbts = "" THEN opened ELSE PeelMarked(opened, Layer("bbts", bbts, None))]
================================================================================
