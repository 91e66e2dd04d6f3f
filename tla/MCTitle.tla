-------------------------------- MODULE MCTitle --------------------------------
(* An instance of Title: families of inputs, small enough for TLC.         *)
EXTENDS Title

Body(format, content) == [format |-> format, content |-> content]

Text == [manifest |-> TRUE, attachment |-> FALSE, html |-> FALSE, huge |-> FALSE, text |-> TRUE]
Binary == [Text EXCEPT !.manifest = FALSE, !.text = FALSE]
NoProbe == [err |-> TRUE, status |-> 0, range |-> NoRange, total |-> 0]
Nothing == [u \in {} |-> 0]

Input(body) ==
  [local |-> FALSE, body |-> body, page |-> <<>>, size |-> None, probe |-> NoProbe, answer |-> Text,
   ve |-> Expr("best", 1, <<>>), ae |-> <<>>, se |-> <<>>, list |-> FALSE, serve |-> FALSE,
   skipLive |-> FALSE, media |-> Nothing, index |-> Nothing, tenc |-> "", keys |-> Nothing,
   served |-> Nothing, secret |-> "k", bbts |-> ""]

UpTo(S, n) == UNION {[1 .. k -> S] : k \in 1 .. n}

--------------------------------------------------------------------------------
(* MPDs.                                                                   *)
Media == [NoTemplate EXCEPT !.media = "m", !.init = "i"]
Templated(template) == [Rep("v", "a") EXCEPT !.template = template]
Alone(dur, rep) == Period(dur, <<Adaptation(<<rep>>)>>)

Rounded(end, count, edge) == [end |-> end, count |-> count, edge |-> edge]
Float(dur, template, float) == Alone(dur, [Templated(template) EXCEPT !.float = float])

Runs == {Run(t, d, r) : t \in {None, 4}, d \in {1, 3}, r \in {-1, 0, 1}}
Timelines ==
  {Input(Body("mpd", Static(dur, <<Float(0, [Media EXCEPT !.timeline = tl, !.start = start], Rounded(end, 0, 0))>>))) :
     dur \in {0, 7}, start \in {None, 5}, end \in {0, 1}, tl \in UpTo(Runs, 2)}

Counted9 ==
  {Input(Body("mpd", Static(0, <<Float(dur, [Media EXCEPT !.d = d, !.start = start], Rounded(0, count, 0))>>))) :
     dur \in 0 .. 9, d \in 0 .. 3, start \in {None, 0}, count \in {0, 1}}

Edges ==
  {[Input(Body("mpd", [Dynamic(window, elapsed,
       <<[Float(0, [Media EXCEPT !.d = d, !.start = 5], Rounded(0, count, edge)) EXCEPT !.start = start],
         Alone(0, Templated([Media EXCEPT !.d = 1]))>>) EXCEPT !.update = update]))
     EXCEPT !.skipLive = update = 0, !.serve = TRUE] :
     window \in {0, 4, 5}, elapsed \in {None, 0, 3, 8, 9, 10, 13, 70}, d \in {2, 3}, start \in {0, 3},
     update \in {0, 1}, count \in {0, 1}, edge \in {0, 1}}

(* Parts of a film and of its advertisements.                              *)
Part(codecs, init, kids) ==
  [Rep("v", codecs) EXCEPT !.kids = kids, !.template = [Media EXCEPT !.init = init, !.d = 2]]
Parts == {Part(c, i, k) : c \in {"a", "b"}, i \in {"i", "j"}, k \in {<<>>, <<"k1">>, <<"k2">>}}
At(n, rep) == [rep EXCEPT !.template.start = 10 * n]
Films ==
  {[Input(Body("mpd", Static(0, [n \in DOMAIN film |-> Alone(4, At(n, film[n]))])))
     EXCEPT !.keys = [kid \in {"k1"} |-> "k"], !.tenc = "k1"] :
     film \in {f \in UpTo(Parts, 3) : Len(f) = 3 => f[1] \in {Part("a", "i", <<>>), Part("a", "i", <<"k1">>)}}}

(* A list beside a template, a trick-mode track, a subtitle.               *)
Mixed ==
  {[Input(Body("mpd", Static(4, <<Period(0,
       <<[Adaptation(<<[Rep("l", "a") EXCEPT !.list =
              [files |-> <<[media |-> "f", range |-> NoRange], [media |-> "", range |-> Bytes(5, 9)]>>,
               init |-> "h", range |-> NoRange, d |-> 2]],
            [Rep("t", "a") EXCEPT !.trick = TRUE]>>) EXCEPT !.template = set],
         [Adaptation(<<[Rep("s", "stpp") EXCEPT !.mime = ""]>>) EXCEPT !.urls = <<"s.mp4">>, !.lang = "en"]>>)>>)))
     EXCEPT !.list = list] :
     list \in BOOLEAN, set \in {NoTemplate, [Media EXCEPT !.d = 2]}}

(* One file, indexed, in one or two periods.                               *)
File == [Rep("f", "a") EXCEPT !.urls = <<"f.mp4">>,
           !.base = [present |-> TRUE, init |-> Bytes(0, 9), index |-> Bytes(10, 19)]]
FileURL == URL(<<"mpd", "f.mp4">>)
Indexed ==
  {[Input(Body("mpd", Static(0, [p \in 1 .. periods |-> Alone(4, File)])))
     EXCEPT !.index = [u \in {FileURL} |->
       [err |-> err, end |-> 10, offset |-> offset, timescale |-> 1, refs |-> refs]]] :
     periods \in 1 .. 2, err \in BOOLEAN, offset \in {0, 5},
     refs \in UpTo({Ref(n, 2, media) : n \in 1 .. 3, media \in BOOLEAN}, 2) \union {<<>>}}

--------------------------------------------------------------------------------
(* Smooth manifests.                                                       *)
Chunks == {Chunk(t, d, r) : t \in {None, 5}, d \in {None, 2}, r \in {0, 1, 3}}
Smooths ==
  {[Input(Body("ism", Smooth(9, FALSE, kid,
       <<Index("video", <<Level(1, known), Level(2, TRUE)>>, cs), Index("text", <<Level(1, FALSE)>>, cs)>>)))
     EXCEPT !.tenc = kid, !.keys = [k \in {"zero"} |-> "k"]] :
     kid \in {"", "k1"}, known \in BOOLEAN, cs \in UpTo(Chunks, 2)}

--------------------------------------------------------------------------------
(* Playlists.                                                              *)
Uri(ref) == Line("uri", ref)
Target == Line("target", 4)
AES(iv) == Line("key", [method |-> "AES-128", format |-> "", uri |-> "kms", iv |-> iv, badIV |-> FALSE])
Sample(uri) == Line("key", [method |-> "SAMPLE-AES", format |-> "", uri |-> uri, iv |-> None, badIV |-> FALSE])
Clear == Line("key", [method |-> "NONE", format |-> "", uri |-> "", iv |-> None, badIV |-> FALSE])
Widevine(bad) == Line("key", [method |-> "SAMPLE-AES", format |-> "drm", uri |-> "", iv |-> None, badIV |-> bad])
Map == Line("map", [uri |-> "init", offset |-> None, length |-> None])
Range4(offset) == Line("range", [offset |-> offset, length |-> 4])

Tags == {Line("sequence", 7), Line("disc", 0), Line("inf", 4), Line("endlist", 0), AES(None), Clear, Map,
         Range4(None), Range4(8)}
Playlists ==
  {<<Target, a, Uri("x"), b, c, Uri("y")>> : a, b, c \in Tags} \union
  {<<Target, Range4(8), Uri("x"), a, Uri("y"), Range4(None), b, Uri("z")>> : a, b \in Tags}
Bare ==
  {[Input(Body("m3u", lines)) EXCEPT !.served = [u \in {"kms"} |-> "k"]] : lines \in Playlists}

(* What a list of titles looks like.                                       *)
Lists ==
  {Input(Body("m3u", <<a, b, Uri("x"), a, Uri("y")>>)) :
     a \in {Line("title", [title |-> "T", name |-> "", group |-> ""]), Line("group", "G"), Line("inf", 4)},
     b \in {Line("title", [title |-> "", name |-> "N", group |-> "H"]), Line("group", "K")}}

VariantOf(height, bw, codecs, audio) ==
  Line("stream-inf", [average |-> 0, bw |-> bw, height |-> height, codecs |-> codecs, audio |-> audio, subs |-> ""])
RenditionOf(type, uri, group, lang, channels) ==
  Line("media", [type |-> type, uri |-> uri, group |-> group, lang |-> lang, default |-> FALSE, channels |-> channels])

MasterTags ==
  {VariantOf(1, 5, {"avc1", "mp4a"}, ""), VariantOf(3, 5, {"avc1"}, "g"), VariantOf(0, 2, {"mp4a"}, ""),
   RenditionOf("audio", "ga", "g", "en", 2), RenditionOf("audio", "", "h", "en", 2),
   RenditionOf("captions", "cc", "c", "en", 0), Uri("x"), Uri("y")}
Behind1 == <<Target, Line("inf", 4), Uri("s1"), Line("endlist", 0)>>
Masters ==
  {[Input(Body("m3u", <<VariantOf(2, 4, {"avc1"}, ""), a, b, c, Uri("z")>>))
     EXCEPT !.media = [u \in {Resolve(<<"base">>, r) : r \in {"x", "y", "z", "ga"}} |-> Behind1]] :
     a, b, c \in MasterTags}

(* What is there to choose from, and how.                                  *)
Offered(heights, group, sound) ==
  <<VariantOf(heights[1], 5, {"avc1"} \union sound, group), Uri("v1"),
    VariantOf(heights[2], 7, {"avc1"}, "g"), Uri("v2"), VariantOf(0, 1, {"mp4a"}, ""), Uri("v3")>>
Sounds ==
  {<<>>, <<RenditionOf("audio", "a1", "g", "en", 2), RenditionOf("audio", "a2", "g", "fr", 2)>>,
   <<RenditionOf("audio", "a1", "g", "en", 2), RenditionOf("audio", "a2", "h", "en", 6),
     RenditionOf("audio", "a3", "g", "en", 6), RenditionOf("subtitles", "s1", "t", "en", 0)>>}
Expressions ==
  {Expr(how[1], how[2], filters) : how \in {<<"best", 1>>, <<"best", 2>>, <<"worst", 1>>, <<"all", 0>>},
     filters \in {<<>>, <<Bound("hmin", 3)>>, <<Bound("hmin", 5)>>, <<Bound("hmax", 3)>>,
                  <<Bound("hmax", 1)>>, <<Bound("hmax", 2), Bound("bwmin", 6)>>}} \union {NoneOfIt}
Selections ==
  {[Input(Body("m3u", Offered(heights, group, sound) \o extra))
     EXCEPT !.ve = ve, !.ae = ae,
            !.media = [u \in {Resolve(<<"base">>, r) : r \in {"v1", "v2", "v3", "a1", "a2", "a3", "s1"}} |-> Behind1]] :
     heights \in {<<2, 4>>, <<4, 2>>, <<4, 4>>, <<0, 4>>, <<2, 0>>}, group \in {"g", "q"}, sound \in {{}, {"mp4a"}},
     extra \in Sounds, ve \in Expressions, ae \in {<<>>, <<Expr("best", 1, <<Matches("lang", {"en"}, FALSE)>>)>>}}

--------------------------------------------------------------------------------
(* Files, pages, and encrypted media.                                      *)
Files ==
  {[Input(Body("", <<>>)) EXCEPT !.answer = answer, !.size = size, !.probe =
      [err |-> FALSE, status |-> status, range |-> Bytes(0, 0), total |-> size]] :
     answer \in {Binary, [Binary EXCEPT !.text = TRUE, !.attachment = TRUE]},
     size \in {None} \union 0 .. 40, status \in {200, 206}}
Pages ==
  {[Input(Body("", <<>>)) EXCEPT !.answer = [Text EXCEPT !.manifest = FALSE, !.html = TRUE], !.page = page,
                                 !.local = local] :
     local \in BOOLEAN, page \in {<<>>, <<Body("m3u", Behind1)>>}}

Given == {Nothing, [kid \in {"k1"} |-> "k"], [kid \in {"zero"} |-> "k"],
          [kid \in {"zero", "k9"} |-> "x"], [kid \in {"k9"} |-> "x"]}
Encrypted ==
  {[Input(Body("m3u", <<Target, Line("sequence", seq)>> \o head \o <<key, Uri("x")>> \o more \o <<Line("endlist", 0)>>))
     EXCEPT !.keys = keys, !.tenc = tenc, !.bbts = bbts,
            !.served = [u \in {"kms"} |-> answer]] :
     seq \in {0, 7}, head \in {<<>>, <<Map>>}, more \in {<<>>, <<Uri("y")>>},
     key \in {AES(None), AES(9), Sample("kms"), Sample("skd"), Widevine(FALSE), Widevine(TRUE), Clear},
     keys \in Given, tenc \in {"", "k1"}, bbts \in {"", "b"}, answer \in {"", "k"}}

Everything ==
  <<Timelines, Counted9, Edges, Films, Mixed, Indexed, Smooths, Bare, Lists, Masters, Selections, Files, Pages, Encrypted>>
================================================================================
