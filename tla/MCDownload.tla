----------------------------- MODULE MCDownload -----------------------------
(* Two processes over one directory: a video in two sizes and a playlist   *)
(* that ranks above them, and a status with two pictures, one of a link    *)
(* without extension.                                                      *)
EXTENDS Download, TLC

CONSTANTS p1, p2

L(name, ext) == [name |-> name, https |-> TRUE, playlist |-> FALSE, ext |-> ext, tier |-> "none"]
Large   == L("large", ".mp4")
Small   == L("small", ".mp4")
Index   == [L("index", NoExt) EXCEPT !.playlist = TRUE]
Stream  == L("stream", NoExt)
Picture == [L("picture", ".jpg") EXCEPT !.tier = "high"]
Bare    == L("bare", NoExt)
Plain   == [L("plain", ".jpg") EXCEPT !.https = FALSE]
MCLinks == {Large, Small, Index, Stream, Picture, Bare, Plain}

Item(type, url) == [type |-> type, url |-> url, thumb |-> NoLink, variants |-> <<>>, info |-> <<>>]
Tweet(items)    == [tweet |-> <<items>>, text |-> FALSE, top |-> <<>>]
Video == [Item("video", Large) EXCEPT
            !.thumb = Picture,
            !.variants = <<Variant(Index, 3, FALSE), Variant(Small, 1, FALSE),
                           Variant(Large, 2, FALSE), Variant(Stream, 0, TRUE)>>]
Button(label, href, direct, poster) ==
    [label |-> label, suffix |-> "none", download |-> TRUE, href |-> href, direct |-> direct,
     height |-> 0, poster |-> poster]

MCAnswers ==
    [fx     |-> {Tweet(<<Video>>), Tweet(<<Item("image", Picture), Item("image", Bare)>>)},
     xdown  |-> {[ok |-> TRUE, buttons |-> <<Button("video", Stream, Large, FALSE),
                                             Button("image", Picture, NoLink, TRUE),
                                             Button("none", Bare, NoLink, FALSE)>>]},
     nitter |-> {[media |-> <<[kind |-> "image", url |-> Plain]>>]}]

R(id)   == [id |-> id, user |-> ""]
Default == [command |-> "download", mode |-> "ndjson", refs |-> <<R("5")>>,
            strategies |-> <<"fx">>, quality |-> "high", kind |-> "any", onExists |-> "refuse",
            filename |-> {"id", "seq"}, directory |-> {}, everything |-> FALSE]
Cleans  == [Default EXCEPT !.command = "clean", !.refs = <<>>]

Both(first, second) == p1 :> first @@ p2 :> second

MCBatches ==
    {Both(Default, Default),
     Both([Default EXCEPT !.filename = {"id"}, !.directory = {"text"}, !.mode = "json"],
          [Cleans EXCEPT !.everything = TRUE]),
     Both([Default EXCEPT !.onExists = "skip", !.kind = "image"],
          [Default EXCEPT !.onExists = "overwrite", !.strategies = <<"xdown", "nitter">>]),
     Both([Default EXCEPT !.strategies = <<"xdown">>, !.kind = "cover", !.directory = {"kind"}],
          [Default EXCEPT !.command = "media", !.refs = <<R("5"), R("6")>>]),
     Both([Default EXCEPT !.quality = "low", !.filename = {"user"}, !.mode = "human",
                          !.refs = <<R("5"), R("5")>>],
          Cleans)}

Name(seq, ext) == [id |-> "5", seq |-> seq, user |-> "", kind |-> "", text |-> FALSE,
                   ext |-> ext, nth |-> 1]
MCOldFiles == {Path([id |-> "", user |-> "", kind |-> "", text |-> FALSE], Name(2, ".jpg"))}
=============================================================================
