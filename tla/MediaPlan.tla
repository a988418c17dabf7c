----------------------------- MODULE MediaPlan ------------------------------
(***************************************************************************)
(* Media of a status (internal/media): what each strategy makes of its     *)
(* service's answer, and which files a download plans from it.             *)
(***************************************************************************)
EXTENDS Positions

CONSTANTS
    Links,      \* the links of the services
    NoLink,     \* the empty link
    Exts,       \* file extensions
    NoExt       \* none

Qualities == {"high", "medium", "low"}
Kinds     == {"image", "video", "gif"}

(* A link as far as the code looks at it; tier is "none" unless it is an   *)
(* image of pbs.twimg.com.                                                 *)
LinkType == [name : STRING, https : BOOLEAN, playlist : BOOLEAN,
             ext : Exts \cup {NoExt}, tier : Qualities \cup {"none"}]

ASSUME MediaAssumption ==
    /\ Links \subseteq LinkType
    /\ NoLink \notin LinkType
    /\ NoExt \notin Exts

LinkOrNone == LinkType \cup {NoLink}

Https(link) == link # NoLink /\ link.https

Playlist(link) == link # NoLink /\ link.playlist

RewritePBSTier(link, quality) ==
    IF link = NoLink \/ link.tier = "none" THEN link ELSE [link EXCEPT !.tier = quality]

-----------------------------------------------------------------------------
(* An entry of the media of a status: its own link, the encodings it comes *)
(* in, another link to the same, its cover, the height its label gives,    *)
(* and whether it is the picture a page shows for its video.  hls is a     *)
(* variant that its content type calls a playlist.                         *)
Variant(url, bitrate, hls) == [url |-> url, bitrate |-> bitrate, hls |-> hls]

Entry(kind, url, variants, fallback, cover, bitrate) ==
    [kind |-> kind, url |-> url, variants |-> variants, fallback |-> fallback,
     cover |-> cover, bitrate |-> bitrate, poster |-> FALSE]

VariantType == [url : LinkOrNone, bitrate : Int, hls : BOOLEAN]

EntryType(links) ==
    [kind : Kinds, url : links, variants : Seq(VariantType), fallback : LinkOrNone,
     cover : LinkOrNone, bitrate : Int, poster : BOOLEAN]

Moving(entry) == entry.kind \in {"video", "gif"}

(* The first entry for each link, as the sets called seen do it. *)
FirstOfEach(entries) ==
    Keep(entries, {i \in DOMAIN entries : \A j \in 1..(i - 1) : entries[j].url # entries[i].url})

(* selectVariant: of equals, high takes the last and the others the first; *)
(* a bitrate of 0 is unknown and counts only when all are.                 *)
SelectVariant(variants, quality) ==
    LET known    == {i \in DOMAIN variants : variants[i].bitrate > 0}
        Below(b) == Cardinality({j \in known : variants[j].bitrate < b})
        middle   == Cardinality(known) \div 2
        Wanted(i) ==
            IF quality = "low"
            THEN Below(variants[i].bitrate) = 0
            ELSE /\ Below(variants[i].bitrate) =< middle
                 /\ Below(variants[i].bitrate + 1) > middle
    IN  IF quality = "high" \/ known = {}
        THEN variants[CHOOSE i \in DOMAIN variants :
                        \A j \in DOMAIN variants :
                            \/ variants[j].bitrate < variants[i].bitrate
                            \/ variants[j].bitrate = variants[i].bitrate /\ j =< i]
        ELSE variants[CHOOSE i \in known :
                        Wanted(i) /\ \A j \in known : Wanted(j) => i =< j]

(* A moving entry whose variants all lack https falls back to its link. *)
Project(entry, quality) ==
    LET pool == Only(entry.variants, LAMBDA v : Https(v.url))
        main == SelectVariant(pool, quality).url
        top  == SelectVariant(pool, "high").url
    IN  IF ~Moving(entry)
        THEN [entry EXCEPT !.url = RewritePBSTier(@, quality)]
        ELSE IF pool = <<>>
        THEN [entry EXCEPT !.variants = <<>>]
        ELSE [entry EXCEPT !.url = main, !.variants = pool,
                           !.fallback = IF top # main THEN top ELSE @]

Finalize(entries, quality) ==
    FirstOfEach(Only([i \in DOMAIN entries |-> Project(entries[i], quality)],
                   LAMBDA m : Https(m.url)))

-----------------------------------------------------------------------------
(* The strategies.  An answer that cannot be decoded is a fault instead.   *)
Strategies == {"fx", "nitter", "xdown"}

(* What a service may answer with.                                         *)
FxItems == Seq([type : Kinds, url : LinkOrNone, thumb : LinkOrNone,
                variants : Seq(VariantType), info : Seq(VariantType)])

AnswerType ==
    [fx     |-> [tweet : Seq(FxItems), text : BOOLEAN, top : FxItems],
     nitter |-> [media : Seq([kind : Kinds, url : LinkOrNone])],
     xdown  |-> [ok : BOOLEAN,
                 buttons : Seq([label : Kinds \cup {"none"}, suffix : Kinds \cup {"none"},
                                download : BOOLEAN, href : LinkOrNone, direct : LinkOrNone,
                                height : Int, poster : BOOLEAN])]]

(* The items of fxtwitter: variants of their own, or in video_info. *)
FxCandidates(items) ==
    [i \in DOMAIN items |->
        LET item == items[i]
            url  == IF item.url # NoLink THEN item.url ELSE item.thumb
            all  == IF item.variants = <<>> THEN item.info ELSE item.variants
        IN  IF item.type = "image"
            THEN Entry("image", url, <<>>, NoLink, NoLink, 0)
            ELSE Entry(item.type, url, Only(all, LAMBDA v : v.url # NoLink), NoLink,
                       IF Https(item.thumb) THEN item.thumb ELSE NoLink, 0)]

(* The media of its tweet object; without one, those beside a text. *)
ResolveFx(body, quality) ==
    Finalize(FxCandidates(IF body.tweet # <<>> THEN body.tweet[1]
                          ELSE IF body.text THEN body.top ELSE <<>>),
             quality)

(* The status page of the user's own instance: http links stay. *)
ResolveNitter(body, quality) ==
    FirstOfEach(Only([i \in DOMAIN body.media |->
                       LET m == body.media[i]
                       IN  Entry(m.kind,
                                 IF m.kind = "image" THEN RewritePBSTier(m.url, quality) ELSE m.url,
                                 <<>>, NoLink, NoLink, 0)],
                   LAMBDA m : m.url # NoLink))

(* The buttons of xdown: one of a kind that neither its label nor its      *)
(* suffix gives is dropped.  The link inside the token comes first.        *)
XdownDetectKind(button) == IF button.label # "none" THEN button.label ELSE button.suffix

XdownCandidates(buttons) ==
    LET shown == Only(buttons, LAMBDA b : /\ b.download
                                          /\ b.href # NoLink
                                          /\ XdownDetectKind(b) # "none")
    IN  [i \in DOMAIN shown |->
            LET b == shown[i]
                e == IF Https(b.direct)
                     THEN Entry(XdownDetectKind(b), b.direct, <<>>, b.href, NoLink, b.height)
                     ELSE Entry(XdownDetectKind(b), b.href, <<>>, NoLink, NoLink, b.height)
            IN  [e EXCEPT !.poster = b.poster]]

ApplyXdownCover(entries) ==
    LET posters == Only(entries, LAMBDA m : m.poster /\ ~Moving(m))
    IN  [i \in DOMAIN entries |->
            IF posters # <<>> /\ Moving(entries[i])
            THEN [entries[i] EXCEPT !.cover = posters[1].url] ELSE entries[i]]

ResolveXdown(body, quality) ==
    IF body.ok
    THEN ApplyXdownCover(Finalize(XdownCandidates(body.buttons), quality))
    ELSE <<>>

ResolveOne(strategy, body, quality) ==
    CASE strategy = "fx"     -> ResolveFx(body, quality)
      [] strategy = "nitter" -> ResolveNitter(body, quality)
      [] strategy = "xdown"  -> ResolveXdown(body, quality)

-----------------------------------------------------------------------------
(* PlanDownload.  A planned file is the links to try, in order. *)
FileType == [kind : Kinds \cup {"cover"}, ext : Exts \cup {NoExt}, chain : Seq(LinkType)]

File(kind, chain) == [kind |-> kind, ext |-> chain[1].ext, chain |-> chain]

NoPlan       == [ok |-> FALSE, files |-> <<>>]
Plan(files)  == [ok |-> TRUE, files |-> files]

FallbackChain(main, fallback) ==
    IF fallback \in {NoLink, main} \/ Playlist(fallback) THEN <<main>> ELSE <<main, fallback>>

PlanCover(entries) ==
    LET covers == Only(entries, LAMBDA m : Moving(m) /\ m.cover # NoLink)
    IN  IF covers = <<>> THEN NoPlan ELSE Plan(<<File("cover", <<covers[1].cover>>)>>)

PlanImages(entries) ==
    LET images == Only(entries, LAMBDA m : ~Moving(m))
    IN  [i \in DOMAIN images |->
            File("image", FallbackChain(images[i].url, images[i].fallback))]

(* The links of a moving entry that can be downloaded: its variants, or    *)
(* the entry itself when it has none.  A playlist is not one.              *)
Downloads(entry) ==
    LET own == Variant(entry.url, entry.bitrate, FALSE)
        all == IF entry.variants # <<>> THEN entry.variants ELSE <<own>>
        ok  == Only(all, LAMBDA v : v.url # NoLink /\ ~v.hls /\ ~Playlist(v.url))
    IN  [i \in DOMAIN ok |->
            Entry(entry.kind, ok[i].url, <<>>, entry.fallback, NoLink, ok[i].bitrate)]

VideoPool(entries) ==
    LET moving == Only(entries, Moving)
    IN  FirstOfEach(Joined([i \in DOMAIN moving |-> Downloads(moving[i])]))

DescendingByRank(pool) ==
    LET Before(i, j) == \/ pool[i].bitrate > pool[j].bitrate
                        \/ pool[i].bitrate = pool[j].bitrate /\ i =< j
    IN  [k \in DOMAIN pool |->
            pool[CHOOSE i \in DOMAIN pool :
                    Cardinality({j \in DOMAIN pool : Before(j, i)}) = k]]

PlanConvergedShort(pool, quality) ==        \* Faulty variant.
    LET winner == SelectVariant(pool, quality)
    IN  File(winner.kind, FallbackChain(winner.url, winner.fallback))

(* One file for all of it: the winner, its own fallback, and then the rest *)
(* from the highest rank down.                                             *)
PlanConverged(pool, quality) ==
    LET winner == SelectVariant(pool, quality)
        first  == FallbackChain(winner.url, winner.fallback)
        rest   == Only(DescendingByRank(pool), LAMBDA c : c.url \notin Range(first))
    IN  File(winner.kind, first \o [i \in DOMAIN rest |-> rest[i].url])

(* kind filters the entries first; what it leaves nothing of is an empty   *)
(* plan and no error.  A video that is only a playlist is refused.         *)
PlanDownload(entries, quality, kind) ==
    LET left == IF kind = "any" THEN entries ELSE Only(entries, LAMBDA m : m.kind = kind)
        pool == VideoPool(left)
    IN  IF entries = <<>> THEN NoPlan
        ELSE IF kind = "cover" THEN PlanCover(entries)
        ELSE IF pool # <<>> THEN Plan(<<PlanConverged(pool, quality)>>)
        ELSE IF \E i \in DOMAIN left : Moving(left[i]) THEN NoPlan
        ELSE Plan(PlanImages(left))
=============================================================================
