------------------------------ MODULE Stickers ------------------------------
(***************************************************************************)
(* Sticker and emoji packs between two devices: making, serving, fetching, *)
(* installing and removing packs, items pushed with a text or fetched on a *)
(* miss, the RAM buffers of chunked transfers, the quotas and the sweep.   *)
(*   src/crates/core/src/stickers, src/crates/core/src/store/sticker*.rs,  *)
(*   src/crates/wire-types/src/sticker.rs, src/crates/core/src/media       *)
(*                                                                         *)
(* An item is its number, which stands for its bytes and their hash; a     *)
(* chunk of a document also carries the number of the signature made when  *)
(* it was served, since a signature is random and the rest is not.  The    *)
(* envelopes are the ones Delivery carries: each arrives at most once, in  *)
(* any order.  ACK is left out: its handler does nothing.                  *)
(***************************************************************************)
EXTENDS Media, FiniteSetsExt, Functions

CONSTANTS
  Devices,         \* the two devices
  Packs,           \* Packs[p]: the document of pack p, its maker and its size
  Items,           \* Items[i]: pack, kind, width, height and bytes of item i
  MaxPacksTotal, MaxPacksPerSender, MaxCachedPacks,  \* device quotas
  MaxPending,      \* MAX_PENDING_ITEMS, MAX_PENDING_PACKS
  MaxCacheEntries, ServesPerDay,
  ChunkTtl, CacheTtl, Day,  \* PENDING_CHUNK_TTL_SEC, CACHE_TTL_SEC, a day, in ticks
  MaxOps,          \* bound: what the users do
  MaxMishaps,      \* bound: losses, deaths, burns and ticks
  MaxNow           \* bound: the clock

VARIABLES
  db,       \* db[d]: the tables packs, items, keys, cache and serves
  pend,     \* pend[d]: PendingBuffers
  net,      \* envelopes on the way
  now, ops, mishaps,
  wants,    \* history: what a device asked for and has not been answered
  calm,     \* history: nothing was lost, dropped, cleared or mixed
  torn,     \* history: devices that died between two statements
  made      \* history: pack ids are random, none is made twice

stickers == <<db, pend, net, now, ops, mishaps, wants, calm, torn, made>>

Empty == [x \in {} |-> {}]
Other(d) == CHOOSE e \in Devices : e # d
Put(f, x, v) == [y \in DOMAIN f \cup {x} |-> IF y = x THEN v ELSE f[y]]
Drop(f, S) == [x \in DOMAIN f \ S |-> f[x]]
ItemsOf(p) == {i \in DOMAIN Items : Items[i].pack = p}
PackOf(i) == Items[i].pack

-----------------------------------------------------------------------------
(* What both sides refuse *)

\* The chunks that hold some of the signature, the last bytes of the document.
SigChunks(bytes) == ((bytes - SigBytes) \div ChunkMax) .. ((bytes - 1) \div ChunkMax)

\* StickerPackDoc::body_bytes refuses what fails these.
BodyBytesOk(p) ==
  /\ Packs[p].titleBytes <= 4 * MaxTitleChars
  /\ Cardinality(ItemsOf(p)) \in 1 .. MaxItems(Packs[p].kind)
  /\ \A i \in ItemsOf(p) : ItemOk(Packs[p].kind, Items[i].w, Items[i].h, Items[i].bytes)

\* What decode_signed requires of a document besides its signature.
Readable(p) ==
  /\ Packs[p].bytes <= MaxPackDocBytes
  /\ Packs[p].titleBytes <= 4 * MaxTitleChars /\ Packs[p].titleChars <= MaxTitleChars
  /\ Cardinality(ItemsOf(p)) \in 1 .. MaxItems(Packs[p].kind)
  /\ \A i \in ItemsOf(p) : ItemOk(Packs[p].kind, Items[i].w, Items[i].h, Items[i].bytes)
  /\ Packs[p].icon \in ItemsOf(p)

\* StickerPackDoc::decode_signed of the chunks that carry the signatures sigs.
DecodeSignedOk(p, sigs) == Readable(p) /\ Cardinality(sigs) = 1

\* StickerItem::validate, on both sides.
StickerItemOk(i, inline) ==
  /\ AspectOk(Items[i].kind, Items[i].w, Items[i].h)
  /\ Longer(Items[i].w, Items[i].h) <= MaxEdge(Items[i].kind)
  /\ inline => Items[i].bytes \in 1 .. MaxBytes(Items[i].kind)

\* PackRef::decode_from: a trailer that fails is dropped, not the chunk.
PackRefOk(i) == AspectOk(Items[i].kind, Items[i].w, Items[i].h)

\* StickerThumbsDoc::encode and ::decode: only the reader counts characters.
ThumbsEncodeOk(p) == Packs[p].titleBytes <= 4 * MaxTitleChars /\ Packs[p].thumbs <= MaxThumbsDocBytes
ThumbsDecodeOk(p) == ThumbsEncodeOk(p) /\ Packs[p].titleChars <= MaxTitleChars

\* The two devices, and sizes in bytes.
ASSUME DevicesAssumption == "" \notin Devices /\ \E a, b \in Devices : a # b /\ Devices = {a, b}
ASSUME SizesAssumption ==
  /\ \A i \in DOMAIN Items : Items[i].bytes \in Nat /\ Items[i].pack \in DOMAIN Packs
  /\ \A p \in DOMAIN Packs : Packs[p].bytes \in Nat /\ Packs[p].thumbs \in Nat

\* The documents that are considered can be read.  body_bytes leaves that to its
\* caller: only the reader counts the characters of a title and looks for the icon.
ASSUME DocumentsAssumption ==
  \A p \in DOMAIN Packs : /\ BodyBytesOk(p) => Readable(p)
                          /\ ThumbsEncodeOk(p) => ThumbsDecodeOk(p)

-----------------------------------------------------------------------------
(* The tables *)

PackKnown(d, p) == p \in DOMAIN db[d].packs

\* have_item: an installed pack or the loose cache.
HaveItem(d, i) == i \in db[d].items \/ i \in DOMAIN db[d].cache

\* find_item: only from a pack whose row is there.
FindItem(d, i) == i \in db[d].items /\ PackKnown(d, PackOf(i))

Cached(t) == {p \in DOMAIN t.packs : t.packs[p].cached}

AdmitPack(t, from, cached) ==
  /\ Cardinality(DOMAIN t.packs) < MaxPacksTotal
  /\ from # "" => Cardinality({p \in DOMAIN t.packs : t.packs[p].from = from}) < MaxPacksPerSender
  /\ cached => Cardinality(Cached(t)) < MaxCachedPacks

CachePut(t, i) ==
  [t EXCEPT !.cache = IF i \in DOMAIN @ THEN @ ELSE Put(@, i, now)]

PutRow(t, p, from, cached) ==
  [t EXCEPT !.packs = Put(@, p, [cached |-> cached, from |-> from, used |-> now])]
DropRow(t, p) == [t EXCEPT !.packs = Drop(@, {p})]
DeleteItems(t, p) == [t EXCEPT !.items = @ \ ItemsOf(p)]
PutItems(t, S) == [t EXCEPT !.items = @ \cup S]
StorePackKey(t, p) == [t EXCEPT !.keys = @ \cup {p}]
DropPackKey(t, p) == [t EXCEPT !.keys = @ \ {p}]
LoadPackKey(d, p) == p \in db[d].keys

\* install_doc: the row, then the old items go, then the new ones come; and
\* what is there after one of the statements but the last.
Installed(t, p, from, cached) ==
  PutItems(DeleteItems(PutRow(t, p, from, cached), p), ItemsOf(p))
InstallCuts(t, p, from, cached) ==
  LET row == PutRow(t, p, from, cached) IN
  {row} \cup {PutItems(DeleteItems(row, p), {i \in ItemsOf(p) : i < next}) : next \in ItemsOf(p)}

\* create_pack: the key comes last.
Created(t, p) == StorePackKey(Installed(t, p, "", FALSE), p)
CreateCuts(t, p) == InstallCuts(t, p, "", FALSE) \cup {Installed(t, p, "", FALSE)}

\* As it would be if the items were left to the sweep.
Removed_Lazy(t, p) == DropPackKey(DropRow(t, p), p)

\* remove_pack: the row, the items, the key.
Removed(t, p) == DropPackKey(DeleteItems(DropRow(t, p), p), p)
RemoveCuts(t, p) == {DropRow(t, p), DeleteItems(DropRow(t, p), p)}

\* pack_document: only the maker can sign.
PackDocument(d, p) == PackKnown(d, p) /\ LoadPackKey(d, p)

-----------------------------------------------------------------------------
(* PendingBuffers: one buffer per content, whoever sends it *)

Counted(op, key) ==
  CASE op = "item" -> ChunkCount(Items[key].bytes)
    [] op = "pack" -> ChunkCount(Packs[key].bytes)
    [] op = "thumbs" -> ChunkCount(Packs[key].thumbs)

MaxChunks(op) ==
  CASE op = "item" -> MaxItemChunks [] op = "pack" -> MaxPackChunks [] op = "thumbs" -> MaxThumbsChunks

\* StickerCtrl::decode_payload of a chunk.
CtrlOk(m) == PlanOk(m.index, Counted(m.op, m.key), MaxChunks(m.op))

Buffered(d, m) == <<m.op, m.key>> \in DOMAIN pend[d]
Got(d, m) == IF Buffered(d, m) THEN pend[d][<<m.op, m.key>>].got ELSE Empty

\* admit: a new transfer needs a free place among its own kind.
Admitted(d, m) ==
  \/ Buffered(d, m)
  \/ Cardinality({k \in DOMAIN pend[d] : k[1] = m.op}) < MaxPending

Fed(d, m) == IF m.index \in DOMAIN Got(d, m) THEN Got(d, m) ELSE Put(Got(d, m), m.index, m.n)
Completes(d, m) == Admitted(d, m) /\ DOMAIN Fed(d, m) = 0 .. (Counted(m.op, m.key) - 1)

\* feed_item, feed_pack and feed_thumbs: a chunk that is there already is
\* ignored, a finished transfer leaves.
Feed(d, m) ==
  CASE ~Admitted(d, m) -> pend[d]
    [] Completes(d, m) -> Drop(pend[d], {<<m.op, m.key>>})
    [] OTHER -> Put(pend[d], <<m.op, m.key>>,
                    [got |-> Fed(d, m),
                     at |-> IF Buffered(d, m) THEN pend[d][<<m.op, m.key>>].at ELSE now])

-----------------------------------------------------------------------------
(* What is sent *)

\* A number that tells this transfer from those on the way or buffered.
Fresh(to, op, key) ==
  LET inNet == {m.n : m \in {x \in net : x.to = to /\ x.op = op /\ x.key = key}}
      inRam == IF <<op, key>> \in DOMAIN pend[to]
                 THEN Range(pend[to][<<op, key>>].got) ELSE {}
  IN Min((0 .. Cardinality(inNet \cup inRam)) \ (inNet \cup inRam))

Envelope(to, op, key, index) ==
  [to |-> to, op |-> op, key |-> key, index |-> index, n |-> Fresh(to, op, key)]

\* serve_item, and the loops of answer_want_pack and answer_want_thumbs.
Bodies(to, op, key) == {Envelope(to, op, key, x) : x \in 0 .. (Counted(op, key) - 1)}

\* The history of what is asked, as long as all is calm.
Waiting(ok, S) == calm' = (calm /\ ok) /\ wants' = IF calm /\ ok THEN S ELSE {}

Asked(d, what, key) == [by |-> d, what |-> what, key |-> key]

StickersInit ==
  \E old \in SUBSET {p \in DOMAIN Packs : BodyBytesOk(p)} :  \* packs made before
    /\ db = [d \in Devices |->
               LET ours == {p \in old : Packs[p].maker = d} IN
               [packs |-> [p \in ours |-> [cached |-> FALSE, from |-> "", used |-> 0]],
                items |-> UNION {ItemsOf(p) : p \in ours}, keys |-> ours, cache |-> Empty,
                serves |-> [day |-> 0, count |-> 0]]]
    /\ pend = [d \in Devices |-> Empty]
    /\ net = {} /\ now = 0 /\ ops = 0 /\ mishaps = 0
    /\ wants = {} /\ calm = TRUE /\ torn = {} /\ made = old

\* What the user does.
Op == ops < MaxOps /\ ops' = ops + 1
Sends(ms) == Op /\ net' = net \cup ms

\* send_sticker: small items ride inline, larger ones by reference.
SendSticker(d, i) ==
  /\ FindItem(d, i)
  /\ StickerItemOk(i, Items[i].bytes <= InlineBytesMax)
  /\ Sends({Envelope(Other(d), "sticker", i, IF Items[i].bytes <= InlineBytesMax THEN 1 ELSE 0)})
  /\ UNCHANGED <<db, pend, now, mishaps, wants, calm, torn, made>>

\* send_text with the token of an item; push_inline_emoji sends the bodies.
SendToken(d, i) ==
  /\ PackOf(i) \in made
  /\ Sends({Envelope(Other(d), "text", i, 0)}
            \cup (IF FindItem(d, i) THEN Bodies(Other(d), "item", i) ELSE {}))
  /\ UNCHANGED <<db, pend, now, mishaps, wants, calm, torn, made>>

FetchPack(d, p) ==
  /\ p \in made
  /\ Sends({Envelope(Other(d), "wantpack", p, 0)})
  /\ Waiting(TRUE, wants \cup {Asked(d, "pack", p)})
  /\ UNCHANGED <<db, pend, now, mishaps, torn, made>>

FetchThumbs(d, p) ==
  /\ p \in made
  /\ Sends({Envelope(Other(d), "wantthumbs", p, 0)})
  /\ Waiting(TRUE, wants \cup {Asked(d, "thumbs", p)})
  /\ UNCHANGED <<db, pend, now, mishaps, torn, made>>

CreatePack(d, p) ==
  /\ Op /\ Packs[p].maker = d /\ p \notin made /\ made' = made \cup {p}
  /\ BodyBytesOk(p) /\ AdmitPack(db[d], "", FALSE)
  /\ db' = [db EXCEPT ![d] = Created(@, p)]
  /\ UNCHANGED <<pend, net, now, mishaps, wants, calm, torn>>

RemovePack(d, p) ==
  /\ Op /\ PackKnown(d, p)
  /\ db' = [db EXCEPT ![d] = Removed(@, p)]
  /\ UNCHANGED <<pend, net, now, mishaps, wants, calm, torn, made>>

-----------------------------------------------------------------------------
(* What is received: the handlers of on_sticker and on_sticker_ctrl *)

Takes(m, ms) == net' = (net \ {m}) \cup ms

WantItem(d, i) == {Envelope(Other(d), "wantitem", i, 0)}

\* on_sticker
ReceiveSticker(m) ==
  LET d == m.to IN
  /\ m.op = "sticker" /\ StickerItemOk(m.key, m.index = 1)
  /\ IF HaveItem(d, m.key) \/ m.index = 1
       THEN /\ Takes(m, {}) /\ Waiting(TRUE, wants)
            /\ db' = IF HaveItem(d, m.key) THEN db
                     ELSE [db EXCEPT ![d] = CachePut(@, m.key)]
       ELSE /\ Takes(m, WantItem(d, m.key))
            /\ Waiting(TRUE, wants \cup {Asked(d, "item", m.key)})
            /\ UNCHANGED db
  /\ UNCHANGED <<pend, now, ops, mishaps, torn, made>>

\* fetch_missing_emoji, within the rate of StickerFetch.
ReceiveText(m) ==
  LET d == m.to IN
  /\ m.op = "text"
  /\ \/ Takes(m, {}) /\ Waiting(TRUE, wants)
     \/ /\ ~HaveItem(d, m.key)
        /\ Takes(m, WantItem(d, m.key))
        /\ Waiting(TRUE, wants \cup {Asked(d, "item", m.key)})
  /\ UNCHANGED <<db, pend, now, ops, mishaps, torn, made>>

\* answer_want_item: nothing is said when the rate is used up or the item is
\* not there.
ReceiveWantItem(m) ==
  /\ m.op = "wantitem"
  /\ \/ Takes(m, {}) /\ Waiting(TRUE, wants \ {Asked(Other(m.to), "item", m.key)})
     \/ /\ FindItem(m.to, m.key)
        /\ Takes(m, Bodies(Other(m.to), "item", m.key)) /\ Waiting(TRUE, wants)
  /\ UNCHANGED <<db, pend, now, ops, mishaps, torn, made>>

\* ITEM_BODY: the last chunk puts the item in the cache, and a public pack
\* that is not known is fetched.
ReceiveItemBody(m) ==
  LET d == m.to
      p == PackOf(m.key)
      fetch == PackRefOk(m.key) /\ Packs[p].public /\ ~PackKnown(d, p)
  IN
  /\ m.op = "item" /\ CtrlOk(m)
  /\ pend' = [pend EXCEPT ![d] = Feed(d, [m EXCEPT !.n = 0])]
  /\ IF Completes(d, m)
       THEN /\ db' = IF HaveItem(d, m.key) THEN db
                     ELSE [db EXCEPT ![d] = CachePut(@, m.key)]
            /\ Takes(m, IF fetch THEN {Envelope(Other(d), "wantpack", p, 0)} ELSE {})
            /\ Waiting(TRUE, (wants \ {Asked(d, "item", m.key)})
                       \cup (IF fetch THEN {Asked(d, "pack", p)} ELSE {}))
       ELSE Takes(m, {}) /\ UNCHANGED db /\ Waiting(Admitted(d, m), wants)
  /\ UNCHANGED <<now, ops, mishaps, torn, made>>

\* note_pack_serve
Serves(d) == LET s == db[d].serves IN
  [day |-> now \div Day, count |-> IF s.day = now \div Day THEN s.count + 1 ELSE 1]

\* As it would be if what is not the maker's were passed over in silence.
ReceiveWantPack_Silent(m) ==
  LET d == m.to
      noted == PackKnown(d, m.key) /\ Packs[m.key].public
      served == noted /\ Serves(d).count <= ServesPerDay /\ PackDocument(d, m.key)
  IN
  /\ m.op = "wantpack"
  /\ db' = IF noted THEN [db EXCEPT ![d].serves = Serves(d)] ELSE db
  /\ Takes(m, IF served THEN Bodies(Other(d), "pack", m.key)
              ELSE IF PackDocument(d, m.key) THEN {Envelope(Other(d), "refused", m.key, 0)} ELSE {})
  /\ UNCHANGED <<pend, now, ops, mishaps, wants, calm, torn, made>>

\* answer_want_pack: the document, or a refusal: unknown, private, over the
\* quota, or not ours to sign.
ReceiveWantPack(m) ==
  LET d == m.to
      noted == PackKnown(d, m.key) /\ Packs[m.key].public
      served == noted /\ Serves(d).count <= ServesPerDay /\ PackDocument(d, m.key)
  IN
  /\ m.op = "wantpack"
  /\ db' = IF noted THEN [db EXCEPT ![d].serves = Serves(d)] ELSE db
  /\ Takes(m, IF served THEN Bodies(Other(d), "pack", m.key)
              ELSE {Envelope(Other(d), "refused", m.key, 0)})
  /\ UNCHANGED <<pend, now, ops, mishaps, wants, calm, torn, made>>

Sigs(d, m) == {Fed(d, m)[x] : x \in SigChunks(Packs[m.key].bytes)}

\* PACK_BODY: the last chunk verifies and installs; what fails is logged.
ReceivePackBody(m) ==
  LET d == m.to
      good == Completes(d, m) /\ DecodeSignedOk(m.key, Sigs(d, m))
      room == AdmitPack(db[d], Other(d), TRUE)
      got == IF room THEN {Asked(d, "item", i) : i \in ItemsOf(m.key)} ELSE {}
  IN
  /\ m.op = "pack" /\ CtrlOk(m)
  /\ pend' = [pend EXCEPT ![d] = Feed(d, m)]
  /\ Takes(m, {})
  /\ db' = IF good /\ room
             THEN [db EXCEPT ![d] = Installed(@, m.key, Other(d), TRUE)] ELSE db
  /\ Waiting(Admitted(d, m) /\ (Completes(d, m) => Cardinality(Sigs(d, m)) = 1),
             IF good THEN wants \ (got \cup {Asked(d, "pack", m.key)}) ELSE wants)
  /\ UNCHANGED <<now, ops, mishaps, torn, made>>

ReceiveRefused(m) ==
  /\ m.op = "refused" /\ Takes(m, {})
  /\ Waiting(TRUE, wants \ {Asked(m.to, "pack", m.key)})
  /\ UNCHANGED <<db, pend, now, ops, mishaps, torn, made>>

\* answer_want_thumbs: silent when limited, unknown, private or without any
\* thumbnail.
ReceiveWantThumbs(m) ==
  /\ m.op = "wantthumbs"
  /\ \/ Takes(m, {}) /\ Waiting(TRUE, wants \ {Asked(Other(m.to), "thumbs", m.key)})
     \/ /\ PackKnown(m.to, m.key) /\ Packs[m.key].public /\ ThumbsEncodeOk(m.key)
        /\ Takes(m, Bodies(Other(m.to), "thumbs", m.key)) /\ Waiting(TRUE, wants)
  /\ UNCHANGED <<db, pend, now, ops, mishaps, torn, made>>

ReceiveThumbsBody(m) ==
  /\ m.op = "thumbs" /\ CtrlOk(m)
  /\ pend' = [pend EXCEPT ![m.to] = Feed(m.to, [m EXCEPT !.n = 0])]
  /\ Takes(m, {})
  /\ Waiting(Admitted(m.to, m), IF Completes(m.to, m) /\ ThumbsDecodeOk(m.key)
                                 THEN wants \ {Asked(m.to, "thumbs", m.key)} ELSE wants)
  /\ UNCHANGED <<db, now, ops, mishaps, torn, made>>

-----------------------------------------------------------------------------
(* Upkeep and mishaps *)

Tick == /\ now < MaxNow /\ now' = now + 1
        /\ mishaps < MaxMishaps /\ mishaps' = mishaps + 1
        /\ UNCHANGED <<db, pend, net, ops, wants, calm, torn, made>>

\* The n members of S with the latest times at, ties broken either way.
Newest(S, at, n) ==
  {keep \in SUBSET S : /\ Cardinality(keep) = IF Cardinality(S) < n THEN Cardinality(S) ELSE n
                       /\ \A x \in keep, y \in S \ keep : at[x] >= at[y]}

Horizon == IF now > CacheTtl THEN now - CacheTtl ELSE 0

Outdated(t) == {p \in Cached(t) : t.packs[p].used < Horizon}

\* sweep_cache on the tables t, keeping the loose items and packs chosen.
SweptTables(t, loose, cached) ==
  LET packs == Drop(t.packs, Outdated(t) \cup ((Cached(t) \ Outdated(t)) \ cached)) IN
  [t EXCEPT !.cache = Drop(@, DOMAIN @ \ loose),
            !.packs = packs,
            !.items = {i \in @ : PackOf(i) \in DOMAIN packs}]

\* PendingBuffers::sweep and sweep_cache.
SweepStickers(d) ==
  LET t == db[d]
      stale == {k \in DOMAIN pend[d] : now >= pend[d][k].at + ChunkTtl}
      live == {i \in DOMAIN t.cache : t.cache[i] >= Horizon}
      used == [p \in DOMAIN t.packs |-> t.packs[p].used]
  IN
  /\ \E loose \in Newest(live, t.cache, MaxCacheEntries),
        cached \in Newest(Cached(t) \ Outdated(t), used, MaxCachedPacks) :
       db' = [db EXCEPT ![d] = SweptTables(t, loose, cached)]
  /\ pend' = [pend EXCEPT ![d] = Drop(@, stale)]
  /\ Waiting(stale = {}, wants)
  /\ UNCHANGED <<net, now, ops, mishaps, torn, made>>

Mishap == /\ mishaps < MaxMishaps /\ mishaps' = mishaps + 1
          /\ calm' = FALSE /\ wants' = {} /\ UNCHANGED <<now, ops>>

\* Delivery gave up on an envelope.
Lose(m) == /\ Mishap /\ net' = net \ {m} /\ UNCHANGED <<db, pend, torn, made>>

\* PendingBuffers::forget when any relationship is burned, and a restart.
Forget(d) == /\ Mishap /\ pend[d] # Empty /\ pend' = [pend EXCEPT ![d] = Empty]
             /\ UNCHANGED <<db, net, torn, made>>

\* The process dies after one of the statements but the last.
DiesIn(d, cuts) ==
  /\ Mishap
  /\ \E t \in cuts : db' = [db EXCEPT ![d] = t]
  /\ pend' = [pend EXCEPT ![d] = Empty]
  /\ torn' = torn \cup {d}

DieCreating(d, p) ==
  /\ Packs[p].maker = d /\ p \notin made /\ made' = made \cup {p}
  /\ BodyBytesOk(p) /\ AdmitPack(db[d], "", FALSE)
  /\ DiesIn(d, CreateCuts(db[d], p)) /\ UNCHANGED net

DieRemoving(d, p) ==
  PackKnown(d, p) /\ DiesIn(d, RemoveCuts(db[d], p)) /\ UNCHANGED <<net, made>>

\* The envelope was noted before its handler ran.
DieInstalling(m) ==
  LET d == m.to IN
  /\ m.op = "pack" /\ Completes(d, m) /\ DecodeSignedOk(m.key, Sigs(d, m))
  /\ AdmitPack(db[d], Other(d), TRUE)
  /\ DiesIn(d, InstallCuts(db[d], m.key, Other(d), TRUE))
  /\ Takes(m, {}) /\ UNCHANGED made

StickersNext ==
  \/ \E d \in Devices :
       \/ \E i \in DOMAIN Items : SendSticker(d, i) \/ SendToken(d, i)
       \/ \E p \in DOMAIN Packs : \/ CreatePack(d, p) \/ RemovePack(d, p)
                                  \/ FetchPack(d, p) \/ FetchThumbs(d, p)
                                  \/ DieCreating(d, p) \/ DieRemoving(d, p)
       \/ SweepStickers(d) \/ Forget(d)
  \/ \E m \in net :
       \/ ReceiveSticker(m) \/ ReceiveText(m) \/ ReceiveWantItem(m) \/ ReceiveItemBody(m)
       \/ ReceiveWantPack(m) \/ ReceivePackBody(m) \/ ReceiveRefused(m)
       \/ ReceiveWantThumbs(m) \/ ReceiveThumbsBody(m)
       \/ Lose(m) \/ DieInstalling(m)
  \/ Tick

StickersSpec == StickersInit /\ [][StickersNext]_stickers

-----------------------------------------------------------------------------
(* Properties *)

(* Nobody waits for nothing: once every envelope has been handled, each    *)
(* item, pack or preview a device asked for came, was refused, or met a    *)
(* documented silence, however the chunks of several transfers of the same *)
(* content interleaved.  Excluded are lost envelopes, cleared or full      *)
(* buffers, and two documents mixed across a signature that lies on a      *)
(* chunk boundary (answer_want_pack, feed_pack, PackRefused).              *)
NeverAHang == net = {} /\ calm => wants = {}

(* A pack that is listed is whole: every item is there, and a pack of ours *)
(* can be signed; no item and no key is left without its pack.  Only a     *)
(* death between the statements of a create, an install or a removal       *)
(* breaks it (install_doc, create_pack, remove_pack, sweep_cache).         *)
PackIsWhole ==
  \A d \in Devices \ torn :
    /\ \A p \in DOMAIN db[d].packs :
         /\ ItemsOf(p) \subseteq db[d].items
         /\ db[d].packs[p].from = "" => p \in db[d].keys
    /\ \A i \in db[d].items : PackKnown(d, PackOf(i))
    /\ \A p \in db[d].keys : PackKnown(d, p)

=============================================================================
