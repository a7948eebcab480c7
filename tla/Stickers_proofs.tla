-------------------------- MODULE Stickers_proofs ---------------------------
(***************************************************************************)
(* The preparation of a sticker, for every size of the source, and the     *)
(* exchange of stickers, for any items, packs, limits and mishaps.         *)
(*                                                                         *)
(* That a prepared sticker passes the checks of the wire is arithmetic: the *)
(* shorter edge of a sticker at the limit 1:3 comes out at 512/3 = 170 2/3 *)
(* pixels, and rounds up.                                                  *)
(*                                                                         *)
(* NeverAHang speaks of the moments at which nothing is on its way.  The   *)
(* invariant says what pursues each thing that was asked for before that   *)
(* (Pursued), and that no buffer holds every chunk of its content.         *)
(* PackIsWhole is inductive once a key and a cached pack are told apart by *)
(* their maker (Own): sweep_cache would otherwise drop a pack of our own.  *)
(***************************************************************************)
EXTENDS Stickers, TLAPS

-----------------------------------------------------------------------------
(* The preparation of a sticker *)

\* A quotient is at least k when k divisors fit.
LEMMA DivLow ==
  ASSUME NEW a \in Nat, NEW b \in Nat, b > 0, NEW k \in Nat, k * b <= a
  PROVE  k <= a \div b
  OBVIOUS

\* A quotient is at most k when k + 1 divisors do not fit.
LEMMA DivHigh ==
  ASSUME NEW a \in Nat, NEW b \in Nat, b > 0, NEW k \in Nat, a < (k + 1) * b
  PROVE  a \div b <= k
  OBVIOUS

\* DynamicImage::resize never makes the shorter edge the longer one.
LEMMA ShrunkHigh ==
  ASSUME NEW short \in Nat, NEW long \in Nat, 0 < short, short <= long,
         NEW edge \in Nat
  PROVE  Shrunk(short, long, edge) \in Nat /\ Shrunk(short, long, edge) <= edge
  <1>1. 2 * short * edge + long \in Nat /\ 2 * long \in Nat /\ 2 * long > 0
    OBVIOUS
  <1>2. 2 * short * edge + long < (edge + 1) * (2 * long)
    <2>1. short * edge <= long * edge
      OBVIOUS
    <2> QED BY <2>1
  <1>3. (2 * short * edge + long) \div (2 * long) <= edge
    BY <1>1, <1>2, DivHigh
  <1>4. (2 * short * edge + long) \div (2 * long) \in Nat
    BY <1>1
  <1> QED BY <1>3, <1>4 DEF Shrunk

\* A source within 1:3 keeps at least 171 pixels of 512.
LEMMA ShrunkLow ==
  ASSUME NEW short \in Nat, NEW long \in Nat, 0 < short, short <= long, long <= 3 * short
  PROVE  171 <= Shrunk(short, long, 512)
  <1>1. 2 * short * 512 + long \in Nat /\ 2 * long \in Nat /\ 2 * long > 0
    OBVIOUS
  <1>2. 171 * (2 * long) <= 2 * short * 512 + long
    OBVIOUS
  <1> QED BY <1>1, <1>2, DivLow DEF Shrunk

\* A square stays one.
LEMMA ShrunkSquare ==
  ASSUME NEW side \in Nat, 0 < side
  PROVE  Shrunk(side, side, 160) = 160
  <1>1. 2 * side * 160 + side \in Nat /\ 2 * side \in Nat /\ 2 * side > 0
    OBVIOUS
  <1>2. 160 * (2 * side) <= 2 * side * 160 + side /\ 2 * side * 160 + side < (160 + 1) * (2 * side)
    OBVIOUS
  <1>3. 160 <= (2 * side * 160 + side) \div (2 * side)
    BY <1>1, <1>2, DivLow
  <1>4. (2 * side * 160 + side) \div (2 * side) <= 160
    BY <1>1, <1>2, DivHigh
  <1>5. (2 * side * 160 + side) \div (2 * side) \in Nat
    BY <1>1
  <1> QED BY <1>3, <1>4, <1>5 DEF Shrunk

\* fit_long_edge keeps what prepare_sticker tested.
LEMMA FitKeepsSize ==
  ASSUME NEW kind \in {KindEmoji, KindSticker}, NEW w \in Nat, NEW h \in Nat, AspectOk(kind, w, h)
  PROVE  LET size == FitLongEdge(w, h, MaxEdge(kind)) IN
           size[1] \in Nat /\ size[2] \in Nat /\ SizeOk(kind, size[1], size[2])
  <1> DEFINE size == FitLongEdge(w, h, MaxEdge(kind))
  <1>0. w > 0 /\ h > 0
    BY DEF AspectOk
  <1>1. CASE Longer(w, h) <= MaxEdge(kind)
    BY <1>1 DEF FitLongEdge, SizeOk
  <1>2. CASE ~(Longer(w, h) <= MaxEdge(kind)) /\ kind = KindEmoji
    <2>1. w = h /\ MaxEdge(kind) = 160
      BY <1>2 DEF AspectOk, MaxEdge, KindEmoji, KindSticker
    <2>2. Shrunk(h, w, 160) = 160
      BY <2>1, <1>0, ShrunkSquare
    <2>3. size = <<160, 160>>
      BY <1>2, <2>1, <2>2 DEF FitLongEdge, AtLeastOne
    <2> QED BY <2>1, <2>3, <1>2 DEF SizeOk, AspectOk, Longer
  <1>3. CASE ~(Longer(w, h) <= MaxEdge(kind)) /\ kind = KindSticker
    <2>1. w <= 3 * h /\ h <= 3 * w /\ MaxEdge(kind) = 512 /\ kind # KindEmoji
      BY <1>3 DEF AspectOk, MaxEdge, KindEmoji, KindSticker
    <2>2. CASE w >= h
      <3>0. h <= w /\ w <= 3 * h /\ 0 < h
        BY <2>1, <2>2, <1>0
      <3>a. 171 <= Shrunk(h, w, 512)
        BY <3>0, ShrunkLow
      <3>b. Shrunk(h, w, 512) \in Nat /\ Shrunk(h, w, 512) <= 512
        BY <3>0, ShrunkHigh
      <3>1. Shrunk(h, w, 512) \in 171 .. 512
        BY <3>a, <3>b
      <3>2. size = <<512, Shrunk(h, w, 512)>>
        BY <1>3, <2>1, <2>2, <3>1 DEF FitLongEdge, AtLeastOne
      <3> QED BY <2>1, <3>1, <3>2 DEF SizeOk, AspectOk, Longer
    <2>3. CASE ~(w >= h)
      <3>0. w <= h /\ h <= 3 * w /\ 0 < w
        BY <2>1, <2>3, <1>0
      <3>a. 171 <= Shrunk(w, h, 512)
        BY <3>0, ShrunkLow
      <3>b. Shrunk(w, h, 512) \in Nat /\ Shrunk(w, h, 512) <= 512
        BY <3>0, ShrunkHigh
      <3>1. Shrunk(w, h, 512) \in 171 .. 512
        BY <3>a, <3>b
      <3>2. size = <<Shrunk(w, h, 512), 512>>
        BY SMTT(60), <1>3, <2>1, <2>3, <3>1 DEF FitLongEdge, AtLeastOne
      <3> QED BY <2>1, <3>1, <3>2 DEF SizeOk, AspectOk, Longer
    <2> QED BY <2>2, <2>3
  <1> QED BY <1>1, <1>2, <1>3

\* What decodes has two edges.
LEMMA DecodesFacts ==
  ASSUME NEW w, NEW h, Decodes(w, h)
  PROVE  w \in Nat /\ h \in Nat /\ w > 0 /\ h > 0
  BY DEF Decodes

\* make_thumb stays within the edge of its rung.
LEMMA ThumbFits ==
  ASSUME NEW w \in Nat, NEW h \in Nat, w > 0, h > 0, NEW edge \in Nat, 1 <= edge, edge <= 96
  PROVE  /\ FitLongEdge(w, h, edge)[1] \in 1 .. 96
         /\ FitLongEdge(w, h, edge)[2] \in 1 .. 96
  <1>1. edge \in 1 .. 96
    OBVIOUS
  <1>2. CASE Longer(w, h) <= edge
    BY <1>1, <1>2 DEF FitLongEdge, Longer
  <1>3. CASE ~(Longer(w, h) <= edge) /\ w >= h
    <2>0. h <= w /\ 0 < h
      BY <1>3
    <2>1. Shrunk(h, w, edge) \in Nat /\ Shrunk(h, w, edge) <= edge
      BY <1>1, <2>0, ShrunkHigh
    <2>2. FitLongEdge(w, h, edge) = <<edge, AtLeastOne(Shrunk(h, w, edge))>>
      BY <1>3 DEF FitLongEdge
    <2>3. AtLeastOne(Shrunk(h, w, edge)) \in 1 .. 96
      BY <1>1, <2>1 DEF AtLeastOne
    <2> QED BY <1>1, <2>2, <2>3
  <1>4. CASE ~(Longer(w, h) <= edge) /\ ~(w >= h)
    <2>0. w <= h /\ 0 < w
      BY <1>4
    <2>1. Shrunk(w, h, edge) \in Nat /\ Shrunk(w, h, edge) <= edge
      BY <1>1, <2>0, ShrunkHigh
    <2>2. FitLongEdge(w, h, edge) = <<AtLeastOne(Shrunk(w, h, edge)), edge>>
      BY <1>4 DEF FitLongEdge
    <2>3. AtLeastOne(Shrunk(w, h, edge)) \in 1 .. 96
      BY <1>1, <2>1 DEF AtLeastOne
    <2> QED BY <1>1, <2>2, <2>3
  <1> QED BY <1>2, <1>3, <1>4

\* PreparedFits holds for images of every size: what prepare_sticker returns
\* is accepted by item_ok, and its thumbnail is within the thumbnail's edge.
THEOREM StickerFits == MediaSpec => []PreparedFits
  <1>1. MediaInit => PreparedFits
    BY DEF MediaInit, PreparedFits, Nothing
  <1>2. PreparedFits /\ [MediaNext]_prepared => PreparedFits'
    <2> SUFFICES ASSUME PreparedFits, [MediaNext]_prepared PROVE PreparedFits'
      OBVIOUS
    <2>1. CASE UNCHANGED prepared
      BY SMTT(60), <2>1 DEF PreparedFits
    <2>2. ASSUME NEW w \in Edges, NEW h \in Edges, NEW kind \in {KindEmoji, KindSticker},
                 NEW source \in MediaKind, NEW moves \in BOOLEAN, NEW fits \in BOOLEAN,
                 NEW rung \in Rungs(ThumbEdges),
                 PrepareSticker(kind, w, h, source, moves, fits, rung)
          PROVE  PreparedFits'
      <3> DEFINE animated == IsAnimated(source, moves)
                 size == IF animated THEN <<w, h>> ELSE FitLongEdge(w, h, MaxEdge(kind))
                 thumb == FitLongEdge(size[1], size[2], ThumbEdges[rung])
      <3>1. w \in Nat /\ h \in Nat /\ AspectOk(kind, w, h) /\ rung \in 1 .. Len(ThumbEdges)
        BY <2>2, EdgesAssumption DEF PrepareSticker, Rungs, ThumbEdges
      <3>2. size[1] \in Nat /\ size[2] \in Nat /\ SizeOk(kind, size[1], size[2])
        <4>1. CASE animated
          BY <4>1, <3>1, <2>2 DEF PrepareSticker, SizeOk
        <4>2. CASE ~animated
          BY <4>2, <3>1, FitKeepsSize
        <4> QED BY <4>1, <4>2
      <3>3. size[1] > 0 /\ size[2] > 0
        BY SMTT(60), <3>2 DEF SizeOk, AspectOk
      <3>4. thumb[1] \in 1 .. 96 /\ thumb[2] \in 1 .. 96
        <4>1. ThumbEdges[rung] \in Nat /\ 1 <= ThumbEdges[rung] /\ ThumbEdges[rung] <= 96
          BY <3>1 DEF ThumbEdges
        <4>2. \A a \in Nat, b \in Nat : a > 0 /\ b > 0 =>
                /\ FitLongEdge(a, b, ThumbEdges[rung])[1] \in 1 .. 96
                /\ FitLongEdge(a, b, ThumbEdges[rung])[2] \in 1 .. 96
          BY Zenon, <4>1, ThumbFits
        <4> HIDE DEF size
        <4> QED BY Zenon, <4>2, <3>2, <3>3
      <3>5. prepared' = [Nothing EXCEPT !.what = "sticker", !.kind = kind, !.w = size[1],
                                        !.h = size[2], !.thumb = thumb]
        BY <2>2 DEF PrepareSticker
      <3>6. /\ prepared'.kind = kind /\ prepared'.w = size[1] /\ prepared'.h = size[2]
            /\ prepared'.thumb = thumb
        BY <3>5 DEF Nothing
      <3> QED BY Zenon, <3>2, <3>4, <3>6 DEF PreparedFits
    <2>3. ASSUME NEW w \in Edges, NEW h \in Edges, NEW rung \in Rungs(ProfileEdges),
                 PrepareProfile(w, h, rung)
          PROVE  PreparedFits'
      BY <2>3 DEF PrepareProfile, PreparedFits, Nothing
    <2>4. ASSUME NEW class, NEW source \in MediaKind, NEW w \in Edges, NEW h \in Edges,
                 NEW alpha \in BOOLEAN, NEW misses \in 0 .. 4,
                 PrepareSpec(class, source, w, h, alpha, misses)
          PROVE  PreparedFits'
      <3>1. CASE StripAndReencode(w, h, alpha, misses)
        BY <3>1 DEF StripAndReencode, PreparedFits, Nothing
      <3>2. CASE prepared' = [Nothing EXCEPT !.what = "raw", !.w = w, !.h = h]
        <4>1. prepared'.what = "raw"
          BY <3>2 DEF Nothing
        <4> QED BY <4>1 DEF PreparedFits
      <3> QED BY <2>4, <3>1, <3>2 DEF PrepareSpec
    <2>5. ASSUME NEW w \in Edges, NEW h \in Edges, NEW fits \in BOOLEAN, MakeThumbnail(w, h, fits)
          PROVE  PreparedFits'
      <3>0. Decodes(w, h)
        BY ZenonT(60), <2>5 DEF MakeThumbnail
      <3>1. w \in Nat /\ h \in Nat /\ w > 0 /\ h > 0
        BY <3>0, DecodesFacts
      <3>2. FitLongEdge(w, h, 96)[1] \in 1 .. 96 /\ FitLongEdge(w, h, 96)[2] \in 1 .. 96
        BY <3>1, ThumbFits
      <3>3. prepared'.what = "preview" /\ prepared'.thumb = FitLongEdge(w, h, 96)
        BY <2>5 DEF MakeThumbnail, Nothing, ThumbEdges
      <3> QED BY <3>2, <3>3 DEF PreparedFits
    <2> QED BY <2>1, <2>2, <2>3, <2>4, <2>5 DEF MediaNext
  <1> QED BY <1>1, <1>2, PTL DEF MediaSpec

-----------------------------------------------------------------------------
(* The inductive invariant *)

\* A leaf is for Zenon unless it names another prover.
USE Zenon

\* The envelopes about an item, those about a pack, and those that come in chunks.
ItemOps == {"sticker", "text", "wantitem", "item"}
PackOps == {"wantpack", "wantthumbs", "pack", "thumbs", "refused"}
ChunkOps == {"item", "pack", "thumbs"}

\* The tables of a device.
IsTables(t) ==
  /\ t = [packs |-> t.packs, items |-> t.items, keys |-> t.keys, cache |-> t.cache,
          serves |-> t.serves]
  /\ t.items \subseteq DOMAIN Items

\* An envelope on its way, and something that was asked for.
IsEnvelope(m) ==
  /\ m = [to |-> m.to, op |-> m.op, key |-> m.key, index |-> m.index, n |-> m.n]
  /\ m.to \in Devices
  /\ \/ m.op \in ItemOps /\ m.key \in DOMAIN Items
     \/ m.op \in PackOps /\ m.key \in DOMAIN Packs

IsAsked(w) ==
  /\ w = Asked(w.by, w.what, w.key)
  /\ w.by \in Devices
  /\ \/ w.what = "item" /\ w.key \in DOMAIN Items
     \/ w.what \in {"pack", "thumbs"} /\ w.key \in DOMAIN Packs

\* A key is of a pack of our own that create_pack let pass; a cached pack is of the
\* other device.
Own(d, t) ==
  /\ \A p \in t.keys : p \in DOMAIN Packs /\ Packs[p].maker = d /\ BodyBytesOk(p)
  /\ \A p \in DOMAIN t.packs : t.packs[p].cached => Packs[p].maker # d

\* What PackIsWhole says of the tables of one device.
Whole(t) ==
  /\ \A p \in DOMAIN t.packs :
       /\ ItemsOf(p) \subseteq t.items
       /\ t.packs[p].from = "" => p \in t.keys
  /\ \A i \in t.items : PackOf(i) \in DOMAIN t.packs
  /\ \A p \in t.keys : p \in DOMAIN t.packs

\* The invariant of the tables.
TablesInv ==
  /\ DOMAIN db = Devices
  /\ \A d \in Devices : IsTables(db[d]) /\ Own(d, db[d]) /\ (d \in torn \/ Whole(db[d]))

\* A pack body is on its way from its maker to the other device, a preview only if
\* it could be encoded, and the index of a chunk is below their count.
Sent(m) ==
  /\ m.op = "pack" => Packs[m.key].maker # m.to /\ BodyBytesOk(m.key)
  /\ m.op = "thumbs" => ThumbsEncodeOk(m.key)
  /\ m.op \in ChunkOps => m.index \in 0 .. (Counted(m.op, m.key) - 1)

\* The invariant of what is on its way.
NetInv == \A m \in net : IsEnvelope(m) /\ Sent(m)

\* The chunks that are in the buffer of a transfer.
Here(d, op, key) == IF <<op, key>> \in DOMAIN pend[d] THEN DOMAIN pend[d][<<op, key>>].got ELSE {}

OnTheWay(to, op, key) == \E m \in net : m.to = to /\ m.op = op /\ m.key = key

\* Every chunk of the content is in the buffer or on its way.
Covered(d, op, key) ==
  \A x \in 0 .. (Counted(op, key) - 1) :
    x \in Here(d, op, key) \/ \E m \in net : m.to = d /\ m.op = op /\ m.key = key /\ m.index = x

WantOf(what) ==
  IF what = "item" THEN "wantitem" ELSE IF what = "pack" THEN "wantpack" ELSE "wantthumbs"

\* What was asked for will be settled by an envelope that is on its way: the want
\* itself, a refusal, or the last of the chunks that are missing.
Pursued(w) ==
  \/ OnTheWay(Other(w.by), WantOf(w.what), w.key)
  \/ w.what = "pack" /\ OnTheWay(w.by, "refused", w.key)
  \/ Covered(w.by, w.what, w.key)

\* A buffer holds some of the chunks, and not all.
Part(k, S) == S \subseteq 0 .. (Counted(k[1], k[2]) - 1) /\ S # 0 .. (Counted(k[1], k[2]) - 1)

Partial(d) == \A k \in DOMAIN pend[d] : Part(k, DOMAIN pend[d][k].got)

\* The invariant of what is asked for: with nothing on its way, Pursued fails, since
\* a buffer never holds every chunk.
HangInv ==
  /\ DOMAIN pend = Devices /\ calm \in BOOLEAN
  /\ calm \/ wants = {}
  /\ \A w \in wants : IsAsked(w) /\ Pursued(w)
  /\ \A d \in Devices : Partial(d)

\* The inductive invariant.
StickersInv == TablesInv /\ NetInv /\ HangInv

-----------------------------------------------------------------------------
(* The operators on the tables *)

\* There are two devices.
LEMMA OtherDevice ==
  ASSUME NEW d \in Devices
  PROVE  Other(d) \in Devices /\ Other(d) # d /\ Other(Other(d)) = d
<1>1. PICK a, b \in Devices : a # b /\ Devices = {a, b}
  BY DevicesAssumption
<1>2. \E e \in Devices : e # d
  BY SMT, <1>1
<1>3. Other(d) \in Devices /\ Other(d) # d
  BY <1>2 DEF Other
<1>4. \E e \in Devices : e # Other(d)
  BY <1>3
<1>5. Other(Other(d)) \in Devices /\ Other(Other(d)) # Other(d)
  BY <1>4 DEF Other
<1> QED BY <1>1, <1>3, <1>5

\* put_pack writes the row of a pack and nothing else.
LEMMA PutRowIs ==
  ASSUME NEW t, IsTables(t), NEW p, NEW from, NEW cached
  PROVE  /\ IsTables(PutRow(t, p, from, cached))
         /\ PutRow(t, p, from, cached).packs
              = Put(t.packs, p, [cached |-> cached, from |-> from, used |-> now])
         /\ PutRow(t, p, from, cached).items = t.items /\ PutRow(t, p, from, cached).keys = t.keys
<1>1. PutRow(t, p, from, cached)
        = [packs |-> Put(t.packs, p, [cached |-> cached, from |-> from, used |-> now]),
           items |-> t.items, keys |-> t.keys, cache |-> t.cache, serves |-> t.serves]
  BY SMT DEF PutRow, IsTables
<1> QED BY SMT, <1>1 DEF IsTables

\* The row of a pack goes.
LEMMA DropRowIs ==
  ASSUME NEW t, IsTables(t), NEW p
  PROVE  /\ IsTables(DropRow(t, p)) /\ DropRow(t, p).packs = Drop(t.packs, {p})
         /\ DropRow(t, p).items = t.items /\ DropRow(t, p).keys = t.keys
<1>1. DropRow(t, p) = [packs |-> Drop(t.packs, {p}), items |-> t.items, keys |-> t.keys,
                       cache |-> t.cache, serves |-> t.serves]
  BY SMT DEF DropRow, IsTables
<1> QED BY SMT, <1>1 DEF IsTables

\* The items of a pack go.
LEMMA DeleteItemsIs ==
  ASSUME NEW t, IsTables(t), NEW p
  PROVE  /\ IsTables(DeleteItems(t, p)) /\ DeleteItems(t, p).packs = t.packs
         /\ DeleteItems(t, p).items = t.items \ ItemsOf(p) /\ DeleteItems(t, p).keys = t.keys
<1>1. DeleteItems(t, p) = [packs |-> t.packs, items |-> t.items \ ItemsOf(p), keys |-> t.keys,
                           cache |-> t.cache, serves |-> t.serves]
  BY SMT DEF DeleteItems, IsTables
<1> QED BY SMT, <1>1 DEF IsTables

\* Items come.
LEMMA PutItemsIs ==
  ASSUME NEW t, IsTables(t), NEW S \in SUBSET DOMAIN Items
  PROVE  /\ IsTables(PutItems(t, S)) /\ PutItems(t, S).packs = t.packs
         /\ PutItems(t, S).items = t.items \cup S /\ PutItems(t, S).keys = t.keys
<1>1. PutItems(t, S) = [packs |-> t.packs, items |-> t.items \cup S, keys |-> t.keys,
                        cache |-> t.cache, serves |-> t.serves]
  BY SMT DEF PutItems, IsTables
<1> QED BY SMT, <1>1 DEF IsTables

\* The key of a pack comes.
LEMMA StoreKeyIs ==
  ASSUME NEW t, IsTables(t), NEW p
  PROVE  /\ IsTables(StorePackKey(t, p)) /\ StorePackKey(t, p).packs = t.packs
         /\ StorePackKey(t, p).items = t.items /\ StorePackKey(t, p).keys = t.keys \cup {p}
<1>1. StorePackKey(t, p) = [packs |-> t.packs, items |-> t.items, keys |-> t.keys \cup {p},
                            cache |-> t.cache, serves |-> t.serves]
  BY SMT DEF StorePackKey, IsTables
<1> QED BY SMT, <1>1 DEF IsTables

\* The key of a pack goes.
LEMMA DropKeyIs ==
  ASSUME NEW t, IsTables(t), NEW p
  PROVE  /\ IsTables(DropPackKey(t, p)) /\ DropPackKey(t, p).packs = t.packs
         /\ DropPackKey(t, p).items = t.items /\ DropPackKey(t, p).keys = t.keys \ {p}
<1>1. DropPackKey(t, p) = [packs |-> t.packs, items |-> t.items, keys |-> t.keys \ {p},
                           cache |-> t.cache, serves |-> t.serves]
  BY SMT DEF DropPackKey, IsTables
<1> QED BY SMT, <1>1 DEF IsTables

\* What install_doc leaves: the row, and every item of the pack.
LEMMA InstalledIs ==
  ASSUME NEW t, IsTables(t), NEW p, NEW from, NEW cached
  PROVE  /\ IsTables(Installed(t, p, from, cached))
         /\ Installed(t, p, from, cached).packs
              = Put(t.packs, p, [cached |-> cached, from |-> from, used |-> now])
         /\ Installed(t, p, from, cached).items = t.items \cup ItemsOf(p)
         /\ Installed(t, p, from, cached).keys = t.keys
<1>1. PICK r : r = PutRow(t, p, from, cached)
  OBVIOUS
<1>2. IsTables(r) /\ r.items = t.items /\ r.keys = t.keys
      /\ r.packs = Put(t.packs, p, [cached |-> cached, from |-> from, used |-> now])
  BY SMT, <1>1, PutRowIs
<1>3. PICK e : e = DeleteItems(r, p)
  OBVIOUS
<1>4. IsTables(e) /\ e.packs = r.packs /\ e.items = r.items \ ItemsOf(p) /\ e.keys = r.keys
  BY <1>2, <1>3, DeleteItemsIs
<1>5. ItemsOf(p) \in SUBSET DOMAIN Items
  BY DEF ItemsOf
<1>6. Installed(t, p, from, cached) = PutItems(e, ItemsOf(p))
  BY <1>1, <1>3 DEF Installed
<1>7. (t.items \ ItemsOf(p)) \cup ItemsOf(p) = t.items \cup ItemsOf(p)
  OBVIOUS
<1> QED BY SMT, <1>2, <1>4, <1>5, <1>6, <1>7, PutItemsIs

\* What a death within install_doc leaves: the row, and the keys as they were.
LEMMA InstallCutIs ==
  ASSUME NEW t, IsTables(t), NEW p, NEW from, NEW cached, NEW c \in InstallCuts(t, p, from, cached)
  PROVE  /\ IsTables(c) /\ c.keys = t.keys
         /\ c.packs = Put(t.packs, p, [cached |-> cached, from |-> from, used |-> now])
<1>1. PICK r : r = PutRow(t, p, from, cached)
  OBVIOUS
<1>2. IsTables(r) /\ r.keys = t.keys
      /\ r.packs = Put(t.packs, p, [cached |-> cached, from |-> from, used |-> now])
  BY SMT, <1>1, PutRowIs
<1>3. PICK e : e = DeleteItems(r, p)
  OBVIOUS
<1>4. IsTables(e) /\ e.packs = r.packs /\ e.keys = r.keys
  BY <1>2, <1>3, DeleteItemsIs
<1>5. CASE c = r
  BY <1>2, <1>5
<1>6. ASSUME NEW next \in ItemsOf(p), c = PutItems(e, {i \in ItemsOf(p) : i < next})
      PROVE  IsTables(c) /\ c.keys = e.keys /\ c.packs = e.packs
  <2>1. PICK S : S = {i \in ItemsOf(p) : i < next}
    OBVIOUS
  <2>2. S \in SUBSET DOMAIN Items
    BY <2>1 DEF ItemsOf
  <2> QED BY <1>4, <1>6, <2>1, <2>2, PutItemsIs
<1>7. c = r \/ \E next \in ItemsOf(p) : c = PutItems(e, {i \in ItemsOf(p) : i < next})
  BY <1>1, <1>3 DEF InstallCuts
<1> QED BY <1>2, <1>4, <1>5, <1>6, <1>7

-----------------------------------------------------------------------------
(* The tables *)

\* A row that is put keeps Own.
LEMMA RowOwn ==
  ASSUME NEW d, NEW t, Own(d, t), NEW u, NEW p, NEW row, u.packs = Put(t.packs, p, row),
         u.keys = t.keys, row.cached => Packs[p].maker # d
  PROVE  Own(d, u)
<1>0. /\ DOMAIN Put(t.packs, p, row) = DOMAIN t.packs \cup {p} /\ Put(t.packs, p, row)[p] = row
      /\ \A y \in DOMAIN t.packs : y # p => Put(t.packs, p, row)[y] = t.packs[y]
  BY DEF Put
<1>1. ASSUME NEW q \in DOMAIN u.packs, u.packs[q].cached
      PROVE  Packs[q].maker # d
  BY <1>0, <1>1 DEF Own
<1> QED BY <1>1 DEF Own

\* Rows and keys that go keep Own.
LEMMA DropOwn ==
  ASSUME NEW d, NEW t, Own(d, t), NEW u, NEW S, u.packs = Drop(t.packs, S), u.keys \subseteq t.keys
  PROVE  Own(d, u)
<1>0. /\ DOMAIN Drop(t.packs, S) = DOMAIN t.packs \ S
      /\ \A y \in DOMAIN t.packs \ S : Drop(t.packs, S)[y] = t.packs[y]
  BY DEF Drop
<1>1. ASSUME NEW q \in DOMAIN u.packs, u.packs[q].cached
      PROVE  Packs[q].maker # d
  BY <1>0, <1>1 DEF Own
<1> QED BY <1>1 DEF Own

\* A row that comes with all its items, and its key if it is of our own, keeps the
\* tables whole.
LEMMA PackWhole ==
  ASSUME NEW t, Whole(t), NEW u, NEW p, NEW row, u.packs = Put(t.packs, p, row),
         u.items = t.items \cup ItemsOf(p), u.keys = t.keys \/ u.keys = t.keys \cup {p},
         row.from = "" => p \in u.keys
  PROVE  Whole(u)
<1>1. /\ DOMAIN u.packs = DOMAIN t.packs \cup {p} /\ u.packs[p] = row
      /\ \A y \in DOMAIN t.packs : y # p => u.packs[y] = t.packs[y]
  BY DEF Put
<1>2. ASSUME NEW q \in DOMAIN u.packs
      PROVE  ItemsOf(q) \subseteq u.items /\ (u.packs[q].from = "" => q \in u.keys)
  <2>1. CASE q = p
    BY <2>1, <1>1
  <2>2. CASE q # p
    BY <2>2, <1>1, <1>2 DEF Whole
  <2> QED BY <2>1, <2>2
<1>3. ASSUME NEW j \in u.items
      PROVE  PackOf(j) \in DOMAIN u.packs
  BY <1>1, <1>3 DEF Whole, ItemsOf, PackOf
<1>4. \A q \in u.keys : q \in DOMAIN u.packs
  BY <1>1 DEF Whole
<1> QED BY <1>2, <1>3, <1>4 DEF Whole

\* install_doc keeps Own.
LEMMA InstalledOwn ==
  ASSUME NEW d, NEW t, IsTables(t), Own(d, t), NEW p, NEW from, NEW cached,
         cached => Packs[p].maker # d
  PROVE  Own(d, Installed(t, p, from, cached))
<1>1. PICK u : u = Installed(t, p, from, cached)
  OBVIOUS
<1>2. PICK row : row = [cached |-> cached, from |-> from, used |-> now]
  OBVIOUS
<1>3. u.packs = Put(t.packs, p, row) /\ u.keys = t.keys
  BY SMT, <1>1, <1>2, InstalledIs
<1>4. row.cached = cached
  BY <1>2
<1>5. Own(d, u)
  <2>1. row.cached => Packs[p].maker # d
    BY <1>4
  <2> QED BY SMTT(30), <1>3, <2>1, RowOwn
<1> QED BY <1>1, <1>5

\* So does a part of install_doc.
LEMMA CutOwn ==
  ASSUME NEW d, NEW t, IsTables(t), Own(d, t), NEW p, NEW from, NEW cached,
         cached => Packs[p].maker # d, NEW c \in InstallCuts(t, p, from, cached)
  PROVE  Own(d, c)
<1>2. PICK row : row = [cached |-> cached, from |-> from, used |-> now]
  OBVIOUS
<1>3. c.packs = Put(t.packs, p, row) /\ c.keys = t.keys
  BY SMT, <1>2, InstallCutIs
<1>4. row.cached = cached
  BY <1>2
<1> QED BY SMT, <1>3, <1>4, RowOwn

\* The invariant of the tables after a step of one device.
LEMMA TablesStep ==
  ASSUME TablesInv, NEW d \in Devices, NEW t, db' = [db EXCEPT ![d] = t], IsTables(t), Own(d, t),
         \/ torn' = torn /\ (Whole(db[d]) => Whole(t))
         \/ torn' = torn \cup {d}
  PROVE  TablesInv'
<1>1. DOMAIN db' = Devices /\ db'[d] = t /\ \A e \in Devices : e # d => db'[e] = db[e]
  BY DEF TablesInv
<1>2. ASSUME NEW e \in Devices
      PROVE  IsTables(db'[e]) /\ Own(e, db'[e]) /\ (e \in torn' \/ Whole(db'[e]))
  <2>1. CASE e = d
    BY <2>1, <1>1 DEF TablesInv
  <2>2. CASE e # d
    BY <2>2, <1>1 DEF TablesInv
  <2> QED BY <2>1, <2>2
<1> QED BY <1>1, <1>2 DEF TablesInv

\* The invariant after a step that leaves the tables alone.
LEMMA SameTables ==
  ASSUME TablesInv, db' = db, torn' = torn
  PROVE  TablesInv'
BY DEF TablesInv

\* create_pack keeps the tables whole.
LEMMA TablesCreate ==
  ASSUME TablesInv, NEW d \in Devices, NEW p \in DOMAIN Packs, CreatePack(d, p)
  PROVE  TablesInv'
<1>1. PICK t, no, none : t = db[d] /\ no = FALSE /\ none = ""
  OBVIOUS
<1>2. PICK i : i = Installed(t, p, none, no)
  OBVIOUS
<1>3. PICK u : u = StorePackKey(i, p)
  OBVIOUS
<1>4. PICK row : row = [cached |-> no, from |-> none, used |-> now]
  OBVIOUS
<1>5. IsTables(t) /\ Own(d, t)
  BY <1>1 DEF TablesInv
<1>6. IsTables(i) /\ i.packs = Put(t.packs, p, row) /\ i.items = t.items \cup ItemsOf(p)
      /\ i.keys = t.keys
  BY SMT, <1>2, <1>4, <1>5, InstalledIs
<1>7. IsTables(u) /\ u.packs = i.packs /\ u.items = i.items /\ u.keys = i.keys \cup {p}
  BY <1>3, <1>6, StoreKeyIs
<1>8. Own(d, u)
  <2>1. Own(d, i)
    BY <1>1, <1>2, <1>5, InstalledOwn
  <2> QED BY <2>1, <1>7 DEF Own, CreatePack
<1>9. Whole(t) => Whole(u)
  BY <1>6, <1>7, PackWhole
<1>10. db' = [db EXCEPT ![d] = u] /\ torn' = torn
  BY <1>1, <1>2, <1>3 DEF CreatePack, Created
<1> QED BY <1>1, <1>7, <1>8, <1>9, <1>10, TablesStep

\* So does the last chunk of a pack.
LEMMA TablesInstall ==
  ASSUME TablesInv, NetInv, NEW m \in net, m.op = "pack",
         db' = [db EXCEPT ![m.to] = Installed(@, m.key, Other(m.to), TRUE)], torn' = torn
  PROVE  TablesInv'
<1>1. PICK d : d = m.to
  OBVIOUS
<1>2. PICK t, yes : t = db[d] /\ yes = TRUE
  OBVIOUS
<1>3. PICK u : u = Installed(t, m.key, Other(d), yes)
  OBVIOUS
<1>4. PICK row : row = [cached |-> yes, from |-> Other(d), used |-> now]
  OBVIOUS
<1>5. d \in Devices /\ Packs[m.key].maker # d
  BY <1>1 DEF NetInv, IsEnvelope, Sent
<1>6. IsTables(t) /\ Own(d, t)
  BY <1>2, <1>5 DEF TablesInv
<1>7. /\ IsTables(u) /\ u.packs = Put(t.packs, m.key, row)
      /\ u.items = t.items \cup ItemsOf(m.key) /\ u.keys = t.keys
  BY SMT, <1>3, <1>4, <1>6, InstalledIs
<1>8. Own(d, u)
  BY <1>3, <1>5, <1>6, InstalledOwn
<1>9. Whole(t) => Whole(u)
  <2>1. row.from # ""
    BY <1>4, <1>5, OtherDevice, DevicesAssumption
  <2> QED BY <1>7, <2>1, PackWhole
<1>10. db' = [db EXCEPT ![d] = u]
  BY <1>1, <1>2, <1>3
<1> QED BY <1>2, <1>5, <1>7, <1>8, <1>9, <1>10, TablesStep

\* remove_pack keeps them whole: the row, the items and the key go together.
LEMMA TablesRemove ==
  ASSUME TablesInv, NEW d \in Devices, NEW p \in DOMAIN Packs, RemovePack(d, p)
  PROVE  TablesInv'
<1> PICK t : t = db[d]
  OBVIOUS
<1> PICK r : r = DropRow(t, p)
  OBVIOUS
<1> PICK e : e = DeleteItems(r, p)
  OBVIOUS
<1> PICK u : u = DropPackKey(e, p)
  OBVIOUS
<1>1. IsTables(t) /\ Own(d, t)
  BY DEF TablesInv
<1>2. IsTables(r) /\ r.packs = Drop(t.packs, {p}) /\ r.items = t.items /\ r.keys = t.keys
  BY <1>1, DropRowIs
<1>3. IsTables(e) /\ e.packs = r.packs /\ e.items = r.items \ ItemsOf(p) /\ e.keys = r.keys
  BY SMT, <1>2, DeleteItemsIs
<1>4. IsTables(u) /\ u.packs = e.packs /\ u.items = e.items /\ u.keys = e.keys \ {p}
  BY SMT, <1>3, DropKeyIs
<1>5. /\ u.packs = Drop(t.packs, {p}) /\ u.items = t.items \ ItemsOf(p) /\ u.keys = t.keys \ {p}
  BY <1>2, <1>3, <1>4
<1>6. Own(d, u)
  BY <1>1, <1>5, DropOwn
<1>7. Whole(t) => Whole(u)
  <2> SUFFICES ASSUME Whole(t)
               PROVE  Whole(u)
    OBVIOUS
  <2>0. /\ DOMAIN Drop(t.packs, {p}) = DOMAIN t.packs \ {p}
        /\ \A y \in DOMAIN t.packs \ {p} : Drop(t.packs, {p})[y] = t.packs[y]
    BY DEF Drop
  <2>1. DOMAIN u.packs = DOMAIN t.packs \ {p}
    BY <1>5, <2>0
  <2>2. ASSUME NEW q \in DOMAIN u.packs
        PROVE  ItemsOf(q) \subseteq u.items /\ (u.packs[q].from = "" => q \in u.keys)
    <3>1. q \in DOMAIN t.packs /\ q # p /\ u.packs[q] = t.packs[q]
      BY <2>0, <2>1, <2>2, <1>5
    <3>2. ItemsOf(q) \subseteq u.items
      BY <3>1, <1>5 DEF Whole, ItemsOf
    <3> QED BY <3>1, <3>2, <1>5 DEF Whole
  <2>3. ASSUME NEW j \in u.items
        PROVE  PackOf(j) \in DOMAIN u.packs
    <3>1. j \in t.items /\ j \in DOMAIN Items /\ j \notin ItemsOf(p)
      BY <2>3, <1>5, <1>1 DEF IsTables
    <3> QED BY <3>1, <2>1 DEF Whole, ItemsOf, PackOf
  <2>4. \A q \in u.keys : q \in DOMAIN u.packs
    BY <2>1, <1>5 DEF Whole
  <2> QED BY <2>2, <2>3, <2>4 DEF Whole
<1>8. db' = [db EXCEPT ![d] = u] /\ torn' = torn
  BY DEF RemovePack, Removed
<1> QED BY <1>4, <1>6, <1>7, <1>8, TablesStep

\* The loose cache is not part of a pack.
LEMMA TablesCache ==
  ASSUME TablesInv, NEW d \in Devices, NEW i, db' = [db EXCEPT ![d] = CachePut(@, i)], torn' = torn
  PROVE  TablesInv'
<1> PICK t : t = db[d]
  OBVIOUS
<1> PICK u : u = CachePut(t, i)
  OBVIOUS
<1> PICK c : c = (IF i \in DOMAIN t.cache THEN t.cache ELSE Put(t.cache, i, now))
  OBVIOUS
<1>1. IsTables(t) /\ Own(d, t)
  BY DEF TablesInv
<1>2. u = [packs |-> t.packs, items |-> t.items, keys |-> t.keys, cache |-> c, serves |-> t.serves]
  BY <1>1 DEF CachePut, IsTables
<1>3. IsTables(u) /\ u.packs = t.packs /\ u.items = t.items /\ u.keys = t.keys
  BY SMT, <1>1, <1>2 DEF IsTables
<1>4. Own(d, u) /\ (Whole(t) => Whole(u))
  BY <1>1, <1>3 DEF Own, Whole
<1>5. db' = [db EXCEPT ![d] = u]
  OBVIOUS
<1> QED BY <1>3, <1>4, <1>5, TablesStep

\* Nor is the count of the packs served.
LEMMA TablesServe ==
  ASSUME TablesInv, NEW d \in Devices, NEW s, db' = [db EXCEPT ![d].serves = s], torn' = torn
  PROVE  TablesInv'
<1> PICK t : t = db[d]
  OBVIOUS
<1> PICK u : u = [t EXCEPT !.serves = s]
  OBVIOUS
<1>1. IsTables(t) /\ Own(d, t)
  BY DEF TablesInv
<1>2. u = [packs |-> t.packs, items |-> t.items, keys |-> t.keys, cache |-> t.cache, serves |-> s]
  BY <1>1 DEF IsTables
<1>3. IsTables(u) /\ u.packs = t.packs /\ u.items = t.items /\ u.keys = t.keys
  BY <1>1, <1>2 DEF IsTables
<1>4. Own(d, u) /\ (Whole(t) => Whole(u))
  BY <1>1, <1>3 DEF Own, Whole
<1>5. db' = [db EXCEPT ![d] = u]
  OBVIOUS
<1> QED BY <1>3, <1>4, <1>5, TablesStep

\* sweep_cache drops the items of the packs it drops, and no pack of our own.
LEMMA TablesSweep ==
  ASSUME TablesInv, NEW d \in Devices, SweepStickers(d)
  PROVE  TablesInv'
<1> PICK t : t = db[d]
  OBVIOUS
<1>1. PICK loose, cached : db' = [db EXCEPT ![d] = SweptTables(t, loose, cached)]
  BY DEF SweepStickers
<1> PICK u : u = SweptTables(t, loose, cached)
  OBVIOUS
<1> PICK gone : gone = Outdated(t) \cup ((Cached(t) \ Outdated(t)) \ cached)
  OBVIOUS
<1> PICK packs : packs = Drop(t.packs, gone)
  OBVIOUS
<1> PICK items : items = {i \in t.items : PackOf(i) \in DOMAIN packs}
  OBVIOUS
<1>2. IsTables(t) /\ Own(d, t)
  BY DEF TablesInv
<1>3. u = [packs |-> packs, items |-> items, keys |-> t.keys,
           cache |-> Drop(t.cache, DOMAIN t.cache \ loose), serves |-> t.serves]
  BY <1>2 DEF SweptTables, IsTables
<1>4. IsTables(u) /\ u.packs = packs /\ u.items = items /\ u.keys = t.keys
  BY SMT, <1>2, <1>3 DEF IsTables
<1>5. gone \subseteq Cached(t)
  BY DEF Outdated
<1>6. Own(d, u)
  BY <1>2, <1>4, DropOwn
<1>7. /\ DOMAIN Drop(t.packs, gone) = DOMAIN t.packs \ gone
      /\ \A y \in DOMAIN t.packs \ gone : Drop(t.packs, gone)[y] = t.packs[y]
      /\ packs = Drop(t.packs, gone)
  BY DEF Drop
<1>8. ASSUME NEW p \in t.keys, p \in DOMAIN t.packs
      PROVE  p \in DOMAIN packs
  BY <1>2, <1>5, <1>7, <1>8 DEF Own, Cached
<1>9. Whole(t) => Whole(u)
  <2> SUFFICES ASSUME Whole(t)
               PROVE  Whole(u)
    OBVIOUS
  <2>1. ASSUME NEW q \in DOMAIN packs
        PROVE  ItemsOf(q) \subseteq items /\ (packs[q].from = "" => q \in t.keys)
    <3>1. q \in DOMAIN t.packs /\ packs[q] = t.packs[q]
      BY <2>1, <1>7
    <3>2. ItemsOf(q) \subseteq items
      BY <2>1, <3>1 DEF Whole, ItemsOf, PackOf
    <3> QED BY <3>1, <3>2 DEF Whole
  <2>2. \A q \in t.keys : q \in DOMAIN packs
    BY <1>8 DEF Whole
  <2> QED BY <1>4, <2>1, <2>2 DEF Whole
<1>10. db' = [db EXCEPT ![d] = u] /\ torn' = torn
  BY <1>1 DEF SweepStickers
<1> QED BY <1>4, <1>6, <1>9, <1>10, TablesStep

\* A death within a call tears the tables, and keeps Own.
LEMMA TablesDie ==
  ASSUME TablesInv, NEW d \in Devices, NEW cuts, DiesIn(d, cuts),
         \A c \in cuts : IsTables(c) /\ Own(d, c)
  PROVE  TablesInv'
<1>1. PICK c \in cuts : db' = [db EXCEPT ![d] = c]
  BY DEF DiesIn
<1>2. torn' = torn \cup {d}
  BY DEF DiesIn
<1> QED BY <1>1, <1>2, TablesStep

\* A death within create_pack.
LEMMA TablesDieCreating ==
  ASSUME TablesInv, NEW d \in Devices, NEW p \in DOMAIN Packs, DieCreating(d, p)
  PROVE  TablesInv'
<1>1. PICK t, no, none : t = db[d] /\ no = FALSE /\ none = ""
  OBVIOUS
<1>2. IsTables(t) /\ Own(d, t)
  BY <1>1 DEF TablesInv
<1>3. IsTables(Installed(t, p, none, no)) /\ Own(d, Installed(t, p, none, no))
  BY <1>1, <1>2, InstalledIs, InstalledOwn
<1>4. ASSUME NEW c \in InstallCuts(t, p, none, no)
      PROVE  IsTables(c) /\ Own(d, c)
  BY <1>1, <1>2, <1>4, InstallCutIs, CutOwn
<1>5. \A c \in CreateCuts(t, p) : IsTables(c) /\ Own(d, c)
  BY <1>1, <1>3, <1>4 DEF CreateCuts
<1>6. DiesIn(d, CreateCuts(t, p))
  BY <1>1 DEF DieCreating
<1> QED BY <1>5, <1>6, TablesDie

\* A death within remove_pack.
LEMMA TablesDieRemoving ==
  ASSUME TablesInv, NEW d \in Devices, NEW p \in DOMAIN Packs, DieRemoving(d, p)
  PROVE  TablesInv'
<1>1. PICK t : t = db[d]
  OBVIOUS
<1>2. IsTables(t) /\ Own(d, t)
  BY <1>1 DEF TablesInv
<1>3. PICK r : r = DropRow(t, p)
  OBVIOUS
<1>4. IsTables(r) /\ r.packs = Drop(t.packs, {p}) /\ r.keys = t.keys
  BY <1>2, <1>3, DropRowIs
<1>5. PICK e : e = DeleteItems(r, p)
  OBVIOUS
<1>6. IsTables(e) /\ e.packs = r.packs /\ e.keys = r.keys
  BY <1>4, <1>5, DeleteItemsIs
<1>7. Own(d, r)
  BY <1>2, <1>4, DropOwn
<1>8. Own(d, e)
  BY <1>6, <1>7 DEF Own
<1>9. \A c \in RemoveCuts(t, p) : IsTables(c) /\ Own(d, c)
  BY <1>3, <1>4, <1>5, <1>6, <1>7, <1>8 DEF RemoveCuts
<1>10. DiesIn(d, RemoveCuts(t, p))
  BY <1>1 DEF DieRemoving
<1> QED BY <1>9, <1>10, TablesDie

\* A death within install_doc.
LEMMA TablesDieInstalling ==
  ASSUME TablesInv, NetInv, NEW m \in net, DieInstalling(m)
  PROVE  TablesInv'
<1>1. PICK d, yes : d = m.to /\ yes = TRUE
  OBVIOUS
<1>2. PICK t : t = db[d]
  OBVIOUS
<1>3. d \in Devices /\ Packs[m.key].maker # d
  BY <1>1 DEF NetInv, IsEnvelope, Sent, DieInstalling
<1>4. IsTables(t) /\ Own(d, t)
  BY <1>2, <1>3 DEF TablesInv
<1>5. ASSUME NEW c \in InstallCuts(t, m.key, Other(d), yes)
      PROVE  IsTables(c) /\ Own(d, c)
  BY <1>3, <1>4, <1>5, InstallCutIs, CutOwn
<1>6. DiesIn(d, InstallCuts(t, m.key, Other(d), yes))
  BY <1>1, <1>2 DEF DieInstalling
<1> QED BY <1>3, <1>5, <1>6, TablesDie

\* Every step keeps the invariant of the tables.
LEMMA TablesKeep ==
  ASSUME TablesInv, NetInv, StickersNext
  PROVE  TablesInv'
<1>1. ASSUME NEW d \in Devices, NEW i \in DOMAIN Items, SendSticker(d, i) \/ SendToken(d, i)
      PROVE  TablesInv'
  BY <1>1, SameTables DEF SendSticker, SendToken
<1>2. ASSUME NEW d \in Devices, NEW p \in DOMAIN Packs, FetchPack(d, p) \/ FetchThumbs(d, p)
      PROVE  TablesInv'
  BY <1>2, SameTables DEF FetchPack, FetchThumbs
<1>3. ASSUME NEW d \in Devices, Forget(d)
      PROVE  TablesInv'
  BY <1>3, SameTables DEF Forget
<1>4. ASSUME NEW m \in net
      PROVE  m.to \in Devices
  BY <1>4 DEF NetInv, IsEnvelope
<1>5. ASSUME NEW m \in net, ReceiveSticker(m)
      PROVE  TablesInv'
  <2>1. (db' = db \/ db' = [db EXCEPT ![m.to] = CachePut(@, m.key)]) /\ torn' = torn
    BY <1>5 DEF ReceiveSticker
  <2> QED BY <1>4, <2>1, SameTables, TablesCache
<1>6. ASSUME NEW m \in net, ReceiveItemBody(m)
      PROVE  TablesInv'
  <2>1. (db' = db \/ db' = [db EXCEPT ![m.to] = CachePut(@, m.key)]) /\ torn' = torn
    BY <1>6 DEF ReceiveItemBody
  <2> QED BY <1>4, <2>1, SameTables, TablesCache
<1>7. ASSUME NEW m \in net, ReceiveWantPack(m)
      PROVE  TablesInv'
  <2>1. (db' = db \/ db' = [db EXCEPT ![m.to].serves = Serves(m.to)]) /\ torn' = torn
    BY <1>7 DEF ReceiveWantPack
  <2> QED BY <1>4, <2>1, SameTables, TablesServe
<1>8. ASSUME NEW m \in net, ReceivePackBody(m)
      PROVE  TablesInv'
  <2>1. /\ db' = db \/ db' = [db EXCEPT ![m.to] = Installed(@, m.key, Other(m.to), TRUE)]
        /\ torn' = torn /\ m.op = "pack"
    BY <1>8 DEF ReceivePackBody
  <2> QED BY <2>1, SameTables, TablesInstall
<1>9. ASSUME NEW m \in net, \/ ReceiveText(m) \/ ReceiveWantItem(m) \/ ReceiveRefused(m)
                            \/ ReceiveWantThumbs(m) \/ ReceiveThumbsBody(m) \/ Lose(m)
      PROVE  TablesInv'
  BY <1>9, SameTables
     DEF ReceiveText, ReceiveWantItem, ReceiveRefused, ReceiveWantThumbs, ReceiveThumbsBody, Lose
<1>10. CASE Tick
  BY <1>10, SameTables DEF Tick
<1> QED
  BY <1>1, <1>2, <1>3, <1>5, <1>6, <1>7, <1>8, <1>9, <1>10, TablesCreate, TablesRemove, TablesSweep,
     TablesDieCreating, TablesDieRemoving, TablesDieInstalling DEF StickersNext

-----------------------------------------------------------------------------
(* What is on its way *)

\* The fields of an envelope.
LEMMA EnvelopeIs ==
  ASSUME NEW to \in Devices, NEW op, NEW key, NEW index,
         \/ op \in ItemOps /\ key \in DOMAIN Items
         \/ op \in PackOps /\ key \in DOMAIN Packs
  PROVE  /\ IsEnvelope(Envelope(to, op, key, index))
         /\ Envelope(to, op, key, index).to = to /\ Envelope(to, op, key, index).op = op
         /\ Envelope(to, op, key, index).key = key /\ Envelope(to, op, key, index).index = index
<1>1. PICK e : e = Envelope(to, op, key, index)
  OBVIOUS
<1>2. e = [to |-> to, op |-> op, key |-> key, index |-> index, n |-> Fresh(to, op, key)]
  BY <1>1 DEF Envelope
<1> QED BY SMT, <1>1, <1>2 DEF IsEnvelope

\* The chunks of a content.
LEMMA BodiesAre ==
  ASSUME NEW to \in Devices, NEW op, NEW key, NEW m \in Bodies(to, op, key),
         \/ op \in ItemOps /\ key \in DOMAIN Items
         \/ op \in PackOps /\ key \in DOMAIN Packs
  PROVE  /\ IsEnvelope(m) /\ m.to = to /\ m.op = op /\ m.key = key
         /\ m.index \in 0 .. (Counted(op, key) - 1)
<1>1. PICK x \in 0 .. (Counted(op, key) - 1) : m = Envelope(to, op, key, x)
  BY DEF Bodies
<1> QED BY SMT, <1>1, EnvelopeIs

\* What is on its way may be received or lost.
LEMMA NetShrinks ==
  ASSUME NetInv, net' \subseteq net
  PROVE  NetInv'
BY DEF NetInv

\* send_sticker and send_text with a token put envelopes of an item on their way.
LEMMA NetSends ==
  ASSUME NetInv, NEW d \in Devices, NEW i \in DOMAIN Items, SendSticker(d, i) \/ SendToken(d, i)
  PROVE  NetInv'
<1>1. Other(d) \in Devices
  BY OtherDevice
<1>2. CASE SendSticker(d, i)
  <2>1. PICK x : net' = net \cup {Envelope(Other(d), "sticker", i, x)}
    BY <1>2 DEF SendSticker, Sends
  <2>2. PICK e : e = Envelope(Other(d), "sticker", i, x)
    OBVIOUS
  <2>3. IsEnvelope(e) /\ e.op = "sticker"
    BY SMT, <1>1, <2>2, EnvelopeIs DEF ItemOps
  <2>4. Sent(e)
    BY <2>3 DEF Sent, ChunkOps
  <2> QED BY <2>1, <2>2, <2>3, <2>4 DEF NetInv
<1>3. CASE SendToken(d, i)
  <2>1. net' \subseteq (net \cup {Envelope(Other(d), "text", i, 0)})
                       \cup Bodies(Other(d), "item", i)
    BY <1>3 DEF SendToken, Sends
  <2>2. PICK e : e = Envelope(Other(d), "text", i, 0)
    OBVIOUS
  <2>3. IsEnvelope(e) /\ e.op = "text"
    BY SMT, <1>1, <2>2, EnvelopeIs DEF ItemOps
  <2>4. \A m \in Bodies(Other(d), "item", i) :
          IsEnvelope(m) /\ m.op = "item" /\ m.index \in 0 .. (Counted(m.op, m.key) - 1)
    BY SMT, <1>1, BodiesAre DEF ItemOps
  <2> QED BY <2>1, <2>2, <2>3, <2>4 DEF NetInv, Sent, ChunkOps
<1> QED BY <1>2, <1>3

\* An envelope that is not a chunk may be put on its way.
LEMMA NetAdds ==
  ASSUME NetInv, NEW to \in Devices, NEW op, NEW key, NEW x, op \notin ChunkOps,
         \/ op \in ItemOps /\ key \in DOMAIN Items
         \/ op \in PackOps /\ key \in DOMAIN Packs,
         net' \subseteq net \cup {Envelope(to, op, key, x)}
  PROVE  NetInv'
<1>1. PICK e : e = Envelope(to, op, key, x)
  OBVIOUS
<1>2. IsEnvelope(e) /\ e.op = op
  BY SMT, <1>1, EnvelopeIs
<1>3. Sent(e)
  BY <1>2 DEF Sent, ChunkOps
<1> QED BY <1>1, <1>2, <1>3 DEF NetInv

\* The chunks of an item, of a pack by its maker, and of a preview that could be
\* encoded may be put on their way.
LEMMA NetServes ==
  ASSUME NetInv, NEW to \in Devices, NEW op, NEW key,
         net' \subseteq net \cup Bodies(to, op, key),
         \/ op = "item" /\ key \in DOMAIN Items
         \/ op = "pack" /\ key \in DOMAIN Packs /\ Packs[key].maker # to /\ BodyBytesOk(key)
         \/ op = "thumbs" /\ key \in DOMAIN Packs /\ ThumbsEncodeOk(key)
  PROVE  NetInv'
<1>1. ASSUME NEW m \in Bodies(to, op, key)
      PROVE  /\ IsEnvelope(m) /\ m.to = to /\ m.op = op /\ m.key = key
             /\ m.index \in 0 .. (Counted(op, key) - 1)
  BY SMT, <1>1, BodiesAre DEF ItemOps, PackOps
<1>2. ASSUME NEW m \in Bodies(to, op, key)
      PROVE  IsEnvelope(m) /\ Sent(m)
  BY <1>1, <1>2 DEF Sent
<1> QED BY <1>2 DEF NetInv

\* Every step keeps the invariant of what is on its way.
LEMMA NetKeep ==
  ASSUME TablesInv, NetInv, StickersNext
  PROVE  NetInv'
<1>1. ASSUME NEW d \in Devices, NEW p \in DOMAIN Packs, FetchPack(d, p) \/ FetchThumbs(d, p)
      PROVE  NetInv'
  <2>1. Other(d) \in Devices
    BY OtherDevice
  <2>2. CASE FetchPack(d, p)
    <3>1. net' \subseteq net \cup {Envelope(Other(d), "wantpack", p, 0)}
      BY <2>2 DEF FetchPack, Sends
    <3> QED BY SMT, <2>1, <3>1, NetAdds DEF PackOps, ChunkOps
  <2>3. CASE FetchThumbs(d, p)
    <3>1. net' \subseteq net \cup {Envelope(Other(d), "wantthumbs", p, 0)}
      BY <2>3 DEF FetchThumbs, Sends
    <3> QED BY SMT, <2>1, <3>1, NetAdds DEF PackOps, ChunkOps
  <2> QED BY <1>1, <2>2, <2>3
<1>2. ASSUME NEW d \in Devices, NEW p \in DOMAIN Packs,
             CreatePack(d, p) \/ RemovePack(d, p) \/ DieCreating(d, p) \/ DieRemoving(d, p)
      PROVE  NetInv'
  BY <1>2, NetShrinks DEF CreatePack, RemovePack, DieCreating, DieRemoving
<1>3. ASSUME NEW d \in Devices, SweepStickers(d) \/ Forget(d)
      PROVE  NetInv'
  BY <1>3, NetShrinks DEF SweepStickers, Forget
<1>4. ASSUME NEW m \in net
      PROVE  m.to \in Devices /\ Other(m.to) \in Devices /\ Other(m.to) # m.to
  BY <1>4, OtherDevice DEF NetInv, IsEnvelope
<1>5. ASSUME NEW m \in net, ReceiveSticker(m) \/ ReceiveText(m)
      PROVE  NetInv'
  <2>1. m.key \in DOMAIN Items
    BY <1>5 DEF NetInv, IsEnvelope, PackOps, ReceiveSticker, ReceiveText
  <2>2. net' \subseteq net \cup {Envelope(Other(m.to), "wantitem", m.key, 0)}
    BY <1>5 DEF ReceiveSticker, ReceiveText, Takes, WantItem
  <2> QED BY SMT, <1>4, <2>1, <2>2, NetAdds DEF ItemOps, ChunkOps
<1>6. ASSUME NEW m \in net, ReceiveWantItem(m)
      PROVE  NetInv'
  <2>1. m.key \in DOMAIN Items
    BY <1>6 DEF NetInv, IsEnvelope, PackOps, ReceiveWantItem
  <2>2. net' \subseteq net \cup Bodies(Other(m.to), "item", m.key)
    BY <1>6 DEF ReceiveWantItem, Takes
  <2> QED BY <1>4, <2>1, <2>2, NetServes
<1>7. ASSUME NEW m \in net, ReceiveItemBody(m)
      PROVE  NetInv'
  <2>1. PackOf(m.key) \in DOMAIN Packs
    BY <1>7, SizesAssumption DEF NetInv, IsEnvelope, PackOps, ReceiveItemBody, PackOf
  <2>2. net' \subseteq net \cup {Envelope(Other(m.to), "wantpack", PackOf(m.key), 0)}
    BY <1>7 DEF ReceiveItemBody, Takes
  <2> QED BY SMT, <1>4, <2>1, <2>2, NetAdds DEF PackOps, ChunkOps
<1>8. ASSUME NEW m \in net, ReceiveWantPack(m)
      PROVE  NetInv'
  <2>1. m.key \in DOMAIN Packs
    BY <1>8 DEF NetInv, IsEnvelope, ItemOps, ReceiveWantPack
  <2>2. \/ net' \subseteq net \cup {Envelope(Other(m.to), "refused", m.key, 0)}
        \/ PackDocument(m.to, m.key) /\ net' \subseteq net \cup Bodies(Other(m.to), "pack", m.key)
    BY <1>8 DEF ReceiveWantPack, Takes
  <2>3. PackDocument(m.to, m.key) => Packs[m.key].maker # Other(m.to) /\ BodyBytesOk(m.key)
    BY <1>4 DEF PackDocument, LoadPackKey, TablesInv, Own
  <2> QED BY SMT, <1>4, <2>1, <2>2, <2>3, NetAdds, NetServes DEF PackOps, ChunkOps
<1>9. ASSUME NEW m \in net, ReceiveWantThumbs(m)
      PROVE  NetInv'
  <2>1. m.key \in DOMAIN Packs
    BY <1>9 DEF NetInv, IsEnvelope, ItemOps, ReceiveWantThumbs
  <2>2. \/ net' \subseteq net
        \/ ThumbsEncodeOk(m.key) /\ net' \subseteq net \cup Bodies(Other(m.to), "thumbs", m.key)
    BY <1>9 DEF ReceiveWantThumbs, Takes
  <2> QED BY <1>4, <2>1, <2>2, NetShrinks, NetServes
<1>10. ASSUME NEW m \in net, \/ ReceivePackBody(m) \/ ReceiveRefused(m) \/ ReceiveThumbsBody(m)
                             \/ Lose(m) \/ DieInstalling(m)
       PROVE  NetInv'
  <2>1. net' \subseteq net
    BY <1>10 DEF ReceivePackBody, ReceiveRefused, ReceiveThumbsBody, Lose, DieInstalling, Takes
  <2> QED BY <2>1, NetShrinks
<1>11. CASE Tick
  BY <1>11, NetShrinks DEF Tick
<1> QED
  BY <1>1, <1>2, <1>3, <1>5, <1>6, <1>7, <1>8, <1>9, <1>10, <1>11, NetSends DEF StickersNext

-----------------------------------------------------------------------------
(* What is asked for *)

\* Every content has a first chunk.
LEMMA CountedPositive ==
  ASSUME NEW w, IsAsked(w)
  PROVE  0 \in 0 .. (Counted(w.what, w.key) - 1)
<1>1. ASSUME NEW b \in Nat
      PROVE  0 \in 0 .. (ChunkCount(b) - 1)
  BY SMT, <1>1 DEF ChunkCount, ChunkMax
<1>2. PICK b \in Nat : Counted(w.what, w.key) = ChunkCount(b)
  BY SizesAssumption DEF IsAsked, Counted
<1> QED BY <1>1, <1>2

\* The history of what is asked for is empty once something went wrong.
LEMMA WaitingIs ==
  ASSUME NEW ok, NEW S, Waiting(ok, S)
  PROVE  /\ calm' \in BOOLEAN /\ (calm' \/ wants' = {}) /\ wants' \subseteq S
         /\ wants' # {} => ok
BY DEF Waiting

\* The buffers of a device that are left alone hold what they held.
LEMMA SameHere ==
  ASSUME NEW d, pend'[d] = pend[d]
  PROVE  /\ \A op, key : Here(d, op, key)' = Here(d, op, key)
         /\ Partial(d) => Partial(d)'
BY DEF Here, Partial

\* The envelope m settles w when it is received.
Answers(m, w) ==
  \/ m.op = WantOf(w.what) /\ m.to = Other(w.by) /\ m.key = w.key
  \/ w.what = "pack" /\ m.op = "refused" /\ m.to = w.by /\ m.key = w.key

\* An envelope that does not settle w leaves it pursued.
LEMMA PursuedStays ==
  ASSUME NEW w, IsAsked(w), Pursued(w), pend' = pend, NEW m, net \ {m} \subseteq net',
         m.op \notin ChunkOps, ~Answers(m, w)
  PROVE  Pursued(w)'
<1>1. CASE OnTheWay(Other(w.by), WantOf(w.what), w.key)
  BY <1>1 DEF OnTheWay, Answers, Pursued
<1>2. CASE w.what = "pack" /\ OnTheWay(w.by, "refused", w.key)
  BY <1>2 DEF OnTheWay, Answers, Pursued
<1>3. CASE Covered(w.by, w.what, w.key)
  <2>1. w.what \in ChunkOps
    BY DEF IsAsked, ChunkOps
  <2>2. ASSUME NEW x \in 0 .. (Counted(w.what, w.key) - 1)
        PROVE  \/ x \in Here(w.by, w.what, w.key)'
               \/ \E e \in net' : e.to = w.by /\ e.op = w.what /\ e.key = w.key /\ e.index = x
    <3>1. CASE x \in Here(w.by, w.what, w.key)
      BY <3>1 DEF Here
    <3>2. CASE \E e \in net : e.to = w.by /\ e.op = w.what /\ e.key = w.key /\ e.index = x
      BY <3>2, <2>1
    <3> QED BY <3>1, <3>2, <2>2, <1>3 DEF Covered
  <2>3. Covered(w.by, w.what, w.key)'
    BY <2>2 DEF Covered
  <2> QED BY <2>3 DEF Pursued
<1> QED BY <1>1, <1>2, <1>3 DEF Pursued

\* The invariant after an envelope that is not a chunk was received.
LEMMA HangReceipt ==
  ASSUME HangInv, pend' = pend, calm' \in BOOLEAN, calm' \/ wants' = {},
         NEW m, net \ {m} \subseteq net', m.op \notin ChunkOps,
         \A w \in wants' : (w \in wants /\ ~Answers(m, w)) \/ (IsAsked(w) /\ Pursued(w)')
  PROVE  HangInv'
<1>1. ASSUME NEW w \in wants'
      PROVE  IsAsked(w) /\ Pursued(w)'
  <2>1. CASE w \in wants /\ ~Answers(m, w)
    <3>1. IsAsked(w) /\ Pursued(w)
      BY <2>1 DEF HangInv
    <3> QED BY <2>1, <3>1, PursuedStays
  <2> QED BY <1>1, <2>1
<1>2. \A d \in Devices : Partial(d)'
  BY DEF HangInv, Partial
<1> QED BY <1>1, <1>2 DEF HangInv

\* The invariant after envelopes were put on their way.
LEMMA HangQuiet ==
  ASSUME HangInv, pend' = pend, calm' = calm, wants' = wants, net \subseteq net'
  PROVE  HangInv'
<1>1. PICK m : m = [op |-> "none"]
  OBVIOUS
<1>2. m.op = "none"
  BY <1>1
<1>3. ASSUME NEW w
      PROVE  ~Answers(m, w)
  BY <1>2 DEF Answers, WantOf
<1> QED BY <1>2, <1>3, HangReceipt DEF HangInv, ChunkOps

\* The fields of what is asked for.
LEMMA AskedIs ==
  ASSUME NEW d \in Devices, NEW what, NEW key,
         \/ what = "item" /\ key \in DOMAIN Items
         \/ what \in {"pack", "thumbs"} /\ key \in DOMAIN Packs
  PROVE  /\ IsAsked(Asked(d, what, key)) /\ Asked(d, what, key).by = d
         /\ Asked(d, what, key).what = what /\ Asked(d, what, key).key = key
BY DEF Asked, IsAsked

\* What is asked for is pursued by its want.
LEMMA NewWant ==
  ASSUME NEW d \in Devices, NEW what, NEW key,
         \/ what = "item" /\ key \in DOMAIN Items
         \/ what \in {"pack", "thumbs"} /\ key \in DOMAIN Packs,
         Envelope(Other(d), WantOf(what), key, 0) \in net'
  PROVE  IsAsked(Asked(d, what, key)) /\ Pursued(Asked(d, what, key))'
<1>1. PICK w : w = Asked(d, what, key)
  OBVIOUS
<1>2. IsAsked(w) /\ w.by = d /\ w.what = what /\ w.key = key
  BY SMT, <1>1, AskedIs
<1>3. PICK e : e = Envelope(Other(d), WantOf(what), key, 0)
  OBVIOUS
<1>4. e.to = Other(d) /\ e.op = WantOf(what) /\ e.key = key
  BY <1>3 DEF Envelope
<1>5. Pursued(w)'
  BY <1>2, <1>3, <1>4 DEF Pursued, OnTheWay
<1> QED BY <1>1, <1>2, <1>5

\* It is pursued once its chunks are on their way.
LEMMA BodiesCover ==
  ASSUME NEW w, Bodies(w.by, w.what, w.key) \subseteq net'
  PROVE  Pursued(w)'
<1>1. ASSUME NEW x \in 0 .. (Counted(w.what, w.key) - 1)
      PROVE  \E e \in net' : e.to = w.by /\ e.op = w.what /\ e.key = w.key /\ e.index = x
  <2>1. PICK e : e = Envelope(w.by, w.what, w.key, x)
    OBVIOUS
  <2>2. e.to = w.by /\ e.op = w.what /\ e.key = w.key /\ e.index = x
    BY <2>1 DEF Envelope
  <2>3. e \in net'
    BY <1>1, <2>1 DEF Bodies
  <2> QED BY <2>2, <2>3
<1>2. Covered(w.by, w.what, w.key)'
  BY <1>1 DEF Covered
<1> QED BY <1>2 DEF Pursued

\* What an envelope settles.
LEMMA WantAnswered ==
  ASSUME NEW w, IsAsked(w), NEW m, m.to \in Devices, Answers(m, w)
  PROVE  /\ m.op = "wantitem" => w = Asked(Other(m.to), "item", m.key)
         /\ m.op = "wantpack" => w = Asked(Other(m.to), "pack", m.key)
         /\ m.op = "wantthumbs" => w = Asked(Other(m.to), "thumbs", m.key)
         /\ m.op = "refused" => w = Asked(m.to, "pack", m.key)
<1>1. Other(Other(w.by)) = w.by
  BY OtherDevice DEF IsAsked
<1>2. w.what \in {"item", "pack", "thumbs"} /\ w = Asked(w.by, w.what, w.key)
  BY DEF IsAsked
<1>3. m.op # "refused" => /\ m.op = WantOf(w.what) /\ w.by = Other(m.to) /\ m.key = w.key
  BY <1>1 DEF Answers
<1>4. m.op = "refused" => w.what = "pack" /\ m.to = w.by /\ m.key = w.key
  BY <1>2 DEF Answers, WantOf
<1> QED BY <1>2, <1>3, <1>4 DEF WantOf

\* Only wants and refusals settle without chunks.
LEMMA NoAnswer ==
  ASSUME NEW w, NEW m, m.op \notin {"wantitem", "wantpack", "wantthumbs", "refused"}
  PROVE  ~Answers(m, w)
BY DEF Answers, WantOf

\* fetch_pack and fetch_thumbs keep the invariant.
LEMMA HangFetches ==
  ASSUME HangInv, NEW d \in Devices, NEW p \in DOMAIN Packs, FetchPack(d, p) \/ FetchThumbs(d, p)
  PROVE  HangInv'
<1>1. PICK m : m = [op |-> "none"]
  OBVIOUS
<1>2. m.op = "none" /\ \A w : ~Answers(m, w)
  BY <1>1, NoAnswer
<1>3. PICK what \in {"pack", "thumbs"} :
        /\ net' = net \cup {Envelope(Other(d), WantOf(what), p, 0)}
        /\ Waiting(TRUE, wants \cup {Asked(d, what, p)}) /\ pend' = pend
  BY DEF FetchPack, FetchThumbs, Sends, WantOf
<1>4. IsAsked(Asked(d, what, p)) /\ Pursued(Asked(d, what, p))'
  BY <1>3, NewWant
<1>5. /\ calm' \in BOOLEAN /\ (calm' \/ wants' = {})
      /\ wants' \subseteq wants \cup {Asked(d, what, p)}
  BY <1>3, WaitingIs
<1> QED BY <1>2, <1>3, <1>4, <1>5, HangReceipt DEF ChunkOps

\* on_sticker and fetch_missing_emoji keep it: what they ask for is on its way.
LEMMA HangSticker ==
  ASSUME HangInv, NetInv, NEW m \in net, ReceiveSticker(m) \/ ReceiveText(m)
  PROVE  HangInv'
<1>1. m.to \in Devices /\ m.key \in DOMAIN Items /\ m.op \in {"sticker", "text"}
  BY DEF NetInv, IsEnvelope, PackOps, ReceiveSticker, ReceiveText
<1>2. \A w : ~Answers(m, w)
  BY <1>1, NoAnswer
<1>3. PICK S : /\ Waiting(TRUE, S)
               /\ \/ S = wants
                  \/ /\ S = wants \cup {Asked(m.to, "item", m.key)}
                     /\ Envelope(Other(m.to), WantOf("item"), m.key, 0) \in net'
  BY DEF ReceiveSticker, ReceiveText, Takes, WantItem, WantOf
<1>4. /\ calm' \in BOOLEAN /\ (calm' \/ wants' = {}) /\ wants' \subseteq S
  BY <1>3, WaitingIs
<1>5. ASSUME NEW w \in wants'
      PROVE  (w \in wants /\ ~Answers(m, w)) \/ (IsAsked(w) /\ Pursued(w)')
  <2>1. CASE w \in wants
    BY <2>1, <1>2
  <2>2. CASE w \notin wants
    <3>1. w = Asked(m.to, "item", m.key) /\ Envelope(Other(m.to), WantOf("item"), m.key, 0) \in net'
      BY <2>2, <1>3, <1>4, <1>5
    <3> QED BY <3>1, <1>1, NewWant
  <2> QED BY <2>1, <2>2
<1>6. pend' = pend /\ net \ {m} \subseteq net' /\ m.op \notin ChunkOps
  BY <1>1 DEF ReceiveSticker, ReceiveText, Takes, ChunkOps
<1> QED BY <1>4, <1>5, <1>6, HangReceipt

\* answer_want_item keeps it: it sends the item, or passes over it in silence.
LEMMA HangWantItem ==
  ASSUME HangInv, NetInv, NEW m \in net, ReceiveWantItem(m)
  PROVE  HangInv'
<1>1. m.to \in Devices /\ m.key \in DOMAIN Items /\ m.op = "wantitem"
  BY DEF NetInv, IsEnvelope, PackOps, ReceiveWantItem
<1>2. PICK a : a = Asked(Other(m.to), "item", m.key)
  OBVIOUS
<1>3. IsAsked(a) /\ a.by = Other(m.to) /\ a.what = "item" /\ a.key = m.key
  BY SMT, <1>1, <1>2, OtherDevice, AskedIs
<1>4. PICK S : /\ Waiting(TRUE, S)
               /\ \/ S = wants \ {a}
                  \/ S = wants /\ Bodies(Other(m.to), "item", m.key) \subseteq net'
  BY <1>2 DEF ReceiveWantItem, Takes
<1>5. /\ calm' \in BOOLEAN /\ (calm' \/ wants' = {}) /\ wants' \subseteq S
  BY <1>4, WaitingIs
<1>6. ASSUME NEW w \in wants'
      PROVE  (w \in wants /\ ~Answers(m, w)) \/ (IsAsked(w) /\ Pursued(w)')
  <2>1. w \in wants /\ IsAsked(w)
    BY <1>4, <1>5, <1>6 DEF HangInv
  <2>2. Answers(m, w) => w = a
    BY <2>1, <1>1, <1>2, WantAnswered
  <2>3. CASE w = a
    <3>1. Bodies(a.by, a.what, a.key) \subseteq net'
      BY <2>3, <1>3, <1>4, <1>5, <1>6
    <3> QED BY <2>3, <3>1, <1>3, BodiesCover
  <2> QED BY <2>1, <2>2, <2>3
<1>7. pend' = pend /\ net \ {m} \subseteq net' /\ m.op \notin ChunkOps
  BY <1>1 DEF ReceiveWantItem, Takes, ChunkOps
<1> QED BY <1>5, <1>6, <1>7, HangReceipt

\* answer_want_thumbs keeps it, likewise.
LEMMA HangWantThumbs ==
  ASSUME HangInv, NetInv, NEW m \in net, ReceiveWantThumbs(m)
  PROVE  HangInv'
<1>1. m.to \in Devices /\ m.key \in DOMAIN Packs /\ m.op = "wantthumbs"
  BY DEF NetInv, IsEnvelope, ItemOps, ReceiveWantThumbs
<1>2. PICK a : a = Asked(Other(m.to), "thumbs", m.key)
  OBVIOUS
<1>3. IsAsked(a) /\ a.by = Other(m.to) /\ a.what = "thumbs" /\ a.key = m.key
  BY SMT, <1>1, <1>2, OtherDevice, AskedIs
<1>4. PICK S : /\ Waiting(TRUE, S)
               /\ \/ S = wants \ {a}
                  \/ S = wants /\ Bodies(Other(m.to), "thumbs", m.key) \subseteq net'
  BY <1>2 DEF ReceiveWantThumbs, Takes
<1>5. /\ calm' \in BOOLEAN /\ (calm' \/ wants' = {}) /\ wants' \subseteq S
  BY <1>4, WaitingIs
<1>6. ASSUME NEW w \in wants'
      PROVE  (w \in wants /\ ~Answers(m, w)) \/ (IsAsked(w) /\ Pursued(w)')
  <2>1. w \in wants /\ IsAsked(w)
    BY <1>4, <1>5, <1>6 DEF HangInv
  <2>2. Answers(m, w) => w = a
    BY <2>1, <1>1, <1>2, WantAnswered
  <2>3. CASE w = a
    <3>1. Bodies(a.by, a.what, a.key) \subseteq net'
      BY <2>3, <1>3, <1>4, <1>5, <1>6
    <3> QED BY <2>3, <3>1, <1>3, BodiesCover
  <2> QED BY <2>1, <2>2, <2>3
<1>7. pend' = pend /\ net \ {m} \subseteq net' /\ m.op \notin ChunkOps
  BY <1>1 DEF ReceiveWantThumbs, Takes, ChunkOps
<1> QED BY <1>5, <1>6, <1>7, HangReceipt

\* answer_want_pack keeps it: it sends the pack or refuses it.
LEMMA HangWantPack ==
  ASSUME HangInv, NetInv, NEW m \in net, ReceiveWantPack(m)
  PROVE  HangInv'
<1>1. m.to \in Devices /\ m.key \in DOMAIN Packs /\ m.op = "wantpack"
  BY DEF NetInv, IsEnvelope, ItemOps, ReceiveWantPack
<1>2. PICK a : a = Asked(Other(m.to), "pack", m.key)
  OBVIOUS
<1>3. IsAsked(a) /\ a.by = Other(m.to) /\ a.what = "pack" /\ a.key = m.key
  BY SMT, <1>1, <1>2, OtherDevice, AskedIs
<1>4. \/ Envelope(Other(m.to), "refused", m.key, 0) \in net'
      \/ Bodies(Other(m.to), "pack", m.key) \subseteq net'
  BY DEF ReceiveWantPack, Takes
<1>5. Pursued(a)'
  <2>1. CASE Envelope(Other(m.to), "refused", m.key, 0) \in net'
    <3>1. PICK e : e = Envelope(Other(m.to), "refused", m.key, 0)
      OBVIOUS
    <3>2. e.to = Other(m.to) /\ e.op = "refused" /\ e.key = m.key
      BY <3>1 DEF Envelope
    <3> QED BY <2>1, <3>1, <3>2, <1>3 DEF Pursued, OnTheWay
  <2>2. CASE Bodies(Other(m.to), "pack", m.key) \subseteq net'
    <3>1. Bodies(a.by, a.what, a.key) \subseteq net'
      BY <2>2, <1>3
    <3> QED BY <3>1, BodiesCover
  <2> QED BY <2>1, <2>2, <1>4
<1>6. ASSUME NEW w \in wants'
      PROVE  (w \in wants /\ ~Answers(m, w)) \/ (IsAsked(w) /\ Pursued(w)')
  <2>1. w \in wants /\ IsAsked(w)
    BY <1>6 DEF HangInv, ReceiveWantPack
  <2>2. Answers(m, w) => w = a
    BY <2>1, <1>1, <1>2, WantAnswered
  <2> QED BY <2>1, <2>2, <1>3, <1>5
<1>7. /\ pend' = pend /\ net \ {m} \subseteq net' /\ m.op \notin ChunkOps
      /\ calm' \in BOOLEAN /\ (calm' \/ wants' = {})
  BY <1>1 DEF ReceiveWantPack, Takes, ChunkOps, HangInv
<1> QED BY <1>6, <1>7, HangReceipt

\* PACK_REFUSED keeps it: the pack is no longer asked for.
LEMMA HangRefused ==
  ASSUME HangInv, NetInv, NEW m \in net, ReceiveRefused(m)
  PROVE  HangInv'
<1>1. m.to \in Devices /\ m.op = "refused"
  BY DEF NetInv, IsEnvelope, ReceiveRefused
<1>2. PICK a : a = Asked(m.to, "pack", m.key)
  OBVIOUS
<1>3. Waiting(TRUE, wants \ {a})
  BY <1>2 DEF ReceiveRefused
<1>4. /\ calm' \in BOOLEAN /\ (calm' \/ wants' = {}) /\ wants' \subseteq wants \ {a}
  BY <1>3, WaitingIs
<1>5. ASSUME NEW w \in wants'
      PROVE  w \in wants /\ ~Answers(m, w)
  <2>1. w \in wants /\ IsAsked(w) /\ w # a
    BY <1>4, <1>5 DEF HangInv
  <2>2. Answers(m, w) => w = a
    BY <2>1, <1>1, <1>2, WantAnswered
  <2> QED BY <2>1, <2>2
<1>6. pend' = pend /\ net \ {m} \subseteq net' /\ m.op \notin ChunkOps
  BY <1>1 DEF ReceiveRefused, Takes, ChunkOps
<1> QED BY <1>4, <1>5, <1>6, HangReceipt

-----------------------------------------------------------------------------
(* Chunks *)

\* The chunks of a transfer after one more.
LEMMA FedDomain ==
  ASSUME NEW d, NEW m
  PROVE  DOMAIN Fed(d, m) = Here(d, m.op, m.key) \cup {m.index}
<1>1. DOMAIN Got(d, m) = Here(d, m.op, m.key)
  BY DEF Got, Buffered, Here, Empty
<1>2. CASE m.index \in DOMAIN Got(d, m)
  BY <1>1, <1>2 DEF Fed
<1>3. CASE m.index \notin DOMAIN Got(d, m)
  BY <1>1, <1>3 DEF Fed, Put
<1> QED BY <1>2, <1>3

\* What feeding a chunk does to the buffers: one transfer gains it, or leaves when it
\* is complete.
LEMMA FeedHere ==
  ASSUME HangInv, NEW d \in Devices, NEW m, m.index \in 0 .. (Counted(m.op, m.key) - 1),
         pend' = [pend EXCEPT ![d] = Feed(d, m)]
  PROVE  /\ DOMAIN pend' = Devices
         /\ \A e \in Devices : Partial(e)'
         /\ \A e \in Devices : \A op, key :
              ~(e = d /\ op = m.op /\ key = m.key) => Here(e, op, key)' = Here(e, op, key)
         /\ Admitted(d, m) /\ ~Completes(d, m) =>
              Here(d, m.op, m.key)' = Here(d, m.op, m.key) \cup {m.index}
<1>1. DOMAIN pend = Devices /\ \A e \in Devices : Partial(e)
  BY DEF HangInv
<1>2. DOMAIN pend' = Devices /\ pend'[d] = Feed(d, m)
      /\ \A e \in Devices : e # d => pend'[e] = pend[e]
  BY <1>1
<1>3. ASSUME NEW e \in Devices, e # d
      PROVE  Partial(e)' /\ \A op, key : Here(e, op, key)' = Here(e, op, key)
  BY <1>1, <1>2, <1>3, SameHere
<1>4. PICK k : k = <<m.op, m.key>>
  OBVIOUS
<1>5. k[1] = m.op /\ k[2] = m.key /\ \A op, key : <<op, key>> = k => op = m.op /\ key = m.key
  BY <1>4
<1>6. CASE ~Admitted(d, m)
  <2>1. pend'[d] = pend[d]
    BY <1>2, <1>6 DEF Feed, Completes
  <2>2. Partial(d)' /\ \A op, key : Here(d, op, key)' = Here(d, op, key)
    BY <1>1, <2>1, SameHere
  <2> QED BY SMT, <1>2, <1>3, <1>6, <2>2
<1>7. CASE Completes(d, m)
  <2>1. pend'[d] = Drop(pend[d], {k})
    BY <1>2, <1>4, <1>7 DEF Feed, Completes
  <2>2. /\ DOMAIN pend'[d] = DOMAIN pend[d] \ {k}
        /\ \A y \in DOMAIN pend[d] \ {k} : pend'[d][y] = pend[d][y]
    BY <2>1 DEF Drop
  <2>3. Partial(d)'
    BY SMT, <1>1, <2>2 DEF Partial
  <2>4. ASSUME NEW op, NEW key, ~(op = m.op /\ key = m.key)
        PROVE  Here(d, op, key)' = Here(d, op, key)
    <3>1. <<op, key>> # k
      BY <1>5, <2>4
    <3> QED BY <2>2, <3>1 DEF Here
  <2> QED BY SMT, <1>2, <1>3, <1>7, <2>3, <2>4
<1>8. CASE Admitted(d, m) /\ ~Completes(d, m)
  <2>1. PICK v : v.got = Fed(d, m) /\ pend'[d] = Put(pend[d], k, v)
    <3>1. PICK v : v = [got |-> Fed(d, m),
                        at |-> IF Buffered(d, m) THEN pend[d][<<m.op, m.key>>].at ELSE now]
      OBVIOUS
    <3>2. v.got = Fed(d, m)
      BY <3>1
    <3>3. pend'[d] = Put(pend[d], k, v)
      BY <1>2, <1>4, <1>8, <3>1 DEF Feed
    <3> QED BY <3>2, <3>3
  <2>2. /\ DOMAIN pend'[d] = DOMAIN pend[d] \cup {k} /\ pend'[d][k] = v
        /\ \A y \in DOMAIN pend[d] : y # k => pend'[d][y] = pend[d][y]
    BY <2>1 DEF Put
  <2>3. Part(k, DOMAIN v.got)
    <3>1. DOMAIN v.got # 0 .. (Counted(k[1], k[2]) - 1)
      BY <1>5, <1>8, <2>1 DEF Completes
    <3>2. DOMAIN v.got = Here(d, m.op, m.key) \cup {m.index}
      BY <2>1, FedDomain
    <3>3. Here(d, m.op, m.key) \subseteq 0 .. (Counted(k[1], k[2]) - 1)
      BY <1>1, <1>4 DEF Here, Partial, Part
    <3> QED BY <1>5, <3>1, <3>2, <3>3 DEF Part
  <2>4. Partial(d)'
    BY <1>1, <2>2, <2>3 DEF Partial
  <2>5. ASSUME NEW op, NEW key, ~(op = m.op /\ key = m.key)
        PROVE  Here(d, op, key)' = Here(d, op, key)
    <3>1. <<op, key>> # k
      BY <1>5, <2>5
    <3> QED BY <2>2, <3>1 DEF Here
  <2>6. Here(d, m.op, m.key)' = Here(d, m.op, m.key) \cup {m.index}
    <3>1. Here(d, m.op, m.key)' = DOMAIN v.got
      BY <1>4, <2>2 DEF Here
    <3> QED BY <3>1, <2>1, FedDomain
  <2> QED BY SMT, <1>2, <1>3, <2>4, <2>5, <2>6
<1> QED BY <1>6, <1>7, <1>8

\* A chunk that was received leaves everything pursued but what it completes.
LEMMA BodyPursued ==
  ASSUME HangInv, NEW m, m.to \in Devices, m.op \in ChunkOps, NEW f,
         f.op = m.op, f.key = m.key, f.index = m.index,
         m.index \in 0 .. (Counted(m.op, m.key) - 1),
         pend' = [pend EXCEPT ![m.to] = Feed(m.to, f)],
         Admitted(m.to, f), net \ {m} \subseteq net',
         NEW w \in wants, Completes(m.to, f) => w # Asked(m.to, m.op, m.key)
  PROVE  Pursued(w)'
<1>1. IsAsked(w) /\ Pursued(w)
  BY DEF HangInv
<1>2. CASE OnTheWay(Other(w.by), WantOf(w.what), w.key)
  BY <1>2 DEF OnTheWay, Pursued, WantOf, ChunkOps
<1>3. CASE w.what = "pack" /\ OnTheWay(w.by, "refused", w.key)
  BY <1>3 DEF OnTheWay, Pursued, ChunkOps
<1>4. CASE Covered(w.by, w.what, w.key)
  <2>1. ASSUME NEW x \in 0 .. (Counted(w.what, w.key) - 1)
        PROVE  \/ x \in Here(w.by, w.what, w.key)'
               \/ \E e \in net' : e.to = w.by /\ e.op = w.what /\ e.key = w.key /\ e.index = x
    <3>1. \/ x \in Here(w.by, w.what, w.key)
          \/ \E e \in net : e.to = w.by /\ e.op = w.what /\ e.key = w.key /\ e.index = x
      BY <1>4, <2>1 DEF Covered
    <3>2. CASE w.by = m.to /\ w.what = m.op /\ w.key = m.key
      <4>1. ~Completes(m.to, f)
        BY <3>2, <1>1 DEF IsAsked
      <4>2. Here(m.to, f.op, f.key)' = Here(m.to, f.op, f.key) \cup {f.index}
        BY <4>1, FeedHere
      <4>3. Here(w.by, w.what, w.key)' = Here(w.by, w.what, w.key) \cup {m.index}
        BY <3>2, <4>2
      <4> QED BY <3>1, <4>3
    <3>3. CASE ~(w.by = m.to /\ w.what = m.op /\ w.key = m.key)
      <4>1. \A e \in Devices : \A op, key :
              ~(e = m.to /\ op = f.op /\ key = f.key) => Here(e, op, key)' = Here(e, op, key)
        BY ZenonT(60), FeedHere
      <4>2. Here(w.by, w.what, w.key)' = Here(w.by, w.what, w.key)
        BY <3>3, <4>1, <1>1 DEF IsAsked
      <4> QED BY <3>1, <3>3, <4>2
    <3> QED BY <3>2, <3>3
  <2>2. Covered(w.by, w.what, w.key)'
    BY <2>1 DEF Covered
  <2> QED BY <2>2 DEF Pursued
<1> QED BY <1>1, <1>2, <1>3, <1>4 DEF Pursued

\* The invariant after a chunk was received.
LEMMA HangBody ==
  ASSUME HangInv, NEW m, m.to \in Devices, m.op \in ChunkOps, NEW f,
         f.op = m.op, f.key = m.key, f.index = m.index,
         m.index \in 0 .. (Counted(m.op, m.key) - 1),
         pend' = [pend EXCEPT ![m.to] = Feed(m.to, f)], net \ {m} \subseteq net',
         NEW ok, NEW S, Waiting(ok, S), ok => Admitted(m.to, f),
         ok => \A w \in S : \/ w \in wants /\ (Completes(m.to, f) => w # Asked(m.to, m.op, m.key))
                            \/ IsAsked(w) /\ Pursued(w)'
  PROVE  HangInv'
<1>1. /\ calm' \in BOOLEAN /\ (calm' \/ wants' = {}) /\ wants' \subseteq S
      /\ wants' # {} => ok
  BY SMT, WaitingIs
<1>2. DOMAIN pend' = Devices /\ \A e \in Devices : Partial(e)'
  BY FeedHere
<1>3. ASSUME NEW w \in wants'
      PROVE  IsAsked(w) /\ Pursued(w)'
  <2>1. ok /\ w \in S
    BY <1>1, <1>3
  <2>2. CASE w \in wants /\ (Completes(m.to, f) => w # Asked(m.to, m.op, m.key))
    <3>1. IsAsked(w)
      BY <2>2 DEF HangInv
    <3>2. Pursued(w)'
      BY <2>1, <2>2, BodyPursued
    <3> QED BY <3>1, <3>2
  <2> QED BY <2>1, <2>2
<1> QED BY ZenonT(60), <1>1, <1>2, <1>3 DEF HangInv

\* The number of its transfer does not matter to a chunk of an item or a preview.
LEMMA Renumbered ==
  ASSUME NEW m, IsEnvelope(m), NEW f, f = [m EXCEPT !.n = 0]
  PROVE  /\ f.op = m.op /\ f.key = m.key /\ f.index = m.index
         /\ \A d : Admitted(d, f) = Admitted(d, m) /\ Completes(d, f) = Completes(d, m)
<1>1. f.op = m.op /\ f.key = m.key /\ f.index = m.index
  BY DEF IsEnvelope
<1>2. ASSUME NEW d
      PROVE  Admitted(d, f) = Admitted(d, m) /\ Completes(d, f) = Completes(d, m)
  <2>1. Admitted(d, f) = Admitted(d, m)
    BY <1>1 DEF Admitted, Buffered
  <2>2. DOMAIN Fed(d, f) = DOMAIN Fed(d, m)
    <3>1. /\ DOMAIN Fed(d, f) = Here(d, f.op, f.key) \cup {f.index}
          /\ DOMAIN Fed(d, m) = Here(d, m.op, m.key) \cup {m.index}
      BY FedDomain
    <3> QED BY <3>1, <1>1
  <2> QED BY <2>1, <2>2, <1>1 DEF Completes
<1> QED BY <1>1, <1>2

\* ITEM_BODY keeps it: the last chunk brings the item, and may fetch its pack.
LEMMA HangItemBody ==
  ASSUME HangInv, NetInv, NEW m \in net, ReceiveItemBody(m)
  PROVE  HangInv'
<1>1. /\ IsEnvelope(m) /\ m.to \in Devices /\ m.key \in DOMAIN Items /\ m.op = "item"
      /\ m.index \in 0 .. (Counted(m.op, m.key) - 1)
  BY DEF NetInv, IsEnvelope, PackOps, Sent, ChunkOps, ReceiveItemBody
<1>2. PICK f : f = [m EXCEPT !.n = 0]
  OBVIOUS
<1>3. /\ f.op = m.op /\ f.key = m.key /\ f.index = m.index
      /\ Admitted(m.to, f) = Admitted(m.to, m) /\ Completes(m.to, f) = Completes(m.to, m)
  BY <1>1, <1>2, Renumbered
<1>4. PICK p : p = PackOf(m.key)
  OBVIOUS
<1>5. p \in DOMAIN Packs
  BY <1>1, <1>4, SizesAssumption DEF PackOf
<1>6. pend' = [pend EXCEPT ![m.to] = Feed(m.to, f)] /\ net \ {m} \subseteq net'
  BY <1>2 DEF ReceiveItemBody, Takes
<1>7. CASE ~Completes(m.to, m)
  <2>1. Waiting(Admitted(m.to, m), wants)
    BY <1>7 DEF ReceiveItemBody
  <2>2. m.op \in ChunkOps
    BY <1>1 DEF ChunkOps
  <2>3. PICK ok : ok = Admitted(m.to, m)
    OBVIOUS
  <2> QED BY <1>1, <1>3, <1>6, <1>7, <2>1, <2>2, HangBody
<1>8. CASE Completes(m.to, m)
  <2>1. PICK a, b : a = Asked(m.to, "item", m.key) /\ b = Asked(m.to, "pack", p)
    OBVIOUS
  <2>2. PICK S : /\ Waiting(TRUE, S)
                 /\ \/ S = wants \ {a}
                    \/ /\ S = (wants \ {a}) \cup {b}
                       /\ Envelope(Other(m.to), WantOf("pack"), p, 0) \in net'
    BY <1>4, <1>8, <2>1 DEF ReceiveItemBody, Takes, WantOf
  <2>3. Envelope(Other(m.to), WantOf("pack"), p, 0) \in net' => IsAsked(b) /\ Pursued(b)'
    BY <1>1, <1>5, <2>1, NewWant
  <2>4. Admitted(m.to, f)
    BY <1>3, <1>8 DEF Completes
  <2>5. ASSUME NEW w \in S
        PROVE  \/ w \in wants /\ (Completes(m.to, f) => w # Asked(m.to, m.op, m.key))
               \/ IsAsked(w) /\ Pursued(w)'
    BY <1>1, <2>1, <2>2, <2>3, <2>5
  <2>6. m.op \in ChunkOps
    BY <1>1 DEF ChunkOps
  <2> QED BY <1>1, <1>3, <1>6, <2>2, <2>4, <2>5, <2>6, HangBody
<1> QED BY <1>7, <1>8

\* PACK_BODY keeps it: the last chunk brings a document its reader accepts.
LEMMA HangPackBody ==
  ASSUME HangInv, NetInv, NEW m \in net, ReceivePackBody(m)
  PROVE  HangInv'
<1>1. /\ m.to \in Devices /\ m.key \in DOMAIN Packs /\ m.op = "pack" /\ BodyBytesOk(m.key)
      /\ m.index \in 0 .. (Counted(m.op, m.key) - 1)
  BY DEF NetInv, IsEnvelope, ItemOps, Sent, ChunkOps, ReceivePackBody
<1>2. pend' = [pend EXCEPT ![m.to] = Feed(m.to, m)] /\ net \ {m} \subseteq net'
  BY DEF ReceivePackBody, Takes
<1>3. PICK ok : ok = (/\ Admitted(m.to, m)
                      /\ Completes(m.to, m) => Cardinality(Sigs(m.to, m)) = 1)
  OBVIOUS
<1>4. PICK good : good = (Completes(m.to, m) /\ DecodeSignedOk(m.key, Sigs(m.to, m)))
  OBVIOUS
<1>5. PICK got :
        Waiting(ok, IF good THEN wants \ (got \cup {Asked(m.to, "pack", m.key)}) ELSE wants)
  BY <1>3, <1>4 DEF ReceivePackBody
<1>6. PICK S : S = (IF good THEN wants \ (got \cup {Asked(m.to, "pack", m.key)}) ELSE wants)
  OBVIOUS
<1>7. ok /\ Completes(m.to, m) => good
  BY <1>1, <1>3, <1>4, DocumentsAssumption DEF DecodeSignedOk
<1>8. ok => \A w \in S : \/ w \in wants /\ (Completes(m.to, m) => w # Asked(m.to, m.op, m.key))
                         \/ IsAsked(w) /\ Pursued(w)'
  BY <1>1, <1>6, <1>7
<1>9. ok => Admitted(m.to, m)
  BY <1>3
<1>10. Waiting(ok, S) /\ m.op \in ChunkOps
  BY <1>1, <1>5, <1>6 DEF ChunkOps
<1> QED BY <1>1, <1>2, <1>8, <1>9, <1>10, HangBody

\* THUMBS_BODY keeps it.
LEMMA HangThumbsBody ==
  ASSUME HangInv, NetInv, NEW m \in net, ReceiveThumbsBody(m)
  PROVE  HangInv'
<1>1. /\ IsEnvelope(m) /\ m.to \in Devices /\ m.key \in DOMAIN Packs /\ m.op = "thumbs"
      /\ ThumbsEncodeOk(m.key) /\ m.index \in 0 .. (Counted(m.op, m.key) - 1)
  BY DEF NetInv, IsEnvelope, ItemOps, Sent, ChunkOps, ReceiveThumbsBody
<1>2. PICK f : f = [m EXCEPT !.n = 0]
  OBVIOUS
<1>3. /\ f.op = m.op /\ f.key = m.key /\ f.index = m.index
      /\ Admitted(m.to, f) = Admitted(m.to, m) /\ Completes(m.to, f) = Completes(m.to, m)
  BY <1>1, <1>2, Renumbered
<1>4. pend' = [pend EXCEPT ![m.to] = Feed(m.to, f)] /\ net \ {m} \subseteq net'
  BY <1>2 DEF ReceiveThumbsBody, Takes
<1>5. ThumbsDecodeOk(m.key)
  BY <1>1, DocumentsAssumption
<1>6. PICK S : /\ Waiting(Admitted(m.to, f), S) /\ S \subseteq wants
               /\ Completes(m.to, m) => S = wants \ {Asked(m.to, "thumbs", m.key)}
  BY <1>3, <1>5 DEF ReceiveThumbsBody
<1>7. \A w \in S : \/ w \in wants /\ (Completes(m.to, f) => w # Asked(m.to, m.op, m.key))
                   \/ IsAsked(w) /\ Pursued(w)'
  BY <1>1, <1>3, <1>6
<1>8. m.op \in ChunkOps
  BY <1>1 DEF ChunkOps
<1>9. f.op = m.op /\ f.key = m.key /\ f.index = m.index
  BY <1>3
<1>10. PICK ok : ok = Admitted(m.to, f)
  OBVIOUS
<1>11. Waiting(ok, S) /\ (ok => Admitted(m.to, f)) /\ m.to \in Devices
  BY <1>1, <1>6, <1>10
<1>12. m.index \in 0 .. (Counted(m.op, m.key) - 1)
  BY <1>1
<1>13. ok => \A w \in S : \/ w \in wants /\ (Completes(m.to, f) => w # Asked(m.to, m.op, m.key))
                          \/ IsAsked(w) /\ Pursued(w)'
  BY <1>7
<1> QED BY <1>4, <1>8, <1>9, <1>11, <1>12, <1>13, HangBody

-----------------------------------------------------------------------------
(* Upkeep *)

\* PendingBuffers::sweep keeps it: a buffer that goes ends the calm.
LEMMA HangSweeps ==
  ASSUME HangInv, NEW d \in Devices, SweepStickers(d)
  PROVE  HangInv'
<1>1. PICK stale : /\ pend' = [pend EXCEPT ![d] = Drop(@, stale)] /\ Waiting(stale = {}, wants)
                   /\ net' = net
  BY DEF SweepStickers
<1>2. /\ calm' \in BOOLEAN /\ (calm' \/ wants' = {}) /\ wants' \subseteq wants
      /\ wants' # {} => stale = {}
  BY <1>1, WaitingIs
<1>3. /\ DOMAIN pend' = Devices /\ \A e \in Devices : e # d => pend'[e] = pend[e]
      /\ DOMAIN pend'[d] = DOMAIN pend[d] \ stale
      /\ \A y \in DOMAIN pend[d] \ stale : pend'[d][y] = pend[d][y]
  BY <1>1 DEF HangInv, Drop
<1>4. ASSUME NEW e \in Devices
      PROVE  Partial(e)'
  <2>1. Partial(e)
    BY DEF HangInv
  <2>2. CASE e = d
    BY <2>1, <2>2, <1>3 DEF Partial
  <2>3. CASE e # d
    BY ZenonT(60), <2>1, <2>3, <1>3 DEF Partial
  <2> QED BY <2>2, <2>3
<1>5. ASSUME NEW w \in wants'
      PROVE  IsAsked(w) /\ Pursued(w)'
  <2>1. stale = {} /\ IsAsked(w) /\ Pursued(w)
    BY <1>2, <1>5 DEF HangInv
  <2>2. \A op, key : Here(w.by, op, key)' = Here(w.by, op, key)
    <3>1. CASE w.by = d
      BY <2>1, <3>1, <1>3 DEF Here
    <3>2. CASE w.by # d
      BY <2>1, <3>2, <1>3 DEF Here, IsAsked
    <3> QED BY <3>1, <3>2
  <2> QED BY SMT, <2>1, <2>2, <1>1 DEF Pursued, Covered, OnTheWay
<1> QED BY <1>2, <1>3, <1>4, <1>5 DEF HangInv

\* A mishap ends the calm.
LEMMA HangMishap ==
  ASSUME HangInv, Mishap, NEW d, pend' = pend \/ pend' = [pend EXCEPT ![d] = Empty]
  PROVE  HangInv'
<1>1. calm' = FALSE /\ wants' = {}
  BY DEF Mishap
<1>2. DOMAIN pend' = Devices
  BY DEF HangInv
<1>3. ASSUME NEW e \in Devices
      PROVE  Partial(e)'
  <2>1. Partial(e) /\ (pend'[e] = pend[e] \/ pend'[e] = Empty)
    BY DEF HangInv
  <2>2. DOMAIN Empty = {}
    BY DEF Empty
  <2> QED BY <2>1, <2>2 DEF Partial
<1> QED BY <1>1, <1>2, <1>3 DEF HangInv

\* Every step keeps the invariant of what is asked for.
LEMMA HangKeep ==
  ASSUME HangInv, NetInv, StickersNext
  PROVE  HangInv'
<1>1. ASSUME NEW d \in Devices, NEW i \in DOMAIN Items, SendSticker(d, i) \/ SendToken(d, i)
      PROVE  HangInv'
  BY <1>1, HangQuiet DEF SendSticker, SendToken, Sends
<1>2. ASSUME NEW d \in Devices, NEW p \in DOMAIN Packs, CreatePack(d, p) \/ RemovePack(d, p)
      PROVE  HangInv'
  BY <1>2, HangQuiet DEF CreatePack, RemovePack
<1>3. ASSUME NEW d \in Devices, NEW p \in DOMAIN Packs, DieCreating(d, p) \/ DieRemoving(d, p)
      PROVE  HangInv'
  BY <1>3, HangMishap DEF DieCreating, DieRemoving, DiesIn
<1>4. ASSUME NEW d \in Devices, Forget(d)
      PROVE  HangInv'
  BY <1>4, HangMishap DEF Forget
<1>5. ASSUME NEW m \in net, Lose(m) \/ DieInstalling(m)
      PROVE  HangInv'
  BY <1>5, HangMishap DEF Lose, DieInstalling, DiesIn
<1>6. CASE Tick
  BY <1>6, HangQuiet DEF Tick
<1> QED
  BY ZenonT(60), <1>1, <1>2, <1>3, <1>4, <1>5, <1>6,
     HangFetches, HangSticker, HangWantItem, HangWantThumbs,
     HangWantPack, HangRefused, HangItemBody, HangPackBody, HangThumbsBody, HangSweeps
     DEF StickersNext

-----------------------------------------------------------------------------
(* The theorems *)

\* The invariant holds in every reachable state.
LEMMA StickersInvariance == StickersSpec => []StickersInv
<1>1. StickersInit => StickersInv
  <2> SUFFICES ASSUME StickersInit
               PROVE  StickersInv
    OBVIOUS
  <2>1. PICK old \in SUBSET {p \in DOMAIN Packs : BodyBytesOk(p)} :
          db = [d \in Devices |->
                  LET ours == {p \in old : Packs[p].maker = d} IN
                  [packs |-> [p \in ours |-> [cached |-> FALSE, from |-> "", used |-> 0]],
                   items |-> UNION {ItemsOf(p) : p \in ours}, keys |-> ours, cache |-> Empty,
                   serves |-> [day |-> 0, count |-> 0]]]
    BY DEF StickersInit
  <2>2. ASSUME NEW d \in Devices
        PROVE  IsTables(db[d]) /\ Own(d, db[d]) /\ Whole(db[d])
    <3>1. PICK ours : ours = {p \in old : Packs[p].maker = d}
      OBVIOUS
    <3>2. PICK t : t = db[d]
      OBVIOUS
    <3>3. t = [packs |-> [p \in ours |-> [cached |-> FALSE, from |-> "", used |-> 0]],
               items |-> UNION {ItemsOf(p) : p \in ours}, keys |-> ours, cache |-> Empty,
               serves |-> [day |-> 0, count |-> 0]]
      BY <2>1, <3>1, <3>2
    <3>4. /\ DOMAIN t.packs = ours /\ t.items = UNION {ItemsOf(p) : p \in ours} /\ t.keys = ours
          /\ \A p \in ours : t.packs[p].cached = FALSE /\ t.packs[p].from = ""
      BY <3>3
    <3>5. t.items \subseteq DOMAIN Items
      BY <3>4 DEF ItemsOf
    <3>6. IsTables(t)
      BY <3>3, <3>5 DEF IsTables
    <3>7. Own(d, t)
      BY <3>1, <3>4 DEF Own
    <3>8. Whole(t)
      BY ZenonT(60), <3>4 DEF Whole, ItemsOf, PackOf
    <3> QED BY <3>2, <3>6, <3>7, <3>8
  <2>3. TablesInv
    BY <2>1, <2>2 DEF TablesInv
  <2>4. NetInv
    BY DEF StickersInit, NetInv
  <2>5. HangInv
    <3>1. DOMAIN Empty = {}
      BY DEF Empty
    <3> QED BY <3>1 DEF StickersInit, HangInv, Partial
  <2> QED BY <2>3, <2>4, <2>5 DEF StickersInv
<1>2. StickersInv /\ [StickersNext]_stickers => StickersInv'
  <2> SUFFICES ASSUME StickersInv, [StickersNext]_stickers
               PROVE  StickersInv'
    OBVIOUS
  <2>1. CASE StickersNext
    BY <2>1, TablesKeep, NetKeep, HangKeep DEF StickersInv
  <2>2. CASE UNCHANGED stickers
    BY <2>2, SameTables, NetShrinks, HangQuiet DEF stickers, StickersInv
  <2> QED BY <2>1, <2>2
<1> QED BY <1>1, <1>2, PTL DEF StickersSpec

\* Nobody waits for nothing, for any number of items, packs, calls and mishaps, and
\* any limits of buffers and tables: once nothing is on its way, and nothing went
\* wrong, all that was asked for has come, was refused or was passed over, if the
\* documents of the packs are such that their reader accepts them
\* (stickers/inbound.rs, PendingBuffers of stickers/mod.rs).
THEOREM NobodyHangs == StickersSpec => []NeverAHang
<1>1. StickersInv => NeverAHang
  <2> SUFFICES ASSUME StickersInv, net = {}, NEW w \in wants
               PROVE  FALSE
    BY DEF NeverAHang
  <2>1. IsAsked(w) /\ Pursued(w)
    BY DEF StickersInv, HangInv
  <2>2. PICK k : k = <<w.what, w.key>>
    OBVIOUS
  <2>3. k[1] = w.what /\ k[2] = w.key
    BY <2>2
  <2>4. \A x \in 0 .. (Counted(w.what, w.key) - 1) : x \in Here(w.by, w.what, w.key)
    BY <2>1 DEF Pursued, OnTheWay, Covered
  <2>5. k \in DOMAIN pend[w.by] /\ Here(w.by, w.what, w.key) = DOMAIN pend[w.by][k].got
    BY <2>1, <2>2, <2>4, CountedPositive DEF Here
  <2>6. Part(k, DOMAIN pend[w.by][k].got)
    BY <2>1, <2>5 DEF StickersInv, HangInv, Partial, IsAsked
  <2> QED BY <2>3, <2>4, <2>5, <2>6 DEF Part
<1> QED BY <1>1, StickersInvariance, PTL

\* A pack that is listed is whole unless a death tore the tables: install_doc,
\* create_pack, remove_pack (stickers/packs.rs) and sweep_cache.
THEOREM PacksAreWhole == StickersSpec => []PackIsWhole
<1>1. StickersInv => PackIsWhole
  BY DEF StickersInv, TablesInv, Whole, PackIsWhole, PackKnown
<1> QED BY <1>1, StickersInvariance, PTL

=============================================================================
