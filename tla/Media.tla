------------------------------- MODULE Media -------------------------------
(***************************************************************************)
(* The caps on sticker items and how the images that go out are prepared:  *)
(* stickers and their thumbnails, photos, profile pictures.                *)
(*   src/crates/wire-types/src/limits.rs, src/crates/core/src/media        *)
(*                                                                         *)
(* An image is its size in pixels.  How many bytes an encoder makes of it  *)
(* is not known: whether they fit a cap is chosen.                         *)
(***************************************************************************)
EXTENDS Naturals, Sequences

CONSTANTS
  Edges  \* the widths and heights of the source images

ASSUME EdgesAssumption == Edges \subseteq Nat

VARIABLES
  prepared  \* what the last preparation returned

-----------------------------------------------------------------------------
(* limits::sticker *)

KindEmoji == 1
KindSticker == 2
MaxEdge(kind) == IF kind = KindEmoji THEN 160 ELSE 512
MaxBytes(kind) == IF kind = KindEmoji THEN 64 * 1024 ELSE 512 * 1024
MaxItems(kind) == IF kind = KindEmoji THEN 64 ELSE 50
MaxTitleChars == 32
InlineBytesMax == 27500
ChunkMax == 27500
MaxItemChunks == 24
MaxPackChunks == 1280
MaxPackDocBytes == 28 * 1024 * 1024
MaxThumbsChunks == 24
MaxThumbsDocBytes == 512 * 1024
SigBytes == 64
ThumbEdges == <<96, 64, 48, 32>>

AspectOk(kind, w, h) ==
  /\ w > 0 /\ h > 0
  /\ IF kind = KindEmoji THEN w = h ELSE w <= 3 * h /\ h <= 3 * w

Longer(w, h) == IF w >= h THEN w ELSE h

SizeOk(kind, w, h) == AspectOk(kind, w, h) /\ Longer(w, h) <= MaxEdge(kind)

ItemOk(kind, w, h, bytes) == bytes > 0 /\ bytes <= MaxBytes(kind) /\ SizeOk(kind, w, h)

\* What serve_item and answer_want_pack cut a blob into.
ChunkCount(bytes) == IF bytes = 0 THEN 1 ELSE (bytes + ChunkMax - 1) \div ChunkMax

\* check_chunk_plan, on both sides.
PlanOk(index, count, max) == count >= 1 /\ count <= max /\ index < count

-----------------------------------------------------------------------------
(* media::sniff, media::image and media::sticker *)

\* What the first bytes of a source claim that it is.
MediaKind == {"jpeg", "png", "webp", "heic", "mp4", "webm", "gif", "reject"}

IsStickerImage(source) == source \in {"png", "webp", "gif"}

\* A WebP says itself whether it moves (is_animated_webp).
IsAnimated(source, moves) == source = "gif" \/ (source = "webp" /\ moves)

MaxDecodeEdge == 8192
LongEdge == 1080
ProfileEdges == <<512, 384, 256>>
JpegQuality == 40
JpegQualityMin == 20

\* decode_bounded refuses a larger image.
Decodes(w, h) == w \in 1 .. MaxDecodeEdge /\ h \in 1 .. MaxDecodeEdge

\* As it would be if the shorter edge were cut off.
Shrunk_Floor(short, long, edge) == (short * edge) \div long

\* The shorter edge when the longer is brought to edge: DynamicImage::resize
\* rounds to the nearest.
Shrunk(short, long, edge) == (2 * short * edge + long) \div (2 * long)

AtLeastOne(n) == IF n < 1 THEN 1 ELSE n

\* fit_long_edge: never larger than it was.
FitLongEdge(w, h, edge) ==
  IF Longer(w, h) <= edge THEN <<w, h>>
  ELSE IF w >= h THEN <<edge, AtLeastOne(Shrunk(h, w, edge))>>
  ELSE <<AtLeastOne(Shrunk(w, h, edge)), edge>>

Nothing == [what |-> "none", kind |-> 0, w |-> 0, h |-> 0, thumb |-> <<0, 0>>, quality |-> 0]

MediaInit == prepared = Nothing

\* A ladder: the first rung whose result fits, rung being that rung's number;
\* a number past the last one says that none does.
Rungs(edges) == 1 .. (Len(edges) + 1)

\* prepare_sticker: what is animated passes through or is refused, what is
\* still is brought to the edge cap.
PrepareSticker(kind, w, h, source, moves, pngFits, rung) ==
  LET animated == IsAnimated(source, moves)
      size == IF animated THEN <<w, h>> ELSE FitLongEdge(w, h, MaxEdge(kind))
  IN
  /\ IsStickerImage(source)
  /\ Decodes(w, h) /\ AspectOk(kind, w, h)
  /\ IF animated THEN Longer(w, h) <= MaxEdge(kind) ELSE pngFits
  /\ rung <= Len(ThumbEdges)  \* make_thumb
  /\ prepared' = [Nothing EXCEPT !.what = "sticker", !.kind = kind, !.w = size[1], !.h = size[2],
                                 !.thumb = FitLongEdge(size[1], size[2], ThumbEdges[rung])]

\* make_thumbnail, for the preview of a pack: one edge, no ladder.
MakeThumbnail(w, h, fits) ==
  /\ Decodes(w, h) /\ fits
  /\ prepared' = [Nothing EXCEPT !.what = "preview", !.thumb = FitLongEdge(w, h, ThumbEdges[1])]

\* prepare_profile_jpeg
PrepareProfile(w, h, rung) ==
  LET size == FitLongEdge(w, h, ProfileEdges[rung]) IN
  /\ Decodes(w, h) /\ rung <= Len(ProfileEdges)
  /\ prepared' = [Nothing EXCEPT !.what = "profile", !.w = size[1], !.h = size[2]]

\* strip_and_reencode_image: the quality goes down until the photo fits.
StripAndReencode(w, h, alpha, misses) ==
  LET size == FitLongEdge(w, h, LongEdge)
      q == JpegQuality - 5 * misses
  IN
  /\ Decodes(w, h) /\ q >= JpegQualityMin
  /\ prepared' = [Nothing EXCEPT !.what = "photo", !.w = size[1], !.h = size[2],
                                 !.quality = IF alpha THEN 0 ELSE q]

\* prepare_spec: a still image is stripped, a GIF and what is no image by its
\* class goes as it is, any other source of an image is refused.
PrepareSpec(class, source, w, h, alpha, misses) ==
  \/ class = "image" /\ source \in {"jpeg", "png", "webp"} /\ StripAndReencode(w, h, alpha, misses)
  \/ /\ class = "image" => source = "gif"
     /\ prepared' = [Nothing EXCEPT !.what = "raw", !.w = w, !.h = h]

MediaNext ==
  \E w \in Edges, h \in Edges :
    \/ \E kind \in {KindEmoji, KindSticker}, source \in MediaKind, moves \in BOOLEAN, fits \in BOOLEAN,
          rung \in Rungs(ThumbEdges) : PrepareSticker(kind, w, h, source, moves, fits, rung)
    \/ \E fits \in BOOLEAN : MakeThumbnail(w, h, fits)
    \/ \E rung \in Rungs(ProfileEdges) : PrepareProfile(w, h, rung)
    \/ \E class \in {"image", "video", "file"}, source \in MediaKind, alpha \in BOOLEAN,
          misses \in 0 .. 4 : PrepareSpec(class, source, w, h, alpha, misses)

MediaSpec == MediaInit /\ [][MediaNext]_prepared

-----------------------------------------------------------------------------
(* Properties *)

(* What prepare_sticker returns, StickerItem::validate and item_ok accept: *)
(* the source was tested for its aspect before it was scaled, and scaling  *)
(* rounds, so that a source at the very limit of the aspect could come out *)
(* past it.  Its thumbnail, and the preview of a pack, are within the      *)
(* thumbnail's edge.                                                       *)
PreparedFits ==
  /\ prepared.what = "sticker" => SizeOk(prepared.kind, prepared.w, prepared.h)
  /\ prepared.what \in {"sticker", "preview"} =>
       prepared.thumb[1] \in 1 .. 96 /\ prepared.thumb[2] \in 1 .. 96

=============================================================================
