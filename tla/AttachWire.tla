----------------------------- MODULE AttachWire -----------------------------
(***************************************************************************)
(* The envelopes of one attachment: the plan of a transfer, the two forms  *)
(* of ATTACH_HEAD, its ATTACH_CHUNKs and the envelope around them.         *)
(*   src/crates/core/src/attach/mod.rs,                                    *)
(*   src/crates/wire-types/src/{attach,envelope,limits}.rs                 *)
(*                                                                         *)
(* A text, a file and a payload are their lengths in bytes.  The fields of *)
(* a head that are copied as they are (class, hash) are left out.          *)
(***************************************************************************)
EXTENDS Naturals

CONSTANTS
  FileSizes,   \* the files that are sent
  HintSizes,   \* the lengths of mime_hint
  Captions     \* the lengths of the captions

ASSUME WireAssumption == FileSizes \cup HintSizes \cup Captions \subseteq Nat

VARIABLES
  sent  \* the last call of send_attachment, and what the peer reads

-----------------------------------------------------------------------------
(* limits::attach, limits::envelope *)

MaxAttach == 26214400  \* 25 MiB
ChunkDataMax == 27900
MaxMime == 64
MaxCaption == 16384
MaxChunks == 1024
MaxEnvelopeBytes == 27996
InlineMax == 27000
BucketGranularity == 8

\* prepare_spec has made it jpg, png, gif or mp4.
OrigExt == 3

DivCeil(a, b) == (a + b - 1) \div b

-----------------------------------------------------------------------------
(* plan_transfer *)

PlanTransfer(n, mime, ascii, cap, flags) ==
  LET count == IF n <= InlineMax THEN 0 ELSE DivCeil(n, ChunkDataMax) IN
  [n |-> n, mime |-> mime, ascii |-> ascii, cap |-> cap, flags |-> flags,
   count |-> count, bucket |-> DivCeil(count, BucketGranularity) * BucketGranularity]

Inline(h) == h.n <= InlineMax

\* The i-th chunk that goes out: a piece of the file, or a pad without data.
IsPad(h, i) == i * ChunkDataMax >= h.n
Data(h, i) ==
  LET left == h.n - i * ChunkDataMax IN
  IF IsPad(h, i) THEN 0 ELSE IF left < ChunkDataMax THEN left ELSE ChunkDataMax

-----------------------------------------------------------------------------
(* The codecs *)

ValidateCommon(h) ==
  /\ h.mime <= MaxMime
  /\ 1 <= h.n /\ h.n <= MaxAttach
  /\ h.cap <= MaxCaption

ValidPlan(h) ==
  /\ 1 <= h.count /\ h.count <= MaxChunks
  /\ h.count <= h.bucket /\ h.bucket <= MaxChunks

\* encode_caption_tail: nothing, a caption, or a caption and the flags.
CaptionTail(h) ==
  IF h.cap = 0 /\ h.flags = 0 THEN "none" ELSE IF h.flags = 0 THEN "caption" ELSE "both"

TailBytes(h) ==
  IF CaptionTail(h) = "none" THEN 0 ELSE IF CaptionTail(h) = "caption" THEN 4 + h.cap ELSE 4 + h.cap + 1

\* encode_chunked and encode_inline: what comes before the tail, the tail, and
\* the file with its length.
EncodeChunked(h) == 2 + 4 + h.mime + 4 + OrigExt + 4 + 2 + 2 + 32 + TailBytes(h)
EncodeInline(h) == 2 + 4 + h.mime + 4 + OrigExt + 4 + 32 + TailBytes(h) + 4 + h.n

\* ATTACH_CHUNK
EncodeChunk(h, i) == 16 + 2 + 1 + 4 + Data(h, i)
ChunkIsRead(h, i) == Data(h, i) <= ChunkDataMax /\ (IsPad(h, i) => Data(h, i) = 0)

\* Envelope::encode and decode hold it to the same size; no ref_id is set.
Enveloped(payload) == 1 + 16 + 8 + 8 + 1 + 4 + payload
Fits(payload) == Enveloped(payload) <= MaxEnvelopeBytes

Bad == [cap |-> 0, flags |-> 0, ok |-> FALSE]
Good(cap, flags) == [cap |-> cap, flags |-> flags, ok |-> TRUE]

\* decode_caption_tail: the end of the payload tells what there is.
DecodeCaptionTail(h) ==
  IF CaptionTail(h) = "none" THEN Good(0, 0)
  ELSE IF h.cap > MaxCaption THEN Bad
  ELSE IF CaptionTail(h) = "caption" THEN (IF h.cap < 1 THEN Bad ELSE Good(h.cap, 0))
  ELSE Good(h.cap, h.flags)

\* As it would be if the length alone told the file from the caption.
DecodeInline_NoRest(h) ==
  LET word0 == IF CaptionTail(h) = "none" THEN h.n ELSE h.cap IN
  IF word0 = h.n THEN Good(0, 0) ELSE DecodeCaptionTail(h)

\* decode_inline: four bytes are the length of the file if they say so and the
\* file would fill the rest; else they are the length of the caption.  Where
\* the flags come first, the four bytes are the flags and three of the length.
DecodeInline(h) ==
  LET word0 == IF CaptionTail(h) = "none" THEN h.n ELSE h.cap
      rest0 == TailBytes(h) + 4 + h.n
      word1 == IF CaptionTail(h) = "both" THEN h.flags * 16777216 + h.n \div 256 ELSE h.n
      rest1 == rest0 - (4 + h.cap)
  IN
  IF word0 = h.n /\ rest0 = 4 + word0 THEN Good(0, 0)
  ELSE IF CaptionTail(h) = "none" \/ word0 > MaxCaption THEN Bad
  ELSE IF word1 = h.n /\ rest1 = 4 + word1 THEN Good(h.cap, 0)
  ELSE IF CaptionTail(h) = "caption" THEN Bad
  ELSE Good(h.cap, h.flags)

\* decode_chunked and decode_inline: read_ascii, then the checks of the encoder.
Decode(h) ==
  LET read == IF Inline(h) THEN DecodeInline(h) ELSE DecodeCaptionTail(h) IN
  IF h.ascii /\ ValidateCommon(h) /\ (Inline(h) \/ ValidPlan(h)) THEN read ELSE Bad

-----------------------------------------------------------------------------
Unsent == [st |-> "none"]

WireInit == sent = Unsent

\* send_attachment, of what prepare_spec returned: the head, then the chunks.
\* A head that does not encode, or not into an envelope, is an error.
SendAttachment(n, mime, ascii, cap, flags) ==
  LET h == PlanTransfer(n, mime, ascii, cap, flags)
      encodes == /\ ValidateCommon(h)
                 /\ IF Inline(h) THEN Fits(EncodeInline(h))
                                 ELSE ValidPlan(h) /\ Fits(EncodeChunked(h))
  IN
  /\ 1 <= n /\ n <= MaxAttach
  /\ sent' = IF encodes THEN [st |-> "sent", head |-> h, read |-> Decode(h)]
                        ELSE [st |-> "refused", head |-> h]

WireNext ==
  \E n \in FileSizes, mime \in HintSizes, ascii \in BOOLEAN, cap \in Captions,
     flags \in {0, 1} : SendAttachment(n, mime, ascii, cap, flags)

WireSpec == WireInit /\ [][WireNext]_sent

-----------------------------------------------------------------------------
(* Properties *)

(* The peer reads the caption and the flags the head was made from, though *)
(* nothing in an inline head says whether it has any; the pieces the file  *)
(* is cut into are as many as the head announces, the rest of the bucket   *)
(* is pads, and each fits an envelope.  A head within the limits of its    *)
(* fields is refused only if it carries the file itself and a caption of   *)
(* more than 836 bytes, which with the largest inline file fill the        *)
(* envelope to the last byte.                                              *)
HeadIsRead ==
  /\ sent.st = "sent" =>
       LET h == sent.head IN
       /\ h.ascii => sent.read = Good(h.cap, h.flags)
       /\ ~Inline(h) =>
            /\ h.bucket * ChunkDataMax >= h.n
            /\ \A i \in 0 .. h.bucket - 1 :
                 /\ IsPad(h, i) <=> i >= h.count
                 /\ ChunkIsRead(h, i) /\ Fits(EncodeChunk(h, i))
  /\ sent.st = "refused" /\ ValidateCommon(sent.head) => Inline(sent.head) /\ sent.head.cap > 836

=============================================================================
