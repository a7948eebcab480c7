----------------------------- MODULE MCStickers -----------------------------
(* Packs between two devices; and, on behaviours of their own, the images  *)
(* that become stickers.                                                   *)
EXTENDS Stickers, TLC

VARIABLES
  part  \* which of the two runs

\* A public emoji pack of one device, whose signature lies on a chunk boundary, and
\* a private pack of the other with a sticker too large to be sent inline.
MCPacks ==
  (1 :> [maker |-> "a", public |-> TRUE, kind |-> KindEmoji, titleChars |-> 8, titleBytes |-> 8,
         icon |-> 11, bytes |-> 27530, thumbs |-> 1000]) @@
  (2 :> [maker |-> "b", public |-> FALSE, kind |-> KindSticker, titleChars |-> 8, titleBytes |-> 8,
         icon |-> 12, bytes |-> 30200, thumbs |-> 1000])

MCItems ==
  (11 :> [pack |-> 1, kind |-> KindEmoji, w |-> 160, h |-> 160, bytes |-> 27000]) @@
  (12 :> [pack |-> 2, kind |-> KindSticker, w |-> 512, h |-> 171, bytes |-> 30000])

\* Sizes around the caps, and pairs at the limit of the aspect.
MCEdges == {1, 3, 96, 159, 160, 161, 170, 171, 172, 511, 512, 513, 514, 1024, 1535, 1536, 1537,
            1539, 1542, 2730, 8190, 8192, 8193}

\* The packs are there from the start, or still to be made.
Init == /\ StickersInit /\ made \in {{}, DOMAIN MCPacks}
        /\ MediaInit /\ part \in {"packs", "media"}

Next == \/ part = "packs" /\ StickersNext /\ UNCHANGED <<prepared, part>>
        \/ part = "media" /\ prepared = Nothing /\ MediaNext /\ UNCHANGED <<stickers, part>>

Spec == Init /\ [][Next]_<<stickers, prepared, part>>
=============================================================================
