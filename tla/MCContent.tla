------------------------------ MODULE MCContent -----------------------------
(* Attachment transfers that differ in size and kind and, on behaviours of  *)
(* their own, the shared thread of Alice and Bob, and the envelopes an      *)
(* attachment goes out in.                                                  *)
EXTENDS Attachments, History, AttachWire, TLC

CONSTANTS Photo, Clip, Note, Alice, Bob, AliceQuota, BobQuota

\* Photo has two chunks, Clip three, and Note is sent inline.
MCChunkCount == [h \in Heads |-> (Photo :> 2 @@ Clip :> 3 @@ Note :> 0)[h]]

\* Around the limits of the inline form, of a chunk, of a bucket and of all.
MCFileSizes == {0, 1, 5, 255, 256, 16384, 26999, 27000, 27001, 27900, 27901, 55800, 55801,
                223200, 223201, 26214400, 26214401}
MCHintSizes == {0, 10, 64, 65}
MCCaptions == {0, 1, 5, 255, 836, 837, 16384, 16385}

MCQuota == Alice :> AliceQuota @@ Bob :> BobQuota

VARIABLES
  part  \* which of the three runs

MCInit == AttachInit /\ ThreadInit /\ WireInit /\ part \in {"attach", "thread", "wire"}

MCNext == \/ part = "attach" /\ AttachNext /\ UNCHANGED <<threadVars, sent, part>>
          \/ part = "thread" /\ ThreadNext /\ UNCHANGED <<attachVars, sent, part>>
          \/ part = "wire" /\ sent = Unsent /\ WireNext /\ UNCHANGED <<attachVars, threadVars, part>>

MCSpec == MCInit /\ [][MCNext]_<<attachVars, threadVars, sent, part>>
=============================================================================
