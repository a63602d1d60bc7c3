--------------------------- MODULE MCFrameStream ---------------------------
(* Model-checking instance of FrameStream. *)
EXTENDS FrameStream

\* No payload, one that fits, and one larger than MaxPayload.
MCPayload == {<<>>, <<Byte(1)>>, <<Byte(1), Byte(2), Byte(1)>>}

=============================================================================
