--------------------------- MODULE MCFrameDecoder ---------------------------
(* FrameDecoder with headers of two ternary digits, and frames that are     *)
(* empty, short, at the limit, above it, and too long for the header.      *)
EXTENDS FrameDecoder

MCWeight == [i \in 0 .. 2 |-> 3^i]
Frame(t, p) == [type |-> t, payload |-> p]
MCFrames == {Frame(1, <<>>), Frame(2, <<1>>), Frame(2, <<0, 2, 1>>),
             Frame(1, <<1, 0, 1, 2>>), Frame(2, <<1, 0, 0, 1, 2, 0, 1, 0, 2>>)}
=============================================================================
