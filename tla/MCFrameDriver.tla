--------------------------- MODULE MCFrameDriver ----------------------------
(* Instances of FrameDriver for TLC: frames of a few lines of a few cycles, *)
(* with instructions longer than a line and string instructions that reach *)
(* the length at which an interrupt rewinds them.                          *)
EXTENDS FrameDriver
=============================================================================
