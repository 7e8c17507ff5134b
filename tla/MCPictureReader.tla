-------------------------- MODULE MCPictureReader --------------------------
(* Constants of the runs of PictureReader.                                 *)
EXTENDS PictureReader, TLC
=============================================================================
