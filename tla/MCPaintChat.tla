---------------------------- MODULE MCPaintChat ----------------------------
(* The paint chat server on a small instance. *)
EXTENDS PaintChat
=============================================================================
