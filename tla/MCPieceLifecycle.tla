-------------------------- MODULE MCPieceLifecycle --------------------------
(* Model of PieceLifecycle for TLC.                                         *)
EXTENDS PieceLifecycle
=============================================================================
