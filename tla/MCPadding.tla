----------------------------- MODULE MCPadding -----------------------------
(* Instances of BufferPaddingExecutor for TLC. *)
EXTENDS BufferPaddingExecutor
=============================================================================
