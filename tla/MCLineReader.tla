---------------------------- MODULE MCLineReader ----------------------------
(***************************************************************************)
(* Every stream of seven bytes, every way to cut it, a buffer of four: a   *)
(* line fits with CR LF or LF, fills the buffer with or without its        *)
(* newline, or exceeds it.                                                 *)
(***************************************************************************)
EXTENDS LineReader
=============================================================================
