----------------------------- MODULE MCBufferPool -----------------------------
(* Small instances of BufferPool for TLC: one page more than frames, so that *)
(* evictions happen, and room for two pins and a few writes.                 *)
EXTENDS BufferPool
=============================================================================
