--------------------------- MODULE MC_SftpAttributes ---------------------------
(***************************************************************************)
(* Model-checking instance of SftpAttributes.  A 20-bit word stands for   *)
(* the 64-bit one and 2^18 for the 8 TiB headroom, so every value the     *)
(* code computes without wrapping stays below the word.  Quota sizes      *)
(* straddle 4096 and the powers of four below it; used sizes and file     *)
(* counts both fit and exceed the backend's totals.  Setstat sizes sit on *)
(* both sides of the int64 boundary (half the word).                      *)
(***************************************************************************)
EXTENDS SftpAttributes

MC_DiskStats == {[total |-> 3000, files |-> 10], [total |-> 100000, files |-> 1000]}
=============================================================================
