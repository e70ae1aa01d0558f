----------------------------- MODULE MCS3Storage -----------------------------
(* Files below the threshold, of two full-size parts of a raised part size,   *)
(* and above the object limit.                                                *)
EXTENDS S3Storage, TLC

CONSTANTS small, large, huge

Sizes     == small :> 0 @@ large :> 5 @@ huge :> 6
Symmetric == Permutations(Uploads)
=============================================================================
