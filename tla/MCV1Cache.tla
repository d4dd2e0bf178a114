----------------------------- MODULE MCV1Cache -----------------------------
(* A small instance of V1Cache: two films of one directory, and a directory without any. *)
EXTENDS V1Cache

CONSTANTS k1, k2, d1, d2, v1, g

MCDirOf == k1 :> d1 @@ k2 :> d1

=============================================================================
