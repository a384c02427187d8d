----------------------- MODULE MCConcurrentDictionary -----------------------
(* ConcurrentDictionary on a small table.  With 3 stripes and 5 buckets, the  *)
(* keys in buckets 0 and 1 are guarded; bucket 2 belongs to the stripe that   *)
(* ToMap does not lock, and bucket 4 to stripe 1, where TryAdd looks in       *)
(* bucket 1 for what it put into bucket 4.                                    *)
EXTENDS ConcurrentDictionary, TLC

CONSTANTS k1, k2, k3, k4, v1, v2, p1, p2

\* Two keys that collide in a guarded bucket, one in the unlocked stripe, one in
\* a bucket past the number of stripes.
HashedTo == (k1 :> 1) @@ (k2 :> 1) @@ (k3 :> 2) @@ (k4 :> 4)
=============================================================================
