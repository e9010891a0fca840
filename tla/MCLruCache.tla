----------------------------- MODULE MCLruCache -----------------------------
(* LruCache for TLC: three keys of one shard; two of the hashes are         *)
(* negative, and their remainder is too.  The other hash spreads the keys.  *)
EXTENDS LruCache, TLC

CONSTANTS k1, k2, k3

ThreeKeys == {k1, k2, k3}
SomeHashes == {(k1 :> 1) @@ (k2 :> -1) @@ (k3 :> -3), (k1 :> 0) @@ (k2 :> 1) @@ (k3 :> 2)}
SomeExpireAts == {-1, 0, 2}
=============================================================================
