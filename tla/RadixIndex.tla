----------------------------- MODULE RadixIndex -----------------------------
(***************************************************************************)
(* The prefix-cache index, in the two representations the pool can be      *)
(* built with: the flat map of block_pool.rs (HashIndex, what the index of *)
(* BlockPool stands for) and the buckets of radix.rs (RadixIndex, with     *)
(* VTL_RUST_SCHED_RADIX on).  Both as operators from an index to an index. *)
(*                                                                         *)
(*   flat    for every hash the blocks under it, oldest first: an entry    *)
(*           One(b) is <<b>>, a hash without entry is << >>                *)
(*   radix   buckets, for every prefix of a hash the <<hash, block>> pairs *)
(*           under it, oldest first, a bucket that is absent being << >>;  *)
(*           len, the number of distinct hashes                            *)
(***************************************************************************)
EXTENDS BlockPool

CONSTANTS Buckets,  \* the prefixes
          BucketOf  \* the leading 16 bits of a hash

ASSUME RadixAssumption == BucketOf \in [Keys -> Buckets]

\* Vec::remove of position i.
Removed(s, i) == [j \in 1 .. Len(s) - 1 |-> IF j < i THEN s[j] ELSE s[j + 1]]

\* position: the first that holds e.
Position(s, e) == CHOOSE i \in DOMAIN s : s[i] = e /\ \A j \in 1 .. i - 1 : s[j] # e

NoBlock == -1

------------------------------------------------------------------------------
(* The flat map.                                                           *)

FlatNew == [k \in Keys |-> << >>]

FlatGet(f, k) == IF f[k] = << >> THEN NoBlock ELSE f[k][1]
FlatContains(f, k, b) == b \in Elements(f[k])
FlatKeys(f) == {k \in Keys : f[k] # << >>}
FlatLen(f) == Cardinality(FlatKeys(f))

FlatInsert(f, k, b) ==
  IF FlatContains(f, k, b) THEN f ELSE [f EXCEPT ![k] = Append(@, b)]

FlatPop(f, k, b) ==
  IF FlatContains(f, k, b) THEN [f EXCEPT ![k] = Removed(@, Position(@, b))] ELSE f

------------------------------------------------------------------------------
(* The radix index.                                                        *)

RadixNew == [buckets |-> [u \in Buckets |-> << >>], len |-> 0]

Bucket(x, k) == x.buckets[BucketOf[k]]
Holds(s, k) == \E i \in DOMAIN s : s[i][1] = k

RadixContains(x, k, b) == <<k, b>> \in Elements(Bucket(x, k))

\* find: the first pair of the bucket with this hash.
RadixGet(x, k) ==
  LET s == Bucket(x, k)
  IN  IF Holds(s, k)
      THEN s[CHOOSE i \in DOMAIN s : s[i][1] = k /\ \A j \in 1 .. i - 1 : s[j][1] # k][2]
      ELSE NoBlock

RadixInsert(x, k, b) ==
  IF RadixContains(x, k, b) THEN x
  ELSE [buckets |-> [x.buckets EXCEPT ![BucketOf[k]] = Append(@, <<k, b>>)],
        len     |-> IF Holds(Bucket(x, k), k) THEN x.len ELSE x.len + 1]

RadixPop(x, k, b) ==
  IF RadixContains(x, k, b)
  THEN LET left == Removed(Bucket(x, k), Position(Bucket(x, k), <<k, b>>))
       IN  [buckets |-> [x.buckets EXCEPT ![BucketOf[k]] = left],
            len     |-> IF Holds(left, k) THEN x.len ELSE x.len - 1]
  ELSE x

\* The journal's unit of undo: the bucket of the hash, and the count.
Snapshot(x, k) == [bucket |-> Bucket(x, k), len |-> x.len]
Restore(x, k, saved) ==
  [buckets |-> [x.buckets EXCEPT ![BucketOf[k]] = saved.bucket], len |-> saved.len]

------------------------------------------------------------------------------
(***************************************************************************)
(* The radix index stands for the flat one: the same blocks under every    *)
(* hash, in the same order, whatever else shares the bucket; and the count *)
(* is the number of hashes that have any.                                  *)
(***************************************************************************)
FlatType(f) ==
  /\ f \in [Keys -> Seq(Blocks)]
  /\ \A k \in Keys : Distinct(f[k])
  /\ IsFiniteSet(FlatKeys(f))

RadixType(x) ==
  /\ x \in [buckets : [Buckets -> Seq(Keys \X Blocks)], len : Nat]
  /\ \A u \in Buckets :
       /\ Distinct(x.buckets[u])
       /\ \A i \in DOMAIN x.buckets[u] : BucketOf[x.buckets[u][i][1]] = u

SameBlocks(x, f) ==
  \A k \in Keys : \A b \in Blocks : RadixContains(x, k, b) <=> FlatContains(f, k, b)

SameOrder(x, f) ==
  \A k \in Keys : \A i, j \in DOMAIN f[k] : i < j =>
    \E p, q \in DOMAIN Bucket(x, k) :
      /\ p < q
      /\ Bucket(x, k)[p] = <<k, f[k][i]>> /\ Bucket(x, k)[q] = <<k, f[k][j]>>

StandsFor(x, f) ==
  RadixType(x) /\ FlatType(f) /\ SameBlocks(x, f) /\ SameOrder(x, f) /\ x.len = FlatLen(f)
=============================================================================
