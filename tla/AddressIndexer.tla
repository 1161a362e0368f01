--------------------------- MODULE AddressIndexer ---------------------------
(***************************************************************************)
(* The address-bit arithmetic of the cache controllers: how many low       *)
(* address bits a cache skips before its set index starts, and how many   *)
(* bits an L2 uses to select an L3 bank.  Every one of these in the code   *)
(* is int(math.log(x, 2)), the floor of the base-2 logarithm; only the     *)
(* block-size helper checks that the result is exact.                      *)
(***************************************************************************)
EXTENDS Naturals

\* int(math.log(x, 2)) for a positive integer x: the floor of log2 x.
Log2Floor(x) == CHOOSE k \in 0..x : 2^k <= x /\ x < 2^(k + 1)

\* L1Cache.getBlockSizeBits / L2Cache.getBlockSizeBits: the bit count.
getBlockSizeBits(lineSize) == Log2Floor(lineSize)

\* The check of getBlockSizeBits: it panics unless 2**bits == line size.
BlockSizeIsPowerOfTwo(lineSize) == 2^getBlockSizeBits(lineSize) = lineSize

\* Faulty variant: the L3 index skipping the block offset only.
getIndexBitNoBank(lineSize, numL3caches) == Log2Floor(lineSize)

\* L3Cache.getIndexBit: block-offset bits plus bank-select bits, no check.
getIndexBit(lineSize, numL3caches) ==
    Log2Floor(numL3caches) + Log2Floor(lineSize)

\* L2Cache.__init__: l2_select_num_bits = int(math.log(numL3caches, 2)).
l2SelectNumBits(numL3caches) == Log2Floor(numL3caches)

=============================================================================
