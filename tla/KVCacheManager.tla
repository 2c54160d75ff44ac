---------------------------- MODULE KVCacheManager ----------------------------
(***************************************************************************)
(* The KV-cache block pool (vllm/v1/core/block_pool.py) and the manager    *)
(* that hands its blocks to requests (kv_cache_manager.py with the         *)
(* full-attention manager of single_type_kv_cache_manager.py), for one     *)
(* KV-cache group.  The scheduler is the only caller and is single         *)
(* threaded, so every method is one atomic step.                           *)
(*                                                                         *)
(* A block hash stands for the tokens of a block and of all blocks before  *)
(* it; BlockHashes[r][i] is the hash of the i-th block that request r      *)
(* fills.  Hashes are taken to be free of collisions.                      *)
(***************************************************************************)
EXTENDS BlockLists

CONSTANTS
    Requests,       \* request ids
    NumGpuBlocks,   \* blocks in the pool, the null block included
    BlockSize,      \* tokens per block
    MaxModelLen,    \* max_model_len
    Hashes,         \* block hashes
    NoHash,         \* block_hash is None
    BlockHashes,    \* request -> the chain of hashes of its blocks
    EnableCaching,  \* enable_prefix_caching
    SkipReading     \* requests with skip_reading_prefix_cache

Blocks == 0 .. NumGpuBlocks - 1

\* BlockPool.__init__ pops block 0 and never gives it back.
NullBlock == 0
UsableBlocks == Blocks \ {NullBlock}

ASSUME SizesAssumption ==
    /\ NumGpuBlocks \in Nat \ {0}
    /\ BlockSize \in Nat \ {0}
    /\ MaxModelLen \in Nat \ {0}
    /\ EnableCaching \in BOOLEAN
    /\ SkipReading \subseteq Requests

ASSUME RequestsAssumption == IsFiniteSet(Requests)

\* Every full block a request can have is hashed, and a hash determines the
\* position of its block and every hash before it: hash_block_tokens hashes
\* the parent's hash together with the block's tokens.
ASSUME HashChainAssumption ==
    /\ NoHash \notin Hashes
    /\ BlockHashes \in [Requests -> Seq(Hashes)]
    /\ \A r \in Requests : Len(BlockHashes[r]) * BlockSize + BlockSize > MaxModelLen
    /\ \A r, s \in Requests : \A i \in DOMAIN BlockHashes[r], j \in DOMAIN BlockHashes[s] :
          BlockHashes[r][i] = BlockHashes[s][j] =>
             /\ i = j
             /\ \A k \in 1 .. i : BlockHashes[r][k] = BlockHashes[s][k]

VARIABLES
    ref_cnt,            \* block -> KVCacheBlock.ref_cnt
    free_block_queue,   \* the free list, next block to evict first
    block_hash,         \* block -> KVCacheBlock.block_hash
    cached_block_hash_to_block, \* hash -> the cached blocks with that hash
    req_to_blocks,      \* request -> its block table
    num_cached_block    \* request -> blocks marked cached, or NotTracked

poolVars == <<ref_cnt, free_block_queue, block_hash, cached_block_hash_to_block>>
kvVars == <<poolVars, req_to_blocks, num_cached_block>>

\* The request has no entry in the dict num_cached_block.
NotTracked == -1
-------------------------------------------------------------------------------
\* BlockPool.__init__, SingleTypeKVCacheManager.__init__
KVInit ==
    /\ ref_cnt = [b \in Blocks |-> 0]
    /\ free_block_queue = [i \in 1 .. NumGpuBlocks - 1 |-> i]
    /\ block_hash = [b \in Blocks |-> NoHash]
    /\ cached_block_hash_to_block = [h \in Hashes |-> {}]
    /\ req_to_blocks = [r \in Requests |-> <<>>]
    /\ num_cached_block = [r \in Requests |-> NotTracked]

\* BlockPool.get_num_free_blocks
NumFreeBlocks == Len(free_block_queue)

\* num_cached_block.get(request_id, 0)
NumCached(r) == Larger(num_cached_block[r], 0)
-------------------------------------------------------------------------------
(* Prefix-cache lookup *)

\* FullAttentionManager.find_longest_cache_hit: the number of leading blocks
\* whose hashes are all in the cache, among the first max_length \div BlockSize.
NumHits(r, maxLength) ==
    LeadingRun({i \in 1 .. maxLength \div BlockSize :
                  cached_block_hash_to_block[BlockHashes[r][i]] # {}})

\* KVCacheManager.get_computed_blocks: the block lists a lookup can return.
\* The last token is always recomputed.  BlockHashToBlockMap.get_one_block
\* "gets any block" with the hash.
ComputedBlocks(r, numTokens) ==
    IF ~EnableCaching \/ r \in SkipReading
    THEN {<<>>}
    ELSE {hits \in [1 .. NumHits(r, numTokens - 1) -> UsableBlocks] :
            \A i \in DOMAIN hits : hits[i] \in cached_block_hash_to_block[BlockHashes[r][i]]}
-------------------------------------------------------------------------------
(* Caching full blocks *)

\* Variant: the slice of new hashes is taken from the start of the chain.
HashesAfterCachingUnsliced(old, r, blocks, from, to) ==
    [b \in Blocks |->
        IF \E i \in from + 1 .. to : blocks[i] = b
        THEN BlockHashes[r][(CHOOSE i \in from + 1 .. to : blocks[i] = b) - from]
        ELSE old[b]]

\* BlockPool.cache_full_blocks: the hash of every block once blocks[from+1 .. to]
\* of request r are hashed, starting from the hashes old.
HashesAfterCaching(old, r, blocks, from, to) ==
    [b \in Blocks |->
        IF \E i \in from + 1 .. to : blocks[i] = b
        THEN BlockHashes[r][CHOOSE i \in from + 1 .. to : blocks[i] = b]
        ELSE old[b]]

\* BlockHashToBlockMap.insert for the same blocks.
MapAfterCaching(old, r, blocks, from, to) ==
    [h \in Hashes |->
        old[h] \cup {blocks[i] : i \in {j \in from + 1 .. to : BlockHashes[r][j] = h}}]

\* Variant: a block that is only partly filled is cached too.
CachedCountRoundedUp(count, numTokens) ==
    IF Larger(count, 0) >= Cdiv(numTokens, BlockSize) THEN count ELSE Cdiv(numTokens, BlockSize)

\* SingleTypeKVCacheManager.cache_blocks: the request's cached count after
\* caching up to numTokens, from the count before.
CachedCountAfter(count, numTokens) ==
    IF Larger(count, 0) >= numTokens \div BlockSize THEN count ELSE numTokens \div BlockSize

\* Variants: the block's own hash, or its entry in the map, is not removed.
HashesKept(S) == block_hash
MapKept(S) == cached_block_hash_to_block

\* BlockPool._maybe_evict_cached_block for every block of S: the entry of the
\* block's own hash goes, and the hash with it if there was one.
Indexed(b) == block_hash[b] # NoHash /\ b \in cached_block_hash_to_block[block_hash[b]]
HashesWithout(S) == [b \in Blocks |-> IF b \in S /\ Indexed(b) THEN NoHash ELSE block_hash[b]]
MapWithout(S) ==
    [h \in Hashes |-> cached_block_hash_to_block[h] \ {b \in S : block_hash[b] = h}]
-------------------------------------------------------------------------------
(* allocate_slots *)

\* The token slots the request needs, and the new blocks that takes.
TotalComputed(computed, hits) ==
    Smaller(computed + Len(hits) * BlockSize, MaxModelLen)
SlotsNeeded(computed, hits, new) ==
    Smaller(TotalComputed(computed, hits) + new, MaxModelLen)
NumNewBlocks(r, computed, hits, new) ==
    Larger(Cdiv(SlotsNeeded(computed, hits, new), BlockSize)
             - (Len(hits) + Len(req_to_blocks[r])), 0)

\* Variant: hits in the free queue are not counted as taken out of it.
NoEvictable(hits) == 0

\* SingleTypeKVCacheManager._get_num_evictable_blocks: hits that sit in the
\* free queue, which touching them will take out of it.
NumEvictable(hits) ==
    Cardinality({i \in DOMAIN hits : ref_cnt[hits[i]] = 0 /\ hits[i] # NullBlock})

\* SingleTypeKVCacheManager.get_num_blocks_to_allocate
NumBlocksToAllocate(r, computed, hits, new) ==
    NumNewBlocks(r, computed, hits, new) + NumEvictable(hits)

\* allocate_slots does not return None.
CanAllocate(r, computed, hits, new) ==
    NumBlocksToAllocate(r, computed, hits, new) <= NumFreeBlocks

\* Variant: touched blocks stay in the free queue.
QueueUntouched(hits) == free_block_queue

\* BlockPool.touch takes the hits out of the free queue.
QueueAfterTouch(hits) == Keep(free_block_queue, UsableBlocks \ Range(hits))

\* KVCacheManager.allocate_slots when the pool has room: touch the hits, take
\* new blocks from the head of the free queue and drop them from the cache,
\* then cache the blocks that this step fills up to request.num_tokens.
AllocateSlots(r, computed, numTokens, hits, new) ==
    /\ CanAllocate(r, computed, hits, new)
    /\ LET num == NumNewBlocks(r, computed, hits, new)
           rest == QueueAfterTouch(hits)
           popped == SubSeq(rest, 1, num)
           blocks == req_to_blocks[r] \o (hits \o popped)
           fresh == Range(popped)
           count == IF hits = <<>> THEN num_cached_block[r] ELSE Len(hits)
           count2 == IF EnableCaching
                     THEN CachedCountAfter(count,
                             Smaller(TotalComputed(computed, hits) + new, numTokens))
                     ELSE count
       IN  /\ free_block_queue' = SubSeq(rest, num + 1, Len(rest))
           /\ ref_cnt' = [b \in Blocks |-> IF b \in Range(hits) \cup fresh
                                           THEN ref_cnt[b] + 1 ELSE ref_cnt[b]]
           /\ req_to_blocks' = [req_to_blocks EXCEPT ![r] = blocks]
           /\ num_cached_block' = [num_cached_block EXCEPT ![r] = count2]
           /\ block_hash' = HashesAfterCaching(HashesWithout(fresh), r, blocks,
                                               Larger(count, 0), Larger(count2, 0))
           /\ cached_block_hash_to_block' =
                 MapAfterCaching(MapWithout(fresh), r, blocks,
                                 Larger(count, 0), Larger(count2, 0))
-------------------------------------------------------------------------------
(* The other methods *)

\* KVCacheManager.cache_blocks, called once asynchronously sampled tokens
\* are known.
CacheBlocks(r, numTokens) ==
    LET count == num_cached_block[r]
        count2 == IF EnableCaching THEN CachedCountAfter(count, numTokens) ELSE count
    IN  /\ num_cached_block' = [num_cached_block EXCEPT ![r] = count2]
        /\ block_hash' = HashesAfterCaching(block_hash, r, req_to_blocks[r],
                                            Larger(count, 0), Larger(count2, 0))
        /\ cached_block_hash_to_block' =
              MapAfterCaching(cached_block_hash_to_block, r, req_to_blocks[r],
                              Larger(count, 0), Larger(count2, 0))
        /\ UNCHANGED <<ref_cnt, free_block_queue, req_to_blocks>>

\* Variant: blocks are freed first block first.
FreeInTableOrder(r) ==
    LET blocks == req_to_blocks[r]
    IN  /\ ref_cnt' = [b \in Blocks |-> IF b \in Range(blocks)
                                        THEN ref_cnt[b] - 1 ELSE ref_cnt[b]]
        /\ free_block_queue' = free_block_queue \o
              Keep(blocks, {b \in UsableBlocks : ref_cnt[b] - 1 = 0})
        /\ req_to_blocks' = [req_to_blocks EXCEPT ![r] = <<>>]
        /\ num_cached_block' = [num_cached_block EXCEPT ![r] = NotTracked]
        /\ UNCHANGED <<block_hash, cached_block_hash_to_block>>

\* KVCacheManager.free: drop one reference to each block of the request and
\* append, last block first, those that nobody holds any more.
Free(r) ==
    LET blocks == req_to_blocks[r]
    IN  /\ ref_cnt' = [b \in Blocks |-> IF b \in Range(blocks)
                                        THEN ref_cnt[b] - 1 ELSE ref_cnt[b]]
        /\ free_block_queue' = free_block_queue \o
              Keep(Reversed(blocks), {b \in UsableBlocks : ref_cnt[b] - 1 = 0})
        /\ req_to_blocks' = [req_to_blocks EXCEPT ![r] = <<>>]
        /\ num_cached_block' = [num_cached_block EXCEPT ![r] = NotTracked]
        /\ UNCHANGED <<block_hash, cached_block_hash_to_block>>

\* BlockPool.evict_blocks: forget the hashes of blocks whose contents failed
\* to load; whoever holds the blocks keeps them.
EvictBlocks(S) ==
    /\ block_hash' = HashesWithout(S)
    /\ cached_block_hash_to_block' = MapWithout(S)
    /\ UNCHANGED <<ref_cnt, free_block_queue, req_to_blocks, num_cached_block>>

\* BlockPool.reset_prefix_cache succeeds: only the null block is in use.
ResetPrefixCache ==
    /\ NumGpuBlocks - NumFreeBlocks = 1
    /\ block_hash' = [b \in Blocks |-> NoHash]
    /\ cached_block_hash_to_block' = [h \in Hashes |-> {}]
    /\ UNCHANGED <<ref_cnt, free_block_queue, req_to_blocks, num_cached_block>>

\* FullAttentionManager.get_num_common_prefix_blocks: the leading blocks of r
\* that are referenced as often as there are block tables.
Tables == {s \in Requests : req_to_blocks[s] # <<>>}
\* Variant: blocks that are shared at all.
NumSharedPrefixBlocks(r) ==
    LeadingRun({i \in DOMAIN req_to_blocks[r] : ref_cnt[req_to_blocks[r][i]] > 1})
NumCommonPrefixBlocks(r) ==
    LeadingRun({i \in DOMAIN req_to_blocks[r] :
                  ref_cnt[req_to_blocks[r][i]] = Cardinality(Tables)})
===============================================================================
