----------------------------- MODULE HybridCache ------------------------------
(***************************************************************************)
(* The KV-cache manager of a hybrid model (vllm/v1/core:                   *)
(* kv_cache_manager.py, kv_cache_coordinator.py,                           *)
(* single_type_kv_cache_manager.py): full-attention layers and Mamba       *)
(* layers in cache mode "align", in several groups that draw their blocks  *)
(* from one pool.  A Mamba block holds the recurrent state after some      *)
(* token, so a request needs only its last one; the places of the others   *)
(* in its table are filled with the null block.                            *)
(*                                                                         *)
(* The variable kv is the manager's object graph, and every method is an   *)
(* operator from one value of it to the next.  The map from hashes to      *)
(* blocks is left out: KVCacheProofs proves that it always is the inverse  *)
(* of block_hash.  No speculative decoding: num_speculative_blocks is 0,   *)
(* and then _allocated_block_reqs makes no difference.                     *)
(***************************************************************************)
EXTENDS BlockLists

LOCAL SeqOps == INSTANCE SequencesExt

CONSTANTS
    Requests,       \* request ids
    NumGpuBlocks,   \* blocks in the pool, the null block included
    BlockSize,      \* tokens per block, the same for all groups
    MaxModelLen,    \* max_model_len
    Groups,         \* the KV-cache groups in the order of single_type_managers
    FullGroup,      \* the one of them with the full-attention layers
    BlockHashes,    \* request -> the chain of hashes of its blocks
    NoHash          \* block_hash is None

NullBlock == 0
UsableBlocks == 1 .. NumGpuBlocks - 1
MambaGroups == Range(Groups) \ {FullGroup}

\* make_block_hash_with_group_id, and the hash of an uncached block.
HashWithGroup(g, h) == <<g, h>>
Unhashed == <<"none", NoHash>>

\* No entry in the dict last_state_block_idx, and none in num_cached_block.
NoIndex == -1
NotTracked == -1

ASSUME HybridAssumption ==
    /\ NumGpuBlocks \in Nat \ {0}
    /\ BlockSize \in Nat \ {0}
    /\ FullGroup \in Range(Groups)
    /\ IsInjective(Groups)
    /\ \A r \in Requests : Len(BlockHashes[r]) * BlockSize + BlockSize > MaxModelLen

VARIABLE kv

KVInit ==
    kv = [ref_cnt |-> [b \in UsableBlocks |-> 0],
          free_block_queue |-> [i \in 1 .. NumGpuBlocks - 1 |-> i],
          block_hash |-> [b \in UsableBlocks |-> Unhashed],
          req_to_blocks |-> [g \in Range(Groups) |-> [r \in Requests |-> <<>>]],
          num_cached_block |-> [g \in Range(Groups) |-> [r \in Requests |-> NotTracked]],
          last_state_block_idx |-> [g \in MambaGroups |-> [r \in Requests |-> NoIndex]],
          cached_blocks_this_step |-> {},
          raised |-> FALSE]     \* get_new_blocks or an assertion has raised
-------------------------------------------------------------------------------
(* BlockPool *)

\* free_blocks.  The reference count of the null block is never looked at.
FreeBlocks(k, blocks) ==
    [k EXCEPT
       !.ref_cnt = [b \in UsableBlocks |-> IF b \in Range(blocks) THEN @[b] - 1 ELSE @[b]],
       !.free_block_queue = @ \o Keep(blocks, {b \in UsableBlocks : k.ref_cnt[b] = 1})]

\* touch
Touch(k, blocks) ==
    [k EXCEPT
       !.ref_cnt = [b \in UsableBlocks |-> IF b \in Range(blocks) THEN @[b] + 1 ELSE @[b]],
       !.free_block_queue = Keep(@, UsableBlocks \ Range(blocks))]

\* The blocks get_new_blocks hands out (none to speak of when it raises), and
\* get_new_blocks with its eviction of what they cached.
NextBlocks(k, n) == SubSeq(k.free_block_queue, 1, Smaller(n, Len(k.free_block_queue)))
GetNewBlocks(k, n) ==
    IF n > Len(k.free_block_queue)
    THEN [k EXCEPT !.raised = TRUE]
    ELSE LET new == Range(NextBlocks(k, n))
         IN  [k EXCEPT
                !.ref_cnt = [b \in UsableBlocks |-> IF b \in new THEN @[b] + 1 ELSE @[b]],
                !.free_block_queue = SubSeq(@, n + 1, Len(@)),
                !.block_hash = [b \in UsableBlocks |-> IF b \in new THEN Unhashed ELSE @[b]]]

\* get_cached_block: the blocks that may be returned for a hash.
Cached(k, g, h) == {b \in UsableBlocks : k.block_hash[b] = HashWithGroup(g, h)}

\* cache_full_blocks for blocks from+1 .. to of a table; null blocks are
\* skipped, and blk.block_hash must be None.
CacheFullBlocks(k, g, r, from, to) ==
    LET blocks == k.req_to_blocks[g][r]
        new == {i \in from + 1 .. to : blocks[i] # NullBlock}
        at(b) == CHOOSE i \in new : blocks[i] = b
    IN  [k EXCEPT
           !.block_hash = [b \in UsableBlocks |->
                             IF \E i \in new : blocks[i] = b
                             THEN HashWithGroup(g, BlockHashes[r][at(b)]) ELSE @[b]],
           !.raised = @ \/ \E i \in new : k.block_hash[blocks[i]] # Unhashed]
-------------------------------------------------------------------------------
(* SingleTypeKVCacheManager and MambaManager, for one group *)

ReplaceTable(k, g, r, blocks) == [k EXCEPT !.req_to_blocks[g][r] = blocks]
Nulls(n) == [i \in 1 .. n |-> NullBlock]

\* Variant: the blocks are freed and stay in the table.
RemoveBlocksKeepsPlaces(k, g, r, S, blocks) == FreeBlocks(k, blocks)

\* Null out the table's positions in S, which hold the given blocks, and
\* free these in the order given.
RemoveBlocks(k, g, r, S, blocks) ==
    ReplaceTable(FreeBlocks(k, blocks), g, r,
                 [i \in DOMAIN k.req_to_blocks[g][r] |->
                    IF i \in S THEN NullBlock ELSE k.req_to_blocks[g][r][i]])

\* The base class's remove_skipped_blocks: free the run of blocks, from the
\* last skipped one backwards, that ends at a null block.
RemoveSkippedRun(k, g, r, computed) ==
    LET blocks == k.req_to_blocks[g][r]
        n == Smaller(Larger(computed - 1, 0) \div BlockSize, Len(blocks))
        removed == {i \in 1 .. n : \A j \in i .. n : blocks[j] # NullBlock}
    IN  RemoveBlocks(k, g, r, removed,
                     Reversed(SubSeq(blocks, n - Cardinality(removed) + 1, n)))

\* Variant: the block of the state before the last is never freed.
RemoveSkippedRunOnly(k, g, r, computed) == RemoveSkippedRun(k, g, r, computed)

\* MambaManager.remove_skipped_blocks also frees the block allocated two
\* steps ago, which null blocks may separate from the run.
RemoveSkippedMamba(k, g, r, computed) ==
    LET k1 == RemoveSkippedRun(k, g, r, computed)
        last == k1.last_state_block_idx[g][r] + 1
    IN  IF last > 0 /\ last < Cdiv(computed, BlockSize)
             /\ k1.req_to_blocks[g][r][last] # NullBlock
        THEN RemoveBlocks(k1, g, r, {last}, <<k1.req_to_blocks[g][r][last]>>)
        ELSE k1

\* remove_skipped_blocks: full attention skips nothing.
RemoveSkippedBlocks(k, g, r, computed) ==
    IF g = FullGroup THEN k ELSE RemoveSkippedMamba(k, g, r, computed)

\* Variant: hits that sit in the free queue are not counted.
NoEvictable(k, hits) == 0

\* _get_num_evictable_blocks
NumEvictable(k, hits) == Cardinality({b \in Range(hits) \ {NullBlock} : k.ref_cnt[b] = 0})

\* Variant: a state that this step computes may be used in this step.
NumMambaBlocksSameStep(k, g, r, hits, numTokens) ==
    LET new == Cdiv(numTokens, BlockSize) - Len(hits) - Len(k.req_to_blocks[g][r])
    IN  Smaller(new, 1) + NumEvictable(k, hits)

\* MambaManager.get_num_blocks_to_allocate.  A hit on a state that this step
\* computes is put off to the next step by asking for more than there is.
NumMambaBlocks(k, g, r, hits, numTokens) ==
    LET new == Cdiv(numTokens, BlockSize) - Len(hits) - Len(k.req_to_blocks[g][r])
    IN  IF hits # <<>> /\ k.block_hash[hits[Len(hits)]] \in k.cached_blocks_this_step
        THEN NumGpuBlocks + 1
        ELSE Smaller(new, 1) + NumEvictable(k, hits)

\* get_num_blocks_to_allocate; full attention uses the base class.
NumBlocksToAllocate(k, g, r, hits, numTokens) ==
    IF g = FullGroup
    THEN Larger(Cdiv(numTokens, BlockSize) - Len(hits) - Len(k.req_to_blocks[g][r]), 0)
           + NumEvictable(k, hits)
    ELSE NumMambaBlocks(k, g, r, hits, numTokens)

\* allocate_new_computed_blocks: of the hits, a Mamba group keeps the last.
AllocateNewComputedBlocks(k, g, r, hits) ==
    [ReplaceTable(Touch(k, hits), g, r, hits)
       EXCEPT !.num_cached_block[g][r] = Len(hits),
              !.raised = @ \/ k.req_to_blocks[g][r] # <<>>]

\* MambaManager.allocate_new_blocks: null blocks up to the last one, which
\* will hold the running state.
AllocateMambaBlocks(k, g, r, numTokens) ==
    LET blocks == k.req_to_blocks[g][r]
        required == Cdiv(numTokens, BlockSize)
        pad == Nulls(Larger(required - 1 - Len(blocks), 0))
    IN  IF required = Len(blocks) THEN k
        ELSE [ReplaceTable(GetNewBlocks(k, 1), g, r, blocks \o pad \o NextBlocks(k, 1))
                EXCEPT !.last_state_block_idx[g][r] = Len(blocks) - 1,
                       !.raised = @ \/ required < Len(blocks)]

\* allocate_new_blocks
AllocateNewBlocks(k, g, r, numTokens) ==
    LET blocks == k.req_to_blocks[g][r]
        n == Larger(Cdiv(numTokens, BlockSize) - Len(blocks), 0)
    IN  IF g = FullGroup
        THEN ReplaceTable(GetNewBlocks(k, n), g, r, blocks \o NextBlocks(k, n))
        ELSE AllocateMambaBlocks(k, g, r, numTokens)

\* cache_blocks, with MambaManager's note of what was cached in this step.
CacheGroupBlocks(k, g, r, numTokens) ==
    LET before == Larger(k.num_cached_block[g][r], 0)
        after == numTokens \div BlockSize
        new == {i \in before + 1 .. after : k.req_to_blocks[g][r][i] # NullBlock}
    IN  IF before >= after THEN k
        ELSE [CacheFullBlocks(k, g, r, before, after)
                EXCEPT !.num_cached_block[g][r] = after,
                       !.cached_blocks_this_step =
                          IF g = FullGroup THEN @
                          ELSE @ \cup {HashWithGroup(g, BlockHashes[r][i]) : i \in new}]

\* free
FreeGroup(k, g, r) ==
    LET k1 == FreeBlocks(k, Reversed(k.req_to_blocks[g][r]))
        k2 == [ReplaceTable(k1, g, r, <<>>) EXCEPT !.num_cached_block[g][r] = NotTracked]
    IN  IF g = FullGroup THEN k2
        ELSE [k2 EXCEPT !.last_state_block_idx[g][r] = NoIndex]
-------------------------------------------------------------------------------
(* KVCacheCoordinator and KVCacheManager *)

\* A loop of the coordinator over its managers is a fold over Groups.

\* HybridKVCacheCoordinator.find_longest_cache_hit for one full-attention spec
\* and one other: the full-attention groups first, then the longest prefix
\* within that whose state every Mamba group has cached, to which the
\* full-attention hits are truncated.
NumHits(k, r, maxLength) ==
    LET full == LeadingRun({i \in 1 .. maxLength \div BlockSize :
                              Cached(k, FullGroup, BlockHashes[r][i]) # {}})
        states == {i \in 1 .. full : \A g \in MambaGroups : Cached(k, g, BlockHashes[r][i]) # {}}
    IN  CHOOSE n \in states \cup {0} : \A i \in states : i <= n

\* The hit lists of a group; get_one_block "gets any block" with the hash.
GroupHits(k, g, r, n) ==
    LET cached(i) == Cached(k, g, BlockHashes[r][i])
    IN  IF n = 0 THEN {<<>>}
        ELSE IF g # FullGroup THEN {Append(Nulls(n - 1), b) : b \in cached(n)}
        ELSE {hits \in [1 .. n -> UNION {cached(i) : i \in 1 .. n}] :
                \A i \in 1 .. n : hits[i] \in cached(i)}

\* KVCacheManager.get_computed_blocks: what it may return, by group.
ComputedBlocks(k, r, numTokens) ==
    LET n == NumHits(k, r, numTokens - 1)
        of(g) == GroupHits(k, g, r, n)
    IN  {hits \in [Range(Groups) -> UNION {of(g) : g \in Range(Groups)}] :
           \A g \in Range(Groups) : hits[g] \in of(g)}

\* KVCacheManager.allocate_slots up to its capacity check, which frees skipped
\* blocks whether or not the request then finds room ...
Trimmed(k, r, computed) ==
    LET Method(k1, g) == RemoveSkippedBlocks(k1, g, r, computed)
    IN  SeqOps!FoldLeft(Method, k, Groups)

CanAllocate(k, r, hits, numTokens) ==
    LET Method(n, g) == n + NumBlocksToAllocate(k, g, r, hits[g], numTokens)
    IN  SeqOps!FoldLeft(Method, 0, Groups) <= Len(k.free_block_queue)

\* ... and after it, for a request with known tokens that is to have
\* numTokens computed.
Allocated(k, r, hits, numTokens, known) ==
    LET Computed(k1, g) == IF hits[FullGroup] = <<>> THEN k1
                           ELSE AllocateNewComputedBlocks(k1, g, r, hits[g])
        New(k1, g) == AllocateNewBlocks(k1, g, r, numTokens)
        Cache(k1, g) == CacheGroupBlocks(k1, g, r, Smaller(numTokens, known))
    IN  SeqOps!FoldLeft(Cache,
            SeqOps!FoldLeft(New, SeqOps!FoldLeft(Computed, k, Groups), Groups), Groups)

\* KVCacheManager.cache_blocks
CacheBlocks(k, r, numTokens) ==
    LET Method(k1, g) == CacheGroupBlocks(k1, g, r, numTokens)
    IN  SeqOps!FoldLeft(Method, k, Groups)

\* KVCacheManager.free
Free(k, r) ==
    LET Method(k1, g) == FreeGroup(k1, g, r)
    IN  SeqOps!FoldLeft(Method, k, Groups)

\* Variant: what was cached in earlier steps still counts.
NewStepKeepsCached(k) == k

\* KVCacheManager.new_step_starts
NewStepStarts(k) == [k EXCEPT !.cached_blocks_this_step = {}]
===============================================================================
