---------------------------- MODULE KVCacheClient -----------------------------
(***************************************************************************)
(* The KV-cache manager under every caller that keeps its calling          *)
(* convention: what the scheduler may do to it, with no scheduling policy. *)
(* A request without a block table may look up the prefix cache and be     *)
(* given blocks for some of its tokens; one with a table may be given      *)
(* more; full blocks may be cached late (asynchronous scheduling); a       *)
(* request may be freed at any time (finished, aborted or preempted).      *)
(***************************************************************************)
EXTENDS KVCacheManager

CONSTANTS
    NumPromptTokens,    \* request -> length of its prompt
    MaxPlaceholders,    \* tokens scheduled ahead of the sampled ones
    InvalidReports      \* sets of block ids a KV connector may report as bad

VARIABLES
    num_tokens,         \* request -> prompt and output tokens known
    slots               \* request -> tokens given a slot in its block table

clientVars == <<num_tokens, slots>>
vars == <<kvVars, clientVars>>

ASSUME ClientAssumption ==
    /\ NumPromptTokens \in [Requests -> 1 .. MaxModelLen]
    /\ MaxPlaceholders \in Nat
    /\ InvalidReports \subseteq SUBSET Blocks

Init ==
    /\ KVInit
    /\ num_tokens = NumPromptTokens
    /\ slots = [r \in Requests |-> 0]
-------------------------------------------------------------------------------
\* Scheduler.schedule gives a waiting request its first blocks: the cached
\* prefix that the lookup found, and room for new of its remaining tokens.
AllocateWaiting(r) ==
    /\ req_to_blocks[r] = <<>>
    /\ \E hits \in ComputedBlocks(r, num_tokens[r]) :
       \E new \in 1 .. num_tokens[r] - Len(hits) * BlockSize :
          /\ AllocateSlots(r, 0, num_tokens[r], hits, new)
          /\ slots' = [slots EXCEPT ![r] = Len(hits) * BlockSize + new]
    /\ UNCHANGED num_tokens

\* Scheduler.schedule extends a running request by new tokens, the ones whose
\* values are not known yet (num_output_placeholders) included.
AllocateRunning(r) ==
    /\ req_to_blocks[r] # <<>>
    /\ \E new \in 1 .. Smaller(num_tokens[r] + MaxPlaceholders, MaxModelLen) - slots[r] :
          /\ AllocateSlots(r, slots[r], num_tokens[r], <<>>, new)
          /\ slots' = [slots EXCEPT ![r] = slots[r] + new]
    /\ UNCHANGED num_tokens

\* Request.append_output_token_ids: a token was sampled.  A request that was
\* preempted meanwhile still receives it.
AppendOutputToken(r) ==
    /\ num_tokens[r] < MaxModelLen
    /\ req_to_blocks[r] # <<>> => slots[r] >= num_tokens[r]
    /\ num_tokens' = [num_tokens EXCEPT ![r] = @ + 1]
    /\ UNCHANGED <<kvVars, slots>>

\* AsyncScheduler._update_request_with_output caches the blocks of a request
\* once the tokens in them are known.
CacheKnownTokens(r) ==
    /\ req_to_blocks[r] # <<>>
    /\ \E n \in 0 .. Smaller(slots[r], num_tokens[r]) : CacheBlocks(r, n)
    /\ UNCHANGED clientVars

\* Scheduler._free_blocks and Scheduler._preempt_request
FreeRequest(r) ==
    /\ Free(r)
    /\ slots' = [slots EXCEPT ![r] = 0]
    /\ UNCHANGED num_tokens

\* Scheduler.update_from_output evicts blocks whose KV failed to load.
ReportInvalidBlocks ==
    /\ \E S \in InvalidReports : EvictBlocks(S)
    /\ UNCHANGED clientVars

\* Scheduler.reset_prefix_cache
ResetCache == ResetPrefixCache /\ UNCHANGED clientVars

Next ==
    \/ \E r \in Requests :
          \/ AllocateWaiting(r)
          \/ AllocateRunning(r)
          \/ AppendOutputToken(r)
          \/ CacheKnownTokens(r)
          \/ FreeRequest(r)
    \/ ReportInvalidBlocks
    \/ ResetCache

Spec == Init /\ [][Next]_vars
-------------------------------------------------------------------------------
(* Invariants *)

\* Types of the pool's, the manager's and the client's state.
TypeOK ==
    /\ ref_cnt \in [Blocks -> Nat]
    /\ free_block_queue \in Seq(UsableBlocks)
    /\ block_hash \in [Blocks -> Hashes \cup {NoHash}]
    /\ cached_block_hash_to_block \in [Hashes -> SUBSET UsableBlocks]
    /\ req_to_blocks \in [Requests -> Seq(UsableBlocks)]
    /\ num_cached_block \in [Requests -> Nat \cup {NotTracked}]
    /\ num_tokens \in [Requests -> 1 .. MaxModelLen]
    /\ slots \in [Requests -> 0 .. MaxModelLen]

\* FreeKVCacheBlockQueue holds exactly the blocks that no request references,
\* each once: no block is leaked, freed twice, or free and in use, however
\* hits, allocations, preemptions and frees of requests sharing it interleave.
FreeQueueExact ==
    /\ IsInjective(free_block_queue)
    /\ Range(free_block_queue) = {b \in UsableBlocks : ref_cnt[b] = 0}

Holders(b) == {r \in Requests : b \in Range(req_to_blocks[r])}

\* KVCacheBlock.ref_cnt is the number of block tables the block is in, and no
\* table lists a block twice (a Free would then drop two references).
RefCountExact ==
    /\ \A b \in UsableBlocks : ref_cnt[b] = Cardinality(Holders(b))
    /\ ref_cnt[NullBlock] = 0
    /\ \A r \in Requests : IsInjective(req_to_blocks[r])

\* The map from hashes to blocks and the hashes stored in the blocks agree
\* (the TODO in BlockHashToBlockMap.pop, "if key is found, block_id should
\* always present"), so eviction always finds the entry it has to remove.
CacheIndexExact ==
    \A h \in Hashes, b \in Blocks :
        b \in cached_block_hash_to_block[h] <=> block_hash[b] = h

\* A block past the cached prefix of its table has no hash: the assertions
\* "blk.block_hash is None" of cache_full_blocks and of the block_hash setter
\* hold whichever blocks are cached next.
UncachedTailHasNoHash ==
    \A r \in Requests : \A i \in DOMAIN req_to_blocks[r] :
        i > NumCached(r) => block_hash[req_to_blocks[r][i]] = NoHash

\* Every block in the cached prefix of a table either carries the hash of the
\* tokens this request has there or was explicitly evicted.
CachedPrefixMatches ==
    \A r \in Requests :
        /\ NumCached(r) <= Len(req_to_blocks[r])
        /\ \A i \in 1 .. NumCached(r) :
              block_hash[req_to_blocks[r][i]] \in {BlockHashes[r][i], NoHash}

\* A request's table has room for exactly the tokens that were given slots,
\* and the cached prefix holds only tokens whose values are known.
TableCoversSlots ==
    \A r \in Requests :
        /\ Len(req_to_blocks[r]) = Cdiv(slots[r], BlockSize)
        /\ NumCached(r) * BlockSize <= Smaller(slots[r], num_tokens[r])

\* Requests share a block only at the same position, after the same tokens,
\* and only inside the cached prefix of each: no request ever writes KV into
\* a block that another one reads.
SharedOnlyAsPrefix ==
    \A r, s \in Requests : r # s =>
        \A i \in DOMAIN req_to_blocks[r], j \in DOMAIN req_to_blocks[s] :
            req_to_blocks[r][i] = req_to_blocks[s][j] =>
                /\ i = j
                /\ BlockHashes[r][i] = BlockHashes[s][i]
                /\ i <= NumCached(r) /\ i <= NumCached(s)

\* Once allocate_slots has passed its capacity check, get_new_blocks finds
\* the blocks it asks for ("Cannot get ... free blocks" is never raised),
\* although touching the hits shrinks the free queue in between.
CapacityCheckSuffices ==
    \A r \in Requests : req_to_blocks[r] = <<>> =>
        \A hits \in ComputedBlocks(r, num_tokens[r]) :
        \A new \in 1 .. num_tokens[r] - Len(hits) * BlockSize :
            CanAllocate(r, 0, hits, new) =>
                NumNewBlocks(r, 0, hits, new) <= Len(QueueAfterTouch(hits))

\* The blocks counted by get_num_common_prefix_blocks, by comparing reference
\* counts only, are the same blocks in every block table: cascade attention
\* reads them once on behalf of all requests.
CommonPrefixIsCommon ==
    \A r \in Tables : \A i \in 1 .. NumCommonPrefixBlocks(r) :
        \A s \in Tables :
            /\ i <= Len(req_to_blocks[s])
            /\ req_to_blocks[s][i] = req_to_blocks[r][i]
===============================================================================
