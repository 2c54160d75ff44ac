---------------------------- MODULE KVCacheProofs -----------------------------
(*****************************************************************************)
(* The KV-cache manager keeps its invariants for every number of requests,   *)
(* blocks, block size and model length, whatever the scheduler does.         *)
(*****************************************************************************)
EXTENDS KVCacheAllocation

\* Freeing a request, preempting it included.
LEMMA FreeRequestPreserves ==
    ASSUME IInv, NEW r \in Requests, FreeRequest(r)
    PROVE  IInv'
<1> DEFINE blocks == req_to_blocks[r]
           last == {b \in UsableBlocks : ref_cnt[b] - 1 = 0}
           back == Keep(Reversed(blocks), last)
           table(s) == IF s = r THEN <<>> ELSE req_to_blocks[s]
           count(s) == IF s = r THEN 0 ELSE NumCached(s)
<1>1. /\ TypeOK /\ blocks \in Seq(UsableBlocks) /\ IsInjective(blocks)
      /\ free_block_queue \in Seq(UsableBlocks) /\ IsInjective(free_block_queue)
      /\ Range(free_block_queue) = {b \in UsableBlocks : ref_cnt[b] = 0}
  BY DEF IInv, TypeOK, RefCountExact, FreeQueueExact
<1>2. /\ ref_cnt' = [b \in Blocks |-> IF b \in Range(blocks) THEN ref_cnt[b] - 1 ELSE ref_cnt[b]]
      /\ free_block_queue' = free_block_queue \o back
      /\ req_to_blocks' = [req_to_blocks EXCEPT ![r] = <<>>]
      /\ num_cached_block' = [num_cached_block EXCEPT ![r] = NotTracked]
      /\ block_hash' = block_hash
      /\ cached_block_hash_to_block' = cached_block_hash_to_block
      /\ slots' = [slots EXCEPT ![r] = 0] /\ num_tokens' = num_tokens
  BY DEF FreeRequest, Free
<1>3. \A b \in Range(blocks) : b \in UsableBlocks /\ b \in Blocks /\ ref_cnt[b] \in Nat \ {0}
  BY HeldNotFree DEF UsableBlocks
<1>4. /\ back \in Seq(UsableBlocks) /\ IsInjective(back)
      /\ Range(back) = Range(blocks) \cap last
  <2>1. /\ Reversed(blocks) \in Seq(UsableBlocks) /\ IsInjective(Reversed(blocks))
        /\ Range(Reversed(blocks)) = Range(blocks)
    BY <1>1, ReverseProperties
  <2> QED
    BY <2>1, KeepProperties
<1> HIDE DEF back
<1>5. \A s \in Requests : req_to_blocks'[s] = table(s) /\ NumCached(s)' = count(s)
  BY <1>1, <1>2 DEF TypeOK, NumCached, Larger, NotTracked
<1>6. Range(<<>>) = {} /\ IsInjective(<<>>) /\ <<>> \in Seq(UsableBlocks) /\ Len(<<>>) = 0
  BY EmptyList
<1>7. /\ free_block_queue' \in Seq(UsableBlocks) /\ IsInjective(free_block_queue')
      /\ Range(free_block_queue') = Range(free_block_queue) \cup Range(back)
  <2>1. Range(free_block_queue) \cap Range(back) = {}
    BY <1>1, <1>3, <1>4
  <2> QED
    BY <1>1, <1>2, <1>4, <2>1, JoinProperties
<1>8. TypeOK'
  <2>1. ref_cnt' \in [Blocks -> Nat]
    <3>1. \A b \in Blocks : ref_cnt[b] \in Nat /\ (b \in Range(blocks) => ref_cnt[b] - 1 \in Nat)
      BY <1>1, <1>3 DEF TypeOK
    <3> QED
      BY <1>2, <3>1
  <2>2. req_to_blocks' \in [Requests -> Seq(UsableBlocks)]
    BY <1>1, <1>2, <1>6 DEF TypeOK
  <2>3. /\ num_cached_block' \in [Requests -> Nat \cup {NotTracked}]
        /\ slots' \in [Requests -> 0 .. MaxModelLen]
        /\ num_tokens' \in [Requests -> 1 .. MaxModelLen]
    BY <1>1, <1>2, SizesAssumption DEF TypeOK
  <2> QED
    BY <1>1, <1>2, <1>7, <2>1, <2>2, <2>3 DEF TypeOK
<1>9. FreeQueueExact'
  <2>1. ASSUME NEW b \in UsableBlocks
        PROVE  ref_cnt'[b] = 0 <=> b \in Range(free_block_queue) \/ b \in Range(back)
    <3>1. b \in Blocks /\ ref_cnt[b] \in Nat
      BY <1>1 DEF TypeOK, UsableBlocks
    <3> QED
      BY <1>1, <1>2, <1>3, <1>4, <3>1
  <2> QED
    BY <1>7, <2>1, InRange DEF FreeQueueExact
<1>10. RefCountExact'
  <2>1. ASSUME NEW b \in UsableBlocks PROVE ref_cnt'[b] = Cardinality(Holders(b)')
    <3>1. IsFiniteSet(Holders(b)) /\ b \in Blocks
      BY RequestsAssumption, FS_Subset DEF Holders, UsableBlocks
    <3>2. ref_cnt[b] = Cardinality(Holders(b))
      BY DEF IInv, RefCountExact
    <3>3. Holders(b)' = Holders(b) \ {r}
      BY <1>5, <1>6 DEF Holders
    <3>4. Cardinality(Holders(b) \ {r}) =
             IF r \in Holders(b) THEN Cardinality(Holders(b)) - 1 ELSE Cardinality(Holders(b))
      BY Zenon, <3>1, FS_RemoveElement
    <3>5. r \in Holders(b) <=> b \in Range(blocks)
      BY DEF Holders
    <3> QED
      BY <1>2, <3>1, <3>2, <3>3, <3>4, <3>5
  <2>2. ref_cnt'[NullBlock] = 0
    BY <1>2, <1>3, SizesAssumption DEF IInv, RefCountExact, UsableBlocks, NullBlock, Blocks
  <2>3. \A s \in Requests : IsInjective(req_to_blocks'[s])
    BY <1>5, <1>6 DEF IInv, RefCountExact
  <2> QED
    BY <2>1, <2>2, <2>3 DEF RefCountExact
<1>11. CacheIndexExact'
  BY <1>2 DEF IInv, CacheIndexExact
<1>12. UncachedTailHasNoHash'
  BY <1>2, <1>5, <1>6 DEF IInv, UncachedTailHasNoHash
<1>13. CachedPrefixMatches'
  <2>1. ASSUME NEW s \in Requests
        PROVE  /\ count(s) <= Len(table(s))
               /\ \A i \in 1 .. count(s) : block_hash[table(s)[i]] \in {BlockHashes[s][i], NoHash}
    <3>1. CASE s = r
      BY <1>6, <3>1
    <3>2. CASE s # r
      BY <3>2 DEF IInv, CachedPrefixMatches
    <3> QED
      BY <3>1, <3>2
  <2> HIDE DEF table, count
  <2> QED
    BY <1>2, <1>5, <2>1 DEF CachedPrefixMatches
<1>14. TableCoversSlots'
  <2>1. Cdiv(0, BlockSize) = 0
    BY SizesAssumption DEF Cdiv
  <2>2. ASSUME NEW s \in Requests
        PROVE  /\ Len(table(s)) = Cdiv(slots'[s], BlockSize)
               /\ count(s) * BlockSize <= Smaller(slots'[s], num_tokens'[s])
    <3>1. CASE s = r
      BY <1>1, <1>2, <1>6, <2>1, <3>1, SizesAssumption DEF TypeOK, Smaller
    <3>2. CASE s # r
      BY <1>1, <1>2, <3>2 DEF IInv, TypeOK, TableCoversSlots
    <3> QED
      BY <3>1, <3>2
  <2> QED
    BY <1>5, <2>2 DEF TableCoversSlots
<1>15. SharedOnlyAsPrefix'
  BY <1>5, <1>6 DEF IInv, SharedOnlyAsPrefix
<1> QED
  BY <1>8, <1>9, <1>10, <1>11, <1>12, <1>13, <1>14, <1>15 DEF IInv

\* A generated token makes the known text longer and touches nothing else.
LEMMA AppendOutputTokenPreserves ==
    ASSUME IInv, NEW r \in Requests, AppendOutputToken(r)
    PROVE  IInv'
<1>1. /\ TypeOK /\ UNCHANGED kvVars /\ slots' = slots
      /\ num_tokens[r] < MaxModelLen
      /\ num_tokens' = [num_tokens EXCEPT ![r] = @ + 1]
  BY DEF IInv, AppendOutputToken
<1>2. /\ ref_cnt' = ref_cnt /\ free_block_queue' = free_block_queue
      /\ block_hash' = block_hash
      /\ cached_block_hash_to_block' = cached_block_hash_to_block
      /\ req_to_blocks' = req_to_blocks /\ num_cached_block' = num_cached_block
  BY <1>1 DEF kvVars, poolVars
<1>3. TypeOK'
  BY <1>1, <1>2, SizesAssumption DEF TypeOK
<1>4. TableCoversSlots'
  <2>1. ASSUME NEW s \in Requests
        PROVE  NumCached(s) * BlockSize <= Smaller(slots[s], num_tokens'[s])
    <3> DEFINE prod == NumCached(s) * BlockSize
    <3>1. prod \in Nat /\ prod <= Smaller(slots[s], num_tokens[s])
      BY SizesAssumption, CountsAreNaturals DEF IInv, TableCoversSlots
    <3>2. /\ slots[s] \in Nat /\ num_tokens[s] \in Nat /\ num_tokens'[s] \in Nat
          /\ num_tokens[s] <= num_tokens'[s]
      BY <1>1, <1>3 DEF TypeOK
    <3> HIDE DEF prod
    <3>3. prod <= Smaller(slots[s], num_tokens'[s])
      BY <3>1, <3>2 DEF Smaller
    <3> QED
      BY <3>3 DEF prod
  <2> QED
    BY <1>1, <1>2, <2>1 DEF IInv, TableCoversSlots, NumCached
<1> QED
  <2>1. (FreeQueueExact /\ RefCountExact)'
    BY <1>2 DEF IInv, FreeQueueExact, RefCountExact, Holders
  <2>2. (CacheIndexExact /\ UncachedTailHasNoHash)'
    BY <1>2 DEF IInv, CacheIndexExact, UncachedTailHasNoHash, NumCached
  <2>3. CachedPrefixMatches'
    BY <1>2 DEF IInv, CachedPrefixMatches, NumCached
  <2>4. SharedOnlyAsPrefix'
    BY <1>2 DEF IInv, SharedOnlyAsPrefix, NumCached
  <2> QED
    BY <1>3, <1>4, <2>1, <2>2, <2>3, <2>4 DEF IInv

\* Forgetting hashes, of some blocks or of all, leaves the tables alone.
LEMMA ForgettingPreserves ==
    ASSUME IInv, NEW S,
           block_hash' = HashesWithout(S), cached_block_hash_to_block' = MapWithout(S),
           UNCHANGED <<ref_cnt, free_block_queue, req_to_blocks, num_cached_block>>,
           UNCHANGED clientVars
    PROVE  IInv'
<1>1. /\ TypeOK /\ num_tokens' = num_tokens /\ slots' = slots
      /\ \A h \in Hashes : cached_block_hash_to_block'[h] = cached_block_hash_to_block[h] \ S
      /\ \A b \in Blocks : block_hash'[b] = IF b \in S THEN NoHash ELSE block_hash[b]
  BY Evicted DEF IInv, clientVars
<1>2. TypeOK'
  <2>1. HashesWithout(S) \in [Blocks -> Hashes \cup {NoHash}]
    BY <1>1, Evicted DEF IInv, TypeOK
  <2>2. MapWithout(S) \in [Hashes -> SUBSET UsableBlocks]
    BY <1>1, Evicted DEF IInv, TypeOK
  <2> QED BY <1>1, <2>1, <2>2 DEF TypeOK
<1>3. CacheIndexExact'
  BY <1>1, HashChainAssumption DEF IInv, CacheIndexExact
<1>4. \A r \in Requests : \A i \in DOMAIN req_to_blocks[r] : req_to_blocks[r][i] \in Blocks
  BY <1>1 DEF TypeOK, UsableBlocks
<1>5. UncachedTailHasNoHash'
  BY <1>1, <1>4 DEF IInv, UncachedTailHasNoHash, NumCached
<1>6. CachedPrefixMatches'
  <2>1. ASSUME NEW r \in Requests, NEW i \in 1 .. NumCached(r)
        PROVE  block_hash'[req_to_blocks[r][i]] \in {BlockHashes[r][i], NoHash}
    <3>2. NumCached(r) \in Nat /\ NumCached(r) <= Len(req_to_blocks[r])
      BY CountsAreNaturals
    <3>3. req_to_blocks[r] \in Seq(UsableBlocks)
      BY <1>1 DEF TypeOK
    <3>1. i \in DOMAIN req_to_blocks[r]
      BY <3>2, <3>3
    <3> QED
      BY <1>1, <1>4, <3>1 DEF IInv, CachedPrefixMatches
  <2> QED
    BY <2>1 DEF IInv, CachedPrefixMatches, NumCached
<1>7. FreeQueueExact' /\ RefCountExact'
  BY DEF IInv, FreeQueueExact, RefCountExact, Holders
<1>8. TableCoversSlots' /\ SharedOnlyAsPrefix'
  <2>1. \A r \in Requests : NumCached(r)' = NumCached(r)
    BY DEF NumCached
  <2>2. TableCoversSlots'
    BY <1>1, <2>1 DEF IInv, TableCoversSlots
  <2>3. SharedOnlyAsPrefix'
    BY <2>1 DEF IInv, SharedOnlyAsPrefix
  <2> QED
    BY <2>2, <2>3
<1> QED
  BY <1>2, <1>3, <1>5, <1>6, <1>7, <1>8 DEF IInv

LEMMA ReportInvalidBlocksPreserves ==
    ASSUME IInv, ReportInvalidBlocks
    PROVE  IInv'
BY ForgettingPreserves DEF ReportInvalidBlocks, EvictBlocks

LEMMA ResetCachePreserves ==
    ASSUME IInv, ResetCache
    PROVE  IInv'
<1>1. TypeOK
  BY DEF IInv
<1>2. HashesWithout(Blocks) = [b \in Blocks |-> NoHash]
  BY <1>1, Evicted DEF IInv
<1>3. MapWithout(Blocks) = [h \in Hashes |-> {}]
  BY <1>1, Evicted DEF IInv, TypeOK, UsableBlocks
<1> QED
  BY <1>2, <1>3, ForgettingPreserves DEF ResetCache, ResetPrefixCache

LEMMA InitEstablishes == Init => IInv
<1> SUFFICES ASSUME Init PROVE IInv
  OBVIOUS
<1>1. /\ ref_cnt = [b \in Blocks |-> 0]
      /\ free_block_queue = [i \in 1 .. NumGpuBlocks - 1 |-> i]
      /\ block_hash = [b \in Blocks |-> NoHash]
      /\ cached_block_hash_to_block = [h \in Hashes |-> {}]
      /\ req_to_blocks = [r \in Requests |-> <<>>]
      /\ num_cached_block = [r \in Requests |-> NotTracked]
      /\ num_tokens = NumPromptTokens
      /\ slots = [r \in Requests |-> 0]
  BY DEF Init, KVInit
<1>2. UsableBlocks = 1 .. NumGpuBlocks - 1 /\ NumGpuBlocks - 1 \in Nat
  BY SizesAssumption DEF UsableBlocks, Blocks, NullBlock
<1>3. /\ free_block_queue \in Seq(UsableBlocks)
      /\ DOMAIN free_block_queue = 1 .. NumGpuBlocks - 1
      /\ \A i \in 1 .. NumGpuBlocks - 1 : free_block_queue[i] = i
  BY <1>1, <1>2
<1>4. Range(<<>>) = {} /\ IsInjective(<<>>) /\ <<>> \in Seq(UsableBlocks) /\ Len(<<>>) = 0
  BY EmptyList
<1>5. \A r \in Requests : req_to_blocks[r] = <<>> /\ NumCached(r) = 0
  BY <1>1 DEF NumCached, Larger, NotTracked
<1>6. TypeOK
  <2>1. ref_cnt \in [Blocks -> Nat]
    BY <1>1
  <2>2. req_to_blocks \in [Requests -> Seq(UsableBlocks)]
    BY <1>1, <1>4
  <2>3. num_tokens \in [Requests -> 1 .. MaxModelLen] /\ slots \in [Requests -> 0 .. MaxModelLen]
    BY <1>1, SizesAssumption, ClientAssumption
  <2>4. /\ block_hash \in [Blocks -> Hashes \cup {NoHash}]
        /\ cached_block_hash_to_block \in [Hashes -> SUBSET UsableBlocks]
        /\ num_cached_block \in [Requests -> Nat \cup {NotTracked}]
    BY <1>1
  <2> QED
    BY <1>3, <2>1, <2>2, <2>3, <2>4 DEF TypeOK
<1>7. FreeQueueExact
  <2>1. IsInjective(free_block_queue)
    BY <1>3 DEF IsInjective
  <2>2. Range(free_block_queue) = UsableBlocks
    BY <1>2, <1>3 DEF Range
  <2>3. \A b \in UsableBlocks : ref_cnt[b] = 0
    BY <1>1 DEF UsableBlocks
  <2> QED
    BY <2>1, <2>2, <2>3 DEF FreeQueueExact
<1>8. RefCountExact
  <2>1. \A b \in UsableBlocks : Holders(b) = {} /\ ref_cnt[b] = 0
    BY <1>1, <1>4 DEF Holders, UsableBlocks
  <2>2. Cardinality({}) = 0
    BY FS_EmptySet
  <2>3. ref_cnt[NullBlock] = 0
    BY <1>1, SizesAssumption DEF Blocks, NullBlock
  <2> QED
    BY Zenon, <1>4, <1>5, <2>1, <2>2, <2>3 DEF RefCountExact
<1>9. CacheIndexExact
  BY <1>1, HashChainAssumption DEF CacheIndexExact
<1>10. UncachedTailHasNoHash /\ CachedPrefixMatches /\ SharedOnlyAsPrefix
  BY <1>4, <1>5 DEF UncachedTailHasNoHash, CachedPrefixMatches, SharedOnlyAsPrefix
<1>11. TableCoversSlots
  <2>1. Cdiv(0, BlockSize) = 0
    BY SizesAssumption DEF Cdiv
  <2>2. \A r \in Requests : slots[r] = 0 /\ num_tokens[r] \in Nat
    BY <1>1, <1>6 DEF TypeOK
  <2> QED
    BY <1>4, <1>5, <2>1, <2>2, SizesAssumption DEF TableCoversSlots, Smaller
<1> QED
  BY <1>6, <1>7, <1>8, <1>9, <1>10, <1>11 DEF IInv

LEMMA NextPreserves == IInv /\ [Next]_vars => IInv'
<1> SUFFICES ASSUME IInv, [Next]_vars PROVE IInv'
  OBVIOUS
<1>1. ASSUME NEW r \in Requests, AllocateWaiting(r) PROVE IInv'
  BY <1>1, AllocateWaitingPreserves
<1>2. ASSUME NEW r \in Requests, AllocateRunning(r) PROVE IInv'
  BY <1>2, AllocateRunningPreserves
<1>3. ASSUME NEW r \in Requests, AppendOutputToken(r) PROVE IInv'
  BY <1>3, AppendOutputTokenPreserves
<1>4. ASSUME NEW r \in Requests, CacheKnownTokens(r) PROVE IInv'
  BY <1>4, CacheKnownTokensPreserves
<1>5. ASSUME NEW r \in Requests, FreeRequest(r) PROVE IInv'
  BY <1>5, FreeRequestPreserves
<1>6. CASE ReportInvalidBlocks
  BY <1>6, ReportInvalidBlocksPreserves
<1>7. CASE ResetCache
  BY SMTT(40), <1>7, ResetCachePreserves
<1>8. CASE UNCHANGED vars
  <2>1. /\ ref_cnt' = ref_cnt /\ free_block_queue' = free_block_queue
        /\ block_hash' = block_hash
        /\ cached_block_hash_to_block' = cached_block_hash_to_block
        /\ req_to_blocks' = req_to_blocks /\ num_cached_block' = num_cached_block
        /\ num_tokens' = num_tokens /\ slots' = slots
    BY <1>8 DEF vars, kvVars, poolVars, clientVars
  <2>2. (TypeOK /\ FreeQueueExact /\ RefCountExact)'
    BY <2>1 DEF IInv, TypeOK, FreeQueueExact, RefCountExact, Holders
  <2>3. (CacheIndexExact /\ UncachedTailHasNoHash)'
    BY <2>1 DEF IInv, CacheIndexExact, UncachedTailHasNoHash, NumCached
  <2>4. (CachedPrefixMatches /\ TableCoversSlots)'
    BY <2>1 DEF IInv, CachedPrefixMatches, TableCoversSlots, NumCached
  <2>5. SharedOnlyAsPrefix'
    BY <2>1 DEF IInv, SharedOnlyAsPrefix, NumCached
  <2> QED
    BY <2>2, <2>3, <2>4, <2>5 DEF IInv
<1> QED
  BY <1>1, <1>2, <1>3, <1>4, <1>5, <1>6, <1>7, <1>8 DEF Next
-------------------------------------------------------------------------------
(* The theorems *)

\* The block pool, the block tables and the prefix cache satisfy the inductive
\* invariant in every reachable state.
THEOREM InductiveInvariant == Spec => []IInv
BY InitEstablishes, NextPreserves, PTL DEF Spec

\* BlockPool never leaks a block, never frees one twice and never hands out
\* one that a request still uses.
THEOREM NoLeakNoDoubleFree == Spec => [](FreeQueueExact /\ RefCountExact)
<1>1. IInv => FreeQueueExact /\ RefCountExact
  BY DEF IInv
<1> QED
  BY <1>1, InductiveInvariant, PTL

\* The blocks in the cached part of a table carry the hashes of the request's own
\* text, or none after an explicit eviction.
THEOREM CachedPrefixesMatch == Spec => []CachedPrefixMatches
<1>1. IInv => CachedPrefixMatches
  BY DEF IInv
<1> QED
  BY <1>1, InductiveInvariant, PTL

\* The state of the manager keeps its types.
THEOREM TypeCorrect == Spec => []TypeOK
<1>1. IInv => TypeOK
  BY DEF IInv
<1> QED
  BY <1>1, InductiveInvariant, PTL

\* BlockHashToBlockMap and the hashes in the blocks agree, and the assertions
\* that a block to be cached has no hash yet never fail.
THEOREM CacheConsistent == Spec => [](CacheIndexExact /\ UncachedTailHasNoHash)
<1>1. IInv => CacheIndexExact /\ UncachedTailHasNoHash
  BY DEF IInv
<1> QED
  BY <1>1, InductiveInvariant, PTL

\* Two requests share a block only where their texts agree up to its end and
\* both have finished writing it.
THEOREM SharingIsSafe == Spec => []SharedOnlyAsPrefix
<1>1. IInv => SharedOnlyAsPrefix
  BY DEF IInv
<1> QED
  BY <1>1, InductiveInvariant, PTL

\* A request's block table has room for exactly the slots given to it.
THEOREM TablesFit == Spec => []TableCoversSlots
<1>1. IInv => TableCoversSlots
  BY DEF IInv
<1> QED
  BY <1>1, InductiveInvariant, PTL

LEMMA CapacityFromInvariant == IInv => CapacityCheckSuffices
<1> SUFFICES ASSUME IInv, NEW r \in Requests,
                    NEW hits \in ComputedBlocks(r, num_tokens[r]),
                    NEW new \in 1 .. num_tokens[r] - Len(hits) * BlockSize,
                    CanAllocate(r, 0, hits, new)
             PROVE  NumNewBlocks(r, 0, hits, new) <= Len(QueueAfterTouch(hits))
  BY DEF CapacityCheckSuffices
<1>1. hits \in Seq(UsableBlocks) /\ IsInjective(hits)
  BY LookupFacts
<1>2. /\ NumEvictable(hits) \in Nat /\ NumFreeBlocks \in Nat
      /\ Len(QueueAfterTouch(hits)) = NumFreeBlocks - NumEvictable(hits)
  BY <1>1, QueueAfterTouchFacts
<1> DEFINE total == TotalComputed(0, hits)
           need == SlotsNeeded(0, hits, new)
           c == Cdiv(need, BlockSize)
<1>3. total \in Nat
  <2>1. Len(hits) \in Nat /\ BlockSize \in Nat /\ MaxModelLen \in Nat
    BY <1>1, SizesAssumption
  <2> QED
    BY <2>1 DEF TotalComputed, Smaller
<1>4. new \in Nat
  <2>1. num_tokens[r] - Len(hits) * BlockSize \in Int
    BY <1>1, SizesAssumption DEF IInv, TypeOK
  <2> QED
    BY <2>1
<1>5. need \in Nat
  BY <1>3, <1>4, SizesAssumption DEF SlotsNeeded, Smaller
<1>6. c \in Nat
  BY Zenon, <1>5, CdivBounds, SizesAssumption
<1>7. NumNewBlocks(r, 0, hits, new) \in Nat
  <2>1. Len(hits) \in Nat /\ Len(req_to_blocks[r]) \in Nat
    BY <1>1 DEF IInv, TypeOK
  <2>2. NumNewBlocks(r, 0, hits, new) = Larger(c - (Len(hits) + Len(req_to_blocks[r])), 0)
    BY DEF NumNewBlocks
  <2> HIDE DEF c
  <2>3. c - (Len(hits) + Len(req_to_blocks[r])) \in Int
    BY <1>6, <2>1
  <2>4. \A x \in Int : Larger(x, 0) \in Nat
    BY DEF Larger
  <2> QED
    BY Zenon, <2>2, <2>3, <2>4
<1> QED
  BY <1>2, <1>7 DEF CanAllocate, NumBlocksToAllocate

\* allocate_slots never runs out of blocks after its capacity check passed.
THEOREM CapacityIsEnough == Spec => []CapacityCheckSuffices
BY InductiveInvariant, CapacityFromInvariant, PTL

LEMMA CommonPrefixFromInvariant == IInv => CommonPrefixIsCommon
<1> SUFFICES ASSUME IInv, NEW r \in Tables, NEW i \in 1 .. NumCommonPrefixBlocks(r),
                    NEW s \in Tables
             PROVE  i <= Len(req_to_blocks[s]) /\ req_to_blocks[s][i] = req_to_blocks[r][i]
  BY DEF CommonPrefixIsCommon
<1> DEFINE S == {k \in DOMAIN req_to_blocks[r] :
                   ref_cnt[req_to_blocks[r][k]] = Cardinality(Tables)}
           n == Len(req_to_blocks[r])
           b == req_to_blocks[r][i]
<1>1. /\ r \in Requests /\ s \in Requests
      /\ req_to_blocks[r] \in Seq(UsableBlocks) /\ req_to_blocks[s] \in Seq(UsableBlocks)
  BY DEF Tables, IInv, TypeOK
<1>2. n \in Nat /\ S \in SUBSET (1 .. n)
  BY <1>1
<1>3. i \in S
  <2>1. \A k \in 1 .. LeadingRun(S) : k \in S
    BY SMTT(40), <1>2, LeadingRunProperties
  <2> QED
    BY <2>1 DEF NumCommonPrefixBlocks
<1>4. b \in UsableBlocks /\ i \in DOMAIN req_to_blocks[r] /\ ref_cnt[b] = Cardinality(Tables)
  BY <1>1, <1>3
<1>5. Cardinality(Holders(b)) = Cardinality(Tables)
  BY <1>4 DEF IInv, RefCountExact
<1>6. Holders(b) \subseteq Tables
  BY EmptyList DEF Holders, Tables
<1>7. IsFiniteSet(Tables)
  BY RequestsAssumption, FS_Subset, Tables \subseteq Requests DEF Tables
<1>8. s \in Holders(b)
  BY <1>5, <1>6, <1>7, FS_Subset
<1>9. PICK j \in DOMAIN req_to_blocks[s] : req_to_blocks[s][j] = b
  BY <1>8 DEF Holders, Range
<1>10. CASE s = r
  BY <1>1, <1>4, <1>10
<1>11. CASE s # r
  <2>1. i = j
    BY <1>1, <1>4, <1>9, <1>11 DEF IInv, SharedOnlyAsPrefix
  <2> QED
    BY <1>1, <1>9, <2>1
<1> QED
  BY <1>10, <1>11

\* get_num_common_prefix_blocks counts only blocks that every table starts with.
THEOREM CommonPrefixIsShared == Spec => []CommonPrefixIsCommon
BY InductiveInvariant, CommonPrefixFromInvariant, PTL
===============================================================================
