-------------------------- MODULE KVCacheAllocation ---------------------------
(*****************************************************************************)
(* allocate_slots and cache_blocks are extensions of a block table, so they  *)
(* preserve the inductive invariant of the KV-cache manager.                 *)
(*****************************************************************************)
EXTENDS KVCacheExtension

-------------------------------------------------------------------------------
(* The operations of the manager *)

\* What a prefix-cache lookup returns: distinct blocks with the request's
\* hashes, that do not cover its last token.
LEMMA LookupFacts ==
    ASSUME IInv, NEW r \in Requests, NEW hits \in ComputedBlocks(r, num_tokens[r])
    PROVE  /\ hits \in Seq(UsableBlocks) /\ IsInjective(hits)
           /\ Len(hits) * BlockSize < num_tokens[r]
           /\ \A i \in DOMAIN hits : block_hash[hits[i]] = BlockHashes[r][i]
<1> DEFINE n == num_tokens[r]
           m == (n - 1) \div BlockSize
<1>1. n \in 1 .. MaxModelLen /\ BlockSize \in Nat \ {0} /\ MaxModelLen \in Nat
  BY SizesAssumption DEF IInv, TypeOK
<1>2. m \in Nat /\ m * BlockSize <= n - 1
  BY <1>1, DivBounds, n - 1 \in Nat
<1>3. CASE ~EnableCaching \/ r \in SkipReading
  <2>1. hits = <<>>
    BY <1>3 DEF ComputedBlocks
  <2> QED
    BY <1>1, <2>1, EmptyList
<1>4. CASE ~(~EnableCaching \/ r \in SkipReading)
  <2> DEFINE k == NumHits(r, n - 1)
  <2>1. k \in 0 .. m
    BY <1>2, LeadingRunProperties DEF NumHits
  <2>2. /\ hits \in [1 .. k -> UsableBlocks]
        /\ \A i \in DOMAIN hits : hits[i] \in cached_block_hash_to_block[BlockHashes[r][i]]
    BY <1>4 DEF ComputedBlocks
  <2> HIDE DEF k, m
  <2>3. hits \in Seq(UsableBlocks) /\ Len(hits) = k /\ DOMAIN hits = 1 .. k
    BY <1>2, <2>1, <2>2
  <2>4. k * BlockSize <= m * BlockSize
    BY <1>1, <1>2, <2>1
  <2>5. k * BlockSize < n
    BY <1>1, <1>2, <2>1, <2>4
  <2>6. k <= Len(BlockHashes[r])
    BY <1>1, <2>1, <2>5, <1>2, HashesReach
  <2>7. \A i \in DOMAIN hits : i \in DOMAIN BlockHashes[r] /\ BlockHashes[r][i] \in Hashes
    BY <1>2, <2>1, <2>3, <2>6, HashChainAssumption
  <2>8. \A i \in DOMAIN hits : block_hash[hits[i]] = BlockHashes[r][i]
    BY <2>2, <2>7 DEF IInv, CacheIndexExact, UsableBlocks
  <2>9. ASSUME NEW i \in DOMAIN hits, NEW j \in DOMAIN hits, hits[i] = hits[j]
        PROVE  i = j
    BY <2>7, <2>8, <2>9, SameHash
  <2> QED
    BY <2>3, <2>5, <2>8, <2>9 DEF IsInjective
<1> QED
  BY <1>3, <1>4

\* Taking the hits out of the free queue leaves the blocks that the capacity
\* check of allocate_slots counted on.
LEMMA QueueAfterTouchFacts ==
    ASSUME IInv, NEW hits \in Seq(UsableBlocks), IsInjective(hits)
    PROVE  /\ QueueAfterTouch(hits) \in Seq(UsableBlocks)
           /\ IsInjective(QueueAfterTouch(hits))
           /\ Range(QueueAfterTouch(hits)) = Range(free_block_queue) \ Range(hits)
           /\ NumEvictable(hits) \in Nat /\ NumFreeBlocks \in Nat
           /\ Len(QueueAfterTouch(hits)) = NumFreeBlocks - NumEvictable(hits)
<1> DEFINE queue == free_block_queue
           rest == QueueAfterTouch(hits)
           evictable == {i \in DOMAIN hits : ref_cnt[hits[i]] = 0 /\ hits[i] # NullBlock}
           both == Range(queue) \cap Range(hits)
<1>1. queue \in Seq(UsableBlocks) /\ IsInjective(queue) /\ NumFreeBlocks \in Nat
      /\ Range(queue) = {b \in UsableBlocks : ref_cnt[b] = 0}
  BY DEF IInv, TypeOK, FreeQueueExact, NumFreeBlocks
<1>2. /\ rest \in Seq(UsableBlocks) /\ IsInjective(rest)
      /\ Range(rest) = Range(queue) \cap (UsableBlocks \ Range(hits))
  BY <1>1, KeepProperties DEF QueueAfterTouch
<1>3. Range(rest) = Range(queue) \ Range(hits)
  BY <1>1, <1>2
<1>4. /\ IsFiniteSet(Range(queue)) /\ Cardinality(Range(queue)) = NumFreeBlocks
      /\ Cardinality(Range(rest)) = Len(rest)
  <2>1. IsFiniteSet(Range(queue)) /\ Cardinality(Range(queue)) = Len(queue)
    BY Zenon, <1>1, LenIsCardinality
  <2> HIDE DEF rest
  <2>2. Cardinality(Range(rest)) = Len(rest)
    BY Zenon, <1>2, LenIsCardinality
  <2> QED
    BY <2>1, <2>2 DEF NumFreeBlocks
<1>5. Len(rest) = NumFreeBlocks - Cardinality(both)
  <2>1. Cardinality(Range(queue) \ Range(hits)) =
           Cardinality(Range(queue)) - Cardinality(Range(queue) \cap Range(hits))
    BY Zenon, <1>4, FS_Difference
  <2> QED
    BY <1>3, <1>4, <2>1
<1>6. IsFiniteSet(both) /\ Cardinality(both) \in Nat
  BY <1>4, FS_Subset, FS_CardinalityType
<1>7. Cardinality(both) = Cardinality(evictable)
  <2> DEFINE f == [i \in evictable |-> hits[i]]
  <2>1. \A i \in DOMAIN hits : hits[i] \in UsableBlocks /\ hits[i] # NullBlock /\ hits[i] \in Range(hits)
    BY InRange DEF UsableBlocks
  <2>2. \A i \in evictable : hits[i] \in both
    BY <1>1, <2>1
  <2>3. \A b \in both : \E i \in evictable : hits[i] = b
    <3>1. ASSUME NEW b \in both PROVE \E i \in evictable : hits[i] = b
      <4>1. PICK i \in 1 .. Len(hits) : hits[i] = b
        BY InRange
      <4>2. i \in evictable
        BY <1>1, <2>1, <4>1
      <4> QED
        BY <4>1, <4>2
    <3> QED
      BY <3>1
  <2>4. \A i, j \in evictable : hits[i] = hits[j] => i = j
    BY DEF IsInjective
  <2> HIDE DEF evictable, both
  <2>5. f \in Injection(evictable, both) /\ f \in Surjection(evictable, both)
    BY <2>2, <2>3, <2>4 DEF Injection, Surjection, IsInjective
  <2> QED
    BY <1>6, <2>5, FS_Injection
<1> QED
  BY <1>1, <1>2, <1>3, <1>5, <1>6, <1>7 DEF NumEvictable

\* allocate_slots extends the request's table so that it covers exactly the
\* slots asked for, and caches only tokens that have slots and are known.
LEMMA AllocateIsExtension ==
    ASSUME IInv, NEW r \in Requests, NEW hits \in Seq(UsableBlocks), IsInjective(hits),
           \A i \in DOMAIN hits : block_hash[hits[i]] = BlockHashes[r][i],
           hits # <<>> => req_to_blocks[r] = <<>>,
           Len(hits) * BlockSize <= num_tokens[r],
           NEW new \in Nat \ {0},
           slots[r] + Len(hits) * BlockSize + new <= MaxModelLen,
           AllocateSlots(r, slots[r], num_tokens[r], hits, new)
    PROVE  \E popped, from, to :
              /\ Extension(r, hits, popped, from, to)
              /\ Len(Extended(r, hits, popped)) =
                    Cdiv(slots[r] + Len(hits) * BlockSize + new, BlockSize)
              /\ to * BlockSize <= slots[r] + Len(hits) * BlockSize + new
              /\ to * BlockSize <= num_tokens[r]
<1> DEFINE old == req_to_blocks[r]
           hl == Len(hits) * BlockSize
           total == slots[r] + hl
           goal == total + new
           num == NumNewBlocks(r, slots[r], hits, new)
           rest == QueueAfterTouch(hits)
           popped == SubSeq(rest, 1, num)
           blocks == old \o (hits \o popped)
           fresh == Range(popped)
           count == IF hits = <<>> THEN num_cached_block[r] ELSE Len(hits)
           upto == Smaller(TotalComputed(slots[r], hits) + new, num_tokens[r])
           count2 == IF EnableCaching THEN CachedCountAfter(count, upto) ELSE count
           from == Larger(count, 0)
           to == Larger(count2, 0)
<1>1. /\ slots[r] \in 0 .. MaxModelLen /\ num_tokens[r] \in 1 .. MaxModelLen
      /\ BlockSize \in Nat \ {0} /\ MaxModelLen \in Nat
      /\ old \in Seq(UsableBlocks) /\ Len(old) \in Nat /\ Len(hits) \in Nat
      /\ num_cached_block[r] \in Nat \cup {-1}
      /\ free_block_queue \in Seq(UsableBlocks)
  BY SizesAssumption DEF IInv, TypeOK, NotTracked
<1>2. /\ Len(old) = Cdiv(slots[r], BlockSize)
      /\ NumCached(r) * BlockSize <= slots[r] /\ NumCached(r) * BlockSize <= num_tokens[r]
      /\ NumCached(r) \in Nat /\ NumCached(r) <= Len(old)
  <2>1. NumCached(r) \in Nat /\ NumCached(r) <= Len(old)
    BY CountsAreNaturals
  <2>2. /\ Len(old) = Cdiv(slots[r], BlockSize)
        /\ NumCached(r) * BlockSize <= Smaller(slots[r], num_tokens[r])
    BY DEF IInv, TableCoversSlots
  <2> QED
    BY SMTT(40), <1>1, <2>1, <2>2 DEF Smaller
<1>3. hl \in Nat /\ total \in Nat /\ goal \in Nat /\ goal <= MaxModelLen /\ hl <= num_tokens[r]
  BY SMTT(40), <1>1
<1>4. /\ TotalComputed(slots[r], hits) = total
      /\ SlotsNeeded(slots[r], hits, new) = goal
      /\ upto = Smaller(goal, num_tokens[r])
  BY SMTT(40), <1>1, <1>3 DEF TotalComputed, SlotsNeeded, Smaller
<1>5. /\ upto \in Nat /\ upto <= goal /\ upto <= num_tokens[r] /\ upto <= MaxModelLen
  <2>1. goal \in Int /\ num_tokens[r] \in Nat /\ num_tokens[r] <= MaxModelLen
    BY <1>1, <1>3
  <2> HIDE DEF goal, upto
  <2>2. Smaller(goal, num_tokens[r]) \in {goal, num_tokens[r]}
        /\ Smaller(goal, num_tokens[r]) <= goal
        /\ Smaller(goal, num_tokens[r]) <= num_tokens[r]
    BY <2>1, MinMax
  <2>3. goal \in Nat /\ goal <= MaxModelLen
    BY SMTT(40), <1>3 DEF goal
  <2> QED
    BY <1>1, <1>4, <2>1, <2>2, <2>3
<1>6. /\ num = Larger(Cdiv(goal, BlockSize) - (Len(hits) + Len(old)), 0)
      /\ num + NumEvictable(hits) <= NumFreeBlocks
  BY <1>4 DEF NumNewBlocks, AllocateSlots, CanAllocate, NumBlocksToAllocate
<1>7. Cdiv(goal, BlockSize) \in Nat /\ Cdiv(goal, BlockSize) >= Len(hits) + Len(old)
  <2>1. Cdiv(goal, BlockSize) \in Nat /\ goal <= Cdiv(goal, BlockSize) * BlockSize
    BY Zenon, <1>1, <1>3, CdivBounds
  <2>2. CASE hits = <<>>
    <3>1. Len(hits) = 0 /\ hl = 0
      BY <1>1, <2>2
    <3>6. slots[r] \in Nat
      BY <1>1
    <3>2. Len(old) * BlockSize < slots[r] + BlockSize
      BY Zenon, <1>1, <1>2, <3>6, CdivBounds
    <3>3. goal = slots[r] + new /\ slots[r] \in Nat
      BY <1>1, <3>1
    <3>4. Len(old) * BlockSize < goal + BlockSize
      <4> DEFINE p == Len(old) * BlockSize
      <4>1. p \in Nat /\ p < slots[r] + BlockSize
        BY <1>1, <3>2
      <4> HIDE DEF p
      <4>2. p < slots[r] + new + BlockSize
        BY <1>1, <4>1
      <4> QED
        BY <3>3, <4>2 DEF p
    <3>5. Len(old) <= Cdiv(goal, BlockSize)
      BY Zenon, <1>1, <1>3, <2>1, <3>4, CoverOrder
    <3> QED
      BY <1>1, <2>1, <3>1, <3>5
  <2>3. CASE hits # <<>>
    <3>1. Len(old) = 0
      BY <2>3
    <3>2. Len(hits) * BlockSize < goal + BlockSize
      <4> HIDE DEF hl
      <4>2. goal = slots[r] + hl + new
        OBVIOUS
      <4> HIDE DEF goal
      <4>3. slots[r] \in Nat /\ new \in Nat /\ hl \in Nat
        BY <1>1, <1>3
      <4>1. hl < goal + BlockSize
        BY SMTT(40), <1>1, <4>2, <4>3
      <4> QED
        BY <4>1 DEF hl
    <3>3. Len(hits) <= Cdiv(goal, BlockSize)
      BY Zenon, <1>1, <1>3, <2>1, <3>2, CoverOrder
    <3> QED
      BY <1>1, <2>1, <3>1, <3>3
  <2> QED
    BY <2>2, <2>3
<1>8. num = Cdiv(goal, BlockSize) - (Len(hits) + Len(old)) /\ num \in Nat
  BY <1>1, <1>6, <1>7 DEF Larger
<1>9. /\ rest \in Seq(UsableBlocks) /\ IsInjective(rest)
      /\ Range(rest) = Range(free_block_queue) \ Range(hits)
      /\ num \in 0 .. Len(rest)
  BY <1>6, <1>8, QueueAfterTouchFacts
<1> DEFINE back == SubSeq(rest, num + 1, Len(rest))
<1>10. IsSplit(UsableBlocks, rest, num, popped, back)
  <2>1. popped = SubSeq(rest, 1, num) /\ back = SubSeq(rest, num + 1, Len(rest))
    OBVIOUS
  <2> HIDE DEF rest, num, popped, back
  <2> QED
    BY Zenon, <1>9, <2>1, PopleftSplits
<1>11. /\ blocks = Extended(r, hits, popped)
       /\ free_block_queue' = back
       /\ ref_cnt' = [b \in Blocks |-> IF b \in Range(hits) \cup fresh
                                       THEN ref_cnt[b] + 1 ELSE ref_cnt[b]]
       /\ req_to_blocks' = [req_to_blocks EXCEPT ![r] = blocks]
       /\ num_cached_block' = [num_cached_block EXCEPT ![r] = count2]
       /\ block_hash' = HashesAfterCaching(HashesWithout(fresh), r, blocks, from, to)
       /\ cached_block_hash_to_block' =
             MapAfterCaching(MapWithout(fresh), r, blocks, from, to)
  BY DEF AllocateSlots, Extended
<1> HIDE DEF num, rest, popped, back, blocks, hl, upto
<1>12. /\ IsInjective(popped) /\ IsInjective(back)
       /\ Range(back) = Range(rest) \ Range(popped) /\ Range(popped) \subseteq Range(rest)
       /\ popped \in Seq(UsableBlocks) /\ Len(popped) = num
       /\ back \in Seq(UsableBlocks)
  BY ZenonT(60), <1>9, <1>10, SplitProperties DEF IsSplit
<1>13. Len(blocks) = Cdiv(goal, BlockSize)
  <2> DEFINE tail == hits \o popped
  <2>1. Len(tail) = Len(hits) + Len(popped) /\ tail \in Seq(UsableBlocks)
    <3>1. hits \in Seq(UsableBlocks) /\ popped \in Seq(UsableBlocks)
      BY <1>12, <1>1
    <3> QED
      BY ZenonT(60), <3>1, JoinProperties
  <2> HIDE DEF tail
  <2>2. Len(old \o tail) = Len(old) + Len(tail)
    BY ZenonT(60), <1>1, <2>1, JoinProperties
  <2>3. Len(blocks) = Len(old) + (Len(hits) + num)
    BY <1>12, <2>1, <2>2 DEF blocks, tail
  <2> DEFINE c == Cdiv(goal, BlockSize)
  <2>4. c \in Nat /\ num = c - (Len(hits) + Len(old)) /\ Len(hits) \in Nat /\ Len(old) \in Nat
    BY <1>1, <1>7, <1>8
  <2> HIDE DEF c
  <2>5. Len(blocks) = c
    BY <2>3, <2>4
  <2> QED
    BY <2>5 DEF c
<1>14. from = IF hits = <<>> THEN NumCached(r) ELSE Len(hits)
  BY <1>1 DEF NumCached, Larger
<1>15. upto \div BlockSize \in Nat /\ (upto \div BlockSize) * BlockSize <= upto
  BY Zenon, <1>1, <1>5, DivBounds
<1>16. /\ count \in Nat \cup {-1} /\ count2 \in Nat \cup {-1}
       /\ from \in Nat /\ to \in Nat
       /\ to = from \/ (to = upto \div BlockSize /\ from < to)
  <2>1. count \in Nat \cup {-1}
    BY <1>1
  <2> HIDE DEF count
  <2>2. from \in Nat /\ (count2 = count \/ (count2 = upto \div BlockSize /\ from < count2))
    BY <1>15, <2>1 DEF CachedCountAfter, Larger
  <2> QED
    BY <1>15, <2>1, <2>2 DEF Larger
<1> HIDE DEF from, to, count, count2, goal
<1>17. from * BlockSize <= num_tokens[r] /\ from * BlockSize <= goal
  <2>1. CASE hits = <<>>
    <3>1. from = NumCached(r) /\ slots[r] <= goal
      BY SMTT(40), <1>1, <1>3, <1>14, <2>1 DEF goal
    <3> QED
      BY SMTT(40), <1>1, <1>2, <1>3, <3>1
  <2>2. CASE hits # <<>>
    <3>1. from = Len(hits)
      BY <1>14, <2>2
    <3>2. from * BlockSize = hl
      BY <3>1 DEF hl
    <3>3. hl <= goal
      BY SMTT(40), <1>1, <1>3 DEF goal
    <3> QED
      BY <1>3, <3>2, <3>3
  <2> QED
    BY <2>1, <2>2
<1>18. to * BlockSize <= num_tokens[r] /\ to * BlockSize <= goal /\ from <= to
  <2>1. CASE to = from
    BY <1>16, <1>17, <2>1
  <2>2. CASE to = upto \div BlockSize /\ from < to
    <3>1. to * BlockSize <= upto /\ to * BlockSize \in Nat
      BY SMTT(40), <1>1, <1>15, <1>16, <2>2
    <3> DEFINE p == to * BlockSize
    <3>2. /\ p \in Nat /\ p <= upto /\ upto \in Nat /\ upto <= goal
          /\ upto <= num_tokens[r] /\ goal \in Nat /\ num_tokens[r] \in Nat
      BY <1>1, <1>3, <1>5, <3>1
    <3> HIDE DEF p, goal
    <3>3. p <= num_tokens[r] /\ p <= goal
      BY <3>2
    <3>4. from <= to
      BY <1>16, <2>2
    <3> QED
      BY <3>3, <3>4 DEF p
  <2> QED
    BY <1>16, <2>1, <2>2
<1>19. to <= Len(blocks)
  <2>1. Cdiv(goal, BlockSize) \in Nat /\ goal <= Cdiv(goal, BlockSize) * BlockSize
    BY Zenon, <1>1, <1>3, CdivBounds
  <2>2. to * BlockSize < goal + BlockSize
    BY <1>1, <1>3, <1>16, <1>18
  <2> QED
    BY Zenon, <1>1, <1>3, <1>13, <1>16, <2>1, <2>2, CoverOrder
<1>20. to <= Len(BlockHashes[r])
  <2>1. to * BlockSize <= MaxModelLen
    BY <1>1, <1>3, <1>16, <1>18
  <2> QED
    BY <1>16, <2>1, HashesReach
<1>21. num_cached_block' \in [Requests -> Nat \cup {NotTracked}]
  BY <1>11, <1>16 DEF IInv, TypeOK, NotTracked
<1>22. \A s \in Requests :
          Larger(num_cached_block'[s], 0) = IF s = r THEN to ELSE NumCached(s)
  BY <1>11 DEF IInv, TypeOK, NumCached, to
<1>23. Range(back) = Range(free_block_queue) \ (Range(hits) \cup Range(popped))
  BY <1>9, <1>12
<1>24. Range(popped) \subseteq Range(free_block_queue) \ Range(hits)
  BY SMTT(40), <1>9, <1>12
<1>25. Extension(r, hits, popped, from, to)
  <2>1. /\ popped \in Seq(UsableBlocks) /\ IsInjective(popped)
        /\ back \in Seq(UsableBlocks) /\ IsInjective(back)
    BY Zenon, <1>12
  <2>2. /\ from = IF hits = <<>> THEN NumCached(r) ELSE Len(hits)
        /\ to \in Nat /\ from <= to
    BY <1>14, <1>16, <1>18
  <2> HIDE DEF from, to, fresh
  <2>3. fresh = Range(popped)
    BY DEF fresh
  <2> QED
    BY ZenonT(60), <1>11, <1>19, <1>20, <1>21, <1>22, <1>23, <1>24, <2>1, <2>2, <2>3
       DEF Extension
<1> QED
  BY <1>11, <1>13, <1>25, <1>18 DEF hl, goal
-------------------------------------------------------------------------------
(* Every step preserves the invariant *)

\* Token counts after an extension of one request's table.
LEMMA ExtensionCounts ==
    ASSUME IInv, NEW r \in Requests, NEW hits, NEW popped, NEW from, NEW to, NEW goal \in Nat,
           Extension(r, hits, popped, from, to),
           Len(Extended(r, hits, popped)) = Cdiv(goal, BlockSize),
           to * BlockSize <= goal, to * BlockSize <= num_tokens[r], goal <= MaxModelLen,
           num_tokens' = num_tokens, slots' = [slots EXCEPT ![r] = goal]
    PROVE  IInv'
<1>1. TypeOK /\ TableCoversSlots
  BY DEF IInv
<1>2. num_tokens' \in [Requests -> 1 .. MaxModelLen] /\ slots' \in [Requests -> 0 .. MaxModelLen]
  BY <1>1, SizesAssumption DEF TypeOK
<1>3. /\ req_to_blocks' = [req_to_blocks EXCEPT ![r] = Extended(r, hits, popped)]
      /\ \A s \in Requests :
            Larger(num_cached_block'[s], 0) = IF s = r THEN to ELSE NumCached(s)
  BY DEF Extension
<1>4. ASSUME NEW s \in Requests
      PROVE  /\ Len(req_to_blocks'[s]) = Cdiv(slots'[s], BlockSize)
             /\ NumCached(s)' * BlockSize <= Smaller(slots'[s], num_tokens'[s])
  <2>1. NumCached(s)' = IF s = r THEN to ELSE NumCached(s)
    BY <1>3 DEF NumCached
  <2>2. CASE s = r
    BY <1>1, <1>3, <2>1, <2>2 DEF TypeOK, Smaller
  <2>3. CASE s # r
    BY <1>1, <1>3, <2>1, <2>3 DEF TypeOK, TableCoversSlots
  <2> QED
    BY <2>2, <2>3
<1>5. TableCoversSlots'
  BY <1>4 DEF TableCoversSlots
<1> QED
  BY <1>2, <1>5, ExtensionPreserves

\* Blocks of a first allocation, prefix-cache hits included.
LEMMA AllocateWaitingPreserves ==
    ASSUME IInv, NEW r \in Requests, AllocateWaiting(r)
    PROVE  IInv'
<1>1. PICK hits \in ComputedBlocks(r, num_tokens[r]) :
         \E new \in 1 .. num_tokens[r] - Len(hits) * BlockSize :
            /\ AllocateSlots(r, 0, num_tokens[r], hits, new)
            /\ slots' = [slots EXCEPT ![r] = Len(hits) * BlockSize + new]
  BY Zenon DEF AllocateWaiting
<1>2. PICK new \in 1 .. num_tokens[r] - Len(hits) * BlockSize :
         /\ AllocateSlots(r, 0, num_tokens[r], hits, new)
         /\ slots' = [slots EXCEPT ![r] = Len(hits) * BlockSize + new]
  BY Zenon, <1>1
<1>3. /\ hits \in Seq(UsableBlocks) /\ IsInjective(hits)
      /\ Len(hits) * BlockSize < num_tokens[r]
      /\ \A i \in DOMAIN hits : block_hash[hits[i]] = BlockHashes[r][i]
  BY LookupFacts
<1>4. /\ num_tokens[r] \in 1 .. MaxModelLen /\ slots[r] \in 0 .. MaxModelLen
      /\ BlockSize \in Nat \ {0} /\ MaxModelLen \in Nat
      /\ num_tokens' = num_tokens /\ req_to_blocks[r] = <<>>
  BY SizesAssumption DEF IInv, TypeOK, AllocateWaiting
<1>5. slots[r] = 0
  <2>1. Len(req_to_blocks[r]) = Cdiv(slots[r], BlockSize)
    BY DEF IInv, TableCoversSlots
  <2>2. Cdiv(slots[r], BlockSize) = 0
    BY <1>4, <2>1
  <2>5. slots[r] \in Nat
    BY <1>4
  <2>3. slots[r] <= Cdiv(slots[r], BlockSize) * BlockSize
    BY Zenon, <1>4, <2>5, CdivBounds
  <2> QED
    BY <1>4, <2>2, <2>3
<1> DEFINE hl == Len(hits) * BlockSize
           goal == slots[r] + Len(hits) * BlockSize + new
<1>6. hl \in Nat /\ hl <= num_tokens[r]
  BY <1>3, <1>4
<1>7. goal = hl + new /\ goal <= num_tokens[r] /\ goal \in Nat /\ new \in Nat \ {0}
      /\ goal <= MaxModelLen
  <2> HIDE DEF hl
  <2>1. new \in 1 .. num_tokens[r] - hl /\ goal = slots[r] + hl + new
    BY <1>2 DEF hl
  <2> QED
    BY <1>4, <1>5, <1>6, <2>1
<1>8. AllocateSlots(r, slots[r], num_tokens[r], hits, new)
  BY <1>2, <1>5
<1>9. PICK popped, from, to :
         /\ Extension(r, hits, popped, from, to)
         /\ Len(Extended(r, hits, popped)) = Cdiv(goal, BlockSize)
         /\ to * BlockSize <= goal
         /\ to * BlockSize <= num_tokens[r]
  BY Zenon, <1>3, <1>4, <1>6, <1>7, <1>8, AllocateIsExtension
<1>10. slots' = [slots EXCEPT ![r] = goal]
  BY Zenon, <1>2, <1>7
<1> HIDE DEF goal, hl
<1> QED
  BY Zenon, <1>4, <1>7, <1>9, <1>10, ExtensionCounts

\* More blocks for a request that has some.
LEMMA AllocateRunningPreserves ==
    ASSUME IInv, NEW r \in Requests, AllocateRunning(r)
    PROVE  IInv'
<1>1. PICK new \in 1 .. Smaller(num_tokens[r] + MaxPlaceholders, MaxModelLen) - slots[r] :
         /\ AllocateSlots(r, slots[r], num_tokens[r], <<>>, new)
         /\ slots' = [slots EXCEPT ![r] = slots[r] + new]
  BY Zenon DEF AllocateRunning
<1>2. /\ num_tokens[r] \in 1 .. MaxModelLen /\ slots[r] \in 0 .. MaxModelLen
      /\ BlockSize \in Nat \ {0} /\ MaxModelLen \in Nat /\ MaxPlaceholders \in Nat
      /\ num_tokens' = num_tokens
  BY SizesAssumption, ClientAssumption DEF IInv, TypeOK, AllocateRunning
<1> DEFINE hits == <<>>
           goal == slots[r] + Len(hits) * BlockSize + new
<1>3. hits \in Seq(UsableBlocks) /\ IsInjective(hits) /\ Len(hits) = 0 /\ DOMAIN hits = {}
  BY EmptyList
<1>4. new \in Nat \ {0} /\ slots[r] + new <= MaxModelLen
  BY <1>1, <1>2 DEF Smaller
<1>5. /\ Len(hits) * BlockSize = 0 /\ goal = slots[r] + new
      /\ goal \in Nat /\ goal <= MaxModelLen
  BY <1>2, <1>3, <1>4
<1>6. AllocateSlots(r, slots[r], num_tokens[r], hits, new)
  BY <1>1
<1>7. hits # <<>> => req_to_blocks[r] = <<>>
  OBVIOUS
<1>10. /\ \A i \in DOMAIN hits : block_hash[hits[i]] = BlockHashes[r][i]
       /\ Len(hits) * BlockSize <= num_tokens[r]
       /\ slots[r] + Len(hits) * BlockSize + new <= MaxModelLen
  BY SMTT(40), <1>2, <1>3, <1>5
<1> HIDE DEF hits
<1>8. PICK popped, from, to :
         /\ Extension(r, hits, popped, from, to)
         /\ Len(Extended(r, hits, popped)) = Cdiv(goal, BlockSize)
         /\ to * BlockSize <= goal
         /\ to * BlockSize <= num_tokens[r]
  BY Zenon, <1>3, <1>4, <1>6, <1>7, <1>10, AllocateIsExtension
<1>9. slots' = [slots EXCEPT ![r] = goal]
  BY Zenon, <1>1, <1>5
<1> HIDE DEF goal
<1> QED
  BY Zenon, <1>2, <1>5, <1>8, <1>9, ExtensionCounts

\* Caching the blocks of tokens that have become known.
LEMMA CacheKnownTokensPreserves ==
    ASSUME IInv, NEW r \in Requests, CacheKnownTokens(r)
    PROVE  IInv'
<1>1. PICK n \in 0 .. Smaller(slots[r], num_tokens[r]) : CacheBlocks(r, n)
  BY DEF CacheKnownTokens
<1>2. /\ num_tokens[r] \in 1 .. MaxModelLen /\ slots[r] \in 0 .. MaxModelLen
      /\ BlockSize \in Nat \ {0} /\ MaxModelLen \in Nat
      /\ num_tokens' = num_tokens /\ slots' = slots
      /\ num_cached_block[r] \in Nat \cup {-1}
      /\ req_to_blocks[r] \in Seq(UsableBlocks)
      /\ free_block_queue \in Seq(UsableBlocks) /\ IsInjective(free_block_queue)
      /\ block_hash \in [Blocks -> Hashes \cup {NoHash}]
      /\ cached_block_hash_to_block \in [Hashes -> SUBSET UsableBlocks]
      /\ ref_cnt \in [Blocks -> Nat] /\ req_to_blocks \in [Requests -> Seq(UsableBlocks)]
      /\ num_cached_block \in [Requests -> Nat \cup {NotTracked}]
  BY SizesAssumption
     DEF IInv, TypeOK, FreeQueueExact, CacheKnownTokens, clientVars, NotTracked
<1>3. /\ Len(req_to_blocks[r]) = Cdiv(slots[r], BlockSize)
      /\ NumCached(r) * BlockSize <= Smaller(slots[r], num_tokens[r])
      /\ NumCached(r) \in Nat
  BY CountsAreNaturals DEF IInv, TableCoversSlots
<1> DEFINE hits == <<>>
           goal == slots[r]
           count == num_cached_block[r]
           count2 == IF EnableCaching THEN CachedCountAfter(count, n) ELSE count
           from == Larger(count, 0)
           to == Larger(count2, 0)
<1>4. n \in Nat /\ n <= slots[r] /\ n <= num_tokens[r] /\ n <= MaxModelLen
  <2>1. n \in 0 .. Smaller(slots[r], num_tokens[r])
    BY <1>1
  <2>2. num_tokens[r] \in 1 .. MaxModelLen /\ slots[r] \in 0 .. MaxModelLen /\ MaxModelLen \in Nat
    BY <1>2
  <2> QED
    BY <2>1, <2>2 DEF Smaller
<1>5. n \div BlockSize \in Nat /\ (n \div BlockSize) * BlockSize <= n
  BY <1>2, <1>4, DivBounds
<1>6. /\ count2 \in Nat \cup {-1} /\ from = NumCached(r) /\ to \in Nat
      /\ to = from \/ (to = n \div BlockSize /\ from < to)
  <2>1. from = NumCached(r)
    BY DEF NumCached
  <2>2. count2 = count \/ (count2 = n \div BlockSize /\ from < count2)
    BY SMTT(40), <1>2, <1>5 DEF CachedCountAfter, Larger
  <2> QED
    <3>1. count \in Nat \cup {-1} /\ n \div BlockSize \in Nat /\ NumCached(r) \in Nat
      BY <1>2, <1>3, <1>5
    <3> HIDE DEF count2, count
    <3> QED
      BY <2>1, <2>2, <3>1 DEF Larger
<1>7. /\ num_cached_block' = [num_cached_block EXCEPT ![r] = count2]
      /\ block_hash' = HashesAfterCaching(block_hash, r, req_to_blocks[r], from, to)
      /\ cached_block_hash_to_block' =
            MapAfterCaching(cached_block_hash_to_block, r, req_to_blocks[r], from, to)
      /\ ref_cnt' = ref_cnt /\ free_block_queue' = free_block_queue
      /\ req_to_blocks' = req_to_blocks
  BY <1>1 DEF CacheBlocks
<1> HIDE DEF from, to, count, count2
<1>8. from <= to /\ to * BlockSize <= slots[r] /\ to * BlockSize <= num_tokens[r]
  <2>1. CASE to = from
    BY <1>2, <1>3, <1>6, <2>1 DEF Smaller
  <2>2. CASE to = n \div BlockSize /\ from < to
    <3>1. to * BlockSize <= n /\ to * BlockSize \in Nat
      BY <1>2, <1>5, <1>6, <2>2
    <3> QED
      <4> DEFINE prod == to * BlockSize
      <4>1. prod \in Nat /\ prod <= n
        BY <3>1
      <4>2. from \in Nat /\ to \in Nat
        BY <1>3, <1>6
      <4>3. slots[r] \in Nat /\ num_tokens[r] \in Nat
        BY <1>2
      <4> HIDE DEF prod
      <4>4. prod <= slots[r] /\ prod <= num_tokens[r]
        BY <1>4, <4>1, <4>3
      <4> QED
        BY <2>2, <4>2, <4>4 DEF prod
  <2> QED
    BY <1>6, <2>1, <2>2
<1>9. /\ hits \in Seq(UsableBlocks) /\ IsInjective(hits) /\ Len(hits) = 0
      /\ DOMAIN hits = {} /\ Range(hits) = {}
      /\ Extended(r, hits, hits) = req_to_blocks[r]
  <2>1. req_to_blocks[r] \in Seq(UsableBlocks)
    BY <1>2
  <2> QED
    BY <2>1, EmptyList DEF Extended
<1>10. to <= Len(req_to_blocks[r])
  <2>3. slots[r] \in Nat
    BY <1>2
  <2>1. /\ Cdiv(slots[r], BlockSize) \in Nat
        /\ slots[r] <= Cdiv(slots[r], BlockSize) * BlockSize
    BY Zenon, <1>2, <2>3, CdivBounds
  <2>2. to * BlockSize < slots[r] + BlockSize
    BY <1>2, <1>6, <1>8
  <2> QED
    BY Zenon, <1>2, <1>3, <1>6, <2>1, <2>2, <2>3, CoverOrder
<1>11. to <= Len(BlockHashes[r])
  <2>1. to * BlockSize <= MaxModelLen
    BY SMTT(40), <1>2, <1>6, <1>8
  <2> QED
    BY <1>6, <2>1, HashesReach
<1>12. num_cached_block' \in [Requests -> Nat \cup {NotTracked}]
  <2>1. num_cached_block \in [Requests -> Nat \cup {NotTracked}]
    BY <1>2
  <2>2. count2 \in Nat \cup {NotTracked}
    BY <1>6 DEF NotTracked
  <2>3. num_cached_block' = [num_cached_block EXCEPT ![r] = count2]
    BY <1>7
  <2> QED
    BY <2>1, <2>2, <2>3
<1>13. \A s \in Requests :
          Larger(num_cached_block'[s], 0) = IF s = r THEN to ELSE NumCached(s)
  BY <1>2, <1>7 DEF NumCached, to
<1>14. HashesWithout({}) = block_hash /\ MapWithout({}) = cached_block_hash_to_block
  <2>1. /\ HashesWithout({}) = [b \in Blocks |-> IF b \in {} THEN NoHash ELSE block_hash[b]]
        /\ MapWithout({}) = [h \in Hashes |-> cached_block_hash_to_block[h] \ {}]
    BY Evicted DEF IInv
  <2>2. /\ block_hash \in [Blocks -> Hashes \cup {NoHash}]
        /\ cached_block_hash_to_block \in [Hashes -> SUBSET UsableBlocks]
    BY DEF IInv, TypeOK
  <2> QED BY <2>1, <2>2
<1>15. ref_cnt' = [b \in Blocks |-> IF b \in {} THEN ref_cnt[b] + 1 ELSE ref_cnt[b]]
       /\ req_to_blocks' = [req_to_blocks EXCEPT ![r] = req_to_blocks[r]]
  BY <1>2, <1>7
<1>16. hits = <<>>
  BY SMTT(40)
<1> HIDE DEF hits
<1>17. Extension(r, hits, hits, from, to)
  BY Zenon, <1>2, <1>6, <1>7, <1>8, <1>9, <1>10, <1>11, <1>12, <1>13, <1>14, <1>15, <1>16
     DEF Extension
<1>18. slots' = [slots EXCEPT ![r] = goal] /\ goal \in Nat /\ goal <= MaxModelLen
  BY <1>2 DEF IInv, TypeOK
<1> QED
  BY Zenon, <1>2, <1>3, <1>8, <1>9, <1>17, <1>18, ExtensionCounts
===============================================================================
