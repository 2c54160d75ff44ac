--------------------------- MODULE KVCacheExtension ---------------------------
(*****************************************************************************)
(* The step that allocate_slots with hits, allocate_slots without hits and   *)
(* cache_blocks have in common: one block table grows by hits and popped     *)
(* blocks, and its positions from+1 .. to are hashed.  Extension describes   *)
(* that step, and it is shown to preserve the inductive invariant of the     *)
(* KV-cache manager for every number of requests and blocks, every block     *)
(* size and every model length.                                              *)
(*****************************************************************************)
EXTENDS KVCacheClient, BlockListProofs

\* The inductive invariant: none of its parts is inductive alone.
IInv ==
    /\ TypeOK
    /\ FreeQueueExact
    /\ RefCountExact
    /\ CacheIndexExact
    /\ UncachedTailHasNoHash
    /\ CachedPrefixMatches
    /\ TableCoversSlots
    /\ SharedOnlyAsPrefix

-------------------------------------------------------------------------------
(* Arithmetic of block counts *)

\* Division by the block size, rounded down.
LEMMA DivBounds ==
    ASSUME NEW n \in Nat, NEW b \in Nat \ {0}
    PROVE  n \div b \in Nat /\ (n \div b) * b <= n /\ n < (n \div b) * b + b
OBVIOUS

\* Division by the block size, rounded up.
LEMMA CdivBounds ==
    ASSUME NEW n \in Nat, NEW b \in Nat \ {0}
    PROVE  Cdiv(n, b) \in Nat /\ n <= Cdiv(n, b) * b /\ Cdiv(n, b) * b < n + b
<1> DEFINE m == n + b - 1
<1>1. m \in Nat
  OBVIOUS
<1>2. m \div b \in Nat /\ (m \div b) * b <= m /\ m < (m \div b) * b + b
  BY <1>1, DivBounds
<1> QED
  BY <1>2 DEF Cdiv

\* Products with the block size are ordered as the factors are.
LEMMA ScaleOrder ==
    ASSUME NEW x \in Nat, NEW y \in Nat, NEW b \in Nat \ {0}, x * b < y * b + b
    PROVE  x <= y
<1>1. SUFFICES ASSUME x >= y + 1 PROVE FALSE
  OBVIOUS
<1>2. x * b >= (y + 1) * b
  BY <1>1
<1>3. (y + 1) * b = y * b + b
  OBVIOUS
<1> QED
  BY <1>2, <1>3

\* Blocks that c blocks cover are at most c.
LEMMA CoverOrder ==
    ASSUME NEW x \in Nat, NEW c \in Nat, NEW g \in Nat, NEW b \in Nat \ {0},
           x * b < g + b, g <= c * b
    PROVE  x <= c
<1>1. x * b \in Nat /\ c * b \in Nat
  OBVIOUS
<1>2. x * b < c * b + b
  BY <1>1
<1> QED
  BY <1>2, ScaleOrder

\* min and max.
LEMMA MinMax ==
    ASSUME NEW x \in Int, NEW y \in Int
    PROVE  /\ Smaller(x, y) \in {x, y} /\ Smaller(x, y) <= x /\ Smaller(x, y) <= y
           /\ Larger(x, y) \in {x, y} /\ Larger(x, y) >= x /\ Larger(x, y) >= y
BY DEF Smaller, Larger
-------------------------------------------------------------------------------
(* Extending one block table *)

\* As the index is exact, evicting blocks takes them out of it altogether.
LEMMA Evicted ==
    ASSUME TypeOK, CacheIndexExact, NEW S
    PROVE  /\ HashesWithout(S) = [b \in Blocks |-> IF b \in S THEN NoHash ELSE block_hash[b]]
           /\ MapWithout(S) = [h \in Hashes |-> cached_block_hash_to_block[h] \ S]
<1>1. \A b \in Blocks : block_hash[b] \in Hashes \/ block_hash[b] = NoHash
  BY DEF TypeOK
<1>2. \A h \in Hashes : \A b \in cached_block_hash_to_block[h] : b \in Blocks
  BY DEF TypeOK, UsableBlocks
<1>3. \A b \in Blocks : block_hash[b] = NoHash \/ Indexed(b)
  BY <1>1, Zenon DEF CacheIndexExact, Indexed
<1>4. HashesWithout(S) = [b \in Blocks |-> IF b \in S THEN NoHash ELSE block_hash[b]]
  BY <1>3 DEF HashesWithout
<1>5. \A h \in Hashes :
         cached_block_hash_to_block[h] \ {b \in S : block_hash[b] = h} =
            cached_block_hash_to_block[h] \ S
  BY <1>2 DEF CacheIndexExact
<1> QED BY <1>4, <1>5 DEF MapWithout

Extended(r, hits, popped) == req_to_blocks[r] \o (hits \o popped)

Extension(r, hits, popped, from, to) ==
    LET blocks == Extended(r, hits, popped)
    IN  /\ hits \in Seq(UsableBlocks) /\ IsInjective(hits)
        /\ popped \in Seq(UsableBlocks) /\ IsInjective(popped)
        /\ Range(popped) \subseteq Range(free_block_queue) \ Range(hits)
        /\ hits # <<>> => req_to_blocks[r] = <<>>
        /\ \A i \in DOMAIN hits : block_hash[hits[i]] = BlockHashes[r][i]
        /\ from = IF hits = <<>> THEN NumCached(r) ELSE Len(hits)
        /\ to \in Nat /\ from <= to
        /\ to <= Len(blocks) /\ to <= Len(BlockHashes[r])
        /\ req_to_blocks' = [req_to_blocks EXCEPT ![r] = blocks]
        /\ num_cached_block' \in [Requests -> Nat \cup {NotTracked}]
        /\ \A s \in Requests :
              Larger(num_cached_block'[s], 0) = IF s = r THEN to ELSE NumCached(s)
        /\ free_block_queue' \in Seq(UsableBlocks) /\ IsInjective(free_block_queue')
        /\ Range(free_block_queue') =
              Range(free_block_queue) \ (Range(hits) \cup Range(popped))
        /\ ref_cnt' = [b \in Blocks |-> IF b \in Range(hits) \cup Range(popped)
                                        THEN ref_cnt[b] + 1 ELSE ref_cnt[b]]
        /\ block_hash' =
              HashesAfterCaching(HashesWithout(Range(popped)), r, blocks, from, to)
        /\ cached_block_hash_to_block' =
              MapAfterCaching(MapWithout(Range(popped)), r, blocks, from, to)

\* The elements and the positions of an extended block table.
LEMMA ExtendedTable ==
    ASSUME IInv, NEW r \in Requests, NEW hits, NEW popped, NEW from, NEW to,
           Extension(r, hits, popped, from, to),
           NEW blocks, blocks = Extended(r, hits, popped)
    PROVE  /\ blocks \in Seq(UsableBlocks) /\ IsInjective(blocks)
           /\ Range(blocks) = Range(req_to_blocks[r]) \cup Range(hits) \cup Range(popped)
           /\ from \in Nat
           /\ \A i \in DOMAIN blocks :
                 \/ i \in DOMAIN req_to_blocks[r] /\ blocks[i] = req_to_blocks[r][i]
                    /\ (i > from => i > NumCached(r)) /\ (i <= from => i <= NumCached(r))
                 \/ i \in DOMAIN hits /\ blocks[i] = hits[i] /\ i <= from
                 \/ i > from /\ blocks[i] \in Range(popped)
<1> DEFINE old == req_to_blocks[r]
<1>1. old \in Seq(UsableBlocks) /\ IsInjective(old) /\ NumCached(r) \in Nat
      /\ NumCached(r) <= Len(old)
  BY DEF IInv, TypeOK, RefCountExact, CachedPrefixMatches, NumCached, Larger, NotTracked
<1>2. /\ hits \in Seq(UsableBlocks) /\ IsInjective(hits)
      /\ popped \in Seq(UsableBlocks) /\ IsInjective(popped)
      /\ Range(popped) \cap Range(hits) = {}
      /\ Range(popped) \subseteq Range(free_block_queue)
      /\ (hits # <<>> => old = <<>>)
      /\ from = IF hits = <<>> THEN NumCached(r) ELSE Len(hits)
  BY DEF Extension
<1>3. blocks = old \o (hits \o popped)
  BY DEF Extended
<1>4. \A b \in Range(old) : b \notin Range(popped)
  <2>1. ASSUME NEW b \in Range(old), b \in Range(popped) PROVE FALSE
    <3>1. ref_cnt[b] = 0 /\ b \in UsableBlocks
      BY <1>2, <2>1 DEF IInv, FreeQueueExact
    <3>2. r \in Holders(b)
      BY DEF Holders
    <3>3. IsFiniteSet(Holders(b))
      BY RequestsAssumption, FS_Subset DEF Holders
    <3>4. Cardinality(Holders(b)) # 0
      BY <3>2, <3>3, FS_EmptySet
    <3> QED
      BY <3>1, <3>4 DEF IInv, RefCountExact
  <2> QED
    BY <2>1
<1>5. Range(old) \cap Range(hits) = {}
  <2>1. Range(<<>>) = {}
    BY EmptyList
  <2> QED
    BY <1>2, <2>1
<1>6. /\ hits \o popped \in Seq(UsableBlocks) /\ IsInjective(hits \o popped)
      /\ Len(hits \o popped) = Len(hits) + Len(popped)
      /\ Range(hits \o popped) = Range(hits) \cup Range(popped)
  BY <1>2, JoinProperties
<1>7. /\ blocks \in Seq(UsableBlocks) /\ IsInjective(blocks)
      /\ Range(blocks) = Range(old) \cup (Range(hits) \cup Range(popped))
  <2> DEFINE tail == hits \o popped
  <2>1. tail \in Seq(UsableBlocks) /\ IsInjective(tail)
    BY <1>6
  <2>2. Range(old) \cap Range(tail) = {}
    BY <1>4, <1>5, <1>6
  <2> HIDE DEF tail
  <2>3. /\ old \o tail \in Seq(UsableBlocks) /\ IsInjective(old \o tail)
        /\ Range(old \o tail) = Range(old) \cup Range(tail)
    BY <1>1, <2>1, <2>2, JoinProperties
  <2> QED
    BY <1>3, <1>6, <2>3 DEF tail
<1>8. from \in Nat
  BY <1>1, <1>2
<1>9. ASSUME NEW i \in DOMAIN blocks
      PROVE  \/ i \in DOMAIN old /\ blocks[i] = old[i]
                /\ (i > from => i > NumCached(r)) /\ (i <= from => i <= NumCached(r))
             \/ i \in DOMAIN hits /\ blocks[i] = hits[i] /\ i <= from
             \/ i > from /\ blocks[i] \in Range(popped)
  <2>1. CASE hits = <<>>
    <3>1. blocks = old \o popped /\ from = NumCached(r)
      BY <1>2, <1>3, <2>1, EmptyList
    <3>2. CASE i <= Len(old)
      BY <1>1, <1>2, <3>1, <3>2
    <3>3. CASE i > Len(old)
      <4>4. Len(old) \in Nat /\ Len(popped) \in Nat /\ DOMAIN blocks = 1 .. Len(old) + Len(popped)
        BY <1>1, <1>2, <3>1
      <4>5. i - Len(old) \in 1 .. Len(popped)
        BY <3>3, <4>4
      <4>1. blocks[i] = popped[i - Len(old)]
        BY <1>1, <1>2, <3>1, <3>3, <4>4
      <4>2. blocks[i] \in Range(popped)
        BY <1>2, <4>1, <4>5, InRange
      <4>3. i > from
        BY <1>1, <1>2, <3>1, <3>3
      <4> QED
        BY <4>2, <4>3
    <3> QED
      BY <1>1, <1>7, <3>2, <3>3
  <2>2. CASE hits # <<>>
    <3>1. blocks = hits \o popped /\ from = Len(hits)
      BY Zenon, <1>2, <1>3, <1>6, <2>2, EmptyList
    <3>2. CASE i <= Len(hits)
      BY <1>2, <3>1, <3>2
    <3>3. CASE i > Len(hits)
      <4>1. i - Len(hits) \in 1 .. Len(popped) /\ blocks[i] = popped[i - Len(hits)]
        BY <1>2, <3>1, <3>3
      <4> QED
        BY <1>2, <3>1, <3>3, <4>1, InRange
    <3> QED
      BY <1>2, <1>7, <3>2, <3>3
  <2> QED
    BY <2>1, <2>2
<1> QED
  BY <1>7, <1>8, <1>9

\* The counts kept in the dictionaries are natural numbers.
LEMMA CountsAreNaturals ==
    ASSUME IInv, NEW s \in Requests
    PROVE  NumCached(s) \in Nat /\ NumCached(s) <= Len(req_to_blocks[s])
BY DEF IInv, TypeOK, CachedPrefixMatches, NumCached, Larger, NotTracked

\* A request has a hash for each of its first n blocks if n blocks of tokens
\* fit the model length.
LEMMA HashesReach ==
    ASSUME NEW s \in Requests, NEW n \in Nat, n * BlockSize <= MaxModelLen
    PROVE  n <= Len(BlockHashes[s])
<1>1. Len(BlockHashes[s]) \in Nat /\ BlockSize \in Nat \ {0} /\ MaxModelLen \in Nat
  BY HashChainAssumption, SizesAssumption
<1>2. MaxModelLen < Len(BlockHashes[s]) * BlockSize + BlockSize
  BY <1>1, HashChainAssumption
<1>3. n * BlockSize < Len(BlockHashes[s]) * BlockSize + BlockSize
  BY <1>1, <1>2
<1> QED
  BY <1>1, <1>3, ScaleOrder

\* Every cached position of a table has a hash.
LEMMA CachedWithinHashes ==
    ASSUME IInv, NEW s \in Requests
    PROVE  \A i \in 1 .. NumCached(s) : i \in DOMAIN BlockHashes[s]
<1>1. NumCached(s) \in Nat /\ BlockSize \in Nat /\ MaxModelLen \in Nat
  BY CountsAreNaturals, SizesAssumption
<1>2. NumCached(s) * BlockSize <= MaxModelLen
  BY <1>1 DEF IInv, TypeOK, TableCoversSlots, Smaller
<1>3. NumCached(s) <= Len(BlockHashes[s])
  BY <1>1, <1>2, HashesReach
<1> QED
  BY <1>1, <1>3, HashChainAssumption

\* Equal hashes are at equal positions.
LEMMA SameHash ==
    ASSUME NEW r \in Requests, NEW s \in Requests,
           NEW i \in DOMAIN BlockHashes[r], NEW j \in DOMAIN BlockHashes[s],
           BlockHashes[r][i] = BlockHashes[s][j]
    PROVE  i = j
BY HashChainAssumption

\* Blocks in a block table are referenced, blocks in the free queue are not.
LEMMA HeldNotFree ==
    ASSUME IInv, NEW s \in Requests, NEW b \in Range(req_to_blocks[s])
    PROVE  /\ b \in UsableBlocks /\ ref_cnt[b] \in Nat /\ ref_cnt[b] # 0
           /\ b \notin Range(free_block_queue)
<1>1. b \in UsableBlocks /\ ref_cnt[b] \in Nat
  BY InRange DEF IInv, TypeOK, UsableBlocks
<1>2. s \in Holders(b) /\ IsFiniteSet(Holders(b))
  BY RequestsAssumption, FS_Subset DEF Holders
<1>3. ref_cnt[b] # 0
  BY <1>1, <1>2, FS_EmptySet DEF IInv, RefCountExact
<1> QED
  BY <1>1, <1>3 DEF IInv, FreeQueueExact

\* The hashes after an extension: positions up to from keep theirs, the next
\* ones up to to get the request's, the rest of the table has none, and no
\* block of another request's table changes.
LEMMA ExtendedHashes ==
    ASSUME IInv, NEW r \in Requests, NEW hits, NEW popped, NEW from, NEW to,
           Extension(r, hits, popped, from, to),
           NEW blocks, blocks = Extended(r, hits, popped)
    PROVE  /\ \A i \in DOMAIN blocks :
                 /\ i <= from => /\ block_hash'[blocks[i]] = block_hash[blocks[i]]
                                 /\ block_hash'[blocks[i]] \in {BlockHashes[r][i], NoHash}
                 /\ i > from /\ i <= to => block_hash'[blocks[i]] = BlockHashes[r][i]
                 /\ i > to => block_hash'[blocks[i]] = NoHash
                 /\ i > from => /\ HashesWithout(Range(popped))[blocks[i]] = NoHash
                                /\ \A s \in Requests \ {r} : blocks[i] \notin Range(req_to_blocks[s])
           /\ \A b \in Blocks : (\A i \in from + 1 .. to : blocks[i] # b) =>
                 block_hash'[b] = HashesWithout(Range(popped))[b]
           /\ \A s \in Requests \ {r} : \A j \in DOMAIN req_to_blocks[s] :
                 block_hash'[req_to_blocks[s][j]] = block_hash[req_to_blocks[s][j]]
<1> DEFINE old == req_to_blocks[r]
           mid == HashesWithout(Range(popped))
<1>1. /\ blocks \in Seq(UsableBlocks) /\ IsInjective(blocks) /\ from \in Nat
      /\ \A i \in DOMAIN blocks :
            \/ i \in DOMAIN old /\ blocks[i] = old[i]
               /\ (i > from => i > NumCached(r)) /\ (i <= from => i <= NumCached(r))
            \/ i \in DOMAIN hits /\ blocks[i] = hits[i] /\ i <= from
            \/ i > from /\ blocks[i] \in Range(popped)
  BY ExtendedTable
<1>2. /\ Range(popped) \subseteq Range(free_block_queue)
      /\ Range(popped) \cap Range(hits) = {}
      /\ \A i \in DOMAIN hits : block_hash[hits[i]] = BlockHashes[r][i]
      /\ hits \in Seq(UsableBlocks)
      /\ to \in Nat /\ from <= to /\ to <= Len(blocks)
      /\ block_hash' = HashesAfterCaching(mid, r, blocks, from, to)
  BY DEF Extension
<1>3. \A b \in Blocks : mid[b] = IF b \in Range(popped) THEN NoHash ELSE block_hash[b]
  BY Evicted DEF IInv
<1>4. \A i \in DOMAIN blocks : i \in Nat /\ blocks[i] \in UsableBlocks /\ blocks[i] \in Blocks
  BY <1>1 DEF UsableBlocks
<1>5. \A i, j \in DOMAIN blocks : blocks[i] = blocks[j] => i = j
  BY <1>1 DEF IsInjective
<1>6. \A i \in from + 1 .. to : i \in DOMAIN blocks
  BY <1>1, <1>2
<1> HIDE DEF mid
<1>7. \A b \in Blocks : (\A i \in from + 1 .. to : blocks[i] # b) => block_hash'[b] = mid[b]
  BY <1>2 DEF HashesAfterCaching
<1>8. ASSUME NEW i \in from + 1 .. to PROVE block_hash'[blocks[i]] = BlockHashes[r][i]
  <2> DEFINE k == CHOOSE j \in from + 1 .. to : blocks[j] = blocks[i]
  <2>1. k \in from + 1 .. to /\ blocks[k] = blocks[i]
    OBVIOUS
  <2>2. k = i
    BY <1>5, <1>6, <2>1
  <2>3. block_hash'[blocks[i]] = BlockHashes[r][k]
    BY <1>2, <1>4, <1>6 DEF HashesAfterCaching
  <2> QED
    BY Zenon, <2>2, <2>3
<1>9. ASSUME NEW i \in DOMAIN blocks, i > from
      PROVE  /\ mid[blocks[i]] = NoHash
             /\ \A s \in Requests \ {r} : blocks[i] \notin Range(req_to_blocks[s])
  <2>1. CASE i \in DOMAIN old /\ blocks[i] = old[i] /\ i > NumCached(r)
    <3>1. block_hash[blocks[i]] = NoHash
      BY <2>1 DEF IInv, UncachedTailHasNoHash
    <3>2. ASSUME NEW s \in Requests \ {r}, blocks[i] \in Range(req_to_blocks[s])
          PROVE  FALSE
      <4>1. PICK j \in DOMAIN req_to_blocks[s] : req_to_blocks[s][j] = old[i]
        BY <2>1, <3>2 DEF Range
      <4>2. i <= NumCached(r)
        BY <2>1, <4>1 DEF IInv, SharedOnlyAsPrefix
      <4> QED
        BY <1>4, <2>1, <4>2, CountsAreNaturals
    <3> QED
      BY <1>3, <1>4, <3>1, <3>2
  <2>2. CASE blocks[i] \in Range(popped)
    BY <1>2, <1>3, <1>4, <2>2, HeldNotFree
  <2> QED
    BY <1>1, <1>4, <1>9, <2>1, <2>2
<1>10. ASSUME NEW i \in DOMAIN blocks, i <= from
       PROVE  /\ block_hash'[blocks[i]] = block_hash[blocks[i]]
              /\ block_hash[blocks[i]] \in {BlockHashes[r][i], NoHash}
  <2>1. \A j \in from + 1 .. to : blocks[j] # blocks[i]
    BY <1>1, <1>2, <1>4, <1>5, <1>6, <1>10
  <2>2. block_hash'[blocks[i]] = mid[blocks[i]]
    BY <1>4, <1>7, <2>1
  <2>3. CASE i \in DOMAIN old /\ blocks[i] = old[i] /\ i <= NumCached(r)
    <3>1. blocks[i] \in Range(old)
      BY <2>3 DEF Range
    <3>4. blocks[i] \notin Range(popped)
      BY SMTT(40), <1>2, <3>1, HeldNotFree
    <3>2. i \in 1 .. NumCached(r)
      <4>1. i \in Nat \ {0}
        <5>1. blocks \in Seq(UsableBlocks)
          BY <1>1
        <5> QED
          BY <5>1
      <4>2. NumCached(r) \in Nat
        BY CountsAreNaturals
      <4> QED
        BY <2>3, <4>1, <4>2
    <3>3. block_hash[blocks[i]] \in {BlockHashes[r][i], NoHash}
      BY <2>3, <3>2 DEF IInv, CachedPrefixMatches
    <3> QED
      BY <1>3, <1>4, <2>2, <3>3, <3>4
  <2>4. CASE i \in DOMAIN hits /\ blocks[i] = hits[i]
    <3>1. blocks[i] \notin Range(popped)
      BY <1>2, <2>4, InRange
    <3> QED
      BY <1>2, <1>3, <1>4, <2>2, <2>4, <3>1
  <2> QED
    BY <1>1, <1>4, <1>10, <2>3, <2>4
<1>11. ASSUME NEW i \in DOMAIN blocks, i > to
       PROVE  block_hash'[blocks[i]] = NoHash
  <2>1. \A j \in from + 1 .. to : blocks[j] # blocks[i]
    BY <1>1, <1>2, <1>4, <1>5, <1>6, <1>11
  <2>2. i > from
    BY <1>1, <1>2, <1>4, <1>11
  <2> QED
    BY <1>4, <1>7, <1>9, <2>1, <2>2
<1>12. ASSUME NEW s \in Requests \ {r}, NEW j \in DOMAIN req_to_blocks[s]
       PROVE  block_hash'[req_to_blocks[s][j]] = block_hash[req_to_blocks[s][j]]
  <2> DEFINE b == req_to_blocks[s][j]
  <2>1. b \in Range(req_to_blocks[s])
    BY DEF Range
  <2>2. b \in Blocks /\ b \notin Range(popped)
    BY <1>2, <2>1, HeldNotFree DEF UsableBlocks
  <2>3. \A i \in from + 1 .. to : blocks[i] # b
    BY <1>1, <1>6, <1>9, <2>1
  <2> QED
    BY <1>3, <1>7, <2>2, <2>3
<1>13. \A i \in DOMAIN blocks : i > from /\ i <= to => i \in from + 1 .. to
  BY <1>1, <1>2, <1>4
<1> QED
  BY <1>7, <1>8, <1>9, <1>10, <1>11, <1>12, <1>13 DEF mid

\* What two tables that share a block have in common.
LEMMA SharedBlock ==
    ASSUME SharedOnlyAsPrefix, NEW r \in Requests, NEW s \in Requests, r # s,
           NEW i \in DOMAIN req_to_blocks[r], NEW j \in DOMAIN req_to_blocks[s],
           req_to_blocks[r][i] = req_to_blocks[s][j]
    PROVE  /\ i = j /\ BlockHashes[r][i] = BlockHashes[s][i]
           /\ i <= NumCached(r) /\ i <= NumCached(s)
  BY SMTT(40) DEF SharedOnlyAsPrefix

\* An extension preserves every part of the invariant; what it does to the
\* token counts is up to the operation.
LEMMA ExtensionPreserves ==
    ASSUME IInv, NEW r \in Requests, NEW hits, NEW popped, NEW from, NEW to,
           Extension(r, hits, popped, from, to),
           num_tokens' \in [Requests -> 1 .. MaxModelLen],
           slots' \in [Requests -> 0 .. MaxModelLen],
           TableCoversSlots'
    PROVE  IInv'
<1> DEFINE blocks == Extended(r, hits, popped)
           taken == Range(hits) \cup Range(popped)
           table(s) == IF s = r THEN blocks ELSE req_to_blocks[s]
           count(s) == IF s = r THEN to ELSE NumCached(s)
<1>1. /\ blocks \in Seq(UsableBlocks) /\ IsInjective(blocks) /\ from \in Nat
      /\ Range(blocks) = Range(req_to_blocks[r]) \cup Range(hits) \cup Range(popped)
      /\ \A i \in DOMAIN blocks :
            \/ i \in DOMAIN req_to_blocks[r] /\ blocks[i] = req_to_blocks[r][i]
               /\ (i <= from => i <= NumCached(r))
            \/ i \in DOMAIN hits /\ blocks[i] = hits[i] /\ i <= from
            \/ i > from /\ blocks[i] \in Range(popped)
  BY SMTT(40), ExtendedTable
<1>2. /\ \A i \in DOMAIN blocks :
            /\ i <= from => /\ block_hash'[blocks[i]] = block_hash[blocks[i]]
                            /\ block_hash'[blocks[i]] \in {BlockHashes[r][i], NoHash}
            /\ i > from /\ i <= to => block_hash'[blocks[i]] = BlockHashes[r][i]
            /\ i > to => block_hash'[blocks[i]] = NoHash
            /\ i > from => /\ HashesWithout(Range(popped))[blocks[i]] = NoHash
                           /\ \A s \in Requests \ {r} : blocks[i] \notin Range(req_to_blocks[s])
      /\ \A b \in Blocks : (\A i \in from + 1 .. to : blocks[i] # b) =>
            block_hash'[b] = HashesWithout(Range(popped))[b]
      /\ \A s \in Requests \ {r} : \A j \in DOMAIN req_to_blocks[s] :
            block_hash'[req_to_blocks[s][j]] = block_hash[req_to_blocks[s][j]]
  BY ExtendedHashes
<1>3. /\ hits \in Seq(UsableBlocks) /\ popped \in Seq(UsableBlocks)
      /\ Range(popped) \subseteq Range(free_block_queue)
      /\ (hits # <<>> => req_to_blocks[r] = <<>>)
      /\ \A i \in DOMAIN hits : block_hash[hits[i]] = BlockHashes[r][i]
      /\ to \in Nat /\ from <= to /\ to <= Len(blocks) /\ to <= Len(BlockHashes[r])
      /\ from = IF hits = <<>> THEN NumCached(r) ELSE Len(hits)
  BY DEF Extension
<1>4. /\ req_to_blocks' = [req_to_blocks EXCEPT ![r] = blocks]
      /\ num_cached_block' \in [Requests -> Nat \cup {NotTracked}]
      /\ \A s \in Requests : Larger(num_cached_block'[s], 0) = count(s)
      /\ free_block_queue' \in Seq(UsableBlocks) /\ IsInjective(free_block_queue')
      /\ Range(free_block_queue') = Range(free_block_queue) \ taken
      /\ ref_cnt' = [b \in Blocks |-> IF b \in taken THEN ref_cnt[b] + 1 ELSE ref_cnt[b]]
      /\ block_hash' = HashesAfterCaching(HashesWithout(Range(popped)), r, blocks, from, to)
      /\ cached_block_hash_to_block' = MapAfterCaching(MapWithout(Range(popped)), r, blocks, from, to)
  BY DEF Extension
<1>5. \A s \in Requests : NumCached(s)' = count(s)
  BY <1>4 DEF NumCached
<1>6. TypeOK
  BY DEF IInv
<1>7. \A s \in Requests : req_to_blocks'[s] = table(s)
  BY SMTT(40), <1>4, <1>6 DEF TypeOK
<1>8. \A i \in from + 1 .. to : i \in DOMAIN blocks /\ blocks[i] \in UsableBlocks /\ i \in DOMAIN BlockHashes[r]
  <2>1. from \in Nat /\ to \in Nat /\ to <= Len(blocks) /\ to <= Len(BlockHashes[r])
    BY <1>1, <1>3
  <2>2. blocks \in Seq(UsableBlocks)
    BY <1>1
  <2>3. BlockHashes[r] \in Seq(Hashes)
    BY HashChainAssumption
  <2> HIDE DEF blocks
  <2> QED
    BY <2>1, <2>2, <2>3
<1>9. taken \subseteq UsableBlocks
  BY <1>3, InRange
<1> HIDE DEF blocks, taken
<1>10. TypeOK'
  <2>1. ref_cnt' \in [Blocks -> Nat]
    BY SMTT(40), <1>4, <1>6 DEF TypeOK
  <2>2. block_hash' \in [Blocks -> Hashes \cup {NoHash}]
    <3>1. HashesWithout(Range(popped)) \in [Blocks -> Hashes \cup {NoHash}]
      BY <1>6, Evicted DEF IInv, TypeOK
    <3>2. \A i \in from + 1 .. to : BlockHashes[r][i] \in Hashes
      BY SMTT(40), <1>8, HashChainAssumption
    <3> QED
      BY <1>4, <3>1, <3>2 DEF HashesAfterCaching
  <2>3. cached_block_hash_to_block' \in [Hashes -> SUBSET UsableBlocks]
    <3>1. MapWithout(Range(popped)) \in [Hashes -> SUBSET UsableBlocks]
      BY SMTT(40), <1>6, Evicted DEF IInv, TypeOK
    <3> QED
      <4>1. cached_block_hash_to_block' =
               MapAfterCaching(MapWithout(Range(popped)), r, blocks, from, to)
        BY <1>4
      <4>2. \A i \in from + 1 .. to : blocks[i] \in UsableBlocks
        BY <1>8
      <4> QED
        BY <3>1, <4>1, <4>2 DEF MapAfterCaching
  <2>4. req_to_blocks' \in [Requests -> Seq(UsableBlocks)]
    BY <1>1, <1>4, <1>6 DEF TypeOK
  <2> QED
    BY <1>4, <2>1, <2>2, <2>3, <2>4 DEF TypeOK
<1>11. FreeQueueExact'
  <2>1. ASSUME NEW b \in UsableBlocks
        PROVE  ref_cnt'[b] = 0 <=> ref_cnt[b] = 0 /\ b \notin taken
    BY <1>4, <1>6 DEF TypeOK, UsableBlocks
  <2> QED
    BY Zenon, <1>4, <2>1 DEF IInv, FreeQueueExact
<1>12. RefCountExact'
  <2>1. ASSUME NEW b \in UsableBlocks
        PROVE  ref_cnt'[b] = Cardinality(Holders(b)')
    <3>1. IsFiniteSet(Holders(b)) /\ b \in Blocks
      BY RequestsAssumption, FS_Subset DEF Holders, UsableBlocks
    <3>2. ref_cnt[b] = Cardinality(Holders(b)) /\ Cardinality(Holders(b)) \in Nat
      BY <3>1, FS_CardinalityType DEF IInv, RefCountExact
    <3>3. CASE b \in taken
      <4>1. r \notin Holders(b)
        <5>1. CASE b \in Range(hits)
          <6>1. hits # <<>> /\ Range(<<>>) = {}
            BY <5>1, EmptyList
          <6> QED
            BY <1>3, <6>1 DEF Holders
        <5>2. CASE b \in Range(popped)
          BY <1>3, <5>2, HeldNotFree DEF Holders
        <5> QED
          BY <3>3, <5>1, <5>2 DEF taken
      <4>2. Holders(b)' = Holders(b) \cup {r}
        BY <1>1, <1>7, <3>3 DEF Holders, taken
      <4>3. Cardinality(Holders(b) \cup {r}) = Cardinality(Holders(b)) + 1
        BY Zenon, <3>1, <4>1, FS_AddElement
      <4> QED
        BY <1>4, <3>1, <3>2, <3>3, <4>2, <4>3
    <3>4. CASE b \notin taken
      <4>1. Holders(b)' = Holders(b)
        BY Zenon, <1>1, <1>7, <3>4 DEF Holders, taken
      <4> QED
        BY <1>4, <3>1, <3>2, <3>4, <4>1
    <3> QED
      BY <3>3, <3>4
  <2>2. ref_cnt'[NullBlock] = 0
    <3>1. NullBlock \in Blocks /\ NullBlock \notin taken
      BY <1>9, SizesAssumption DEF UsableBlocks, NullBlock, Blocks
    <3>2. ref_cnt[NullBlock] = 0
      BY DEF IInv, RefCountExact
    <3>3. ref_cnt' = [b \in Blocks |-> IF b \in taken THEN ref_cnt[b] + 1 ELSE ref_cnt[b]]
      BY <1>4
    <3> QED
      BY <3>1, <3>2, <3>3
  <2>3. \A s \in Requests : IsInjective(req_to_blocks'[s])
    BY <1>1, <1>7 DEF IInv, RefCountExact
  <2> QED
    BY <2>1, <2>2, <2>3 DEF RefCountExact
<1>13. CacheIndexExact'
  <2>1. ASSUME NEW h \in Hashes, NEW b \in Blocks
        PROVE  b \in cached_block_hash_to_block'[h] <=> block_hash'[b] = h
    <3>1. b \in MapWithout(Range(popped))[h] <=> HashesWithout(Range(popped))[b] = h
      <4>1. b \in cached_block_hash_to_block[h] <=> block_hash[b] = h
        BY Zenon DEF IInv, CacheIndexExact
      <4>2. NoHash # h
        BY HashChainAssumption
      <4>3. MapWithout(Range(popped))[h] = cached_block_hash_to_block[h] \ Range(popped)
        BY Evicted DEF IInv
      <4>4. HashesWithout(Range(popped))[b] = IF b \in Range(popped) THEN NoHash ELSE block_hash[b]
        BY Evicted DEF IInv
      <4> QED
        BY <4>1, <4>2, <4>3, <4>4
    <3>2. b \in cached_block_hash_to_block'[h] <=>
             \/ b \in MapWithout(Range(popped))[h]
             \/ \E i \in from + 1 .. to : BlockHashes[r][i] = h /\ blocks[i] = b
      <4>1. cached_block_hash_to_block' =
               MapAfterCaching(MapWithout(Range(popped)), r, blocks, from, to)
        BY <1>4
      <4> QED
        BY <4>1 DEF MapAfterCaching
    <3>3. CASE \E i \in from + 1 .. to : blocks[i] = b
      <4>1. PICK i \in from + 1 .. to : blocks[i] = b
        BY <3>3
      <4>2. \A j \in from + 1 .. to : blocks[j] = b => j = i
        BY SMTT(40), <1>1, <1>8, <4>1 DEF IsInjective
      <4>3. i > from /\ i <= to /\ i \in DOMAIN blocks
        <5>1. from \in Nat /\ to \in Nat
          BY <1>1, <1>3
        <5>2. i \in DOMAIN blocks
          BY <1>8
        <5> QED
          BY <5>1, <5>2
      <4>4. block_hash'[b] = BlockHashes[r][i] /\ HashesWithout(Range(popped))[b] = NoHash
        BY Zenon, <1>2, <4>1, <4>3
      <4> QED
        BY Zenon, <3>1, <3>2, <4>1, <4>2, <4>4, HashChainAssumption
    <3>4. CASE \A i \in from + 1 .. to : blocks[i] # b
      <4>1. block_hash'[b] = HashesWithout(Range(popped))[b]
        BY Zenon, <1>2, <3>4
      <4> QED
        BY Zenon, <3>1, <3>2, <3>4, <4>1
    <3> QED
      BY Zenon, <3>3, <3>4
  <2> QED
    BY <2>1 DEF CacheIndexExact
<1>14. UncachedTailHasNoHash'
  <2>1. \A i \in DOMAIN blocks : i > to => block_hash'[blocks[i]] = NoHash
    BY Zenon, <1>2
  <2>2. ASSUME NEW s \in Requests \ {r}, NEW i \in DOMAIN req_to_blocks[s], i > NumCached(s)
        PROVE  block_hash'[req_to_blocks[s][i]] = NoHash
    <3>1. block_hash'[req_to_blocks[s][i]] = block_hash[req_to_blocks[s][i]]
      BY Zenon, <1>2
    <3>2. UncachedTailHasNoHash
      BY DEF IInv
    <3> QED
      BY Zenon, <2>2, <3>1, <3>2 DEF UncachedTailHasNoHash
  <2>3. ASSUME NEW s \in Requests, NEW i \in DOMAIN req_to_blocks'[s], i > NumCached(s)'
        PROVE  block_hash'[req_to_blocks'[s][i]] = NoHash
    <3>1. CASE s = r
      <4>1. req_to_blocks'[s] = blocks /\ NumCached(s)' = to
        BY <1>5, <1>7, <3>1
      <4> QED
        BY Zenon, <2>1, <2>3, <4>1
    <3>2. CASE s # r
      <4>1. req_to_blocks'[s] = req_to_blocks[s] /\ NumCached(s)' = NumCached(s)
        BY <1>5, <1>7, <3>2
      <4> QED
        BY Zenon, <2>2, <2>3, <3>2, <4>1
    <3> QED
      BY <3>1, <3>2
  <2> QED
    BY Zenon, <2>3 DEF UncachedTailHasNoHash
<1>15. CachedPrefixMatches'
  <2>1. ASSUME NEW s \in Requests
        PROVE  /\ count(s) <= Len(table(s))
               /\ \A i \in 1 .. count(s) :
                     block_hash'[table(s)[i]] \in {BlockHashes[s][i], NoHash}
    <3>1. CASE s = r
      <4>1. \A i \in 1 .. to : i \in DOMAIN blocks /\ (i <= from \/ (i > from /\ i <= to))
        <5>1. blocks \in Seq(UsableBlocks) /\ from \in Nat /\ to \in Nat /\ to <= Len(blocks)
          BY <1>1, <1>3
        <5> QED
          BY <5>1
      <4> QED
        BY <1>2, <1>3, <3>1, <4>1
    <3>2. CASE s # r
      <4>1. \A i \in 1 .. NumCached(s) : i \in DOMAIN req_to_blocks[s]
        BY <1>6, CountsAreNaturals DEF TypeOK
      <4> QED
        <5>1. NumCached(s) <= Len(req_to_blocks[s])
          BY Zenon DEF IInv, CachedPrefixMatches
        <5>2. ASSUME NEW i \in 1 .. NumCached(s)
              PROVE  block_hash'[req_to_blocks[s][i]] \in {BlockHashes[s][i], NoHash}
          <6>1. block_hash'[req_to_blocks[s][i]] = block_hash[req_to_blocks[s][i]]
            BY Zenon, <1>2, <3>2, <4>1
          <6>2. block_hash[req_to_blocks[s][i]] \in {BlockHashes[s][i], NoHash}
            BY Zenon DEF IInv, CachedPrefixMatches
          <6> QED
            BY <6>1, <6>2
        <5> QED
          BY <3>2, <5>1, <5>2
    <3> QED
      BY <3>1, <3>2
  <2>2. ASSUME NEW s \in Requests
        PROVE  /\ NumCached(s)' <= Len(req_to_blocks'[s])
               /\ \A i \in 1 .. NumCached(s)' :
                     block_hash'[req_to_blocks'[s][i]] \in {BlockHashes[s][i], NoHash}
    <3>1. req_to_blocks'[s] = table(s) /\ NumCached(s)' = count(s)
      BY <1>5, <1>7
    <3> HIDE DEF table, count
    <3> QED
      BY Zenon, <2>1, <3>1
  <2> QED
    BY Zenon, <2>2 DEF CachedPrefixMatches
<1>16. SharedOnlyAsPrefix'
  <2>1. ASSUME NEW s \in Requests \ {r}, NEW i \in DOMAIN blocks,
               NEW j \in DOMAIN req_to_blocks[s], blocks[i] = req_to_blocks[s][j]
        PROVE  /\ i = j /\ BlockHashes[r][i] = BlockHashes[s][i]
               /\ i <= to /\ i <= NumCached(s)
    <3>1. req_to_blocks[s][j] \in Range(req_to_blocks[s])
      BY DEF Range
    <3>2. i \in Nat /\ j \in Nat
      BY SMTT(40), <1>1, <1>6 DEF TypeOK
    <3>3. i <= from /\ i <= to
      <4>1. ~(i > from)
        BY ZenonT(60), <1>2, <2>1, <3>1
      <4>2. from \in Nat /\ to \in Nat /\ from <= to
        BY <1>1, <1>3
      <4> QED
        BY <3>2, <4>1, <4>2
    <3>0. s \in Requests /\ s # r
      OBVIOUS
    <3>4. CASE i \in DOMAIN req_to_blocks[r] /\ blocks[i] = req_to_blocks[r][i]
      <4>1. req_to_blocks[r][i] = req_to_blocks[s][j]
        BY <2>1, <3>4
      <4>2. SharedOnlyAsPrefix
        BY SMTT(40) DEF IInv
      <4>3. i = j /\ BlockHashes[r][i] = BlockHashes[s][i] /\ i <= NumCached(s)
        BY SMTT(40), <3>0, <3>4, <4>1, <4>2, SharedBlock
      <4> QED
        BY <3>3, <4>3
    <3>5. CASE i \in DOMAIN hits /\ blocks[i] = hits[i]
      <4>1. block_hash[req_to_blocks[s][j]] = BlockHashes[r][i]
        BY SMTT(40), <1>3, <2>1, <3>5
      <4>0. i \in 1 .. to /\ to <= Len(BlockHashes[r]) /\ BlockHashes[r] \in Seq(Hashes)
        <5>1. i \in Nat \ {0}
          <6>1. blocks \in Seq(UsableBlocks)
            BY <1>1
          <6> QED
            BY <6>1
        <5>2. to \in Nat /\ to <= Len(BlockHashes[r])
          BY <1>3
        <5>3. BlockHashes[r] \in Seq(Hashes)
          BY HashChainAssumption
        <5> QED
          BY <3>3, <5>1, <5>2, <5>3
      <4>2. i \in DOMAIN BlockHashes[r] /\ BlockHashes[r][i] \in Hashes
        <5>1. to \in Nat
          BY <1>3
        <5> QED
          BY <4>0, <5>1
      <4>3. j <= NumCached(s)
        <5>1. BlockHashes[r][i] # NoHash
          BY SMTT(40), <4>2, HashChainAssumption
        <5>2. ~(j > NumCached(s))
          BY <3>0, <4>1, <5>1 DEF IInv, UncachedTailHasNoHash
        <5> QED
          BY <3>0, <3>2, <5>2, CountsAreNaturals
      <4>4. j \in 1 .. NumCached(s)
        BY SMTT(40), <3>2, <4>3, CountsAreNaturals
      <4>5. block_hash[req_to_blocks[s][j]] = BlockHashes[s][j]
        <5>1. block_hash[req_to_blocks[s][j]] \in {BlockHashes[s][j], NoHash}
          BY Zenon, <3>0, <4>4 DEF IInv, CachedPrefixMatches
        <5>2. BlockHashes[r][i] # NoHash
          BY Zenon, <4>2, HashChainAssumption
        <5> QED
          BY Zenon, <4>1, <5>1, <5>2
      <4>6. j \in DOMAIN BlockHashes[s]
        BY <4>4, CachedWithinHashes, s \in Requests
      <4>7. i = j
        BY Zenon, <3>0, <4>1, <4>2, <4>5, <4>6, SameHash
      <4> QED
        BY Zenon, <3>3, <4>1, <4>3, <4>5, <4>7
    <3>6. \/ i \in DOMAIN req_to_blocks[r] /\ blocks[i] = req_to_blocks[r][i]
          \/ i \in DOMAIN hits /\ blocks[i] = hits[i]
          \/ i > from
      BY Zenon, <1>1
    <3>7. ~(i > from)
      <4>1. from \in Nat
        BY <1>1
      <4> QED
        BY <3>2, <3>3, <4>1
    <3> QED
      BY Zenon, <3>4, <3>5, <3>6, <3>7
  <2>2. ASSUME NEW s \in Requests, NEW t \in Requests, s # t,
               NEW i \in DOMAIN req_to_blocks'[s], NEW j \in DOMAIN req_to_blocks'[t],
               req_to_blocks'[s][i] = req_to_blocks'[t][j]
        PROVE  /\ i = j /\ BlockHashes[s][i] = BlockHashes[t][i]
               /\ i <= NumCached(s)' /\ i <= NumCached(t)'
    <3>1. CASE s = r
      <4>1. /\ req_to_blocks'[s] = blocks /\ req_to_blocks'[t] = req_to_blocks[t]
            /\ NumCached(s)' = to /\ NumCached(t)' = NumCached(t)
        BY <1>5, <1>7, <2>2, <3>1
      <4>2. /\ t \in Requests \ {r} /\ i \in DOMAIN blocks
            /\ j \in DOMAIN req_to_blocks[t] /\ blocks[i] = req_to_blocks[t][j]
        BY Zenon, <2>2, <3>1, <4>1
      <4>3. i = j /\ BlockHashes[r][i] = BlockHashes[t][i] /\ i <= to /\ i <= NumCached(t)
        BY SMTT(40), <2>1, <4>2
      <4> QED
        BY Zenon, <3>1, <4>1, <4>3
    <3>2. CASE t = r
      <4>1. /\ req_to_blocks'[t] = blocks /\ req_to_blocks'[s] = req_to_blocks[s]
            /\ NumCached(t)' = to /\ NumCached(s)' = NumCached(s)
        BY <1>5, <1>7, <2>2, <3>2
      <4>2. /\ s \in Requests \ {r} /\ j \in DOMAIN blocks
            /\ i \in DOMAIN req_to_blocks[s] /\ blocks[j] = req_to_blocks[s][i]
        BY Zenon, <2>2, <3>2, <4>1
      <4>3. j = i /\ BlockHashes[r][j] = BlockHashes[s][j] /\ j <= to /\ j <= NumCached(s)
        BY SMTT(40), <2>1, <4>2
      <4> QED
        BY Zenon, <3>2, <4>1, <4>3
    <3>3. CASE s # r /\ t # r
      <4>1. /\ req_to_blocks'[s] = req_to_blocks[s] /\ req_to_blocks'[t] = req_to_blocks[t]
            /\ NumCached(s)' = NumCached(s) /\ NumCached(t)' = NumCached(t)
        BY <1>5, <1>7, <3>3
      <4>2. SharedOnlyAsPrefix
        BY DEF IInv
      <4>3. /\ i \in DOMAIN req_to_blocks[s] /\ j \in DOMAIN req_to_blocks[t]
            /\ req_to_blocks[s][i] = req_to_blocks[t][j]
        BY Zenon, <2>2, <4>1
      <4>4. /\ i = j /\ BlockHashes[s][i] = BlockHashes[t][i]
            /\ i <= NumCached(s) /\ i <= NumCached(t)
        BY Zenon, <2>2, <4>2, <4>3, SharedBlock
      <4> QED
        BY Zenon, <4>1, <4>4
    <3> QED
      BY Zenon, <3>1, <3>2, <3>3
  <2> QED
    BY SMTT(40), <2>2 DEF SharedOnlyAsPrefix
<1> QED
  BY SMTT(40), <1>10, <1>11, <1>12, <1>13, <1>14, <1>15, <1>16 DEF IInv
===============================================================================
