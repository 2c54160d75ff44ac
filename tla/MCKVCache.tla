------------------------------ MODULE MCKVCache -------------------------------
(***************************************************************************)
(* Small instances of KVCacheClient: three requests whose blocks are       *)
(* filled from the texts below.  The hash of a block is the text up to its *)
(* end, so hashes chain by construction.                                   *)
(***************************************************************************)
EXTENDS KVCacheClient

\* Contents of the successive blocks of each request: r1 and r2 share
\* two blocks, r3 shares only the first with them.
MCText == [r1 |-> <<"a", "b", "c">>, r2 |-> <<"a", "b", "d">>, r3 |-> <<"a", "e", "f">>]

MCBlockHashes == [r \in Requests |-> [i \in 1 .. MaxModelLen \div BlockSize |-> SubSeq(MCText[r], 1, i)]]
MCHashes == UNION {Range(MCBlockHashes[r]) : r \in Requests}
MCNoHash == <<>>

MCPrompts == [r \in Requests |-> IF r = "r3" THEN MaxModelLen ELSE MaxModelLen - 1]

\* A connector may report block 1, which takes every role in turn.
MCReports == {{1}}
===============================================================================
