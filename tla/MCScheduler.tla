----------------------------- MODULE MCScheduler ------------------------------
(***************************************************************************)
(* Small instances of Scheduler.  The hash of a block is the text of the   *)
(* request up to the block's end; r1 and r2 start with the same block.     *)
(***************************************************************************)
EXTENDS Scheduler

MCText ==
    [r1 |-> <<"a", "b", "c", "d", "e", "f", "g">>,
     r2 |-> <<"a", "h", "i", "j", "k", "l", "m">>,
     r3 |-> <<"n", "o", "p", "q", "r", "s", "t">>]

MCBlockHashes ==
    [r \in Requests |-> [i \in 1 .. MaxModelLen \div BlockSize |-> SubSeq(MCText[r], 1, i)]]
MCHashes == UNION {Range(MCBlockHashes[r]) : r \in Requests}
MCNoHash == <<>>

MCPrompts == [r \in Requests |-> CASE r = "r1" -> 3 [] r = "r2" -> 2 [] OTHER -> 1]
MCEvictingPrompts == [r \in Requests |-> CASE r = "r1" -> 3 [] r = "r2" -> 2 [] OTHER -> 4]
MCMaxTokens == [r \in Requests |-> 2]
MCLongOutputs == [r \in Requests |-> 3]
MCLongPrompt == [r \in Requests |-> IF r = "r1" THEN 6 ELSE 1]

\* r1 is the least urgent.
MCPriority == [r \in Requests |-> IF r = "r1" THEN 1 ELSE 0]
===============================================================================
