------------------------------- MODULE MCHybrid -------------------------------
(***************************************************************************)
(* Small instances of HybridEngine.  The hash of a block is the text of    *)
(* the request up to the block's end.                                      *)
(***************************************************************************)
EXTENDS HybridEngine

MCText ==
    [r1 |-> <<"a", "b", "c", "d", "j">>,
     r2 |-> <<"a", "b", "e", "f", "k">>,
     r3 |-> <<"a", "g", "h", "i", "l">>]

MCBlockHashes ==
    [r \in Requests |-> [i \in 1 .. MaxModelLen \div BlockSize |-> SubSeq(MCText[r], 1, i)]]
MCNoHash == <<>>

MCGroups == <<"mamba1", "mamba2", "full">>
MCFullGroup == "full"

MCPrompts == [r \in Requests |-> CASE r = "r1" -> 9 [] r = "r2" -> 5 [] OTHER -> 3]
MCMaxTokens == [r \in Requests |-> CASE r = "r1" -> 1 [] r = "r2" -> 2 [] OTHER -> 3]
===============================================================================
