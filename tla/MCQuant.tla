-------------------------------- MODULE MCQuant -------------------------------
(***************************************************************************)
(* Small instance of OnlineQuant: three MLP layers of one shape, an        *)
(* attention layer of another, and a layer that is not eligible.           *)
(***************************************************************************)
EXTENDS OnlineQuant

MCShapeOf == [up1 |-> "mlp", up2 |-> "mlp", up3 |-> "mlp", qkv |-> "attn", head |-> "other"]
===============================================================================
