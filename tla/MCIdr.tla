-------------------------------- MODULE MCIdr --------------------------------
(* Two types of different width, as in the driver: the resource ids wrap       *)
(* within the bound of the counter and the fence ids do not.                   *)
EXTENDS Idr, TLC

SmallWidths == "resource" :> 4 @@ "fence" :> 8
Sym == Permutations(Holders)
=============================================================================
