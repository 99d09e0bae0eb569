-------------------------- MODULE MCConversionPool --------------------------
(* ConversionPool for TLC.  No symmetry: the property is about liveness.   *)
EXTENDS ConversionPool
=============================================================================
