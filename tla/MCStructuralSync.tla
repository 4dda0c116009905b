-------------------------- MODULE MCStructuralSync --------------------------
EXTENDS StructuralSync, TLC

MCMaxIds == 1 :> 3 @@ 2 :> 0
MCSettled == 1 :> 1 @@ 2 :> 0
=============================================================================
