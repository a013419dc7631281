------------------------------ MODULE MCAtlas ------------------------------
(* Three materials for two slots.                                            *)
EXTENDS Atlas

MCMaterials == 1..3
=============================================================================
