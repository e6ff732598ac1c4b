--------------------------- MODULE MCArchitecture ---------------------------
(* Every rule set over three modules with at most two exceptions.           *)
EXTENDS ArchitectureScript, FiniteSetsExt

MCExceptions == UNION {kSubset(k, {e \in Nodes \X Nodes : e[1] # e[2]}) : k \in 0..2}
=============================================================================
