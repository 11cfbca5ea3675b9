---------------------------- MODULE MCProdCons1 ----------------------------
(* Two writers and two readers of a buffer of two cells.                    *)
EXTENDS ProdCons1
=============================================================================
