---------------------------- MODULE MCProdCons2 ----------------------------
(* Two writers and two readers of a buffer of one cell.                     *)
EXTENDS ProdCons2
=============================================================================
