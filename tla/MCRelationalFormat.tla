-------------------------- MODULE MCRelationalFormat --------------------------
(***************************************************************************)
(* RelationalFormat for TLC: every plan of up to four nodes (so a Join    *)
(* under a unary node, and a Join with a non-leaf input, both occur),     *)
(* Values with zero or one row.                                           *)
(***************************************************************************)
EXTENDS RelationalFormat

MCMaxNodes == 4
MCMaxRows == 1

=============================================================================
