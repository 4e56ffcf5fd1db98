------------------------------ MODULE MCRowSwap ------------------------------
(* Rows are numbers here.  A row that is neither in the RIT nor in the     *)
(* detector is told apart from the others of its kind by no part of the    *)
(* state, so that it is enough to let rand() pick one of them.             *)
EXTENDS RowSwap

LeastOf(S) == IF S = {} THEN {} ELSE {First(S)}
=============================================================================
