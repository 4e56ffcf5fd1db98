----------------------------- MODULE MCMemCtrl -----------------------------
(***************************************************************************)
(* Instances of MemCtrl for TLC: two ranks with two burst addresses on the *)
(* first and one on the second; reads and writes of half a burst, a whole  *)
(* one, and two of them.                                                   *)
(***************************************************************************)
EXTENDS MemCtrl

Half  == {1}
Whole == {1, 2}

Piece(a, b) == [addr |-> a, bytes |-> b]

MCRankOf == [a |-> 0, b |-> 0, c |-> 1]

\* Reads r*, writes w*; rs and wt are split over both ranks.
AllPieces ==
    [ rs |-> <<Piece("a", Half), Piece("c", Whole)>>,
      ra |-> <<Piece("a", Whole)>>,
      ws |-> <<Piece("a", Whole), Piece("b", Whole)>>,
      wt |-> <<Piece("a", Half), Piece("c", Whole)>> ]

\* Writes that fill their queue beside a split read, and reads that fill theirs.
MCWorkloads == {{"rs", "ws", "wt"}, {"rs", "ra"}}

MCPieces == [r \in Requests |-> AllPieces[r]]
=============================================================================
