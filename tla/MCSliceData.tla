---------------------------- MODULE MCSliceData -----------------------------
(***************************************************************************)
(* Instances of SliceData: small pictures cut in every way that changes    *)
(* the order of the CTUs, the substreams or the slices.                    *)
(***************************************************************************)
EXTENDS SliceData

Layout(width, height, cols, rows, bricks, wpp, rect, corners, tiles) ==
  [w |-> width, h |-> height, colWidth |-> cols, rowHeight |-> rows, brickRows |-> bricks,
   wpp |-> wpp, rect |-> rect, corners |-> corners, tiles |-> tiles]

Whole(n) == [t \in 1 .. n |-> <<>>]

\* One tile, without and with wavefronts.
OneTile == Layout(2, 2, <<>>, <<>>, Whole(1), FALSE, TRUE, <<>>, 1)
Wavefront == Layout(2, 3, <<>>, <<>>, Whole(1), TRUE, TRUE, <<>>, 1)

\* Tile columns, in one slice or each in a slice of the scan.
Columns(tiles) == Layout(2, 2, <<1>>, <<>>, Whole(2), FALSE, FALSE, <<>>, tiles)
ThreeColumns == Layout(3, 1, <<1, 1>>, <<>>, Whole(3), FALSE, FALSE, <<>>, 2)

\* The left one of two tiles is cut into bricks.
SplitTile == Layout(2, 2, <<1>>, <<>>, <<<<1>>, <<>>>>, FALSE, TRUE, <<>>, 1)

\* Four tiles: the left and the right column are slices, where the scan leaves a
\* slice and comes back to it, or the upper row and each of the lower tiles.
RectColumns == Layout(2, 3, <<1>>, <<1>>, Whole(4), FALSE, TRUE, <<<<0, 2>>, <<1, 3>>>>, 1)
RectMixed == Layout(2, 2, <<1>>, <<1>>, Whole(4), FALSE, TRUE, <<<<0, 1>>, <<2, 2>>, <<3, 3>>>>, 1)

AllLayouts ==
  {OneTile, Wavefront, Columns(1), Columns(2), ThreeColumns, SplitTile, RectColumns, RectMixed}
TileLayouts == {Columns(2)}

\* QPs at the end of the range and far from the slice's, and data with which a
\* substream has escapes.
Coded == {[skip |-> FALSE, qp |-> -12, data |-> <<<<16, 0>>, <<16, 0>>>>],
          [skip |-> FALSE, qp |-> 30, data |-> <<<<16, 257>>, <<16, 65535>>>>]}

\* Slice headers of one byte, and with two bytes that have to be escaped.
Headers == {<<4>>, <<0, 0, 1, 0, 0, 1>>}
Lengths == <<16, 16>>

\* QPs alone.
CodedQps == {[skip |-> FALSE, qp |-> qp, data |-> <<>>] : qp \in {-12, 30}}
ShortHeaders == {<<4>>}
NoData == <<>>
=============================================================================
