------------------------------ MODULE BrickMap ------------------------------
(***************************************************************************)
(* How a picture is cut into tiles, bricks and slices.  A layout is        *)
(*   w, h        the picture in CTUs                                       *)
(*   colWidth    the widths of all tile columns but the last               *)
(*   rowHeight   the heights of all tile rows but the last                 *)
(*   brickRows   for each tile, the heights of all its bricks but the last *)
(*   wpp         wavefronts (entropy_coding_sync_enabled_flag)             *)
(*   rect        rectangular slices; corners then lists, for each slice,   *)
(*               its first and last brick, and is empty for one slice      *)
(*   tiles       tiles per slice when slices follow the scan               *)
(* Addresses, bricks and slices count from 0; Rs is the raster scan of the *)
(* picture, Bs the scan brick by brick.                                    *)
(***************************************************************************)
EXTENDS Integers, Sequences, SequencesExt

Total(s) == FoldLeft(LAMBDA a, b : a + b, 0, s)

\* The sizes with the last one added, and where the i-th (from 0) starts.
Sizes(given, whole) == Append(given, whole - Total(given))
Bd(sizes, i) == Total(SubSeq(sizes, 1, i))

NumTiles(l) == (Len(l.colWidth) + 1) * (Len(l.rowHeight) + 1)

TileBricks(l, tile) ==
  LET widths == Sizes(l.colWidth, l.w)
      heights == Sizes(l.rowHeight, l.h)
      x == tile % Len(widths)
      y == tile \div Len(widths)
      rows == Sizes(l.brickRows[tile + 1], heights[y + 1])
  IN [j \in 1 .. Len(rows) |->
        [col |-> Bd(widths, x), row |-> Bd(heights, y) + Bd(rows, j - 1), w |-> widths[x + 1], h |-> rows[j]]]

Bricks(l) == FlattenSeq([t \in 1 .. NumTiles(l) |-> TileBricks(l, t - 1)])

FirstCtuRsAddr(l, b) == b.col + b.row * l.w

Reaches(b, x, y) == x < b.col + b.w /\ y < b.row + b.h

\* The first brick that reaches as far as the CTU, and the last one if none does.
BrickAt(bricks, x, y) ==
  LET found == SelectInSeq(SubSeq(bricks, 1, Len(bricks) - 1), LAMBDA b : Reaches(b, x, y))
  IN IF found = 0 THEN Len(bricks) ELSE found

CtuRsToBsAddr(l, bricks, a) ==
  LET x == a % l.w
      y == a \div l.w
      n == BrickAt(bricks, x, y)
      b == bricks[n]
  IN Total([i \in 1 .. n - 1 |-> bricks[i].w * bricks[i].h]) + (y - b.row) * b.w + x - b.col

Inside(b, x, y) == x \in b.col .. b.col + b.w - 1 /\ y \in b.row .. b.row + b.h - 1

\* The rectangular slices the decoder finds from the last brick of each: a
\* brick above and to the left that no earlier slice has belongs to it.
RectSlices(l, bricks) ==
  LET Add(acc, corner) ==
        LET last == corner[2]
            mine == {j \in (0 .. last) \ acc.taken : /\ bricks[j + 1].col <= bricks[last + 1].col
                                                    /\ bricks[j + 1].row <= bricks[last + 1].row}
            first == IF mine = {} THEN 0 ELSE CHOOSE j \in mine : \A k \in mine : j <= k
        IN [taken |-> acc.taken \cup mine, slices |-> Append(acc.slices, <<first, last>>)]
  IN FoldLeft(Add, [taken |-> {}, slices |-> <<>>], l.corners).slices

\* create: the maps of a picture.
CreateBrickMap(l) ==
  LET bricks == Bricks(l)
      ctus == 0 .. l.w * l.h - 1
      rsToBs == [a \in ctus |-> CtuRsToBsAddr(l, bricks, a)]
      idxRs == [a \in ctus |-> CHOOSE i \in 0 .. Len(bricks) - 1 : Inside(bricks[i + 1], a % l.w, a \div l.w)]
  IN [l |-> l, bricks |-> bricks, idxRs |-> idxRs, rsToBs |-> rsToBs,
      bsToRs |-> [b \in {rsToBs[a] : a \in ctus} |-> CHOOSE a \in ctus : rsToBs[a] = b],
      slices |-> IF l.corners = <<>> THEN <<<<0, Len(bricks) - 1>>>> ELSE RectSlices(l, bricks)]
=============================================================================
