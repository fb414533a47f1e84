---------------------------- MODULE MCCodingTree ----------------------------
(***************************************************************************)
(* Small pictures for CodingTree. Sizes and limits are ones the parameter  *)
(* sets can carry: pictures of a multiple of eight samples, coding tree    *)
(* units of at least 32, the largest binary and triple splits at least as  *)
(* large as the smallest quadtree block.                                   *)
(***************************************************************************)
EXTENDS CodingTree

Tree(minQt, maxBt, maxTt, maxMtt) == [minQt |-> minQt, maxBt |-> maxBt, maxTt |-> maxTt, minBt |-> 4, maxMtt |-> maxMtt]

Picture(width, height, ctu, intra, tree, qp) ==
  [w |-> width, h |-> height, ctu |-> ctu, sx |-> 1, sy |-> 1, intra |-> intra, dual |-> FALSE,
   limits |-> [L |-> tree, C |-> tree], qpSub |-> qp]

\* Separate trees for luma and chroma.
Dual(width, height, ctu, luma, chroma, qp) ==
  [Picture(width, height, ctu, TRUE, luma, qp) EXCEPT !.dual = TRUE, !.limits = [L |-> luma, C |-> chroma]]

Scaled(picture, sx, sy) == [picture EXCEPT !.sx = sx, !.sy = sy]

\* Inter slices: the mode constraint is signalled, inferred and inherited,
\* with quantisation groups of every size.
Inter ==
  {Picture(16, 16, 32, FALSE, Tree(8, 32, 32, 1), 4), Picture(16, 8, 32, FALSE, Tree(8, 32, 32, 2), 5),
   Picture(40, 8, 32, FALSE, Tree(8, 8, 8, 0), 3)}
  \cup {Picture(8, 8, 32, FALSE, Tree(8, 32, 32, 3), qp) : qp \in 0 .. 7}
  \cup {Scaled(Picture(16, 8, 32, FALSE, Tree(8, 16, 16, 2), 6), 1, 0), Scaled(Picture(8, 8, 32, FALSE, Tree(4, 8, 8, 2), 6), 0, 0)}

\* Intra slices with one tree, down to 4x4 and up to coding units of 128.
Intra ==
  {Picture(16, 16, 32, TRUE, Tree(8, 16, 16, 1), 2), Picture(16, 8, 32, TRUE, Tree(4, 8, 8, 3), 5),
   Picture(128, 128, 128, TRUE, Tree(64, 128, 64, 1), 2), Picture(72, 136, 128, TRUE, Tree(64, 128, 64, 0), 1)}

\* Separate trees, side by side in units of 128.
Separated ==
  {Dual(16, 16, 32, Tree(8, 32, 32, 1), Tree(8, 32, 32, 1), 6), Dual(40, 40, 32, Tree(16, 16, 16, 0), Tree(32, 32, 32, 0), 2),
   Dual(72, 8, 128, Tree(8, 8, 8, 0), Tree(32, 32, 32, 1), 6), Dual(136, 72, 128, Tree(32, 32, 32, 0), Tree(64, 64, 64, 0), 1),
   Scaled(Dual(16, 8, 32, Tree(8, 16, 16, 1), Tree(8, 16, 16, 2), 4), 1, 0)}

SmallPictures == UNION {Inter, Intra, Separated}
=============================================================================
