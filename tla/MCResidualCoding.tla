-------------------------- MODULE MCResidualCoding --------------------------
(***************************************************************************)
(* Blocks for ResidualCoding: every block of two small subblocks, and      *)
(* larger ones with a few levels.                                          *)
(***************************************************************************)
EXTENDS ResidualCoding

Block(width, height, chroma, hide, dq, ts, bdpcm) ==
  [w |-> width, h |-> height, chroma |-> chroma, hide |-> hide, dq |-> dq, ts |-> ts, bdpcm |-> bdpcm]

Blank(b) == [i \in 1 .. b.w * b.h |-> 0]

\* All blocks of levels, and those with levels at the places of at only.
Every(b, levels) == [b |-> b, blocks |-> [1 .. b.w * b.h -> levels] \ {Blank(b)}]
Sparse(b, at, levels) ==
  [b |-> b, blocks |-> {[i \in 1 .. b.w * b.h |-> IF i \in at THEN f[i] ELSE 0] : f \in [at -> levels]} \ {Blank(b)}]

\* What the quantiser leaves when signs are hidden: in a subblock that hides
\* one, the sum of the levels is odd exactly if the last sign is negative.
Fitting(in) ==
  LET k == Context(in.b)
      Nz(co, id) == {pos \in SubPositions(k, id) : Level(in.b, k, co, pos) # 0}
      Sum(co, id) == MapThenSumSet(LAMBDA pos : Abs(Level(in.b, k, co, pos)), Nz(co, id))
      Hides(co, id) == Nz(co, id) # {} /\ HideSign(in.b, Min(Nz(co, id)), Max(Nz(co, id)))
  IN [in EXCEPT !.blocks = {co \in @ : \A id \in 0 .. LastSubSet(k) :
        Hides(co, id) => (Level(in.b, k, co, Min(Nz(co, id))) < 0 <=> Sum(co, id) % 2 = 1)}]

Chroma(dq) == Block(2, 4, TRUE, FALSE, dq, FALSE, FALSE)
Luma(width, height) == Block(width, height, FALSE, FALSE, TRUE, FALSE, FALSE)
Hidden(width, height) == Block(width, height, FALSE, TRUE, FALSE, FALSE, FALSE)
Skip(width, height, bdpcm) == Block(width, height, FALSE, FALSE, FALSE, TRUE, bdpcm)

\* The bins run out in the second subblock, or before it.
TwoSubblocks == {Every(Chroma(TRUE), {0, -1, 6}), Every(Chroma(FALSE), {0, 1, -3})}

\* Escapes with every length of prefix, to the ends of the range.
Escapes == {Sparse(Chroma(TRUE), {1, 2, 4}, {0, 13, -70, 1000, -32768, 32767})}

\* Last positions with suffixes, subblocks without levels, and hidden signs.
Large == {Sparse(Luma(8, 8), {1, 29, 33, 34, 64}, {0, 1, -6}), Sparse(Luma(2, 8), {1, 4, 12}, {0, 2, -5}),
          Sparse(Luma(16, 4), {1, 10, 15, 48}, {0, -2}), Sparse(Luma(32, 4), {1, 20, 30, 100}, {0, 3})}
Signs == {Fitting(Sparse(Hidden(4, 4), {1, 3, 6, 9, 11}, {0, 1, -1, 4})),
          Fitting(Sparse(Hidden(8, 4), {1, 3, 6, 18, 24}, {0, 1, -2}))}

\* Transform skip, with and without levels relative to their neighbours.
Skipped == {Every(Skip(4, 2, FALSE), {0, -2, 3}), Sparse(Skip(4, 4, FALSE), {1, 2, 3, 5, 6}, {0, 1, -2, 11}),
            Sparse(Skip(4, 4, TRUE), {1, 2, 3, 5, 6}, {0, 1, -2, 11}),
            Sparse(Skip(8, 4, FALSE), {1, 2, 5, 21, 32}, {0, 1, -12, 32767})}

AllBlocks == UNION {TwoSubblocks, Escapes, Large, Signs, Skipped}
=============================================================================
