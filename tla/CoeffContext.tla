---------------------------- MODULE CoeffContext ----------------------------
(***************************************************************************)
(* CoeffCodingContext: the scan of a block of coefficients and the contexts*)
(* its bins are coded with.  A block is [w, h, chroma, hide, dq, ts,       *)
(* bdpcm]: its size, and sign hiding, dependent quantisation, transform    *)
(* skip and BDPCM.  Coefficients are a sequence in raster order; subblocks *)
(* and scan positions count from 0.  A context is a tuple of the name of   *)
(* its set and its indices.                                                *)
(***************************************************************************)
EXTENDS Integers, Sequences, SequencesExt, FiniteSetsExt

Abs(v) == IF v < 0 THEN -v ELSE v
Least(a, b) == IF a < b THEN a ELSE b
Most(a, b) == IF a > b THEN a ELSE b

Log2(n) == CHOOSE e \in 0 .. 6 : 2^e = n

\* The sides of a subblock (g_log2SbbSize), for sides from 2 on.
SubblockWidth(b) == IF b.w > 2 /\ b.h > 2 THEN 4 ELSE IF {b.w, b.h} \subseteq {2, 4} THEN 2 ELSE Least(b.w, 8)
SubblockHeight(b) == IF b.w > 2 /\ b.h > 2 THEN 4 ELSE IF {b.w, b.h} \subseteq {2, 4} THEN 2 ELSE Least(b.h, 8)

\* The diagonals, each from below.
DiagScan(w, h) ==
  FlattenSeq([d \in 1 .. w + h - 1 |->
    SelectSeq([i \in 1 .. w |-> <<i - 1, d - i>>], LAMBDA p : p[2] \in 0 .. h - 1)])

\* The constructor: the scan by subblocks, and the subblocks in their scan.
Context(b) ==
  LET gw == SubblockWidth(b)
      gh == SubblockHeight(b)
      groups == DiagScan(b.w \div gw, b.h \div gh)
      inner == DiagScan(gw, gh)
  IN [size |-> gw * gh, groups |-> groups,
      scan |-> FlattenSeq([g \in DOMAIN groups |->
                 [i \in DOMAIN inner |-> <<groups[g][1] * gw + inner[i][1], groups[g][2] * gh + inner[i][2]>>]])]

Pos(k, scanPos) == k.scan[scanPos + 1]
Index(b, p) == p[2] * b.w + p[1] + 1
At(b, co, p) == co[Index(b, p)]
Level(b, k, co, scanPos) == At(b, co, Pos(k, scanPos))
LastSubSet(k) == Len(k.groups) - 1

\* initSubblock: the context of the flag of a subblock, from those of the
\* subblocks at the right and below, or with transform skip left and above.
SigGroupCtx(k, sigs, id) ==
  LET g == k.groups[id + 1]
  IN <<"sigGroup", IF {<<g[1] + 1, g[2]>>, <<g[1], g[2] + 1>>} \cap sigs # {} THEN 1 ELSE 0>>

SigGroupCtxTS(k, sigs, id) ==
  LET g == k.groups[id + 1]
  IN <<"sigGroupTS", Cardinality({<<g[1] - 1, g[2]>>, <<g[1], g[2] - 1>>} \cap sigs)>>

\* The five neighbours at the right and below that are in the block.
Template(b, p) ==
  {q \in {<<p[1] + 1, p[2]>>, <<p[1] + 2, p[2]>>, <<p[1] + 1, p[2] + 1>>, <<p[1], p[2] + 1>>, <<p[1], p[2] + 2>>} :
     q[1] < b.w /\ q[2] < b.h}

\* Mutant: the whole level counts.
Counted_Whole(a) == a

\* Of a level only what the first pass codes: its parity, from 4 on.
Counted(a) == Least(4 + (a % 2), a)

\* sigCtxIdAbs: the context, and the diagonal and sum that ctxOffsetAbs uses.
SigCtx(b, k, co, scanPos, state) ==
  LET p == Pos(k, scanPos)
      diag == p[1] + p[2]
      near == Template(b, p)
      sum == MapThenSumSet(LAMBDA q : Counted(Abs(At(b, co, q))), near)
      num == Cardinality({q \in near : At(b, co, q) # 0})
  IN [ctx |-> <<"sig", Most(0, state - 1),
                Least((sum + 1) \div 2, 3) + (IF diag < 2 THEN 4 ELSE 0) + (IF ~b.chroma /\ diag < 5 THEN 4 ELSE 0)>>,
      diag |-> diag, sum1 |-> sum - num]

CtxOffsetAbs(b, diag, sum1) ==
  IF diag = -1 THEN 0
  ELSE Least(sum1, 4) + 1
         + (IF diag = 0 THEN (IF b.chroma THEN 5 ELSE 15)
            ELSE IF b.chroma THEN 0 ELSE IF diag < 3 THEN 10 ELSE IF diag < 10 THEN 5 ELSE 0)

TemplateAbsSum(b, k, co, scanPos, baseLevel) ==
  LET sum == MapThenSumSet(LAMBDA q : Abs(At(b, co, q)), Template(b, Pos(k, scanPos)))
  IN Most(Least(sum - 5 * baseLevel, 31), 0)

GoRicePar(sum) == IF sum < 7 THEN 0 ELSE IF sum < 14 THEN 1 ELSE IF sum < 28 THEN 2 ELSE 3

GoRicePosCoeff0(state, rice) == (IF state < 2 THEN 1 ELSE 2) * 2^rice

\* The state of the dependent quantiser after a level: the table 32040.
NextState(b, state, level) ==
  IF b.dq THEN (32040 \div 2^(4 * state + 2 * (Abs(level) % 2))) % 4 ELSE 0

HideSign(b, first, last) == b.hide /\ last - first >= 4
-----------------------------------------------------------------------------
(* Transform skip: the neighbours are left and above.                      *)

NeighTS(b, k, co, scanPos) ==
  LET p == Pos(k, scanPos)
  IN <<IF p[1] > 0 THEN At(b, co, <<p[1] - 1, p[2]>>) ELSE 0,
       IF p[2] > 0 THEN At(b, co, <<p[1], p[2] - 1>>) ELSE 0>>

NonZero(n) == (IF n[1] # 0 THEN 1 ELSE 0) + (IF n[2] # 0 THEN 1 ELSE 0)

SigCtxTS(n) == <<"sigTS", NonZero(n)>>

Lrg1CtxTS(b, n) == <<"lrg1TS", IF b.bdpcm THEN 3 ELSE NonZero(n)>>

SignCtxTS(b, n) ==
  <<"signTS", (IF NonZero(n) = 0 \/ (n[1] < 0 /\ n[2] > 0) \/ (n[1] > 0 /\ n[2] < 0) THEN 0
               ELSE IF n[1] >= 0 /\ n[2] >= 0 THEN 1 ELSE 2) + (IF b.bdpcm THEN 3 ELSE 0)>>

\* A level equal to the larger neighbour becomes 1, the smaller ones move up.
DeriveModCoeff(n, level, plain) ==
  LET pred == Most(Abs(n[1]), Abs(n[2]))
  IN IF level = 0 \/ plain THEN level
     ELSE IF level = pred THEN 1 ELSE IF level < pred THEN level + 1 ELSE level

\* Mutant: the level that was moved to the neighbour's place stays there.
DecDeriveModCoeff_Below(n, level) ==
  LET pred == Most(Abs(n[1]), Abs(n[2]))
  IN IF level = 0 THEN 0
     ELSE IF level = 1 /\ pred > 0 THEN pred ELSE IF level < pred THEN level - 1 ELSE level

DecDeriveModCoeff(n, level) ==
  LET pred == Most(Abs(n[1]), Abs(n[2]))
  IN IF level = 0 THEN 0
     ELSE IF level = 1 /\ pred > 0 THEN pred ELSE IF level <= pred THEN level - 1 ELSE level
=============================================================================
