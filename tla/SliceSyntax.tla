---------------------------- MODULE SliceSyntax -----------------------------
(***************************************************************************)
(* What coding_tree_unit writes and reads for a CTU that is one coding     *)
(* unit [skip, qp, data]: its skip flag and, unless it is skipped, its QP  *)
(* as a difference and its data, which are bypass bins (a sequence of      *)
(* pairs: how many, their value).  The writer is [e, ctx], the coder and   *)
(* the contexts; the reader [d, ctx, val].  Contexts 1 .. 3 are SkipFlag,  *)
(* 4 and 5 DeltaQP.                                                        *)
(***************************************************************************)
EXTENDS BinCoder, SequencesExt

CONSTANTS QpBdOffset, SliceQp

ASSUME SliceSyntaxAssumption == QpBdOffset \in Nat /\ SliceQp \in -QpBdOffset .. 63

NumQps == 64 + QpBdOffset
CuDqpTuCmax == 5
-----------------------------------------------------------------------------
(* initCtxModels: the tables of a P slice.                                 *)

InitIds == <<57, 59, 45, 35, 35>>
WindowSizes == <<5, 4, 8, 8, 8>>

InitCtxModels == [c \in 1 .. 5 |-> InitModel(SliceQp, InitIds[c], WindowSizes[c])]
-----------------------------------------------------------------------------
(* Writing: the calls of the bin encoder, and their effect.                *)

Call(op, c, n, bins) == [op |-> op, c |-> c, n |-> n, bins |-> bins]

Put(s, call) ==
  CASE call.op = "bin" -> [e |-> EncodeBin(s.e, s.ctx[call.c], call.bins),
                           ctx |-> [s.ctx EXCEPT ![call.c] = UpdateModel(@, call.bins)]]
    [] call.op = "ep" -> [s EXCEPT !.e = EncodeBinEP(@, call.bins)]
    [] call.op = "eps" -> [s EXCEPT !.e = EncodeBinsEP(@, call.bins, call.n)]
    [] call.op = "trm" -> [s EXCEPT !.e = EncodeBinTrm(@, call.bins)]

unary_max_symbol(symbol, c0, cN, max) ==
  [i \in 1 .. (IF symbol < max THEN symbol + 1 ELSE max) |->
     Call("bin", IF i = 1 THEN c0 ELSE cN, 1, IF symbol >= i THEN 1 ELSE 0)]

\* The number of ones of the prefix, each of which stands for 2^(k + i).
PrefixOnes(symbol, k) ==
  CHOOSE n \in 0 .. 15 : symbol >= 2^k * (2^n - 1) /\ symbol < 2^k * (2^(n + 1) - 1)

exp_golomb_eqprob(symbol, k) ==
  LET n == PrefixOnes(symbol, k)
  IN <<Call("eps", 0, n + 1, 2^(n + 1) - 2), Call("eps", 0, k + n, symbol - 2^k * (2^n - 1))>>

DQp(qp, predQP) ==
  ((qp - predQP + 96 + QpBdOffset + QpBdOffset \div 2) % NumQps) - 32 - QpBdOffset \div 2

cu_qp_delta(predQP, qp) ==
  LET delta == DQp(qp, predQP)
      abs == IF delta < 0 THEN -delta ELSE delta
  IN unary_max_symbol(IF abs < CuDqpTuCmax THEN abs ELSE CuDqpTuCmax, 4, 5, CuDqpTuCmax)
       \o (IF abs >= CuDqpTuCmax THEN exp_golomb_eqprob(abs - CuDqpTuCmax, 0) ELSE <<>>)
       \o (IF abs > 0 THEN <<Call("ep", 0, 1, IF delta < 0 THEN 1 ELSE 0)>> ELSE <<>>)

\* coding_tree_unit; end_of_ctu leaves out the bin of the slice's last CTU.
CtuCalls(cu, ctxId, predQP, last) ==
  <<Call("bin", 1 + ctxId, 1, IF cu.skip THEN 1 ELSE 0)>>
    \o (IF cu.skip THEN <<>>
        ELSE cu_qp_delta(predQP, cu.qp) \o [i \in 1 .. Len(cu.data) |-> Call("eps", 0, cu.data[i][1], cu.data[i][2])])
    \o (IF last THEN <<>> ELSE <<Call("trm", 0, 1, 0)>>)

WriteCtu(s, cu, ctxId, predQP, last) == FoldLeft(Put, s, CtuCalls(cu, ctxId, predQP, last))
-----------------------------------------------------------------------------
(* Reading.                                                                *)

GetBin(r, c) ==
  LET d == DecodeBin(r.d, r.ctx[c])
  IN [d |-> d, ctx |-> [r.ctx EXCEPT ![c] = UpdateModel(@, d.bin)], val |-> d.bin]

GetBinEP(r) == LET d == DecodeBinEP(r.d) IN [r EXCEPT !.d = d, !.val = d.bin]

GetBinsEP(r, n) == LET d == DecodeBinsEP(r.d, n) IN [r EXCEPT !.d = d, !.val = d.bin]

UpTo(n) == [i \in 1 .. n |-> i]

\* Ones are read until a zero, at most max of them.
ReadUnaryMax(r, c0, cN, max) ==
  LET Step(acc, i) ==
        IF acc.stop THEN acc
        ELSE LET g == GetBin(acc.r, IF i = 1 THEN c0 ELSE cN)
             IN [r |-> g, n |-> acc.n + g.val, stop |-> g.val = 0]
      end == FoldLeft(Step, [r |-> r, n |-> 0, stop |-> FALSE], UpTo(max))
  IN [end.r EXCEPT !.val = end.n]

\* The bins after the prefix p.
ReadSuffix(p) ==
  LET s == IF p.count > 0 THEN GetBinsEP(p.r, p.count) ELSE [p.r EXCEPT !.val = 0]
  IN [s EXCEPT !.val = p.symbol + s.val]

\* The prefix has at most 15 ones here.
ReadExpGolomb(r, k) ==
  LET Step(acc, i) ==
        IF acc.stop THEN acc
        ELSE LET g == GetBinEP(acc.r)
             IN [r |-> g, symbol |-> acc.symbol + g.val * 2^acc.count, count |-> acc.count + g.val,
                 stop |-> g.val = 0]
  IN ReadSuffix(FoldLeft(Step, [r |-> r, symbol |-> 0, count |-> k, stop |-> FALSE], UpTo(15)))

\* The QP, from the difference.
QpOf(predQP, delta) == ((predQP + delta + 64 + 2 * QpBdOffset) % NumQps) - QpBdOffset

\* A sign, if there is a difference; u has its prefix and g the rest.
ReadQpSign(u, g, predQP) ==
  LET abs == u.val + g.val
      s == IF abs > 0 THEN GetBinEP(g) ELSE g
  IN [s EXCEPT !.val = IF abs > 0 THEN QpOf(predQP, IF s.val = 1 THEN -abs ELSE abs) ELSE predQP]

ReadQpSuffix(u, predQP) ==
  ReadQpSign(u, IF u.val >= CuDqpTuCmax THEN ReadExpGolomb(u, 0) ELSE [u EXCEPT !.val = 0], predQP)

ReadQpDelta(r, predQP) == ReadQpSuffix(ReadUnaryMax(r, 4, 5, CuDqpTuCmax), predQP)

\* Data whose lengths are known to the reader.
ReadData(r, lengths) ==
  LET Step(acc, n) == LET g == GetBinsEP(acc.r, n) IN [r |-> g, data |-> Append(acc.data, <<n, g.val>>)]
      end == FoldLeft(Step, [r |-> r, data |-> <<>>], lengths)
  IN [end.r EXCEPT !.val = end.data]
=============================================================================
