--------------------------- MODULE ResidualCoding ---------------------------
(***************************************************************************)
(* residual_coding of one block of coefficients, in the writer and in the  *)
(* reader, over a channel of bins: entropy coding is what BinChannel       *)
(* promises.  A bin is [ctx, bin]; bypass bins have the context EP.        *)
(*   blk     the block's parameters b and context k                        *)
(*   coeff   the coefficients given to the writer                          *)
(*   w, r    writer and reader: the subblock sub that is next (NoSub before*)
(*           the first), the quantiser's state, the context-coded bins left*)
(*           (limit), the significant subblocks sigs, the last position,   *)
(*           and the flags set in the coding unit's CUCtx                  *)
(*   bins    what is written                                               *)
(*   x       the reader's place in it: at, ok, val                         *)
(*   read    the coefficients the reader has                               *)
(***************************************************************************)
EXTENDS CoeffContext, FiniteSets

CONSTANT Inputs   \* parameters b, and the blocks of coefficients with them

VARIABLES blk, coeff, w, bins, r, x, read

vars == <<blk, coeff, w, bins, r, x, read>>

EP == <<"EP">>
NoSub == -2
Cutoff == 5        \* COEF_REMAIN_BIN_REDUCTION
Range16 == 15      \* maxLog2TrDRange
MaxPrefix == 32 - Range16

Bin(ctx, flag) == [ctx |-> ctx, bin |-> IF flag THEN 1 ELSE 0]
Bits(v, n) == [i \in 1 .. n |-> [ctx |-> EP, bin |-> (v \div 2^(n - i)) % 2]]
Down(from, to) == [i \in 1 .. from - to + 1 |-> from + 1 - i]
Up(from, to) == [i \in 1 .. to - from + 1 |-> from + i - 1]

\* Mutant: three bins are enough for a coefficient.
Enough_Three(limit) == limit >= 3

\* A coefficient may take four context-coded bins.
Enough(limit) == limit >= 4
-----------------------------------------------------------------------------
(* Remainders: unary, Golomb-Rice, then exponential with a limited prefix. *)

EncodeRemAbsEP(v, rice) ==
  LET high == v \div 2^rice
      low == v % 2^rice
      code == high - Cutoff
      most == MaxPrefix - Cutoff
      n == IF code >= 2^most - 1 THEN most ELSE CHOOSE p \in 0 .. most - 1 : code >= 2^p - 1 /\ code <= 2^(p + 1) - 2
  IN IF high < Cutoff THEN Bits(2^(high + 1) - 2, high + 1) \o Bits(low, rice)
     ELSE Bits(2^(n + Cutoff) - 1, n + Cutoff)
            \o Bits((code - (2^n - 1)) * 2^rice + low, IF n = most THEN Range16 ELSE n + rice + 1)

Get(in, y, ctx) ==
  IF y.at > Len(in) THEN [y EXCEPT !.ok = FALSE, !.val = 0]
  ELSE [at |-> y.at + 1, ok |-> y.ok /\ in[y.at].ctx = ctx, val |-> in[y.at].bin]

GetBits(in, y, n) ==
  LET Step(acc, i) == LET g == Get(in, acc, EP) IN [g EXCEPT !.val = 2 * acc.val + g.val]
  IN FoldLeft(Step, [y EXCEPT !.val = 0], Up(1, n))

DecodeRemAbsEP(in, y, rice) ==
  LET Step(acc, i) ==
        IF acc.stop THEN acc
        ELSE LET g == Get(in, acc.y, EP) IN [y |-> g, prefix |-> acc.prefix + g.val, stop |-> g.val = 0]
      p == FoldLeft(Step, [y |-> y, prefix |-> 0, stop |-> FALSE], Up(1, MaxPrefix))
      offset == IF p.prefix < Cutoff THEN p.prefix ELSE 2^(p.prefix - Cutoff) + Cutoff - 1
      length == IF p.prefix < Cutoff THEN rice
                ELSE IF p.prefix = MaxPrefix THEN Range16 ELSE rice + p.prefix - Cutoff
      g == GetBits(in, p.y, length)
  IN [g EXCEPT !.val = offset * 2^rice + g.val]
-----------------------------------------------------------------------------
(* The position of the last coefficient.                                   *)

GroupIdx == <<0, 1, 2, 3, 4, 4, 5, 5, 6, 6, 6, 6, 7, 7, 7, 7, 8, 8, 8, 8, 8, 8, 8, 8, 9, 9, 9, 9, 9, 9, 9, 9>>
MinInGroup == <<0, 1, 2, 3, 4, 6, 8, 12, 16, 24>>
SuffixLength(g) == IF g > 3 THEN (g - 2) \div 2 ELSE 0

\* lastXCtxId and lastYCtxId, for a side.
LastCtx(b, axis, side, i) ==
  IF b.chroma THEN <<axis, i \div 2^Least(side \div 8, 2)>>
  ELSE <<axis, <<0, 0, 0, 3, 6, 10>>[Log2(side) + 1] + i \div 2^((Log2(side) + 1) \div 4)>>

LastPrefix(b, axis, side, v) ==
  LET g == GroupIdx[v + 1]
      max == GroupIdx[side]
  IN [i \in 1 .. (IF g < max THEN g + 1 ELSE g) |-> Bin(LastCtx(b, axis, side, i - 1), i <= g)]

LastSuffix(v) ==
  LET g == GroupIdx[v + 1] IN Bits(v - MinInGroup[g + 1], SuffixLength(g))

last_sig_coeff(b, p) ==
  LastPrefix(b, "lastX", b.w, p[1]) \o LastPrefix(b, "lastY", b.h, p[2]) \o LastSuffix(p[1]) \o LastSuffix(p[2])

ReadPrefix(in, y, b, axis, side) ==
  LET Step(acc, i) ==
        IF acc.stop THEN acc
        ELSE LET g == Get(in, acc.y, LastCtx(b, axis, side, i - 1))
             IN [y |-> g, n |-> acc.n + g.val, stop |-> g.val = 0]
      e == FoldLeft(Step, [y |-> y, n |-> 0, stop |-> FALSE], Up(1, GroupIdx[side]))
  IN [e.y EXCEPT !.val = e.n]

ReadSuffix(in, y, g) ==
  LET s == GetBits(in, y, SuffixLength(g)) IN [s EXCEPT !.val = MinInGroup[g + 1] + s.val]

\* The scan position; the last one if none is at the place that was read.
ReadLast(in, y, b, k) ==
  LET gx == ReadPrefix(in, y, b, "lastX", b.w)
      gy == ReadPrefix(in, gx, b, "lastY", b.h)
      px == ReadSuffix(in, gy, gx.val)
      py == ReadSuffix(in, px, gy.val)
      at == SelectInSeq(k.scan, LAMBDA p : p = <<px.val, py.val>>)
  IN [py EXCEPT !.val = IF at = 0 THEN Len(k.scan) - 1 ELSE at - 1]
-----------------------------------------------------------------------------
(* residual_coding_subblock, writing.  s is the writer's state; the result *)
(* has the bins in out.                                                    *)

SubPositions(k, id) == id * k.size .. id * k.size + k.size - 1

FirstSigPos(k, s) == IF s.last \div k.size = s.sub THEN s.last ELSE s.sub * k.size + k.size - 1

\* Where a level is known not to be 0: at the last position, or at the end of
\* a significant subblock that had none.
InferSigPos(k, s) ==
  IF FirstSigPos(k, s) = s.last THEN s.last ELSE IF s.sub # 0 THEN s.sub * k.size ELSE -1

\* The context-coded bins of a level, with sig if its flag is coded.
LevelBins(ctxOff, sigCtx, sig, a) ==
  (IF sig THEN <<Bin(sigCtx, a # 0)>> ELSE <<>>)
    \o (IF a = 0 THEN <<>> ELSE <<Bin(<<"gt1", ctxOff>>, a > 1)>>)
    \o (IF a <= 1 THEN <<>> ELSE <<Bin(<<"par", ctxOff>>, a % 2 = 1), Bin(<<"gt2", ctxOff>>, a > 3)>>)

\* First pass: levels up to 3 and a parity, as long as there are bins.
WriteLevels(b, k, co, s) ==
  LET Step(acc, pos) ==
        IF ~Enough(acc.limit) THEN acc
        ELSE LET a == Abs(Level(b, k, co, pos))
                 t == IF pos = s.last THEN [ctx |-> EP, diag |-> -1, sum1 |-> 0] ELSE SigCtx(b, k, co, pos, acc.state)
                 new == LevelBins(CtxOffsetAbs(b, t.diag, t.sum1), t.ctx, acc.some \/ pos # InferSigPos(k, s), a)
             IN [out |-> acc.out \o new, limit |-> acc.limit - Len(new), next |-> pos - 1,
                 some |-> acc.some \/ a # 0, state |-> NextState(b, acc.state, a)]
      first == FirstSigPos(k, s)
  IN FoldLeft(Step, [out |-> <<>>, limit |-> s.limit, next |-> first, some |-> FALSE, state |-> s.state],
              Down(first, s.sub * k.size))

\* Second pass: what is left of the levels from 4 on.
WriteRemainders(b, k, co, first, next) ==
  FlattenSeq([i \in 1 .. first - next |->
    LET pos == first + 1 - i
        a == Abs(Level(b, k, co, pos))
    IN IF a >= 4 THEN EncodeRemAbsEP((a - 4) \div 2, GoRicePar(TemplateAbsSum(b, k, co, pos, 4))) ELSE <<>>])

\* The levels after that have no context-coded bins; the place of 0 moves.
WriteBypass(b, k, co, from, to, state) ==
  LET Step(acc, pos) ==
        LET a == Abs(Level(b, k, co, pos))
            rice == GoRicePar(TemplateAbsSum(b, k, co, pos, 0))
            pos0 == GoRicePosCoeff0(acc.state, rice)
        IN [out |-> acc.out \o EncodeRemAbsEP(IF a = 0 THEN pos0 ELSE IF a <= pos0 THEN a - 1 ELSE a, rice),
            state |-> NextState(b, acc.state, a)]
  IN FoldLeft(Step, [out |-> <<>>, state |-> state], Down(from, to))

WriteSigns(b, k, co, first, min) ==
  LET nz == SelectSeq(Down(first, min), LAMBDA pos : Level(b, k, co, pos) # 0)
      n == IF nz # <<>> /\ HideSign(b, nz[Len(nz)], nz[1]) THEN Len(nz) - 1 ELSE Len(nz)
  IN [i \in 1 .. n |-> Bin(EP, Level(b, k, co, nz[i]) < 0)]

residual_coding_subblock(b, k, co, s) ==
  LET group == k.groups[s.sub + 1]
      sig == \E pos \in SubPositions(k, s.sub) : Level(b, k, co, pos) # 0
      sigs == IF sig THEN s.sigs \cup {group} ELSE s.sigs
      coded == s.last \div k.size # s.sub /\ s.sub # 0
      flag == IF coded THEN <<Bin(SigGroupCtx(k, sigs, s.sub), sig)>> ELSE <<>>
      min == s.sub * k.size
      first == FirstSigPos(k, s)
      one == WriteLevels(b, k, co, s)
      two == WriteBypass(b, k, co, one.next, min, one.state)
  IN IF coded /\ ~sig THEN [out |-> flag, s |-> [s EXCEPT !.sub = @ - 1]]
     ELSE [out |-> flag \o one.out \o WriteRemainders(b, k, co, first, one.next) \o two.out
                     \o WriteSigns(b, k, co, first, min),
           s |-> [s EXCEPT !.sub = @ - 1, !.sigs = sigs, !.limit = one.limit, !.state = two.state]]
-----------------------------------------------------------------------------
(* residual_coding_subblock, reading from in: the levels become known pass *)
(* by pass, and their signs at the end.                                    *)

\* The flags after the significance flag sig.
ReadGreater(in, b, k, acc, pos, sig, off) ==
  LET gt1 == IF sig.val = 1 THEN Get(in, sig, <<"gt1", off>>) ELSE [sig EXCEPT !.val = 0]
      par == IF gt1.val = 1 THEN Get(in, gt1, <<"par", off>>) ELSE gt1
      gt2 == IF gt1.val = 1 THEN Get(in, par, <<"gt2", off>>) ELSE gt1
      level == sig.val + gt1.val + par.val + 2 * gt2.val
  IN [y |-> gt2, co |-> [acc.co EXCEPT ![Index(b, Pos(k, pos))] = level],
      limit |-> acc.limit - (gt2.at - acc.y.at), next |-> pos - 1, some |-> acc.some \/ sig.val = 1,
      state |-> NextState(b, acc.state, level)]

\* One level of the first pass: acc has y, co, limit, next, some, state.
ReadLevel(in, b, k, s, acc, pos) ==
  LET infer == ~acc.some /\ pos = InferSigPos(k, s)
      t == IF pos = s.last THEN [ctx |-> EP, diag |-> -1, sum1 |-> 0] ELSE SigCtx(b, k, acc.co, pos, acc.state)
      sig == IF infer THEN [acc.y EXCEPT !.val = 1] ELSE Get(in, acc.y, t.ctx)
  IN ReadGreater(in, b, k, acc, pos, sig, CtxOffsetAbs(b, t.diag, t.sum1))

ReadLevels(in, b, k, s, y, co) ==
  LET first == FirstSigPos(k, s)
      Step(acc, pos) == IF Enough(acc.limit) THEN ReadLevel(in, b, k, s, acc, pos) ELSE acc
  IN FoldLeft(Step, [y |-> y, co |-> co, limit |-> s.limit, next |-> first, some |-> FALSE, state |-> s.state],
              Down(first, s.sub * k.size))

ReadRemainders(in, b, k, acc, first) ==
  LET Step(z, pos) ==
        IF Level(b, k, z.co, pos) < 4 THEN z
        ELSE LET g == DecodeRemAbsEP(in, z.y, GoRicePar(TemplateAbsSum(b, k, z.co, pos, 4)))
             IN [z EXCEPT !.y = g, !.co[Index(b, Pos(k, pos))] = @ + 2 * g.val]
  IN FoldLeft(Step, acc, Down(first, acc.next + 1))

ReadBypass(in, b, k, acc, min) ==
  LET Step(z, pos) ==
        LET rice == GoRicePar(TemplateAbsSum(b, k, z.co, pos, 0))
            pos0 == GoRicePosCoeff0(z.state, rice)
            g == DecodeRemAbsEP(in, z.y, rice)
            level == IF g.val = pos0 THEN 0 ELSE IF g.val < pos0 THEN g.val + 1 ELSE g.val
        IN [z EXCEPT !.y = g, !.co[Index(b, Pos(k, pos))] = level, !.state = NextState(b, z.state, level)]
  IN FoldLeft(Step, acc, Down(acc.next, min))

\* A sign that is hidden is the parity of the sum of the levels.
ReadSigns(in, b, k, acc, first, min) ==
  LET nz == SelectSeq(Down(first, min), LAMBDA pos : Level(b, k, acc.co, pos) # 0)
      hidden == nz # <<>> /\ HideSign(b, nz[Len(nz)], nz[1])
      Negate(co, pos) == [co EXCEPT ![Index(b, Pos(k, pos))] = -@]
      Step(z, pos) ==
        LET g == Get(in, z.y, EP)
        IN [z EXCEPT !.y = g, !.co = IF g.val = 1 THEN Negate(@, pos) ELSE @]
      sum == FoldLeft(LAMBDA n, pos : n + Level(b, k, acc.co, pos), 0, nz)
      e == FoldLeft(Step, acc, IF hidden THEN SubSeq(nz, 1, Len(nz) - 1) ELSE nz)
  IN IF hidden /\ sum % 2 = 1 THEN [e EXCEPT !.co = Negate(@, nz[Len(nz)])] ELSE e

\* What the passes over a subblock leave.
EndRead(e, s) == [y |-> e.y, co |-> e.co, s |-> [s EXCEPT !.limit = e.limit, !.state = e.state]]

ReadSubblock(in, b, k, s, y, co) ==
  LET coded == s.last \div k.size # s.sub /\ s.sub # 0
      flag == IF coded THEN Get(in, y, SigGroupCtx(k, s.sigs, s.sub)) ELSE [y EXCEPT !.val = 1]
      first == FirstSigPos(k, s)
      min == s.sub * k.size
      one == ReadLevels(in, b, k, s, flag, co)
      two == ReadBypass(in, b, k, ReadRemainders(in, b, k, one, first), min)
      three == ReadSigns(in, b, k, two, first, min)
  IN IF flag.val = 0 THEN [y |-> flag, co |-> co, s |-> [s EXCEPT !.sub = @ - 1]]
     ELSE EndRead(three, [s EXCEPT !.sub = @ - 1, !.sigs = @ \cup {k.groups[s.sub + 1]}])
-----------------------------------------------------------------------------
(* residual_coding_subblockTS.  The scan goes up, the signs are coded with *)
(* the levels, and the levels relative to their neighbours.                *)

ModCoeff(b, k, co, pos, plain) ==
  DeriveModCoeff(NeighTS(b, k, co, pos), Abs(Level(b, k, co, pos)), plain \/ b.bdpcm)

FlagBinsTS(b, k, co, pos, sig) ==
  LET v == Level(b, k, co, pos)
      n == NeighTS(b, k, co, pos)
      a == ModCoeff(b, k, co, pos, FALSE)
  IN (IF sig THEN <<Bin(SigCtxTS(n), v # 0)>> ELSE <<>>)
       \o (IF v = 0 THEN <<>> ELSE <<Bin(SignCtxTS(b, n), v < 0), Bin(Lrg1CtxTS(b, n), a > 1)>>)
       \o (IF a <= 1 THEN <<>> ELSE <<Bin(<<"parTS", 0>>, a % 2 = 1)>>)

\* The flags for 4, 6, 8 and 10, of a level a.
GtxBinsTS(a) ==
  [i \in 1 .. Least(4, a \div 2) |-> Bin(<<"gtxTS", i>>, a >= 2 * i + 2)]

\* The bins of a position in the first and in the second pass.
PassBinsTS(b, k, co, s, pass, pos) ==
  LET max == s.sub * k.size + k.size - 1
      some == \E q \in s.sub * k.size .. max - 1 : Level(b, k, co, q) # 0
  IN IF pass = 1 THEN FlagBinsTS(b, k, co, pos, some \/ pos # max) ELSE GtxBinsTS(ModCoeff(b, k, co, pos, FALSE))

\* Both go up as long as there are context-coded bins, to before next.
WritePassTS(b, k, co, s, pass, limit) ==
  LET Step(acc, pos) ==
        IF ~Enough(acc.limit) THEN acc
        ELSE LET new == PassBinsTS(b, k, co, s, pass, pos)
             IN [out |-> acc.out \o new, limit |-> acc.limit - Len(new), next |-> pos + 1]
      min == s.sub * k.size
  IN FoldLeft(Step, [out |-> <<>>, limit |-> limit, next |-> min], Up(min, min + k.size - 1))

CutoffTS(pos, next1, next2) == IF pos < next2 THEN 10 ELSE IF pos < next1 THEN 2 ELSE 0

WriteRestTS(b, k, co, pos, next1, next2) ==
  LET cut == CutoffTS(pos, next1, next2)
      a == ModCoeff(b, k, co, pos, cut = 0)
  IN IF a < cut THEN <<>>
     ELSE IF cut > 0 THEN EncodeRemAbsEP((a - cut) \div 2, 1)
     ELSE EncodeRemAbsEP(a, 1) \o (IF a = 0 THEN <<>> ELSE <<Bin(EP, Level(b, k, co, pos) < 0)>>)

residual_coding_subblockTS(b, k, co, s) ==
  LET min == s.sub * k.size
      max == min + k.size - 1
      sig == \E pos \in min .. max : Level(b, k, co, pos) # 0
      sigs == IF sig THEN s.sigs \cup {k.groups[s.sub + 1]} ELSE s.sigs
      coded == s.sub # LastSubSet(k) \/ sigs \ {k.groups[s.sub + 1]} # {}
      flag == IF coded THEN <<Bin(SigGroupCtxTS(k, sigs, s.sub), sig)>> ELSE <<>>
      one == WritePassTS(b, k, co, s, 1, s.limit)
      two == WritePassTS(b, k, co, s, 2, one.limit)
      rest == FlattenSeq([i \in 1 .. k.size |-> WriteRestTS(b, k, co, min + i - 1, one.next, two.next)])
  IN IF coded /\ ~sig THEN [out |-> flag, s |-> [s EXCEPT !.sub = @ + 1]]
     ELSE [out |-> flag \o one.out \o two.out \o rest,
           s |-> [s EXCEPT !.sub = @ + 1, !.sigs = sigs, !.limit = two.limit]]

\* One level of the first pass, with its sign.
ReadFlagsTS(in, b, k, s, acc, pos) ==
  LET n == NeighTS(b, k, acc.co, pos)
      infer == ~acc.some /\ pos = s.sub * k.size + k.size - 1
      sig == IF infer THEN [acc.y EXCEPT !.val = 1] ELSE Get(in, acc.y, SigCtxTS(n))
      sign == IF sig.val = 1 THEN Get(in, sig, SignCtxTS(b, n)) ELSE sig
      gt1 == IF sig.val = 1 THEN Get(in, sign, Lrg1CtxTS(b, n)) ELSE sig
      par == IF gt1.val = 1 THEN Get(in, gt1, <<"parTS", 0>>) ELSE gt1
      level == sig.val + gt1.val + par.val
  IN [acc EXCEPT !.y = par, !.co[Index(b, Pos(k, pos))] = IF sign.val = 1 THEN -level ELSE level,
                 !.neg = IF sig.val = 1 /\ sign.val = 1 THEN @ \cup {pos} ELSE @,
                 !.limit = @ - (par.at - acc.y.at), !.next1 = pos + 1, !.some = @ \/ sig.val = 1]

\* The four flags of a level; from here on it has no sign.
ReadGtxTS(in, b, k, acc, pos) ==
  LET Step(z, i) ==
        IF z.level < 2 * i THEN z
        ELSE LET g == Get(in, z.y, <<"gtxTS", i>>) IN [y |-> g, level |-> z.level + 2 * g.val]
      e == FoldLeft(Step, [y |-> acc.y, level |-> Abs(Level(b, k, acc.co, pos))], Up(1, 4))
  IN [acc EXCEPT !.y = e.y, !.co[Index(b, Pos(k, pos))] = e.level,
                 !.limit = @ - (e.y.at - acc.y.at), !.next2 = pos + 1]

\* The remainder, and what the level was before it was made relative.
ReadRestTS(in, b, k, acc, pos) ==
  LET cut == CutoffTS(pos, acc.next1, acc.next2)
      a == Abs(Level(b, k, acc.co, pos))
      g == IF a >= cut THEN DecodeRemAbsEP(in, acc.y, 1) ELSE [acc.y EXCEPT !.val = 0]
      level == a + (IF cut > 0 THEN 2 * g.val ELSE g.val)
      sign == IF cut = 0 /\ level # 0 THEN Get(in, g, EP) ELSE [g EXCEPT !.val = 0]
      final == IF b.bdpcm \/ cut = 0 THEN level ELSE DecDeriveModCoeff(NeighTS(b, k, acc.co, pos), level)
  IN [acc EXCEPT !.y = sign, !.co[Index(b, Pos(k, pos))] = final,
                 !.neg = IF sign.val = 1 THEN @ \cup {pos} ELSE @]

ReadSubblockTS(in, b, k, s, y, co) ==
  LET min == s.sub * k.size
      max == min + k.size - 1
      coded == s.sub # LastSubSet(k) \/ s.sigs # {}
      flag == IF coded THEN Get(in, y, SigGroupCtxTS(k, s.sigs, s.sub)) ELSE [y EXCEPT !.val = 1]
      One(acc, pos) == IF Enough(acc.limit) THEN ReadFlagsTS(in, b, k, s, acc, pos) ELSE acc
      Two(acc, pos) == IF Enough(acc.limit) THEN ReadGtxTS(in, b, k, acc, pos) ELSE acc
      Three(acc, pos) == ReadRestTS(in, b, k, acc, pos)
      Signs(acc, pos) == IF pos \in acc.neg THEN [acc EXCEPT !.co[Index(b, Pos(k, pos))] = -@] ELSE acc
      start == [y |-> flag, co |-> co, limit |-> s.limit, state |-> s.state, next1 |-> min, next2 |-> min,
                some |-> FALSE, neg |-> {}]
      up == Up(min, max)
      e == FoldLeft(Signs, FoldLeft(Three, FoldLeft(Two, FoldLeft(One, start, up), up), up), up)
  IN IF flag.val = 0 THEN [y |-> flag, co |-> co, s |-> [s EXCEPT !.sub = @ + 1]]
     ELSE EndRead(e, [s EXCEPT !.sub = @ + 1, !.sigs = @ \cup {k.groups[s.sub + 1]}])
-----------------------------------------------------------------------------
(* The writer codes a block, then the reader reads it, a subblock a step.  *)

Idle == [sub |-> NoSub, state |-> 0, limit |-> 0, sigs |-> {}, last |-> -1, cuCtx |-> {}]

Init ==
  /\ \E in \in Inputs : LET k == Context(in.b) IN \E co \in in.blocks : blk = [b |-> in.b, k |-> k] /\ coeff = co
  /\ w = Idle
  /\ bins = <<>>
  /\ r = Idle
  /\ x = [at |-> 1, ok |-> TRUE, val |-> 0]
  /\ read = [i \in DOMAIN coeff |-> 0]

\* regBinLimit, or the bins of setNumCtxBins.
Budget(b) == IF b.ts THEN (b.w * b.h * 7) \div 4 ELSE (b.w * b.h * 28) \div 16

\* What the last position says of the transform: the flags set in the CUCtx.
CuCtxFlags(b, k, last) ==
  LET square == b.w = b.h /\ b.w \in {4, 8}
      lfnst == b.w >= 4 /\ b.h >= 4
  IN {f \in {"violatesLfnst", "lfnstLast", "violatesMts"} :
        CASE f = "violatesLfnst" -> lfnst /\ last > (IF square THEN 7 ELSE 15)
          [] f = "lfnstLast" -> lfnst /\ last >= 1
          [] f = "violatesMts" -> ~b.chroma /\ (Pos(k, last)[1] >= 16 \/ Pos(k, last)[2] >= 16)}

Begin(b, k, last) ==
  IF b.ts THEN [Idle EXCEPT !.sub = 0, !.limit = Budget(b)]
  ELSE [Idle EXCEPT !.sub = last \div k.size, !.last = last, !.limit = Budget(b), !.cuCtx = CuCtxFlags(b, k, last)]

Finished(b, k, s) == IF b.ts THEN s.sub = LastSubSet(k) + 1 ELSE s.sub = -1

Running(s) == s.sub # NoSub /\ ~Finished(blk.b, blk.k, s)

ScanPosLast(b, k, co) == Max({pos \in 0 .. b.w * b.h - 1 : Level(b, k, co, pos) # 0})

residual_coding ==
  LET last == ScanPosLast(blk.b, blk.k, coeff)
  IN /\ w.sub = NoSub
     /\ w' = Begin(blk.b, blk.k, last)
     /\ bins' = IF blk.b.ts THEN <<>> ELSE last_sig_coeff(blk.b, Pos(blk.k, last))
     /\ UNCHANGED <<blk, coeff, r, x, read>>

WriteSubblock ==
  /\ Running(w)
  /\ \E e \in {IF blk.b.ts THEN residual_coding_subblockTS(blk.b, blk.k, coeff, w)
               ELSE residual_coding_subblock(blk.b, blk.k, coeff, w)} :
       w' = e.s /\ bins' = bins \o e.out
  /\ UNCHANGED <<blk, coeff, r, x, read>>

ReadStart ==
  LET y == IF blk.b.ts THEN [x EXCEPT !.val = -1] ELSE ReadLast(bins, x, blk.b, blk.k)
  IN /\ Finished(blk.b, blk.k, w)
     /\ r.sub = NoSub
     /\ r' = Begin(blk.b, blk.k, y.val)
     /\ x' = y
     /\ UNCHANGED <<blk, coeff, w, bins, read>>

ReadNext ==
  /\ Running(r)
  /\ \E e \in {IF blk.b.ts THEN ReadSubblockTS(bins, blk.b, blk.k, r, x, read)
               ELSE ReadSubblock(bins, blk.b, blk.k, r, x, read)} :
       r' = e.s /\ x' = e.y /\ read' = e.co
  /\ UNCHANGED <<blk, coeff, w, bins>>

Next == residual_coding \/ WriteSubblock \/ ReadStart \/ ReadNext

Spec == Init /\ [][Next]_vars
-----------------------------------------------------------------------------
\* residual_coding of the reader asks for every bin in the context the writer
\* coded it with, although it knows of a level only what it has read so far,
\* and at the end of the block it has read all of them and is in the writer's
\* state: what follows in the stream is read from the right place.
BinsAgree ==
  /\ x.ok
  /\ Finished(blk.b, blk.k, r) => x.at = Len(bins) + 1 /\ <<r.limit, r.state, r.cuCtx>> = <<w.limit, w.state, w.cuCtx>>

\* The levels that the reader has after a block are those given to the
\* writer: through escapes, hidden signs and levels relative to a neighbour.
CoeffsReadBack == Finished(blk.b, blk.k, r) => read = coeff

\* The context-coded bins of the levels stay within the limit of the block
\* (1.75 for each coefficient), and it is the bins left that count them,
\* through the subblocks of the block.
BudgetKept ==
  LET level == {"sig", "gt1", "par", "gt2", "sigTS", "signTS", "lrg1TS", "parTS", "gtxTS"}
      used == Cardinality({i \in DOMAIN bins : bins[i].ctx[1] \in level})
  IN /\ used <= Budget(blk.b)
     /\ w.sub # NoSub => used = Budget(blk.b) - w.limit
=============================================================================
