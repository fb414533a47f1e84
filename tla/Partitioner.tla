---------------------------- MODULE Partitioner ----------------------------
(***************************************************************************)
(* QTBTPartitioner (UnitPartitioner.cpp): the stack of splits that lead    *)
(* from a coding tree unit to the block being coded, and the splits that   *)
(* block may have.                                                         *)
(*                                                                         *)
(* c is what a walk reads of the picture: the sizes w, h of the picture    *)
(* and ctu of a unit, the chroma scales sx, sy, whether the slice is intra *)
(* and its trees are separate (dual), the limits of each channel's tree,   *)
(* and the subdivision qpSub down to which quantisation groups start (the  *)
(* groups of the chroma QP offset go the same way, with a subdivision of   *)
(* their own, and are left out).                                           *)
(*                                                                         *)
(* Areas are in luma samples: every luma size is a multiple of four, so    *)
(* the chroma block, which the code halves beside it, is its scaled image. *)
(***************************************************************************)
EXTENDS Integers, Sequences, SequencesExt

BinarySplits == {"HORZ", "VERT"}
TripleSplits == {"TRIH", "TRIV"}
Splits == {"QUAD"} \cup BinarySplits \cup TripleSplits

MAX_TB_SIZEY == 64
MIN_TB_SIZEY == 4
MIN_DUALTREE_CHROMA_WIDTH == 4
MIN_DUALTREE_CHROMA_SIZE == 16

ChromaWidth(c, a) == a.w \div 2 ^ c.sx
ChromaArea(c, a) == ChromaWidth(c, a) * (a.h \div 2 ^ c.sy)

Inside(c, x, y) == x < c.w /\ y < c.h

\* The limits of the tree of channel ch: getValIdx.
Limits(c, ch) == IF c.dual THEN c.limits[ch] ELSE c.limits["L"]

Covers(a, x, y) == x \in a.x .. a.x + a.w - 1 /\ y \in a.y .. a.y + a.h - 1

getCUSubPartitions(a, split) ==
  LET Part(x, y, width, height) == [x |-> a.x + x, y |-> a.y + y, w |-> width, h |-> height]
      w2 == a.w \div 2   w4 == a.w \div 4
      h2 == a.h \div 2   h4 == a.h \div 4
  IN CASE split = "QUAD" -> <<Part(0, 0, w2, h2), Part(w2, 0, w2, h2), Part(0, h2, w2, h2), Part(w2, h2, w2, h2)>>
       [] split = "HORZ" -> <<Part(0, 0, a.w, h2), Part(0, h2, a.w, h2)>>
       [] split = "VERT" -> <<Part(0, 0, w2, a.h), Part(w2, 0, w2, a.h)>>
       [] split = "TRIH" -> <<Part(0, 0, a.w, h4), Part(0, h4, a.w, h2), Part(0, 3 * h4, a.w, h4)>>
       [] split = "TRIV" -> <<Part(0, 0, w4, a.h), Part(w4, 0, w2, a.h), Part(3 * w4, 0, w4, a.h)>>

\* implicit is implicitSplit once it was looked for (checkdIfImplicit).
Level(split, parts, modeType, qg) ==
  [split |-> split, parts |-> parts, idx |-> 1, implicit |-> "unchecked", modeType |-> modeType, qg |-> qg]

Position(a) == <<a.x, a.y>>

\* ok says that no CHECK has failed so far.
initCtu(area, ch) ==
  [stack |-> <<Level("CTU", <<area>>, "ALL", TRUE)>>, depth |-> 0, qtDepth |-> 0, btDepth |-> 0, mtDepth |-> 0,
   implicitBt |-> 0, subdiv |-> 0, qgPos |-> Position(area), chType |-> ch, treeType |-> "D", modeType |-> "ALL", ok |-> TRUE]

Top(p) == Last(p.stack)
currArea(p) == Top(p).parts[Top(p).idx]
WithTop(p, level) == [p EXCEPT !.stack = Append(Front(@), level)]

\* Splits that a block over the border of the picture has without a choice.
FoundImplicit(c, p) ==
  LET a == currArea(p)
      lim == Limits(c, p.chType)
      bl == Inside(c, a.x, a.y + a.h - 1)
      tr == Inside(c, a.x + a.w - 1, a.y)
      bt == a.w <= lim.maxBt /\ a.h <= lim.maxBt
      qt == a.w > lim.minQt /\ a.h > lim.minQt /\ p.btDepth = 0
      large == a.w > MAX_TB_SIZEY \/ a.h > MAX_TB_SIZEY
  IN IF large /\ (c.dual \/ ~bl \/ ~tr) THEN "QUAD"
     ELSE IF ~bl /\ ~tr /\ qt THEN "QUAD"
     ELSE IF ~bl /\ bt THEN "HORZ"
     ELSE IF ~tr /\ bt THEN "VERT"
     ELSE IF ~bl \/ ~tr THEN "QUAD" ELSE "NO"

getImplicitSplit(c, p) == IF Top(p).implicit # "unchecked" THEN Top(p).implicit ELSE FoundImplicit(c, p)

\* Looking for the implicit split leaves it in the level.
Checked(c, p) == WithTop(p, [Top(p) EXCEPT !.implicit = getImplicitSplit(c, p)])

CanQuad(c, p) ==
  /\ Top(p).split \in {"CTU", "QUAD"}
  /\ currArea(p).w > Limits(c, p.chType).minQt
  /\ p.chType = "C" => ChromaWidth(c, currArea(p)) > MIN_DUALTREE_CHROMA_WIDTH

CanBinary(c, p, split) ==
  LET a == currArea(p)
      lim == Limits(c, p.chType)
      parallel == IF Top(p).split = "TRIH" THEN "HORZ" ELSE "VERT"
  IN /\ ~(Top(p).split \in TripleSplits /\ Top(p).idx = 2 /\ split = parallel)
     /\ a.w <= lim.maxBt /\ a.h <= lim.maxBt
     /\ split = "HORZ" => a.h > lim.minBt /\ ~(a.w > MAX_TB_SIZEY /\ a.h <= MAX_TB_SIZEY)
     /\ split = "VERT" => a.w > lim.minBt /\ ~(a.w <= MAX_TB_SIZEY /\ a.h > MAX_TB_SIZEY)
     /\ p.chType = "C" => ChromaArea(c, a) > MIN_DUALTREE_CHROMA_SIZE /\ (split = "VERT" => ChromaWidth(c, a) # 4)
     /\ ~(p.modeType = "INTER" /\ a.w * a.h = 32)

\* Mutant: the outer parts may be half the smallest size.
CanTripleTooSmall(c, p, split) ==
  LET a == currArea(p)
      lim == Limits(c, p.chType)
  IN /\ (IF split = "TRIH" THEN a.h ELSE a.w) > lim.minBt
     /\ a.w <= lim.maxTt /\ a.h <= lim.maxTt
     /\ ~(p.modeType = "INTER" /\ a.w * a.h = 64)

CanTriple(c, p, split) ==
  LET a == currArea(p)
      lim == Limits(c, p.chType)
  IN /\ (IF split = "TRIH" THEN a.h ELSE a.w) > 2 * lim.minBt
     /\ a.w <= lim.maxTt /\ a.h <= lim.maxTt
     /\ a.w <= MAX_TB_SIZEY /\ a.h <= MAX_TB_SIZEY
     /\ p.chType = "C" => ChromaArea(c, a) > 2 * MIN_DUALTREE_CHROMA_SIZE /\ (split = "TRIV" => ChromaWidth(c, a) # 8)
     /\ ~(p.modeType = "INTER" /\ a.w * a.h = 64)

\* Whether a binary or triple split may follow at all.
CanDeepen(c, p) ==
  LET a == currArea(p)
      lim == Limits(c, p.chType)
  IN /\ p.mtDepth < lim.maxMtt + p.implicitBt
     /\ a.w > lim.minBt \/ a.h > lim.minBt
     /\ (a.w <= lim.maxBt /\ a.h <= lim.maxBt) \/ (a.w <= lim.maxTt /\ a.h <= lim.maxTt)

\* What the block may become: a set of splits, with NO for a coding unit.
canSplit(c, p) ==
  LET implicit == getImplicitSplit(c, p)
      quad == {s \in {"QUAD"} : CanQuad(c, p)}
  IN IF p.treeType = "C" THEN {"NO"}
     ELSE IF implicit # "NO"
     THEN quad \cup {s \in BinarySplits : s = implicit /\ ~(s = "VERT" /\ p.chType = "C" /\ ChromaWidth(c, currArea(p)) = 4)}
     ELSE {"NO"} \cup quad \cup {s \in BinarySplits : CanDeepen(c, p) /\ CanBinary(c, p, s)}
                         \cup {s \in TripleSplits : CanDeepen(c, p) /\ CanTriple(c, p, s)}

\* qgPos moves to the block where a quantisation group may start.
AtGroup(p) == IF Top(p).qg THEN [p EXCEPT !.qgPos = Position(currArea(p))] ELSE p

splitCurrArea(c, p, split) ==
  LET parts == getCUSubPartitions(currArea(p), split)
      multi == split # "QUAD"
      triple == split \in TripleSplits
      subdiv == p.subdiv + (IF triple \/ split = "QUAD" THEN 2 ELSE 1)
      level == Level(split, parts, p.modeType, Top(p).qg /\ subdiv <= c.qpSub)
      q == Checked(c, p)
  IN AtGroup([q EXCEPT
       !.stack = Append(@, level), !.depth = @ + 1, !.subdiv = subdiv,
       !.btDepth = IF multi THEN @ + (IF triple THEN 2 ELSE 1) ELSE 0,
       !.mtDepth = IF multi THEN @ + 1 ELSE 0,
       !.qtDepth = IF multi THEN @ ELSE @ + 1,
       !.implicitBt = IF multi /\ Top(q).implicit = split THEN @ + 1 ELSE @,
       !.ok = /\ @
              /\ split \in canSplit(c, p)
              /\ multi \/ (p.btDepth = 0 /\ p.mtDepth = 0)
              /\ \A i \in DOMAIN parts : parts[i].w >= MIN_TB_SIZEY /\ parts[i].h >= MIN_TB_SIZEY])

\* Mutant: the group stays that of the last part.
exitCurrSplitKeepsGroup(p) ==
  LET old == Top(p)
      multi == old.split # "QUAD"
      outer == old.split \in TripleSplits /\ old.idx # 2
      q == [p EXCEPT !.stack = Front(@)]
  IN [q EXCEPT !.depth = @ - 1, !.subdiv = @ - (IF outer \/ ~multi THEN 2 ELSE 1),
               !.btDepth = IF multi THEN @ - (IF outer THEN 2 ELSE 1) ELSE @,
               !.mtDepth = IF multi THEN @ - 1 ELSE @, !.qtDepth = IF multi THEN @ ELSE @ - 1,
               !.implicitBt = IF multi /\ Top(q).implicit # "NO" THEN @ - 1 ELSE @]

\* The parts of the top level are done: back to the block that was split.
exitCurrSplit(p) ==
  LET old == Top(p)
      q == [p EXCEPT !.stack = Front(@)]
      multi == old.split # "QUAD"
      outer == old.split \in TripleSplits /\ old.idx # 2
  IN AtGroup([q EXCEPT
       !.depth = @ - 1,
       !.subdiv = @ - (IF outer \/ ~multi THEN 2 ELSE 1),
       !.btDepth = IF multi THEN @ - (IF outer THEN 2 ELSE 1) ELSE @,
       !.mtDepth = IF multi THEN @ - 1 ELSE @,
       !.qtDepth = IF multi THEN @ ELSE @ - 1,
       !.implicitBt = IF multi /\ Top(q).implicit # "NO" THEN @ - 1 ELSE @,
       !.ok = /\ @
              /\ p.depth > 0
              /\ IF multi THEN Top(q).implicit # "unchecked" /\ p.mtDepth > 0 /\ p.btDepth > (IF outer THEN 1 ELSE 0)
                 ELSE p.qtDepth > 0])

HasNext(p) == Top(p).idx < Len(Top(p).parts)

\* Mutant: the level keeps the implicit split of the part before.
nextPartKeepsImplicit(p) ==
  LET i == Top(p).idx + 1
      step == IF Top(p).split \notin TripleSplits \/ ~HasNext(p) THEN 0 ELSE IF i = 2 THEN -1 ELSE 1
      r == [WithTop(p, [Top(p) EXCEPT !.idx = i]) EXCEPT !.btDepth = @ + step, !.subdiv = @ + step]
  IN IF HasNext(p) THEN AtGroup(r) ELSE r

\* The next part, or past the last one. The middle of three is the larger.
nextPart(p) ==
  LET i == Top(p).idx + 1
      step == IF Top(p).split \notin TripleSplits \/ ~HasNext(p) THEN 0 ELSE IF i = 2 THEN -1 ELSE 1
      q == WithTop(p, [Top(p) EXCEPT !.idx = i, !.implicit = "unchecked"])
      r == [q EXCEPT !.btDepth = @ + step, !.subdiv = @ + step]
  IN IF HasNext(p) THEN AtGroup(r) ELSE r

\* The splits and the mode types on the way to the block: what a coding unit
\* keeps of its path in splitSeries and modeTypeSeries.
getSplitSeries(p) == [d \in 1 .. p.depth |-> p.stack[d + 1].split]
getModeTypeSeries(p) == [d \in 1 .. p.depth |-> p.stack[d + 1].modeType]
=============================================================================
