------------------------- MODULE PartitionerProofs -------------------------
(***************************************************************************)
(* What QTBTPartitioner keeps for every picture and every tree limit: the  *)
(* parts of a split tile the block, leaving a split takes back what        *)
(* entering it and going through its parts added, and a block across the   *)
(* border of the picture can always be split.                              *)
(***************************************************************************)
EXTENDS Partitioner, TLAPS

(* The parts of a split.                                                   *)

Blocks == [x : Int, y : Int, w : Nat, h : Nat]

Block(bx, by, width, height) == [x |-> bx, y |-> by, w |-> width, h |-> height]

\* The four parts of a quad split.
LEMMA QuadParts ==
  ASSUME NEW a
  PROVE  getCUSubPartitions(a, "QUAD") =
           <<Block(a.x + 0, a.y + 0, a.w \div 2, a.h \div 2), Block(a.x + a.w \div 2, a.y + 0, a.w \div 2, a.h \div 2),
             Block(a.x + 0, a.y + a.h \div 2, a.w \div 2, a.h \div 2),
             Block(a.x + a.w \div 2, a.y + a.h \div 2, a.w \div 2, a.h \div 2)>>
  BY DEF getCUSubPartitions, Block

\* The two parts of the binary splits.
LEMMA BinaryParts ==
  ASSUME NEW a
  PROVE  /\ getCUSubPartitions(a, "HORZ") =
              <<Block(a.x + 0, a.y + 0, a.w, a.h \div 2), Block(a.x + 0, a.y + a.h \div 2, a.w, a.h \div 2)>>
         /\ getCUSubPartitions(a, "VERT") =
              <<Block(a.x + 0, a.y + 0, a.w \div 2, a.h), Block(a.x + a.w \div 2, a.y + 0, a.w \div 2, a.h)>>
  BY DEF getCUSubPartitions, Block

\* The three parts of the ternary splits.
LEMMA TripleParts ==
  ASSUME NEW a
  PROVE  /\ getCUSubPartitions(a, "TRIH") =
              <<Block(a.x + 0, a.y + 0, a.w, a.h \div 4), Block(a.x + 0, a.y + a.h \div 4, a.w, a.h \div 2),
                Block(a.x + 0, a.y + 3 * (a.h \div 4), a.w, a.h \div 4)>>
         /\ getCUSubPartitions(a, "TRIV") =
              <<Block(a.x + 0, a.y + 0, a.w \div 4, a.h), Block(a.x + a.w \div 4, a.y + 0, a.w \div 2, a.h),
                Block(a.x + 3 * (a.w \div 4), a.y + 0, a.w \div 4, a.h)>>
  BY DEF getCUSubPartitions, Block

\* A block covers the samples of its rectangle.
LEMMA BlockCovers ==
  ASSUME NEW bx, NEW by, NEW width, NEW height, NEW x, NEW y
  PROVE  Covers(Block(bx, by, width, height), x, y)
           <=> x \in bx .. bx + width - 1 /\ y \in by .. by + height - 1
  BY DEF Covers, Block

\* Every sample of a lies in one and only one of the parts, and no other does.
Tiles(parts, a) ==
  \A x, y \in Int :
    /\ Covers(a, x, y) <=> \E i \in DOMAIN parts : Covers(parts[i], x, y)
    /\ \A i, j \in DOMAIN parts : Covers(parts[i], x, y) /\ Covers(parts[j], x, y) => i = j

\* Whatever the size of a block of whole luma units of four samples, the parts
\* that getCUSubPartitions makes of it for any split tile it.
THEOREM PartsTile ==
  ASSUME NEW a \in Blocks, a.w % 4 = 0, a.h % 4 = 0, NEW split \in Splits
  PROVE  Tiles(getCUSubPartitions(a, split), a)
  <1>0. a.x \in Int /\ a.y \in Int /\ a.w \in Nat /\ a.h \in Nat
    BY DEF Blocks
  <1>1. PICK u \in Nat, v \in Nat : a.w = 4 * u /\ a.h = 4 * v
    BY <1>0
  <1>2. a.w = 4 * u /\ a.h = 4 * v /\ a.w \div 2 = 2 * u /\ a.w \div 4 = u /\ a.h \div 2 = 2 * v /\ a.h \div 4 = v
    BY <1>1
  <1>3. SUFFICES ASSUME NEW parts, parts = getCUSubPartitions(a, split), NEW x \in Int, NEW y \in Int
                 PROVE  /\ Covers(a, x, y) <=> \E i \in DOMAIN parts : Covers(parts[i], x, y)
                        /\ \A i, j \in DOMAIN parts : Covers(parts[i], x, y) /\ Covers(parts[j], x, y) => i = j
    BY DEF Tiles
  <1>4. Covers(a, x, y) <=> x \in a.x .. a.x + 4 * u - 1 /\ y \in a.y .. a.y + 4 * v - 1
    BY <1>1 DEF Covers
  <1>5. CASE split = "QUAD"
    <2>1. parts = <<Block(a.x + 0, a.y + 0, 2 * u, 2 * v),
               Block(a.x + 2 * u, a.y + 0, 2 * u, 2 * v),
               Block(a.x + 0, a.y + 2 * v, 2 * u, 2 * v),
               Block(a.x + 2 * u, a.y + 2 * v, 2 * u, 2 * v)>>
      BY <1>2, <1>3, <1>5, QuadParts
    <2>2. DOMAIN parts = 1 .. 4
      BY <2>1
    <2>3. /\ Covers(parts[1], x, y) <=> x \in a.x + 0 .. a.x + 0 + 2 * u - 1 /\ y \in a.y + 0 .. a.y + 0 + 2 * v - 1
          /\ Covers(parts[2], x, y) <=> x \in a.x + 2 * u .. a.x + 2 * u + 2 * u - 1 /\ y \in a.y + 0 .. a.y + 0 + 2 * v - 1
          /\ Covers(parts[3], x, y) <=> x \in a.x + 0 .. a.x + 0 + 2 * u - 1 /\ y \in a.y + 2 * v .. a.y + 2 * v + 2 * v - 1
          /\ Covers(parts[4], x, y) <=> x \in a.x + 2 * u .. a.x + 2 * u + 2 * u - 1 /\ y \in a.y + 2 * v .. a.y + 2 * v + 2 * v - 1
      BY <2>1, BlockCovers
    <2>. QED BY <1>0, <1>4, <2>2, <2>3
  <1>6. CASE split = "HORZ"
    <2>1. parts = <<Block(a.x + 0, a.y + 0, 4 * u, 2 * v),
               Block(a.x + 0, a.y + 2 * v, 4 * u, 2 * v)>>
      BY <1>2, <1>3, <1>6, BinaryParts
    <2>2. DOMAIN parts = 1 .. 2
      BY <2>1
    <2>3. /\ Covers(parts[1], x, y) <=> x \in a.x + 0 .. a.x + 0 + 4 * u - 1 /\ y \in a.y + 0 .. a.y + 0 + 2 * v - 1
          /\ Covers(parts[2], x, y) <=> x \in a.x + 0 .. a.x + 0 + 4 * u - 1 /\ y \in a.y + 2 * v .. a.y + 2 * v + 2 * v - 1
      BY <2>1, BlockCovers
    <2>. QED BY <1>0, <1>4, <2>2, <2>3
  <1>7. CASE split = "VERT"
    <2>1. parts = <<Block(a.x + 0, a.y + 0, 2 * u, 4 * v),
               Block(a.x + 2 * u, a.y + 0, 2 * u, 4 * v)>>
      BY <1>2, <1>3, <1>7, BinaryParts
    <2>2. DOMAIN parts = 1 .. 2
      BY <2>1
    <2>3. /\ Covers(parts[1], x, y) <=> x \in a.x + 0 .. a.x + 0 + 2 * u - 1 /\ y \in a.y + 0 .. a.y + 0 + 4 * v - 1
          /\ Covers(parts[2], x, y) <=> x \in a.x + 2 * u .. a.x + 2 * u + 2 * u - 1 /\ y \in a.y + 0 .. a.y + 0 + 4 * v - 1
      BY <2>1, BlockCovers
    <2>. QED BY <1>0, <1>4, <2>2, <2>3
  <1>8. CASE split = "TRIH"
    <2>1. parts = <<Block(a.x + 0, a.y + 0, 4 * u, v),
               Block(a.x + 0, a.y + v, 4 * u, 2 * v),
               Block(a.x + 0, a.y + 3 * v, 4 * u, v)>>
      BY <1>2, <1>3, <1>8, TripleParts
    <2>2. DOMAIN parts = 1 .. 3
      BY <2>1
    <2>3. /\ Covers(parts[1], x, y) <=> x \in a.x + 0 .. a.x + 0 + 4 * u - 1 /\ y \in a.y + 0 .. a.y + 0 + v - 1
          /\ Covers(parts[2], x, y) <=> x \in a.x + 0 .. a.x + 0 + 4 * u - 1 /\ y \in a.y + v .. a.y + v + 2 * v - 1
          /\ Covers(parts[3], x, y) <=> x \in a.x + 0 .. a.x + 0 + 4 * u - 1 /\ y \in a.y + 3 * v .. a.y + 3 * v + v - 1
      BY <2>1, BlockCovers
    <2>. QED BY <1>0, <1>4, <2>2, <2>3
  <1>9. CASE split = "TRIV"
    <2>1. parts = <<Block(a.x + 0, a.y + 0, u, 4 * v),
               Block(a.x + u, a.y + 0, 2 * u, 4 * v),
               Block(a.x + 3 * u, a.y + 0, u, 4 * v)>>
      BY <1>2, <1>3, <1>9, TripleParts
    <2>2. DOMAIN parts = 1 .. 3
      BY <2>1
    <2>3. /\ Covers(parts[1], x, y) <=> x \in a.x + 0 .. a.x + 0 + u - 1 /\ y \in a.y + 0 .. a.y + 0 + 4 * v - 1
          /\ Covers(parts[2], x, y) <=> x \in a.x + u .. a.x + u + 2 * u - 1 /\ y \in a.y + 0 .. a.y + 0 + 4 * v - 1
          /\ Covers(parts[3], x, y) <=> x \in a.x + 3 * u .. a.x + 3 * u + u - 1 /\ y \in a.y + 0 .. a.y + 0 + 4 * v - 1
      BY <2>1, BlockCovers
    <2>. QED BY <1>0, <1>4, <2>2, <2>3
  <1>. QED BY <1>5, <1>6, <1>7, <1>8, <1>9 DEF Splits, BinarySplits, TripleSplits
-----------------------------------------------------------------------------
(* The stack.                                                              *)

Implicits == {"QUAD", "HORZ", "VERT", "NO"}
ModeTypes == {"ALL", "INTER", "INTRA"}

Levels ==
  [split : Splits \cup {"CTU"}, parts : Seq(Blocks), idx : Nat, implicit : Implicits \cup {"unchecked"},
   modeType : ModeTypes, qg : BOOLEAN]

Partitioners ==
  [stack : Seq(Levels), depth : Int, qtDepth : Int, btDepth : Int, mtDepth : Int, implicitBt : Int, subdiv : Int,
   qgPos : Int \X Int, chType : {"L", "C"}, treeType : {"D", "L", "C"}, modeType : ModeTypes, ok : BOOLEAN]

\* A partitioner at a block.
AtBlock(p) == p \in Partitioners /\ p.stack # <<>> /\ Top(p).idx \in 1 .. Len(Top(p).parts)

SameCounters(p, q) ==
  /\ p.depth = q.depth /\ p.qtDepth = q.qtDepth /\ p.btDepth = q.btDepth
  /\ p.mtDepth = q.mtDepth /\ p.implicitBt = q.implicitBt /\ p.subdiv = q.subdiv

\* The last element of the partitioner's stack after a push.
LEMMA StackTop ==
  ASSUME NEW S, NEW s \in Seq(S), NEW e \in S
  PROVE  /\ Append(s, e) \in Seq(S) /\ Append(s, e) # <<>>
         /\ Last(Append(s, e)) = e /\ Front(Append(s, e)) = s
  BY DEF Last, Front

\* A stack is its last element on what is below.
LEMMA StackFront ==
  ASSUME NEW S, NEW s \in Seq(S), s # <<>>
  PROVE  /\ Last(s) \in S /\ Front(s) \in Seq(S)
         /\ s = Append(Front(s), Last(s))
  BY DEF Last, Front

\* At a block the stack is not empty, and its top has an area.
LEMMA TopType ==
  ASSUME NEW p, AtBlock(p)
  PROVE  /\ Top(p) \in Levels /\ Front(p.stack) \in Seq(Levels) /\ p.stack = Append(Front(p.stack), Top(p))
         /\ currArea(p) \in Blocks
  <1>1. p.stack \in Seq(Levels) /\ p.stack # <<>>
    BY DEF AtBlock, Partitioners
  <1>2. Top(p) \in Levels /\ Front(p.stack) \in Seq(Levels) /\ p.stack = Append(Front(p.stack), Top(p))
    BY <1>1, StackFront DEF Top
  <1>3. Top(p).parts \in Seq(Blocks)
    BY <1>2 DEF Levels
  <1>4. Top(p).parts[Top(p).idx] \in Blocks
    BY <1>3 DEF AtBlock
  <1>. QED BY <1>2, <1>4 DEF currArea

\* AtGroup changes nothing but the position of the group.
LEMMA GroupFields ==
  ASSUME NEW p, AtBlock(p)
  PROVE  LET q == AtGroup(p)
         IN  /\ AtBlock(q) /\ q.stack = p.stack /\ SameCounters(q, p)
             /\ q.ok = p.ok /\ q.chType = p.chType /\ q.treeType = p.treeType /\ q.modeType = p.modeType
  <1>1. Position(currArea(p)) \in Int \X Int
    BY TopType DEF Position, Blocks
  <1> DEFINE g == [p EXCEPT !.qgPos = Position(currArea(p))]
  <1>2. g \in Partitioners
    BY <1>1 DEF AtBlock, Partitioners
  <1>3. /\ g.stack = p.stack /\ SameCounters(g, p)
        /\ g.ok = p.ok /\ g.chType = p.chType /\ g.treeType = p.treeType /\ g.modeType = p.modeType
    BY DEF AtBlock, Partitioners, SameCounters
  <1>4. AtGroup(p) = g \/ AtGroup(p) = p
    BY DEF AtGroup
  <1> HIDE DEF g
  <1>5. AtBlock(g)
    BY <1>2, <1>3 DEF AtBlock, Top
  <1>. QED BY <1>3, <1>4, <1>5 DEF SameCounters

\* getImplicitSplit returns a split, or none.
LEMMA ImplicitType ==
  ASSUME NEW c, NEW p, AtBlock(p)
  PROVE  getImplicitSplit(c, p) \in Implicits
  <1>1. Top(p).implicit \in Implicits \cup {"unchecked"}
    BY TopType DEF Levels
  <1>2. FoundImplicit(c, p) \in Implicits
    BY Zenon DEF FoundImplicit, Implicits
  <1>. QED BY <1>1, <1>2, Zenon DEF getImplicitSplit

\* Replacing the top of the stack.
LEMMA WithTopFields ==
  ASSUME NEW p, AtBlock(p), NEW level \in Levels
  PROVE  LET q == WithTop(p, level)
         IN  /\ q \in Partitioners /\ q.stack = Append(Front(p.stack), level) /\ q.stack # <<>>
             /\ Top(q) = level /\ Front(q.stack) = Front(p.stack) /\ SameCounters(q, p) /\ q.ok = p.ok
             /\ q.chType = p.chType /\ q.treeType = p.treeType /\ q.modeType = p.modeType
  <1>1. Front(p.stack) \in Seq(Levels)
    BY TopType
  <1>2. PICK st : st = Append(Front(p.stack), level)
    OBVIOUS
  <1>3. st \in Seq(Levels) /\ st # <<>> /\ Last(st) = level /\ Front(st) = Front(p.stack)
    BY <1>1, <1>2, StackTop
  <1>4. WithTop(p, level) = [p EXCEPT !.stack = st]
    BY <1>2 DEF WithTop
  <1> DEFINE q == [p EXCEPT !.stack = st]
  <1>5. q \in Partitioners
    BY <1>3 DEF AtBlock, Partitioners
  <1>6. /\ q.stack = st /\ SameCounters(q, p) /\ q.ok = p.ok
        /\ q.chType = p.chType /\ q.treeType = p.treeType /\ q.modeType = p.modeType
    BY DEF AtBlock, Partitioners, SameCounters
  <1> HIDE DEF q
  <1>. QED BY <1>2, <1>3, <1>4, <1>5, <1>6 DEF Top, q

\* The level that was looked at: its implicit split is known.
Looked(c, p) == [Top(p) EXCEPT !.implicit = getImplicitSplit(c, p)]

\* Looking for the implicit split changes that field of the top only.
LEMMA LookedFields ==
  ASSUME NEW c, NEW p, AtBlock(p)
  PROVE  LET l == Looked(c, p)
         IN  /\ l \in Levels /\ l.implicit = getImplicitSplit(c, p)
             /\ l.split = Top(p).split /\ l.parts = Top(p).parts /\ l.idx = Top(p).idx /\ l.qg = Top(p).qg
             /\ l.modeType = Top(p).modeType
  BY TopType, ImplicitType DEF Looked, Levels

\* canSplit changes the implicit split of the top and nothing else.
LEMMA CheckedFields ==
  ASSUME NEW c, NEW p, AtBlock(p)
  PROVE  LET q == Checked(c, p)
         IN  /\ AtBlock(q) /\ q.stack = Append(Front(p.stack), Looked(c, p)) /\ Top(q) = Looked(c, p)
             /\ SameCounters(q, p) /\ q.ok = p.ok
             /\ q.chType = p.chType /\ q.treeType = p.treeType /\ q.modeType = p.modeType
  <1>1. Checked(c, p) = WithTop(p, Looked(c, p))
    BY DEF Checked, Looked
  <1>2. Looked(c, p).idx \in 1 .. Len(Looked(c, p).parts)
    BY LookedFields DEF AtBlock
  <1>. QED BY <1>1, <1>2, LookedFields, WithTopFields DEF AtBlock


NumParts(split) == IF split = "QUAD" THEN 4 ELSE IF split \in BinarySplits THEN 2 ELSE 3

\* A rectangle is a block.
LEMMA BlockType ==
  ASSUME NEW bx \in Int, NEW by \in Int, NEW width \in Nat, NEW height \in Nat
  PROVE  Block(bx, by, width, height) \in Blocks
  BY DEF Block, Blocks

\* A sequence of one.
LEMMA OneType ==
  ASSUME NEW S, NEW b \in S
  PROVE  <<b>> \in Seq(S) /\ Len(<<b>>) = 1 /\ <<b>>[1] = b
  OBVIOUS

\* A sequence of two.
LEMMA TwoType ==
  ASSUME NEW S, NEW b1 \in S, NEW b2 \in S
  PROVE  <<b1, b2>> \in Seq(S) /\ Len(<<b1, b2>>) = 2
  OBVIOUS

\* A sequence of three.
LEMMA ThreeType ==
  ASSUME NEW S, NEW b1 \in S, NEW b2 \in S, NEW b3 \in S
  PROVE  <<b1, b2, b3>> \in Seq(S) /\ Len(<<b1, b2, b3>>) = 3
  OBVIOUS

\* A sequence of four.
LEMMA FourType ==
  ASSUME NEW S, NEW b1 \in S, NEW b2 \in S, NEW b3 \in S, NEW b4 \in S
  PROVE  <<b1, b2, b3, b4>> \in Seq(S) /\ Len(<<b1, b2, b3, b4>>) = 4
  OBVIOUS

\* getCUSubPartitions returns as many blocks as the split has parts.
LEMMA PartsType ==
  ASSUME NEW a \in Blocks, NEW split \in Splits
  PROVE  /\ getCUSubPartitions(a, split) \in Seq(Blocks)
         /\ Len(getCUSubPartitions(a, split)) = NumParts(split)
  <1>1. /\ a.x \in Int /\ a.y \in Int /\ a.w \in Nat /\ a.h \in Nat
        /\ a.w \div 2 \in Nat /\ a.w \div 4 \in Nat /\ a.h \div 2 \in Nat /\ a.h \div 4 \in Nat
        /\ a.x + 0 \in Int /\ a.x + a.w \div 2 \in Int /\ a.x + a.w \div 4 \in Int /\ a.x + 3 * (a.w \div 4) \in Int
        /\ a.y + 0 \in Int /\ a.y + a.h \div 2 \in Int /\ a.y + a.h \div 4 \in Int /\ a.y + 3 * (a.h \div 4) \in Int
    BY DEF Blocks
  <1>2. CASE split = "QUAD"
    <2>1. PICK b1 \in Blocks, b2 \in Blocks, b3 \in Blocks, b4 \in Blocks :
             /\ b1 = Block(a.x + 0, a.y + 0, a.w \div 2, a.h \div 2)
             /\ b2 = Block(a.x + a.w \div 2, a.y + 0, a.w \div 2, a.h \div 2)
             /\ b3 = Block(a.x + 0, a.y + a.h \div 2, a.w \div 2, a.h \div 2)
             /\ b4 = Block(a.x + a.w \div 2, a.y + a.h \div 2, a.w \div 2, a.h \div 2)
      BY <1>1, BlockType, Zenon
    <2>2. getCUSubPartitions(a, split) = <<b1, b2, b3, b4>>
      BY <1>2, <2>1, QuadParts, Zenon
    <2>3. NumParts(split) = 4
      BY <1>2 DEF NumParts, BinarySplits
    <2>. QED BY <2>2, <2>3, FourType, Zenon
  <1>3. CASE split = "HORZ"
    <2>1. PICK b1 \in Blocks, b2 \in Blocks :
             /\ b1 = Block(a.x + 0, a.y + 0, a.w, a.h \div 2)
             /\ b2 = Block(a.x + 0, a.y + a.h \div 2, a.w, a.h \div 2)
      BY <1>1, BlockType, Zenon
    <2>2. getCUSubPartitions(a, split) = <<b1, b2>>
      BY <1>3, <2>1, BinaryParts, Zenon
    <2>3. NumParts(split) = 2
      BY <1>3 DEF NumParts, BinarySplits
    <2>. QED BY <2>2, <2>3, TwoType, Zenon
  <1>4. CASE split = "VERT"
    <2>1. PICK b1 \in Blocks, b2 \in Blocks :
             /\ b1 = Block(a.x + 0, a.y + 0, a.w \div 2, a.h)
             /\ b2 = Block(a.x + a.w \div 2, a.y + 0, a.w \div 2, a.h)
      BY <1>1, BlockType, Zenon
    <2>2. getCUSubPartitions(a, split) = <<b1, b2>>
      BY <1>4, <2>1, BinaryParts, Zenon
    <2>3. NumParts(split) = 2
      BY <1>4 DEF NumParts, BinarySplits
    <2>. QED BY <2>2, <2>3, TwoType, Zenon
  <1>5. CASE split = "TRIH"
    <2>1. PICK b1 \in Blocks, b2 \in Blocks, b3 \in Blocks :
             /\ b1 = Block(a.x + 0, a.y + 0, a.w, a.h \div 4)
             /\ b2 = Block(a.x + 0, a.y + a.h \div 4, a.w, a.h \div 2)
             /\ b3 = Block(a.x + 0, a.y + 3 * (a.h \div 4), a.w, a.h \div 4)
      BY <1>1, BlockType, Zenon
    <2>2. getCUSubPartitions(a, split) = <<b1, b2, b3>>
      BY <1>5, <2>1, TripleParts, Zenon
    <2>3. NumParts(split) = 3
      BY <1>5 DEF NumParts, BinarySplits
    <2>. QED BY <2>2, <2>3, ThreeType, Zenon
  <1>6. CASE split = "TRIV"
    <2>1. PICK b1 \in Blocks, b2 \in Blocks, b3 \in Blocks :
             /\ b1 = Block(a.x + 0, a.y + 0, a.w \div 4, a.h)
             /\ b2 = Block(a.x + a.w \div 4, a.y + 0, a.w \div 2, a.h)
             /\ b3 = Block(a.x + 3 * (a.w \div 4), a.y + 0, a.w \div 4, a.h)
      BY <1>1, BlockType, Zenon
    <2>2. getCUSubPartitions(a, split) = <<b1, b2, b3>>
      BY <1>6, <2>1, TripleParts, Zenon
    <2>3. NumParts(split) = 3
      BY <1>6 DEF NumParts, BinarySplits
    <2>. QED BY <2>2, <2>3, ThreeType, Zenon
  <1>. QED BY <1>2, <1>3, <1>4, <1>5, <1>6 DEF Splits, BinarySplits, TripleSplits

\* How much a level adds to btDepth and to subdiv at its part i.
BtStep(split, i) == IF split \in TripleSplits THEN IF i = 2 THEN 1 ELSE 2 ELSE 1
SubdivStep(split, i) == IF split = "QUAD" THEN 2 ELSE BtStep(split, i)

\* q is at part i of the split of p's block.
InPart(c, p, split, i, q) ==
  LET multi == split # "QUAD"
  IN /\ AtBlock(q)
     /\ Top(q).split = split /\ Top(q).idx = i /\ Top(q).parts = getCUSubPartitions(currArea(p), split)
     /\ Front(q.stack) = Append(Front(p.stack), Looked(c, p))
     /\ q.depth = p.depth + 1
     /\ q.subdiv = p.subdiv + SubdivStep(split, i)
     /\ q.btDepth = (IF multi THEN p.btDepth + BtStep(split, i) ELSE 0)
     /\ q.mtDepth = (IF multi THEN p.mtDepth + 1 ELSE 0)
     /\ q.qtDepth = (IF multi THEN p.qtDepth ELSE p.qtDepth + 1)
     /\ q.implicitBt = (IF multi /\ getImplicitSplit(c, p) = split THEN p.implicitBt + 1 ELSE p.implicitBt)

\* What splitCurrArea checks of the split itself.
Legal(c, p, split) == split \in canSplit(c, p) /\ (split = "QUAD" => p.btDepth = 0 /\ p.mtDepth = 0)

\* splitCurrArea enters the first part, and its checks accept legal splits only.
LEMMA SplitEnters ==
  ASSUME NEW c, NEW p, AtBlock(p), NEW split \in Splits
  PROVE  /\ InPart(c, p, split, 1, splitCurrArea(c, p, split))
         /\ splitCurrArea(c, p, split).ok => p.ok /\ Legal(c, p, split)
  <1> DEFINE parts == getCUSubPartitions(currArea(p), split)
             multi == split # "QUAD"
             triple == split \in TripleSplits
             subdiv == p.subdiv + (IF triple \/ split = "QUAD" THEN 2 ELSE 1)
             level == Level(split, parts, p.modeType, Top(p).qg /\ subdiv <= c.qpSub)
             q == Checked(c, p)
             fits == /\ q.ok
                     /\ split \in canSplit(c, p)
                     /\ multi \/ (p.btDepth = 0 /\ p.mtDepth = 0)
                     /\ \A i \in DOMAIN parts : parts[i].w >= MIN_TB_SIZEY /\ parts[i].h >= MIN_TB_SIZEY
             bt == IF multi THEN q.btDepth + (IF triple THEN 2 ELSE 1) ELSE 0
             mt == IF multi THEN q.mtDepth + 1 ELSE 0
             qt == IF multi THEN q.qtDepth ELSE q.qtDepth + 1
             im == IF multi /\ Top(q).implicit = split THEN q.implicitBt + 1 ELSE q.implicitBt
             st == Append(q.stack, level)
             r == [q EXCEPT !.stack = st, !.depth = q.depth + 1, !.subdiv = subdiv, !.btDepth = bt, !.mtDepth = mt,
                            !.qtDepth = qt, !.implicitBt = im, !.ok = fits]
  <1>1. splitCurrArea(c, p, split) = AtGroup(r)
    BY Zenon DEF splitCurrArea
  <1>2. /\ q \in Partitioners /\ q.stack \in Seq(Levels) /\ q.stack = Append(Front(p.stack), Looked(c, p))
        /\ Top(q) = Looked(c, p) /\ SameCounters(q, p) /\ q.ok = p.ok
    <2>1. AtBlock(Checked(c, p)) /\ q.stack = Append(Front(p.stack), Looked(c, p)) /\ Top(q) = Looked(c, p)
          /\ SameCounters(q, p) /\ q.ok = p.ok
      BY CheckedFields
    <2> HIDE DEF q
    <2>. QED BY <2>1 DEF AtBlock, Partitioners, q
  <1>3. parts \in Seq(Blocks) /\ Len(parts) = NumParts(split) /\ NumParts(split) >= 1 /\ NumParts(split) \in Nat
    BY TopType, PartsType DEF NumParts
  <1>4. p.modeType \in ModeTypes
    BY DEF AtBlock, Partitioners
  <1>5. level \in Levels /\ level.split = split /\ level.idx = 1 /\ level.parts = parts
    <2> HIDE DEF parts, subdiv
    <2>1. (Top(p).qg /\ subdiv <= c.qpSub) \in BOOLEAN
      BY Zenon
    <2>2. PICK b \in BOOLEAN : b = (Top(p).qg /\ subdiv <= c.qpSub)
      BY <2>1, Zenon
    <2>3. level = Level(split, parts, p.modeType, b)
      BY <2>2, Zenon
    <2>. QED BY <1>3, <1>4, <2>3 DEF Level, Levels
  <1> HIDE DEF level, parts
  <1>6. st \in Seq(Levels) /\ st # <<>> /\ Last(st) = level /\ Front(st) = q.stack
    BY <1>2, <1>5, StackTop
  <1>7. /\ q.depth + 1 \in Int /\ subdiv \in Int /\ bt \in Int /\ mt \in Int /\ qt \in Int /\ im \in Int
    <2>1. /\ p.subdiv \in Int /\ q.depth \in Int /\ q.btDepth \in Int /\ q.mtDepth \in Int /\ q.qtDepth \in Int
          /\ q.implicitBt \in Int
      BY <1>2 DEF AtBlock, Partitioners
    <2> HIDE DEF q
    <2>. QED BY <2>1
  <1>8. fits \in BOOLEAN
    BY Zenon
  <1>9. /\ r \in Partitioners
        /\ r.stack = st /\ r.depth = q.depth + 1 /\ r.subdiv = subdiv /\ r.btDepth = bt /\ r.mtDepth = mt
        /\ r.qtDepth = qt /\ r.implicitBt = im /\ r.ok = fits
    <2> HIDE DEF q, st, subdiv, bt, mt, qt, im, fits
    <2>. QED BY <1>2, <1>6, <1>7, <1>8, Zenon DEF Partitioners
  <1>10. AtBlock(r)
    <2>1. Top(r) = level
      BY <1>6, <1>9 DEF Top
    <2>. QED BY <1>3, <1>5, <1>6, <1>9, <2>1 DEF AtBlock
  <1>11. InPart(c, p, split, 1, r) /\ (r.ok => p.ok /\ Legal(c, p, split))
    <2>1. Top(r) = level /\ Front(r.stack) = q.stack
      BY <1>6, <1>9 DEF Top
    <2>2. Top(q).implicit = getImplicitSplit(c, p)
      BY <1>2, LookedFields
    <2>3. /\ r.depth = p.depth + 1 /\ r.subdiv = p.subdiv + SubdivStep(split, 1)
          /\ r.btDepth = (IF multi THEN p.btDepth + BtStep(split, 1) ELSE 0)
          /\ r.mtDepth = (IF multi THEN p.mtDepth + 1 ELSE 0)
          /\ r.qtDepth = (IF multi THEN p.qtDepth ELSE p.qtDepth + 1)
          /\ r.implicitBt = (IF multi /\ getImplicitSplit(c, p) = split THEN p.implicitBt + 1 ELSE p.implicitBt)
      <3> HIDE DEF q, r
      <3>. QED BY <1>2, <1>9, <2>2 DEF SameCounters, SubdivStep, BtStep, Splits, BinarySplits, TripleSplits
    <2>4. r.ok => p.ok /\ Legal(c, p, split)
      <3> HIDE DEF r
      <3>. QED BY <1>2, <1>9, Zenon DEF Legal
    <2> HIDE DEF r, q
    <2>. QED BY <1>2, <1>3, <1>5, <1>10, <2>1, <2>3, <2>4, Zenon DEF InPart, parts
  <1> HIDE DEF r
  <1>. QED BY <1>1, <1>11, GroupFields DEF InPart, SameCounters, Top

\* nextPart goes from a part to the one after it.
LEMMA NextMoves ==
  ASSUME NEW c, NEW p, AtBlock(p), NEW split \in Splits, NEW i \in 1 .. NumParts(split) - 1, NEW r, InPart(c, p, split, i, r)
  PROVE  InPart(c, p, split, i + 1, nextPart(r)) /\ nextPart(r).ok = r.ok
  <1> DEFINE level == [Top(r) EXCEPT !.idx = i + 1, !.implicit = "unchecked"]
             step == IF split \notin TripleSplits THEN 0 ELSE IF i + 1 = 2 THEN -1 ELSE 1
             q == WithTop(r, level)
             n == [q EXCEPT !.btDepth = q.btDepth + step, !.subdiv = q.subdiv + step]
  <1>1. /\ AtBlock(r) /\ Top(r) \in Levels /\ Top(r).split = split /\ Top(r).idx = i /\ NumParts(split) \in Nat
        /\ i \in Nat /\ i + 1 \in 1 .. NumParts(split)
    BY TopType DEF InPart, NumParts
  <1>a. Len(Top(r).parts) = NumParts(split)
    BY TopType, PartsType DEF InPart
  <1>2. HasNext(r)
    BY <1>1, <1>a DEF HasNext
  <1>3. nextPart(r) = AtGroup(n)
    BY <1>1, <1>2, Zenon DEF nextPart
  <1>4. /\ level \in Levels /\ level.split = split /\ level.idx = i + 1 /\ level.parts = Top(r).parts
    <2>1. i + 1 \in Nat
      BY <1>1
    <2>. QED BY <1>1, <2>1, Zenon DEF Levels
  <1> HIDE DEF level
  <1>5. /\ q \in Partitioners /\ q.stack # <<>> /\ Top(q) = level /\ Front(q.stack) = Front(r.stack)
        /\ SameCounters(q, r) /\ q.ok = r.ok
    BY <1>1, <1>4, WithTopFields
  <1> HIDE DEF q
  <1>6. q.btDepth \in Int /\ q.subdiv \in Int /\ step \in Int
    BY <1>5 DEF Partitioners
  <1>7. /\ n \in Partitioners /\ n.stack = q.stack /\ n.btDepth = q.btDepth + step /\ n.subdiv = q.subdiv + step
        /\ n.depth = q.depth /\ n.qtDepth = q.qtDepth /\ n.mtDepth = q.mtDepth /\ n.implicitBt = q.implicitBt
        /\ n.ok = q.ok
    <2> HIDE DEF step
    <2>1. q.btDepth + step \in Int /\ q.subdiv + step \in Int
      BY <1>6
    <2>. QED BY <1>5, <2>1, Zenon DEF Partitioners
  <1> HIDE DEF n
  <1>8. AtBlock(n) /\ Top(n) = level /\ Front(n.stack) = Front(r.stack)
    BY <1>1, <1>a, <1>4, <1>5, <1>7 DEF AtBlock, Top
  <1>9. /\ split # "QUAD" => BtStep(split, i + 1) = BtStep(split, i) + step
        /\ split = "QUAD" => step = 0
        /\ SubdivStep(split, i + 1) = SubdivStep(split, i) + step
        /\ BtStep(split, i) \in Int /\ SubdivStep(split, i) \in Int
    BY <1>1 DEF BtStep, SubdivStep, NumParts, Splits, BinarySplits, TripleSplits
  <1>10. p.btDepth \in Int /\ p.subdiv \in Int
    BY DEF AtBlock, Partitioners
  <1> HIDE DEF step
  <1>11. /\ n.subdiv = p.subdiv + SubdivStep(split, i + 1)
         /\ n.btDepth = (IF split # "QUAD" THEN p.btDepth + BtStep(split, i + 1) ELSE 0)
    <2>1. /\ r.subdiv = p.subdiv + SubdivStep(split, i)
          /\ split # "QUAD" => r.btDepth = p.btDepth + BtStep(split, i)
          /\ split = "QUAD" => r.btDepth = 0
          /\ n.btDepth = r.btDepth + step /\ n.subdiv = r.subdiv + step
      BY <1>5, <1>7, Zenon DEF InPart, SameCounters
    <2>. QED BY <1>6, <1>9, <1>10, <2>1
  <1>12. InPart(c, p, split, i + 1, n)
    BY <1>1, <1>4, <1>5, <1>7, <1>8, <1>11, Zenon DEF InPart, SameCounters
  <1>. QED BY <1>3, <1>5, <1>7, <1>12, GroupFields DEF InPart, SameCounters, Top

\* A binary or triple split that may be made of a block with an implicit split
\* is that split.
LEMMA LegalImplicit ==
  ASSUME NEW c, NEW p, NEW split \in Splits, split # "QUAD", split \in canSplit(c, p)
  PROVE  getImplicitSplit(c, p) = split \/ getImplicitSplit(c, p) = "NO"
  BY Zenon DEF canSplit, Splits, BinarySplits, TripleSplits


\* e is back at p's block, which was looked at.
Restored(c, p, e) == AtBlock(e) /\ SameCounters(e, p) /\ e.stack = Append(Front(p.stack), Looked(c, p))

CountersNatural(p) == p.depth \in Nat /\ p.qtDepth \in Nat /\ p.btDepth \in Nat /\ p.mtDepth \in Nat

\* nextPart after the last part, then exitCurrSplit.
LEMMA ExitRestores ==
  ASSUME NEW c, NEW p, AtBlock(p), CountersNatural(p), NEW split \in Splits, Legal(c, p, split),
         NEW r, InPart(c, p, split, NumParts(split), r)
  PROVE  LET e == exitCurrSplit(nextPart(r)) IN Restored(c, p, e) /\ e.ok = r.ok
  <1> DEFINE k == NumParts(split)
             level == [Top(r) EXCEPT !.idx = k + 1, !.implicit = "unchecked"]
             w == WithTop(r, level)
             n == [w EXCEPT !.btDepth = w.btDepth + 0, !.subdiv = w.subdiv + 0]
  <1>1. /\ AtBlock(r) /\ Top(r) \in Levels /\ Top(r).split = split /\ Top(r).idx = k /\ k \in Nat /\ k + 1 \in Nat
    BY TopType DEF InPart, NumParts
  <1>a. Len(Top(r).parts) = k
    BY TopType, PartsType DEF InPart
  <1>2. ~HasNext(r)
    BY <1>1, <1>a DEF HasNext
  <1>3. nextPart(r) = n
    BY <1>1, <1>2, Zenon DEF nextPart
  <1>4. level \in Levels /\ level.split = split /\ level.idx = k + 1
    BY <1>1, Zenon DEF Levels
  <1> HIDE DEF level
  <1>5. /\ w \in Partitioners /\ w.stack # <<>> /\ Top(w) = level /\ Front(w.stack) = Front(r.stack)
        /\ SameCounters(w, r) /\ w.ok = r.ok
    BY <1>1, <1>4, WithTopFields
  <1> HIDE DEF w
  <1>6. /\ n \in Partitioners /\ n.stack = w.stack /\ SameCounters(n, w) /\ n.ok = w.ok
    <2>1. w.btDepth \in Int /\ w.subdiv \in Int /\ w.btDepth + 0 = w.btDepth /\ w.subdiv + 0 = w.subdiv
      BY <1>5 DEF Partitioners
    <2>2. n = [w EXCEPT !.btDepth = w.btDepth, !.subdiv = w.subdiv]
      BY <2>1, Zenon
    <2>. QED BY <1>5, <2>1, <2>2, Zenon DEF Partitioners, SameCounters
  <1> HIDE DEF n
  <1>7. PICK st : st = Append(Front(p.stack), Looked(c, p))
    OBVIOUS
  <1>8. st \in Seq(Levels) /\ st # <<>> /\ Last(st) = Looked(c, p) /\ Looked(c, p).implicit = getImplicitSplit(c, p)
    BY <1>7, StackTop, TopType, LookedFields
  <1>9. Top(n).split = split /\ Top(n).idx = k + 1 /\ Front(n.stack) = st
    BY <1>4, <1>5, <1>6, <1>7 DEF InPart, Top
  <1> DEFINE multi == split # "QUAD"
             outer == split \in TripleSplits /\ k + 1 # 2
             q == [n EXCEPT !.stack = st]
             dp == q.depth - 1
             sd == q.subdiv - (IF outer \/ ~multi THEN 2 ELSE 1)
             bt == IF multi THEN q.btDepth - (IF outer THEN 2 ELSE 1) ELSE q.btDepth
             mt == IF multi THEN q.mtDepth - 1 ELSE q.mtDepth
             qt == IF multi THEN q.qtDepth ELSE q.qtDepth - 1
             im == IF multi /\ Top(q).implicit # "NO" THEN q.implicitBt - 1 ELSE q.implicitBt
             okk == /\ q.ok
                    /\ n.depth > 0
                    /\ IF multi THEN Top(q).implicit # "unchecked" /\ n.mtDepth > 0 /\ n.btDepth > (IF outer THEN 1 ELSE 0)
                       ELSE n.qtDepth > 0
             x == [q EXCEPT !.depth = dp, !.subdiv = sd, !.btDepth = bt, !.mtDepth = mt, !.qtDepth = qt,
                            !.implicitBt = im, !.ok = okk]
  <1>10. exitCurrSplit(n) = AtGroup(x)
    BY <1>9, Zenon DEF exitCurrSplit
  <1>11. /\ q \in Partitioners /\ q.stack = st /\ SameCounters(q, n) /\ q.ok = n.ok
    BY <1>6, <1>8, Zenon DEF Partitioners, SameCounters
  <1>12. Top(q).implicit = getImplicitSplit(c, p)
    <2> HIDE DEF q
    <2>. QED BY <1>8, <1>11 DEF Top
  <1> HIDE DEF q
  <1>13. /\ p.depth \in Nat /\ p.qtDepth \in Nat /\ p.btDepth \in Nat /\ p.mtDepth \in Nat /\ p.implicitBt \in Int
         /\ p.subdiv \in Int
    BY DEF AtBlock, Partitioners, CountersNatural
  <1>14. /\ SameCounters(q, r) /\ SameCounters(n, r) /\ q.ok = r.ok
    BY <1>5, <1>6, <1>11 DEF SameCounters
  <1>15. /\ q.depth = p.depth + 1 /\ q.subdiv = p.subdiv + SubdivStep(split, k)
         /\ q.btDepth = (IF multi THEN p.btDepth + BtStep(split, k) ELSE 0)
         /\ q.mtDepth = (IF multi THEN p.mtDepth + 1 ELSE 0)
         /\ q.qtDepth = (IF multi THEN p.qtDepth ELSE p.qtDepth + 1)
         /\ q.implicitBt = (IF multi /\ getImplicitSplit(c, p) = split THEN p.implicitBt + 1 ELSE p.implicitBt)
    BY <1>14, Zenon DEF InPart, SameCounters
  <1>16. /\ BtStep(split, k) = (IF outer THEN 2 ELSE 1)
         /\ SubdivStep(split, k) = (IF outer \/ ~multi THEN 2 ELSE 1)
    BY <1>1 DEF BtStep, SubdivStep, NumParts, Splits, BinarySplits, TripleSplits
  <1>17. dp = p.depth /\ sd = p.subdiv /\ qt = p.qtDepth
    BY <1>13, <1>15, <1>16
  <1>18. bt = p.btDepth /\ mt = p.mtDepth
    BY <1>13, <1>15, <1>16 DEF Legal
  <1>19. im = p.implicitBt
    <2>1. multi => getImplicitSplit(c, p) = split \/ getImplicitSplit(c, p) = "NO"
      BY LegalImplicit DEF Legal
    <2>2. split # "NO"
      BY DEF Splits, BinarySplits, TripleSplits
    <2>. QED BY <1>12, <1>13, <1>15, <2>1, <2>2
  <1>20. okk = q.ok
    <2>1. n.depth > 0 /\ (~multi => n.qtDepth > 0) /\ (multi => n.mtDepth > 0 /\ n.btDepth > (IF outer THEN 1 ELSE 0))
      BY <1>11, <1>13, <1>15, <1>16 DEF SameCounters
    <2>2. Top(q).implicit # "unchecked"
      BY <1>12, ImplicitType DEF Implicits
    <2>3. q.ok \in BOOLEAN
      BY <1>11 DEF Partitioners
    <2>. QED BY <2>1, <2>2, <2>3, Zenon
  <1>21. /\ x \in Partitioners /\ x.stack = st /\ SameCounters(x, p) /\ x.ok = q.ok
    <2> HIDE DEF dp, sd, bt, mt, qt, im, okk
    <2>1. q.ok \in BOOLEAN
      BY <1>11 DEF Partitioners
    <2>2. p.depth \in Int /\ p.qtDepth \in Int /\ p.btDepth \in Int /\ p.mtDepth \in Int
      BY <1>13
    <2>. QED BY <1>11, <1>13, <1>17, <1>18, <1>19, <1>20, <2>1, <2>2, Zenon DEF Partitioners, SameCounters
  <1> HIDE DEF x
  <1>22. AtBlock(x)
    BY <1>8, <1>21, LookedFields DEF AtBlock, Top
  <1>. QED BY <1>3, <1>7, <1>10, <1>14, <1>21, <1>22, GroupFields DEF Restored, SameCounters

\* A split inside a part, once it is left, keeps the place in the outer one.
LEMMA NestedKeeps ==
  ASSUME NEW c, NEW d, NEW p, NEW split, NEW i, NEW r, InPart(c, p, split, i, r), NEW e, Restored(d, r, e)
  PROVE  InPart(c, p, split, i, e)
  <1>1. AtBlock(r) /\ Front(r.stack) \in Seq(Levels)
    BY TopType DEF InPart
  <1>2. Looked(d, r) \in Levels /\ Looked(d, r).split = Top(r).split /\ Looked(d, r).parts = Top(r).parts
        /\ Looked(d, r).idx = Top(r).idx
    BY <1>1, LookedFields
  <1>3. Top(e) = Looked(d, r) /\ Front(e.stack) = Front(r.stack)
    BY <1>1, <1>2, StackTop DEF Restored, Top
  <1>. QED BY <1>2, <1>3, Zenon DEF InPart, Restored, SameCounters

\* Inside a part the depth counters are natural numbers.
LEMMA PartCounters ==
  ASSUME NEW c, NEW p, CountersNatural(p), NEW split \in Splits, NEW i, NEW r, InPart(c, p, split, i, r)
  PROVE  CountersNatural(r)
  BY DEF InPart, CountersNatural, BtStep

\* A split that passes the checks of splitCurrArea leads to its first part,
\* nextPart leads from each part to the next, a split made inside a part and
\* left again keeps the place, and exitCurrSplit after the last part passes its
\* own checks and is back at the block, with the stack and every depth as they
\* were. It is the step of the induction over the coding tree that shows that
\* a walk of any tree restores the partitioner.
THEOREM ExitUndoesSplit ==
  ASSUME NEW c, NEW p, AtBlock(p), CountersNatural(p), NEW split \in Splits, splitCurrArea(c, p, split).ok
  PROVE  /\ InPart(c, p, split, 1, splitCurrArea(c, p, split))
         /\ \A i \in 1 .. NumParts(split) : \A r :
              InPart(c, p, split, i, r) =>
                /\ CountersNatural(r)
                /\ i < NumParts(split) => InPart(c, p, split, i + 1, nextPart(r)) /\ nextPart(r).ok = r.ok
                /\ \A e : Restored(c, r, e) => InPart(c, p, split, i, e)
                /\ i = NumParts(split) => /\ Restored(c, p, exitCurrSplit(nextPart(r)))
                                          /\ exitCurrSplit(nextPart(r)).ok = r.ok
  <1>1. InPart(c, p, split, 1, splitCurrArea(c, p, split)) /\ Legal(c, p, split)
    BY SplitEnters
  <1>2. ASSUME NEW i \in 1 .. NumParts(split), NEW r, InPart(c, p, split, i, r)
        PROVE  /\ CountersNatural(r)
               /\ i < NumParts(split) => InPart(c, p, split, i + 1, nextPart(r)) /\ nextPart(r).ok = r.ok
               /\ \A e : Restored(c, r, e) => InPart(c, p, split, i, e)
               /\ i = NumParts(split) => /\ Restored(c, p, exitCurrSplit(nextPart(r)))
                                         /\ exitCurrSplit(nextPart(r)).ok = r.ok
    <2>1. CountersNatural(r)
      BY <1>2, PartCounters
    <2>2. ASSUME i < NumParts(split)
          PROVE  InPart(c, p, split, i + 1, nextPart(r)) /\ nextPart(r).ok = r.ok
      <3>1. i \in 1 .. NumParts(split) - 1
        BY <2>2 DEF NumParts
      <3>. QED BY <1>2, <3>1, NextMoves
    <2>3. ASSUME NEW e, Restored(c, r, e)
          PROVE  InPart(c, p, split, i, e)
      BY <1>2, <2>3, NestedKeeps
    <2>4. ASSUME i = NumParts(split)
          PROVE  Restored(c, p, exitCurrSplit(nextPart(r))) /\ exitCurrSplit(nextPart(r)).ok = r.ok
      BY <1>1, <1>2, <2>4, ExitRestores
    <2>. QED BY <2>1, <2>2, <2>3, <2>4
  <1>. QED BY <1>1, <1>2
-----------------------------------------------------------------------------
(* Blocks across the border.                                               *)

Sizes == {4, 8, 16, 32, 64, 128}

\* What the sequence parameter set guarantees: whole minimal coding units in
\* the picture, binary splits that start no smaller than quad splits end.
PictureFits(c) ==
  /\ c.w \in Nat /\ c.h \in Nat /\ c.w % 8 = 0 /\ c.h % 8 = 0
  /\ c.sx \in {0, 1} /\ c.dual \in BOOLEAN
  /\ \A ch \in {"L", "C"} : LET lim == Limits(c, ch)
                           IN lim.minQt \in Nat /\ lim.maxBt \in Nat /\ lim.minQt <= lim.maxBt

Crosses(c, a) == ~Inside(c, a.x, a.y + a.h - 1) \/ ~Inside(c, a.x + a.w - 1, a.y)

Large(a) == a.w > MAX_TB_SIZEY \/ a.h > MAX_TB_SIZEY

\* What holds of each block in the picture on the way down a tree: block a, a
\* part of a split, in the tree of a channel with limits lim, at depth bt.
Fits(c, lim, a, split, bt) ==
  /\ a \in Blocks /\ Inside(c, a.x, a.y)
  /\ Crosses(c, a) =>
       /\ a.x \in Nat /\ a.y \in Nat /\ a.w \in Sizes /\ a.h \in Sizes /\ a.x % a.w = 0 /\ a.y % a.h = 0
       /\ \/ split \in {"CTU", "QUAD"} /\ a.w = a.h
          \/ split \in BinarySplits /\ a.w <= lim.maxBt /\ a.h <= lim.maxBt /\ ~Large(a) /\ bt > 0
  /\ c.dual /\ Large(a) => split \in {"CTU", "QUAD"} /\ a.w = 128 /\ a.h = 128

\* A block across the border is larger there than the smallest coding unit.
LEMMA CrossesWide ==
  ASSUME NEW cw \in Nat, cw % 8 = 0, NEW x \in Nat, NEW w \in Sizes, x % w = 0, x < cw, ~(x + w - 1 < cw)
  PROVE  w > 8
  <1>1. CASE w = 4
    BY <1>1
  <1>2. CASE w = 8
    BY <1>2
  <1>. QED BY <1>1, <1>2 DEF Sizes

\* Chroma of a block of 16 or more is wider than 4.
LEMMA ChromaSizes ==
  ASSUME NEW c, c.sx \in {0, 1}, NEW a, a.w \in Nat, a.w >= 16
  PROVE  ChromaWidth(c, a) > 4
  <1>1. 2 ^ 0 = 1 /\ 2 ^ 1 = 2
    OBVIOUS
  <1>2. CASE c.sx = 0
    BY <1>1, <1>2 DEF ChromaWidth
  <1>3. CASE c.sx = 1
    BY <1>1, <1>3 DEF ChromaWidth
  <1>. QED BY <1>2, <1>3

\* p is at a block that fits, and has looked at nothing else.
BlockFits(c, p) ==
  /\ AtBlock(p) /\ p.btDepth \in Nat
  /\ Top(p).implicit \in {"unchecked", FoundImplicit(c, p)}
  /\ Fits(c, Limits(c, p.chType), currArea(p), Top(p).split, p.btDepth)

\* Where getImplicitSplit forces a split, and which the limits then allow.
LEMMA FoundSplits ==
  ASSUME NEW c, PictureFits(c), NEW p, BlockFits(c, p)
  PROVE  LET a == currArea(p)
             lim == Limits(c, p.chType)
             found == getImplicitSplit(c, p)
         IN /\ found \in Implicits
            /\ found = "QUAD" =>
                 /\ Top(p).split \in {"CTU", "QUAD"} /\ a.w = a.h /\ a.w >= 16
                 /\ a.w > lim.minQt \/ (Large(a) /\ (c.dual \/ Crosses(c, a)))
            /\ found = "HORZ" => Crosses(c, a) /\ a.h >= 16 /\ a.w <= lim.maxBt /\ a.h <= lim.maxBt /\ ~Large(a)
            /\ found = "VERT" => Crosses(c, a) /\ a.w >= 16 /\ a.w <= lim.maxBt /\ a.h <= lim.maxBt /\ ~Large(a)
            /\ found = "NO" => ~Crosses(c, a) /\ ~(c.dual /\ Large(a))
  <1> DEFINE a == currArea(p)
             lim == Limits(c, p.chType)
             bl == Inside(c, a.x, a.y + a.h - 1)
             tr == Inside(c, a.x + a.w - 1, a.y)
             bt == a.w <= lim.maxBt /\ a.h <= lim.maxBt
             qt == a.w > lim.minQt /\ a.h > lim.minQt /\ p.btDepth = 0
             found == FoundImplicit(c, p)
  <1>1. getImplicitSplit(c, p) = found
    BY DEF BlockFits, getImplicitSplit
  <1>2. found = IF Large(a) /\ (c.dual \/ ~bl \/ ~tr) THEN "QUAD"
                ELSE IF ~bl /\ ~tr /\ qt THEN "QUAD"
                ELSE IF ~bl /\ bt THEN "HORZ"
                ELSE IF ~tr /\ bt THEN "VERT"
                ELSE IF ~bl \/ ~tr THEN "QUAD" ELSE "NO"
    BY Zenon DEF FoundImplicit, Large
  <1>3. Fits(c, lim, a, Top(p).split, p.btDepth) /\ p.btDepth \in Nat
    BY DEF BlockFits
  <1>4. /\ a.x \in Int /\ a.y \in Int /\ a.w \in Nat /\ a.h \in Nat /\ Inside(c, a.x, a.y)
        /\ c.w \in Nat /\ c.h \in Nat /\ c.w % 8 = 0 /\ c.h % 8 = 0
    BY <1>3 DEF Fits, Blocks, PictureFits
  <1>5. p.chType \in {"L", "C"}
    BY DEF BlockFits, AtBlock, Partitioners
  <1>6. lim.minQt \in Nat /\ lim.maxBt \in Nat /\ lim.minQt <= lim.maxBt
    BY <1>5 DEF PictureFits
  <1>7. Crosses(c, a) <=> ~bl \/ ~tr
    BY DEF Crosses
  <1> HIDE DEF a, lim, found
  <1>8. ASSUME ~bl PROVE a.h >= 16 /\ a.h \in Sizes
    <2>1. a.y \in Nat /\ a.h \in Sizes /\ a.y % a.h = 0
      BY <1>3, <1>7, <1>8 DEF Fits
    <2>2. a.y < c.h /\ ~(a.y + a.h - 1 < c.h)
      BY <1>4, <1>8 DEF Inside
    <2>3. a.h > 8
      BY <1>4, <2>1, <2>2, CrossesWide
    <2>. QED BY <2>1, <2>3 DEF Sizes
  <1>9. ASSUME ~tr PROVE a.w >= 16 /\ a.w \in Sizes
    <2>1. a.x \in Nat /\ a.w \in Sizes /\ a.x % a.w = 0
      BY <1>3, <1>7, <1>9 DEF Fits
    <2>2. a.x < c.w /\ ~(a.x + a.w - 1 < c.w)
      BY <1>4, <1>9 DEF Inside
    <2>3. a.w > 8
      BY <1>4, <2>1, <2>2, CrossesWide
    <2>. QED BY <2>1, <2>3 DEF Sizes
  <1>10. ASSUME Crosses(c, a)
         PROVE  \/ Top(p).split \in {"CTU", "QUAD"} /\ a.w = a.h
                \/ Top(p).split \in BinarySplits /\ bt /\ ~Large(a) /\ ~qt
    BY <1>3, <1>10 DEF Fits
  <1>11. c.dual /\ Large(a) => Top(p).split \in {"CTU", "QUAD"} /\ a.w = 128 /\ a.h = 128
    BY <1>3 DEF Fits
  <1>12. Large(a) <=> a.w > 64 \/ a.h > 64
    BY DEF Large, MAX_TB_SIZEY
  <1>13. /\ bt <=> a.w <= lim.maxBt /\ a.h <= lim.maxBt
         /\ qt <=> a.w > lim.minQt /\ a.h > lim.minQt /\ p.btDepth = 0
    OBVIOUS
  <1> HIDE DEF bl, tr, bt, qt
  <1>14. ASSUME found = "QUAD"
         PROVE  /\ Top(p).split \in {"CTU", "QUAD"} /\ a.w = a.h /\ a.w >= 16
                /\ a.w > lim.minQt \/ (Large(a) /\ (c.dual \/ Crosses(c, a)))
    <2>1. CASE ~Crosses(c, a)
      <3>1. c.dual /\ Large(a)
        BY <1>2, <1>7, <1>14, <2>1
      <3>. QED BY <1>6, <1>11, <3>1
    <2>2. CASE Crosses(c, a)
      <3>1. (Large(a) \/ qt \/ ~bt)
        BY <1>2, <1>7, <1>14, <2>2
      <3>2. Top(p).split \in {"CTU", "QUAD"} /\ a.w = a.h
        BY <1>10, <2>2, <3>1
      <3>3. a.w >= 16
        BY <1>4, <1>7, <1>8, <1>9, <2>2, <3>2
      <3>4. a.w > lim.minQt \/ Large(a)
        BY <1>4, <1>6, <1>13, <3>1, <3>2
      <3>. QED BY <2>2, <3>2, <3>3, <3>4
    <2>. QED BY <2>1, <2>2
  <1>15. found = "HORZ" => ~bl /\ bt /\ ~Large(a)
    BY <1>2
  <1>16. found = "VERT" => ~tr /\ bt /\ ~Large(a)
    BY <1>2
  <1>17. found = "NO" => bl /\ tr /\ ~(c.dual /\ Large(a))
    BY <1>2
  <1>18. found \in Implicits
    BY <1>2, Zenon DEF Implicits
  <1>. QED BY <1>1, <1>7, <1>8, <1>9, <1>13, <1>14, <1>15, <1>16, <1>17, <1>18 DEF a, lim

\* A block of 128 samples that must be split in four, when quad splits end
\* at that size.
Stuck(c, p) ==
  LET a == currArea(p)
  IN p.treeType # "C" /\ Large(a) /\ (c.dual \/ Crosses(c, a)) /\ a.w <= Limits(c, p.chType).minQt

\* Any other block in the picture can become something.
LEMMA SomeSplit ==
  ASSUME NEW c, PictureFits(c), NEW p, BlockFits(c, p), ~Stuck(c, p)
  PROVE  canSplit(c, p) # {}
  <1> DEFINE a == currArea(p)
             lim == Limits(c, p.chType)
             found == getImplicitSplit(c, p)
  <1>1. /\ found \in Implicits
        /\ found = "QUAD" => /\ Top(p).split \in {"CTU", "QUAD"} /\ a.w >= 16
                             /\ a.w > lim.minQt \/ (Large(a) /\ (c.dual \/ Crosses(c, a)))
        /\ found = "VERT" => a.w >= 16
    BY FoundSplits
  <1>2. a.w \in Nat /\ c.sx \in {0, 1} /\ lim.minQt \in Nat
    BY DEF BlockFits, Fits, Blocks, PictureFits, AtBlock, Partitioners
  <1>3. a.w >= 16 => ChromaWidth(c, a) > 4 /\ ChromaWidth(c, a) # 4
    BY <1>2, ChromaSizes
  <1>4. CASE p.treeType = "C" \/ found = "NO"
    BY <1>4 DEF canSplit
  <1>5. CASE p.treeType # "C" /\ found = "QUAD"
    <2>1. a.w > lim.minQt
      BY <1>1, <1>2, <1>5 DEF Stuck
    <2>2. CanQuad(c, p)
      BY <1>1, <1>3, <1>5, <2>1 DEF CanQuad, MIN_DUALTREE_CHROMA_WIDTH
    <2>3. "QUAD" \in canSplit(c, p)
      BY <1>5, <2>2 DEF canSplit
    <2>. QED BY <2>3
  <1>6. CASE p.treeType # "C" /\ found = "HORZ"
    <2>1. "HORZ" \in canSplit(c, p)
      BY <1>6 DEF canSplit, BinarySplits
    <2>. QED BY <2>1
  <1>7. CASE p.treeType # "C" /\ found = "VERT"
    <2>1. "VERT" \in canSplit(c, p)
      BY <1>1, <1>3, <1>7 DEF canSplit, BinarySplits
    <2>. QED BY <2>1
  <1>. QED BY <1>1, <1>4, <1>5, <1>6, <1>7 DEF Implicits

\* That one cannot: its implicit split is into four, which is not allowed.
LEMMA NoSplit ==
  ASSUME NEW c, PictureFits(c), NEW p, BlockFits(c, p), Stuck(c, p)
  PROVE  canSplit(c, p) = {}
  <1> DEFINE a == currArea(p)
             lim == Limits(c, p.chType)
  <1>1. Large(a) /\ (c.dual \/ Crosses(c, a)) /\ p.treeType # "C" /\ a.w <= lim.minQt
    BY DEF Stuck
  <1>2. FoundImplicit(c, p) = "QUAD"
    BY <1>1, Zenon DEF FoundImplicit, Large, Crosses
  <1>3. getImplicitSplit(c, p) = "QUAD"
    BY <1>2 DEF BlockFits, getImplicitSplit
  <1>4. a.w \in Nat /\ lim.minQt \in Nat
    BY DEF BlockFits, Fits, Blocks, PictureFits, AtBlock, Partitioners
  <1>5. ~CanQuad(c, p)
    BY <1>1, <1>4 DEF CanQuad
  <1>. QED BY <1>1, <1>3, <1>5 DEF canSplit, BinarySplits

Within(b, a) == a.x <= b.x /\ b.x + b.w <= a.x + a.w /\ a.y <= b.y /\ b.y + b.h <= a.y + a.h

\* A part lies in its block.
LEMMA PartWithin ==
  ASSUME NEW a \in Blocks, NEW split \in Splits, NEW i \in 1 .. NumParts(split), NEW b, b = getCUSubPartitions(a, split)[i]
  PROVE  b \in Blocks /\ Within(b, a) /\ b.w <= a.w /\ b.h <= a.h
  <1>1. /\ a.x \in Int /\ a.y \in Int /\ a.w \in Nat /\ a.h \in Nat
        /\ a.w \div 2 \in Nat /\ 2 * (a.w \div 2) <= a.w /\ a.w \div 4 \in Nat /\ 4 * (a.w \div 4) <= a.w
        /\ a.h \div 2 \in Nat /\ 2 * (a.h \div 2) <= a.h /\ a.h \div 4 \in Nat /\ 4 * (a.h \div 4) <= a.h
    BY DEF Blocks
  <1>2. CASE split = "QUAD"
    <2>1. NumParts(split) = 4
      BY <1>2 DEF NumParts, BinarySplits
    <2>2. \/ b = Block(a.x + 0, a.y + 0, a.w \div 2, a.h \div 2)
          \/ b = Block(a.x + a.w \div 2, a.y + 0, a.w \div 2, a.h \div 2)
          \/ b = Block(a.x + 0, a.y + a.h \div 2, a.w \div 2, a.h \div 2)
          \/ b = Block(a.x + a.w \div 2, a.y + a.h \div 2, a.w \div 2, a.h \div 2)
      BY <1>2, <2>1, QuadParts
    <2>. QED BY <1>1, <2>2 DEF Block, Within, Blocks
  <1>3. CASE split = "HORZ"
    <2>1. NumParts(split) = 2
      BY <1>3 DEF NumParts, BinarySplits
    <2>a. getCUSubPartitions(a, split) = <<Block(a.x + 0, a.y + 0, a.w, a.h \div 2),
                                           Block(a.x + 0, a.y + a.h \div 2, a.w, a.h \div 2)>>
      BY <1>3, BinaryParts, Zenon
    <2>2. \/ b = Block(a.x + 0, a.y + 0, a.w, a.h \div 2)
          \/ b = Block(a.x + 0, a.y + a.h \div 2, a.w, a.h \div 2)
      BY <2>1, <2>a
    <2>. QED BY <1>1, <2>2 DEF Block, Within, Blocks
  <1>4. CASE split = "VERT"
    <2>1. NumParts(split) = 2
      BY <1>4 DEF NumParts, BinarySplits
    <2>a. getCUSubPartitions(a, split) = <<Block(a.x + 0, a.y + 0, a.w \div 2, a.h),
                                           Block(a.x + a.w \div 2, a.y + 0, a.w \div 2, a.h)>>
      BY <1>4, BinaryParts, Zenon
    <2>2. \/ b = Block(a.x + 0, a.y + 0, a.w \div 2, a.h)
          \/ b = Block(a.x + a.w \div 2, a.y + 0, a.w \div 2, a.h)
      BY <2>1, <2>a
    <2>. QED BY <1>1, <2>2 DEF Block, Within, Blocks
  <1>5. CASE split = "TRIH"
    <2>1. NumParts(split) = 3
      BY <1>5 DEF NumParts, BinarySplits
    <2>a. getCUSubPartitions(a, split) = <<Block(a.x + 0, a.y + 0, a.w, a.h \div 4),
                                           Block(a.x + 0, a.y + a.h \div 4, a.w, a.h \div 2),
                                           Block(a.x + 0, a.y + 3 * (a.h \div 4), a.w, a.h \div 4)>>
      BY <1>5, TripleParts, Zenon
    <2>2. \/ b = Block(a.x + 0, a.y + 0, a.w, a.h \div 4)
          \/ b = Block(a.x + 0, a.y + a.h \div 4, a.w, a.h \div 2)
          \/ b = Block(a.x + 0, a.y + 3 * (a.h \div 4), a.w, a.h \div 4)
      BY <2>1, <2>a
    <2>. QED BY <1>1, <2>2 DEF Block, Within, Blocks
  <1>6. CASE split = "TRIV"
    <2>1. NumParts(split) = 3
      BY <1>6 DEF NumParts, BinarySplits
    <2>a. getCUSubPartitions(a, split) = <<Block(a.x + 0, a.y + 0, a.w \div 4, a.h),
                                           Block(a.x + a.w \div 4, a.y + 0, a.w \div 2, a.h),
                                           Block(a.x + 3 * (a.w \div 4), a.y + 0, a.w \div 4, a.h)>>
      BY <1>6, TripleParts, Zenon
    <2>2. \/ b = Block(a.x + 0, a.y + 0, a.w \div 4, a.h)
          \/ b = Block(a.x + a.w \div 4, a.y + 0, a.w \div 2, a.h)
          \/ b = Block(a.x + 3 * (a.w \div 4), a.y + 0, a.w \div 4, a.h)
      BY <2>1, <2>a
    <2>. QED BY <1>1, <2>2 DEF Block, Within, Blocks
  <1>. QED BY <1>2, <1>3, <1>4, <1>5, <1>6 DEF Splits, BinarySplits, TripleSplits

\* Size and place of a part of a quad split.
LEMMA QuadFields ==
  ASSUME NEW a, NEW i \in 1 .. 4, NEW b, b = getCUSubPartitions(a, "QUAD")[i]
  PROVE  /\ b.w = a.w \div 2 /\ b.h = a.h \div 2
         /\ b.x \in {a.x + 0, a.x + a.w \div 2} /\ b.y \in {a.y + 0, a.y + a.h \div 2}
  <1>1. \/ b = Block(a.x + 0, a.y + 0, a.w \div 2, a.h \div 2)
        \/ b = Block(a.x + a.w \div 2, a.y + 0, a.w \div 2, a.h \div 2)
        \/ b = Block(a.x + 0, a.y + a.h \div 2, a.w \div 2, a.h \div 2)
        \/ b = Block(a.x + a.w \div 2, a.y + a.h \div 2, a.w \div 2, a.h \div 2)
    BY QuadParts
  <1>2. CASE b = Block(a.x + 0, a.y + 0, a.w \div 2, a.h \div 2)
    BY <1>2 DEF Block
  <1>3. CASE b = Block(a.x + a.w \div 2, a.y + 0, a.w \div 2, a.h \div 2)
    BY <1>3 DEF Block
  <1>4. CASE b = Block(a.x + 0, a.y + a.h \div 2, a.w \div 2, a.h \div 2)
    BY <1>4 DEF Block
  <1>5. CASE b = Block(a.x + a.w \div 2, a.y + a.h \div 2, a.w \div 2, a.h \div 2)
    BY <1>5 DEF Block
  <1>. QED BY <1>1, <1>2, <1>3, <1>4, <1>5, Zenon

\* Half of a size of 8 or more is a size, and halves are aligned.
LEMMA HalfSize ==
  ASSUME NEW x \in Nat, NEW w \in Sizes, w >= 8, x % w = 0
  PROVE  /\ w \div 2 \in Sizes /\ x % (w \div 2) = 0 /\ (x + w \div 2) % (w \div 2) = 0
         /\ x + 0 \in Nat /\ (x + 0) % (w \div 2) = 0 /\ x + w \div 2 \in Nat /\ (x + 0) % w = 0
  <1>1. CASE w = 8   BY <1>1 DEF Sizes
  <1>2. CASE w = 16  BY <1>2 DEF Sizes
  <1>3. CASE w = 32  BY <1>3 DEF Sizes
  <1>4. CASE w = 64  BY <1>4 DEF Sizes
  <1>5. CASE w = 128 BY <1>5 DEF Sizes
  <1>. QED BY <1>1, <1>2, <1>3, <1>4, <1>5 DEF Sizes

\* A block that has an implicit split gets it or is split in four.
LEMMA ForcedSplit ==
  ASSUME NEW c, NEW p, NEW split \in Splits, split \in canSplit(c, p), getImplicitSplit(c, p) # "NO"
  PROVE  \/ split = "QUAD" /\ Top(p).split \in {"CTU", "QUAD"}
         \/ split \in BinarySplits /\ split = getImplicitSplit(c, p)
  BY Zenon DEF canSplit, CanQuad, Splits, BinarySplits, TripleSplits

\* The parts in the picture of a block that fits do fit.
LEMMA PartFits ==
  ASSUME NEW c, PictureFits(c), NEW p, BlockFits(c, p), NEW split \in Splits, split \in canSplit(c, p),
         NEW i \in 1 .. NumParts(split), NEW b, b = getCUSubPartitions(currArea(p), split)[i], Inside(c, b.x, b.y),
         NEW bt \in Nat, split # "QUAD" => bt > 0
  PROVE  Fits(c, Limits(c, p.chType), b, split, bt)
  <1> DEFINE a == currArea(p)
             lim == Limits(c, p.chType)
             found == getImplicitSplit(c, p)
  <1>1. a \in Blocks /\ a.x \in Int /\ a.y \in Int /\ a.w \in Nat /\ a.h \in Nat
    BY DEF BlockFits, Fits, Blocks
  <1>2. b \in Blocks /\ Within(b, a) /\ b.w <= a.w /\ b.h <= a.h
    BY <1>1, PartWithin
  <1>3. b.x \in Int /\ b.y \in Int /\ b.w \in Nat /\ b.h \in Nat
    BY <1>2 DEF Blocks
  <1>4. /\ found = "QUAD" => a.w = a.h /\ a.w >= 16
        /\ found = "HORZ" => Crosses(c, a) /\ a.h >= 16 /\ a.w <= lim.maxBt /\ a.h <= lim.maxBt /\ ~Large(a)
        /\ found = "VERT" => Crosses(c, a) /\ a.w >= 16 /\ a.w <= lim.maxBt /\ a.h <= lim.maxBt /\ ~Large(a)
        /\ found = "NO" => ~Crosses(c, a) /\ ~(c.dual /\ Large(a))
        /\ found \in Implicits
    BY FoundSplits
  <1>5. /\ Crosses(c, a) =>
             /\ a.x \in Nat /\ a.y \in Nat /\ a.w \in Sizes /\ a.h \in Sizes /\ a.x % a.w = 0 /\ a.y % a.h = 0
             /\ Top(p).split \in {"CTU", "QUAD"} => a.w = a.h
        /\ c.dual /\ Large(a) => Top(p).split \in {"CTU", "QUAD"} /\ a.w = 128 /\ a.h = 128
    BY DEF BlockFits, Fits, BinarySplits
  <1>6. c.w \in Nat /\ c.h \in Nat /\ lim.maxBt \in Nat
    BY DEF PictureFits, BlockFits, AtBlock, Partitioners
  <1>7. \/ found = "NO"
        \/ split = "QUAD" /\ Top(p).split \in {"CTU", "QUAD"}
        \/ split \in BinarySplits /\ split = found
    BY ForcedSplit
  <1> HIDE DEF lim, found
  <1>8. Crosses(c, b) => Crosses(c, a)
    <2> HIDE DEF a
    <2>. QED BY <1>1, <1>2, <1>3, <1>6 DEF Crosses, Inside, Within
  <1>9. Large(b) => Large(a)
    <2> HIDE DEF a
    <2>. QED BY <1>1, <1>2, <1>3 DEF Large, MAX_TB_SIZEY
  <1>10. CASE split = "QUAD"
    <2>1. b.w = a.w \div 2 /\ b.h = a.h \div 2 /\ b.x \in {a.x + 0, a.x + a.w \div 2} /\ b.y \in {a.y + 0, a.y + a.h \div 2}
      <3>1. NumParts(split) = 4
        BY <1>10 DEF NumParts
      <3>2. i \in 1 .. 4 /\ b = getCUSubPartitions(a, "QUAD")[i]
        BY <1>10, <3>1
      <3>. QED BY <3>2, QuadFields, Zenon
    <2> HIDE DEF a
    <2>2. ASSUME Crosses(c, b)
          PROVE  b.x \in Nat /\ b.y \in Nat /\ b.w \in Sizes /\ b.h \in Sizes /\ b.x % b.w = 0 /\ b.y % b.h = 0 /\ b.w = b.h
      <3>1. Crosses(c, a) /\ a.w = a.h /\ a.w >= 8
        <4>1. Crosses(c, a)
          BY <1>8, <2>2
        <4>2. a.w = a.h
          BY <1>4, <1>5, <1>7, <1>10, <4>1 DEF BinarySplits
        <4>3. a.w >= 8
          BY <1>1, <1>4, <4>1, <4>2 DEF Implicits
        <4>. QED BY <4>1, <4>2, <4>3
      <3>2. a.x \in Nat /\ a.y \in Nat /\ a.w \in Sizes /\ a.h \in Sizes /\ a.x % a.w = 0 /\ a.y % a.h = 0 /\ a.h >= 8
        BY <1>5, <3>1
      <3>3. /\ a.w \div 2 \in Sizes /\ a.x + 0 \in Nat /\ (a.x + 0) % (a.w \div 2) = 0
            /\ a.x + a.w \div 2 \in Nat /\ (a.x + a.w \div 2) % (a.w \div 2) = 0
        BY <3>1, <3>2, HalfSize
      <3>4. /\ a.h \div 2 \in Sizes /\ a.y + 0 \in Nat /\ (a.y + 0) % (a.h \div 2) = 0
            /\ a.y + a.h \div 2 \in Nat /\ (a.y + a.h \div 2) % (a.h \div 2) = 0
        BY <3>2, HalfSize
      <3>. QED BY <2>1, <3>1, <3>3, <3>4, Zenon
    <2>3. ~(c.dual /\ Large(b))
      <3>1. ASSUME c.dual, Large(b) PROVE FALSE
        <4>1. a.w = 128 /\ a.h = 128
          BY <1>5, <1>9, <3>1
        <4>2. b.w = 64 /\ b.h = 64
          BY <2>1, <4>1
        <4>. QED BY <3>1, <4>2 DEF Large, MAX_TB_SIZEY
      <3>. QED BY <3>1
    <2>. QED BY <1>2, <1>10, <2>2, <2>3, Zenon DEF Fits
  <1>11. CASE split # "QUAD"
    <2>1. ~(c.dual /\ Large(b))
      BY <1>4, <1>7, <1>9, <1>11 DEF BinarySplits
    <2>2. ASSUME Crosses(c, b)
          PROVE  /\ b.x \in Nat /\ b.y \in Nat /\ b.w \in Sizes /\ b.h \in Sizes /\ b.x % b.w = 0 /\ b.y % b.h = 0
                 /\ split \in BinarySplits /\ b.w <= lim.maxBt /\ b.h <= lim.maxBt /\ ~Large(b)
      <3>1. Crosses(c, a)
        BY <1>8, <2>2
      <3>2. split \in BinarySplits /\ split = found /\ a.w <= lim.maxBt /\ a.h <= lim.maxBt /\ ~Large(a)
        BY <1>4, <1>7, <1>11, <3>1 DEF BinarySplits
      <3>3. b.w <= lim.maxBt /\ b.h <= lim.maxBt /\ ~Large(b)
        <4> HIDE DEF a
        <4>. QED BY <1>1, <1>2, <1>3, <1>6, <1>9, <3>2
      <3>4. a.x \in Nat /\ a.y \in Nat /\ a.w \in Sizes /\ a.h \in Sizes /\ a.x % a.w = 0 /\ a.y % a.h = 0
        BY <1>5, <3>1
      <3>5. NumParts(split) = 2
        BY <3>2 DEF NumParts, BinarySplits
      <3>6. CASE split = "HORZ"
        <4>1. getCUSubPartitions(a, split) =
                <<Block(a.x + 0, a.y + 0, a.w, a.h \div 2), Block(a.x + 0, a.y + a.h \div 2, a.w, a.h \div 2)>>
          BY <3>6, BinaryParts, Zenon
        <4>2. b.w = a.w /\ b.h = a.h \div 2 /\ b.x = a.x + 0 /\ b.y \in {a.y + 0, a.y + a.h \div 2}
          BY <3>5, <4>1 DEF Block
        <4> HIDE DEF a
        <4>3. a.h >= 8
          BY <1>1, <1>4, <3>2, <3>6
        <4>4. /\ a.h \div 2 \in Sizes /\ a.y + 0 \in Nat /\ (a.y + 0) % (a.h \div 2) = 0
              /\ a.y + a.h \div 2 \in Nat /\ (a.y + a.h \div 2) % (a.h \div 2) = 0
          BY <3>4, <4>3, HalfSize
        <4>5. a.x + 0 = a.x
          BY <1>1
        <4>. QED BY <3>2, <3>3, <3>4, <4>2, <4>4, <4>5, Zenon
      <3>7. CASE split = "VERT"
        <4>1. getCUSubPartitions(a, split) =
                <<Block(a.x + 0, a.y + 0, a.w \div 2, a.h), Block(a.x + a.w \div 2, a.y + 0, a.w \div 2, a.h)>>
          BY <3>7, BinaryParts, Zenon
        <4>2. b.w = a.w \div 2 /\ b.h = a.h /\ b.x \in {a.x + 0, a.x + a.w \div 2} /\ b.y = a.y + 0
          BY <3>5, <4>1 DEF Block
        <4> HIDE DEF a
        <4>3. a.w >= 8
          BY <1>1, <1>4, <3>2, <3>7
        <4>4. /\ a.w \div 2 \in Sizes /\ a.x + 0 \in Nat /\ (a.x + 0) % (a.w \div 2) = 0
              /\ a.x + a.w \div 2 \in Nat /\ (a.x + a.w \div 2) % (a.w \div 2) = 0
          BY <3>4, <4>3, HalfSize
        <4>5. a.y + 0 = a.y
          BY <1>1
        <4>. QED BY <3>2, <3>3, <3>4, <4>2, <4>4, <4>5, Zenon
      <3>. QED BY <3>2, <3>6, <3>7 DEF BinarySplits
    <2>. QED BY <1>2, <1>11, <2>1, <2>2, Zenon DEF Fits, lim
  <1>. QED BY <1>10, <1>11

\* A whole coding tree unit in the picture is a block that fits.
LEMMA CtuFits ==
  ASSUME NEW c, PictureFits(c), NEW area \in Blocks, NEW ch \in {"L", "C"}, Inside(c, area.x, area.y),
         area.x \in Nat, area.y \in Nat, area.w \in {32, 64, 128}, area.h = area.w, area.x % area.w = 0, area.y % area.h = 0
  PROVE  BlockFits(c, initCtu(area, ch))
  <1> DEFINE level == Level("CTU", <<area>>, "ALL", TRUE)
             p == initCtu(area, ch)
  <1>1. level \in Levels /\ level.split = "CTU" /\ level.idx = 1 /\ level.parts = <<area>> /\ level.implicit = "unchecked"
    BY DEF Level, Levels, ModeTypes
  <1>2. p.stack = <<level>> /\ p.btDepth = 0 /\ p.chType = ch
    BY DEF initCtu
  <1>3. p \in Partitioners
    <2>1. Position(area) \in Int \X Int
      BY DEF Position, Blocks
    <2>2. <<level>> \in Seq(Levels)
      BY <1>1, OneType, Zenon
    <2> HIDE DEF level
    <2>3. p = [stack |-> <<level>>, depth |-> 0, qtDepth |-> 0, btDepth |-> 0, mtDepth |-> 0, implicitBt |-> 0, subdiv |-> 0,
               qgPos |-> Position(area), chType |-> ch, treeType |-> "D", modeType |-> "ALL", ok |-> TRUE]
      BY Zenon DEF initCtu, level
    <2>. QED BY <2>1, <2>2, <2>3 DEF Partitioners, ModeTypes
  <1> HIDE DEF level, p
  <1>4. p.stack # <<>> /\ Top(p) = level
    BY <1>1, <1>2 DEF Top, Last
  <1>5. AtBlock(p) /\ currArea(p) = area
    <2>1. Len(<<area>>) = 1 /\ <<area>>[1] = area
      BY OneType
    <2>2. Top(p).parts = <<area>> /\ Top(p).idx = 1
      BY <1>1, <1>4
    <2>3. Top(p).idx \in 1 .. Len(Top(p).parts)
      <3>1. Len(Top(p).parts) = 1
        BY <2>1, <2>2, Zenon
      <3>. QED BY <2>2, <3>1
    <2>4. currArea(p) = area
      BY <2>1, <2>2, Zenon DEF currArea
    <2>. QED BY <1>3, <1>4, <2>3, <2>4 DEF AtBlock
  <1>6. Fits(c, Limits(c, p.chType), area, "CTU", 0)
    BY DEF Fits, Sizes, Large, MAX_TB_SIZEY
  <1>. QED BY <1>1, <1>2, <1>4, <1>5, <1>6 DEF BlockFits, p

\* Whatever the size of the picture and the limits of the tree, a walk that
\* begins at a coding tree unit and goes to the parts in the picture only meets
\* blocks that fit.  canSplit leaves such a block without a coding unit and
\* without a split in one case only: getImplicitSplit splits a block of 128
\* samples in four, at the border or in separate trees, and quad splits end at
\* that size or above, which neither the encoder nor the decoder refuses.
THEOREM BorderStuckExactly ==
  ASSUME NEW c, PictureFits(c)
  PROVE  /\ \A area \in Blocks, ch \in {"L", "C"} :
              /\ Inside(c, area.x, area.y) /\ area.x \in Nat /\ area.y \in Nat
              /\ area.w \in {32, 64, 128} /\ area.h = area.w /\ area.x % area.w = 0 /\ area.y % area.h = 0
              => BlockFits(c, initCtu(area, ch))
         /\ \A p : BlockFits(c, p) => (canSplit(c, p) = {} <=> Stuck(c, p))
         /\ \A p, q : \A split \in Splits : \A i \in 1 .. NumParts(split) :
              /\ BlockFits(c, p) /\ split \in canSplit(c, p) /\ InPart(c, p, split, i, q) /\ q.chType = p.chType
              /\ Top(q).implicit = "unchecked" /\ Inside(c, currArea(q).x, currArea(q).y)
              => BlockFits(c, q)
  <1>1. ASSUME NEW p, NEW q, NEW split \in Splits, NEW i \in 1 .. NumParts(split),
               BlockFits(c, p), split \in canSplit(c, p), InPart(c, p, split, i, q), q.chType = p.chType,
               Top(q).implicit = "unchecked", Inside(c, currArea(q).x, currArea(q).y)
        PROVE  BlockFits(c, q)
    <2>1. AtBlock(q) /\ Top(q).split = split /\ currArea(q) = getCUSubPartitions(currArea(p), split)[i]
      BY <1>1 DEF InPart, currArea
    <2>2. p.btDepth \in Nat
      BY <1>1 DEF BlockFits
    <2>3. q.btDepth \in Nat /\ (split # "QUAD" => q.btDepth > 0)
      BY <1>1, <2>2 DEF InPart, BtStep
    <2>4. Fits(c, Limits(c, p.chType), currArea(q), split, q.btDepth)
      BY <1>1, <2>1, <2>3, PartFits
    <2>. QED BY <1>1, <2>1, <2>3, <2>4 DEF BlockFits
  <1>2. ASSUME NEW p, BlockFits(c, p)
        PROVE  canSplit(c, p) = {} <=> Stuck(c, p)
    BY <1>2, SomeSplit, NoSplit
  <1>. QED BY <1>1, <1>2, CtuFits
=============================================================================
