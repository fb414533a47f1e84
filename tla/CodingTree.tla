----------------------------- MODULE CodingTree -----------------------------
(***************************************************************************)
(* The coding trees of a slice: EncCu chooses one for every coding tree    *)
(* unit, CABACWriter::coding_tree walks it again from what the coding      *)
(* units keep of it and writes its splits, and CABACReader::coding_tree    *)
(* grows it from the bins.                                                 *)
(*                                                                         *)
(* The slice is the picture, in one brick. Of the syntax of a coding unit  *)
(* there is its prediction mode and the bin that ends a coding tree unit;  *)
(* skipped units, IBC and palette are left out. A bin is its value and the *)
(* context it is coded with; BinChannel is what carries it.                *)
(***************************************************************************)
EXTENDS Partitioner, FiniteSets

CONSTANT Pictures

VARIABLES
  c,        \* the picture, one of Pictures
  phase,    \* who walks: EncCu, CABACWriter, CABACReader; or "done"
  walk,     \* where the walk is
  coded,    \* the coding units of the encoder
  bins,     \* the bins written
  taken,    \* how many of them were read
  decoded,  \* the coding units of the decoder, in the order they were added
  next,     \* the unit linked behind each of them (0 for none)
  agree     \* every bin was read with the context it was written with

vars == <<c, phase, walk, coded, bins, taken, decoded, next, agree>>

-----------------------------------------------------------------------------
(* Coding units *)

Separate(p) == p.treeType # "D" \/ c.dual

\* setCUData and addCU: a unit of its tree's channel, or of both.
CodingUnit(p, mode) ==
  [area |-> currArea(p), chans |-> IF Separate(p) THEN {p.chType} ELSE {"L", "C"}, depth |-> p.depth, qtDepth |-> p.qtDepth,
   series |-> getSplitSeries(p), modes |-> getModeTypeSeries(p), treeType |-> p.treeType, modeType |-> p.modeType, predMode |-> mode]

\* getCU: the unit of channel ch over a sample, as a set of at most one.
getCU(cus, x, y, ch) == {cu \in cus : ch \in cu.chans /\ Covers(cu.area, x, y)}

getSplitAtDepth(cu, depth) == IF depth >= cu.depth THEN "NO" ELSE cu.series[depth + 1]
getModeTypeAtDepth(cu, depth) == cu.modes[depth + 1]

\* The prediction modes that pred_mode can express without IBC and palette.
PredModes(p) ==
  LET a == currArea(p)
  IN IF p.modeType = "INTER" THEN {"INTER"}
     ELSE IF c.intra \/ (a.w = 4 /\ a.h = 4) \/ p.modeType = "INTRA" THEN {"INTRA"}
     ELSE {"INTER", "INTRA"}

\* Mutant: the width of the chroma blocks is not looked at.
signalModeConsByArea(p, split) ==
  LET a == currArea(p)
      minLuma == IF split \in BinarySplits THEN (a.w * a.h) \div 2 ELSE (a.w * a.h) \div 4
  IN IF c.dual \/ p.modeType # "ALL" \/ (c.sx = 0 /\ c.sy = 0) THEN "INHERIT"
     ELSE IF minLuma \div 2 ^ (c.sx + c.sy) >= 16 THEN "INHERIT"
     ELSE IF minLuma < 32 \/ c.intra THEN "INFER" ELSE "SIGNAL"

\* Whether children of a split must be of one mode, so that no small chroma
\* block depends on its neighbours.
signalModeCons(p, split) ==
  LET a == currArea(p)
      minLuma == IF split \in BinarySplits THEN (a.w * a.h) \div 2 ELSE (a.w * a.h) \div 4
      is2xN == (ChromaWidth(c, a) = 4 /\ split = "VERT") \/ (ChromaWidth(c, a) = 8 /\ split = "TRIV")
  IN IF c.dual \/ p.modeType # "ALL" \/ (c.sx = 0 /\ c.sy = 0) THEN "INHERIT"
     ELSE IF minLuma \div 2 ^ (c.sx + c.sy) >= 16 /\ ~is2xN THEN "INHERIT"
     ELSE IF minLuma < 32 \/ c.intra THEN "INFER" ELSE "SIGNAL"

\* The mode types the encoder tries for the children.
ChildModes(p, split) ==
  CASE signalModeCons(p, split) = "SIGNAL" -> {"INTER", "INTRA"}
    [] signalModeCons(p, split) = "INFER" -> {"INTRA"}
    [] OTHER -> {p.modeType}

-----------------------------------------------------------------------------
(* Bins and their contexts *)

Bin(value, name, ctx) == [value |-> value, ctx |-> <<name, ctx>>]

One(b) == IF b THEN 1 ELSE 0

CtxIntra(cus, p) ==
  LET a == currArea(p)
      near == getCU(cus, a.x - 1, a.y, "L") \cup getCU(cus, a.x, a.y - 1, "L")
  IN One(\E cu \in near : cu.predMode = "INTRA")

\* CtxSplit: the contexts of the split bins, from the blocks to the left and
\* above and from what the block may become.
CtxSplit(cus, p, can) ==
  LET a == currArea(p)
      left == getCU(cus, a.x - 1, a.y, p.chType)
      above == getCU(cus, a.x, a.y - 1, p.chType)
      splits == Cardinality(can \ {"NO"}) + Cardinality(can \cap {"QUAD"})
      hor == Cardinality(can \cap {"HORZ", "TRIH"})
      ver == Cardinality(can \cap {"VERT", "TRIV"})
      DepAbove == a.w \div (CHOOSE cu \in above : TRUE).area.w
      DepLeft == a.h \div (CHOOSE cu \in left : TRUE).area.h
  IN [split |-> One(\E cu \in left : cu.area.h < a.h) + One(\E cu \in above : cu.area.w < a.w)
                + 3 * ((IF splits > 0 THEN splits - 1 ELSE 0) \div 2),
      qt |-> One(\E cu \in left : cu.qtDepth > p.qtDepth) + One(\E cu \in above : cu.qtDepth > p.qtDepth)
             + (IF p.qtDepth < 2 THEN 0 ELSE 3),
      hv |-> IF ver < hor THEN 3 ELSE IF ver > hor THEN 4
             ELSE IF left = {} \/ above = {} THEN 0
             ELSE IF DepAbove = DepLeft THEN 0 ELSE IF DepAbove < DepLeft THEN 1 ELSE 2,
      bt |-> [HORZ |-> One(p.mtDepth <= 1), VERT |-> IF p.mtDepth <= 1 THEN 3 ELSE 2]]

\* CABACWriter::split_cu_mode
SplitBins(can, k, split) ==
  LET btt == can \ {"NO", "QUAD"}
      ver == split \in {"VERT", "TRIV"}
      dir == IF ver THEN "VERT" ELSE "HORZ"
      alike == btt \cap (IF ver THEN {"VERT", "TRIV"} ELSE {"HORZ", "TRIH"})
      flag == IF "NO" \in can /\ can # {"NO"} THEN <<Bin(split # "NO", "SplitFlag", k.split)>> ELSE <<>>
      qt == IF "QUAD" \in can /\ btt # {} THEN <<Bin(split = "QUAD", "SplitQtFlag", k.qt)>> ELSE <<>>
      hv == IF alike # {} /\ btt \ alike # {} THEN <<Bin(ver, "SplitHvFlag", k.hv)>> ELSE <<>>
      half == IF Cardinality(alike) = 2 THEN <<Bin(split = dir, "Split12Flag", k.bt[dir])>> ELSE <<>>
  IN IF split = "NO" THEN flag
     ELSE IF split = "QUAD" THEN flag \o qt ELSE flag \o qt \o hv \o half

Value(n) == n <= Len(bins) /\ bins[n].value

\* CABACReader::split_cu_mode: the split, and the contexts it was read with.
ReadSplit(can, k) ==
  LET btt == can \ {"NO", "QUAD"}
      flag == "NO" \in can /\ can # {"NO"}
      n1 == taken + One(flag)
      isSplit == IF flag THEN Value(n1) ELSE can \ {"NO"} # {}
      qt == isSplit /\ "QUAD" \in can /\ btt # {}
      n2 == n1 + One(qt)
      isQt == IF qt THEN Value(n2) ELSE "QUAD" \in can
      deeper == isSplit /\ ~isQt
      vers == can \cap {"VERT", "TRIV"}
      hv == deeper /\ vers # {} /\ btt \ vers # {}
      n3 == n2 + One(hv)
      isVer == IF hv THEN Value(n3) ELSE vers # {}
      dir == IF isVer THEN "VERT" ELSE "HORZ"
      tri == IF isVer THEN "TRIV" ELSE "TRIH"
      half == deeper /\ dir \in can /\ tri \in can
      is12 == IF half THEN Value(n3 + 1) ELSE dir \in can
      Used(b, name, ctx) == IF b THEN <<<<name, ctx>>>> ELSE <<>>
  IN [split |-> IF ~isSplit THEN "NO" ELSE IF isQt THEN "QUAD" ELSE IF is12 THEN dir ELSE tri,
      used |-> Used(flag, "SplitFlag", k.split) \o Used(qt, "SplitQtFlag", k.qt)
               \o Used(hv, "SplitHvFlag", k.hv) \o Used(half, "Split12Flag", k.bt[dir])]

-----------------------------------------------------------------------------
(* The walk: p is the partitioner of the calls, q the chroma partitioner   *)
(* that goes along when large units are coded in 64x64 blocks (joint), one *)
(* frame for every coding_tree call that has split its block. qgStart and  *)
(* last are the cuCtx and the lastSegment of p's calls and of q's.         *)

WidthInCtus == (c.w + c.ctu - 1) \div c.ctu
NumCtus == WidthInCtus * ((c.h + c.ctu - 1) \div c.ctu)

CtuArea(n) == [x |-> (n % WidthInCtus) * c.ctu, y |-> (n \div WidthInCtus) * c.ctu, w |-> c.ctu, h |-> c.ctu]

None == [p |-> FALSE, q |-> FALSE]

\* coding_tree_unit: EncCu walks the trees of a dual tree one after the
\* other, the writer and the reader those of a large unit side by side.
Start(who, n) ==
  [p |-> initCtu(CtuArea(n), "L"), q |-> initCtu(CtuArea(n), "C"), active |-> "p", frames |-> <<>>, at |-> "node", ctu |-> n,
   joint |-> c.dual /\ c.ctu > 64 /\ who # "EncCu", second |-> FALSE, qgStart |-> None, last |-> None, ok |-> TRUE]

\* The partitioner of the calls in progress.
Cur == walk[walk.active]

RECURSIVE Return(_), Enter(_)

\* The call for the next part, unless it is outside the picture or past the end.
Enter(w) ==
  LET a == currArea(w[w.active])
  IN IF ~w.last[w.active] /\ Inside(c, a.x, a.y) THEN w ELSE Return(w)

\* A call of coding_tree returns to the one that made it.
Return(w) ==
  LET f == Last(w.frames)
      p == w[w.active]
      n == nextPart(p)
  IN CASE w.frames = <<>> -> [w EXCEPT !.at = "end"]
       [] w.frames # <<>> /\ f.kind = "split" /\ HasNext(p) -> Enter([w EXCEPT ![w.active] = n])
       [] w.frames # <<>> /\ f.kind = "split" /\ ~HasNext(p) /\ f.local ->
            Enter([w EXCEPT ![w.active] = [exitCurrSplit(n) EXCEPT !.chType = "C", !.treeType = "C"],
                            !.frames = Append(Front(@), [f EXCEPT !.kind = "chroma"]), !.ok = @ /\ p.chType = "L"])
       [] w.frames # <<>> /\ f.kind = "split" /\ ~HasNext(p) /\ ~f.local ->
            Return([w EXCEPT ![w.active] = [exitCurrSplit(n) EXCEPT !.modeType = f.parent], !.frames = Front(@)])
       [] w.frames # <<>> /\ f.kind = "chroma" ->
            Return([w EXCEPT ![w.active] = [p EXCEPT !.chType = "L", !.treeType = "D", !.modeType = f.parent], !.frames = Front(@)])
       [] w.frames # <<>> /\ f.kind = "joint" /\ w.active = "p" -> Enter([w EXCEPT !.p = n, !.active = "q", !.ok = @ /\ ~w.last.p])
       [] w.frames # <<>> /\ f.kind = "joint" /\ w.active = "q" /\ HasNext(p) ->
            Enter([w EXCEPT !.q = n, !.active = "p", !.ok = @ /\ Top(w.p).idx = Top(n).idx])
       [] OTHER ->
            Return([w EXCEPT !.q = exitCurrSplit(n), !.p = exitCurrSplit(@), !.active = "p", !.frames = Front(@),
                             !.last = [@ EXCEPT !.p = w.last.q], !.ok = @ /\ Top(w.p).idx = Top(n).idx])

\* Reset of the quantisation group where one may start.
AtNode(w) ==
  LET p == w[w.active]
      start == [w.qgStart EXCEPT ![w.active] = @ \/ (Top(p).qg /\ p.chType = "L"), !.q = @ \/ (w.joint /\ w.frames = <<>> /\ Top(w.q).qg)]
  IN [w EXCEPT ![w.active] = Checked(c, p), !.qgStart = start]

\* The block is split; when chroma is not split along, it follows the luma.
Descend(w, split, mode) ==
  LET p == w[w.active]
      local == p.modeType = "ALL" /\ mode = "INTRA"
      child == [p EXCEPT !.modeType = mode, !.treeType = IF @ = "D" /\ local THEN "L" ELSE @, !.ok = @ /\ (local => p.chType = "L")]
  IN IF w.joint /\ w.frames = <<>>
     THEN Enter([w EXCEPT !.p = splitCurrArea(c, p, "QUAD"), !.q = splitCurrArea(c, @, "QUAD"), !.frames = <<[kind |-> "joint"]>>])
     ELSE Enter([w EXCEPT ![w.active] = splitCurrArea(c, child, split),
                          !.frames = Append(@, [kind |-> "split", parent |-> p.modeType, local |-> local])])

Leave(w, isLast) == Return([w EXCEPT !.qgStart[w.active] = FALSE, !.last[w.active] = isLast])

\* The trees of the unit are done: the chroma tree, the next unit or nothing.
NextTree(who) ==
  IF c.dual /\ ~walk.joint /\ ~walk.second
  THEN [walk EXCEPT !.p = initCtu(CtuArea(walk.ctu), "C"), !.at = "node", !.second = TRUE, !.qgStart = None]
  ELSE Start(who, walk.ctu + 1)

TreesDone == walk.at = "end" /\ (c.dual => walk.joint \/ walk.second)

Init ==
  /\ c \in Pictures
  /\ phase = "EncCu"
  /\ walk = Start("EncCu", 0)
  /\ coded = {}
  /\ bins = <<>>
  /\ taken = 0
  /\ decoded = <<>>
  /\ next = <<>>
  /\ agree = TRUE

-----------------------------------------------------------------------------
(* EncCu *)

\* xCompressCU leaves one of the splits it tries in the coding structure.
xCheckModeSplit ==
  /\ phase = "EncCu" /\ walk.at = "node"
  /\ \E split \in canSplit(c, Cur) \ {"NO"} : \E mode \in ChildModes(Cur, split) :
       walk' = Descend(AtNode(walk), split, mode)
  /\ UNCHANGED <<c, phase, coded, bins, taken, decoded, next, agree>>

\* Or a coding unit in one of its prediction modes.
xCheckRDCost ==
  /\ phase = "EncCu" /\ walk.at = "node"
  /\ "NO" \in canSplit(c, Cur)
  /\ \E mode \in PredModes(Cur) : coded' = coded \cup {CodingUnit(Cur, mode)}
  /\ walk' = Leave(AtNode(walk), FALSE)
  /\ UNCHANGED <<c, phase, bins, taken, decoded, next, agree>>

compressCtu ==
  /\ phase = "EncCu" /\ walk.at = "end"
  /\ IF TreesDone /\ walk.ctu + 1 = NumCtus
     THEN phase' = "CABACWriter" /\ walk' = Start("CABACWriter", 0)
     ELSE walk' = NextTree("EncCu") /\ UNCHANGED phase
  /\ UNCHANGED <<c, coded, bins, taken, decoded, next, agree>>

-----------------------------------------------------------------------------
(* CABACWriter *)

\* Mutant: in any of its trees.
EndsCtuInAnyTree(p) ==
  LET a == currArea(p)
  IN /\ (a.x + a.w) % c.ctu = 0 \/ a.x + a.w = c.w
     /\ (a.y + a.h) % c.ctu = 0 \/ a.y + a.h = c.h

\* The last unit of the coding tree unit, in the last of its trees.
EndsCtu(p) ==
  LET a == currArea(p)
  IN /\ (a.x + a.w) % c.ctu = 0 \/ a.x + a.w = c.w
     /\ (a.y + a.h) % c.ctu = 0 \/ a.y + a.h = c.h
     /\ ~Separate(p) \/ p.chType = "C"

ModeBins(cus, p, split, mode) ==
  IF signalModeCons(p, split) = "SIGNAL" THEN <<Bin(mode = "INTRA", "ModeConsFlag", CtxIntra(cus, p))>> ELSE <<>>

coding_unit(p, cu) ==
  (IF Cardinality(PredModes(p)) = 2 THEN <<Bin(cu.predMode = "INTRA", "PredMode", CtxIntra(coded, p))>> ELSE <<>>)
  \o (IF EndsCtu(p) /\ walk.ctu + 1 < NumCtus THEN <<Bin(FALSE, "Trm", 0)>> ELSE <<>>)

\* The splits come from the unit at the corner of the block.
WriteNode ==
  /\ phase = "CABACWriter" /\ walk.at = "node"
  /\ LET w == AtNode(walk)
         p == w[w.active]
         a == currArea(p)
         can == canSplit(c, p)
     IN \E cu \in getCU(coded, a.x, a.y, p.chType) :
          LET split == getSplitAtDepth(cu, p.depth)
              flags == SplitBins(can, CtxSplit(coded, p, can), split)
              checked == [w EXCEPT !.ok = @ /\ split \in can]
          IN \/ /\ split = "NO"
                /\ bins' = bins \o flags \o coding_unit(p, cu)
                /\ walk' = Leave([checked EXCEPT !.ok = @ /\ cu.treeType = p.treeType], FALSE)
             \/ /\ split # "NO"
                /\ walk.joint /\ walk.frames = <<>>
                /\ bins' = bins \o flags
                /\ walk' = Descend(checked, split, p.modeType)
             \/ /\ split # "NO"
                /\ ~(walk.joint /\ walk.frames = <<>>)
                /\ LET mode == getModeTypeAtDepth(cu, p.depth)
                   IN /\ bins' = bins \o flags \o ModeBins(coded, p, split, mode)
                      /\ walk' = Descend([checked EXCEPT !.ok = @ /\ mode \in ChildModes(p, split)], split, mode)
  /\ UNCHANGED <<c, phase, coded, taken, decoded, next, agree>>

\* After the last unit end_of_slice writes the terminating bin.
WriteEnd ==
  /\ phase = "CABACWriter" /\ walk.at = "end"
  /\ IF TreesDone /\ walk.ctu + 1 = NumCtus
     THEN phase' = "CABACReader" /\ walk' = Start("CABACReader", 0) /\ bins' = Append(bins, Bin(TRUE, "Trm", 0))
     ELSE walk' = NextTree("CABACWriter") /\ UNCHANGED <<phase, bins>>
  /\ UNCHANGED <<c, coded, taken, decoded, next, agree>>

-----------------------------------------------------------------------------
(* CABACReader *)

Known == {decoded[i].cu : i \in DOMAIN decoded}

\* used are the contexts of the bins read in this step.
Take(used) ==
  /\ taken' = taken + Len(used)
  /\ agree' = (agree /\ taken + Len(used) <= Len(bins) /\ \A i \in DOMAIN used : bins[taken + i].ctx = used[i])

\* addCU links the new unit behind the last one.
addCU(cu, starts, p) ==
  /\ decoded' = Append(decoded, [cu |-> cu, starts |-> starts, qgPos |-> p.qgPos])
  /\ next' = Append([i \in DOMAIN next |-> IF i = Len(next) THEN i + 1 ELSE next[i]], 0)

Coded(isIntra) == IF isIntra THEN "INTRA" ELSE "INTER"

\* No split: the block is a coding unit, and may be the last of its tree.
ReadUnit(w, p, flags) ==
  LET both == Cardinality(PredModes(p)) = 2
      mode == IF both THEN Coded(Value(taken + Len(flags) + 1)) ELSE CHOOSE m \in PredModes(p) : TRUE
      used == flags \o (IF both THEN <<<<"PredMode", CtxIntra(Known, p)>>>> ELSE <<>>)
                    \o (IF EndsCtu(p) THEN <<<<"Trm", 0>>>> ELSE <<>>)
  IN /\ addCU(CodingUnit(p, mode), w.qgStart[w.active], p)
     /\ Take(used)
     /\ walk' = Leave(w, EndsCtu(p) /\ Value(taken + Len(used)))

\* A split, with the mode of its children where it is coded.
ReadChildren(w, p, split, flags) ==
  LET signal == signalModeCons(p, split) = "SIGNAL"
  IN /\ Take(flags \o (IF signal THEN <<<<"ModeConsFlag", CtxIntra(Known, p)>>>> ELSE <<>>))
     /\ \E mode \in ChildModes(p, split) :
          /\ signal => mode = Coded(Value(taken + Len(flags) + 1))
          /\ walk' = Descend(w, split, mode)
     /\ UNCHANGED <<decoded, next>>

ReadNode ==
  /\ phase = "CABACReader" /\ walk.at = "node"
  /\ LET w == AtNode(walk)
         p == w[w.active]
         can == canSplit(c, p)
         r == ReadSplit(can, CtxSplit(Known, p, can))
         checked == [w EXCEPT !.ok = @ /\ r.split \in can]
         sideBySide == walk.joint /\ walk.frames = <<>>
     IN \/ r.split = "NO" /\ ReadUnit(checked, p, r.used)
        \/ r.split # "NO" /\ ~sideBySide /\ ReadChildren(checked, p, r.split, r.used)
        \/ /\ r.split # "NO" /\ sideBySide
           /\ Take(r.used)
           /\ walk' = Descend(checked, r.split, p.modeType)
           /\ UNCHANGED <<decoded, next>>
  /\ UNCHANGED <<c, phase, coded, bins>>

IsLuma(i) == decoded[i].cu.chans = {"L"}

\* Mutant: the chroma units are not appended to the luma units.
RECURSIVE CatUnjoined(_, _, _, _, _)
CatUnjoined(links, i, lastLuma, lastChroma, firstChroma) ==
  LET n == links[i]
      turn == IsLuma(i) # IsLuma(n)
      Link(from) == IF from = 0 THEN links ELSE [links EXCEPT ![from] = n]
  IN IF n = 0 THEN links
     ELSE IF turn /\ IsLuma(i) THEN CatUnjoined(Link(lastChroma), n, i, lastChroma, firstChroma)
     ELSE IF turn THEN CatUnjoined(Link(lastLuma), n, lastLuma, i, firstChroma)
     ELSE CatUnjoined(links, n, lastLuma, lastChroma, firstChroma)

\* The units of a large coding tree unit were added block by block: the luma
\* units are linked first, then the chroma units.
RECURSIVE Cat(_, _, _, _, _)
Cat(links, i, lastLuma, lastChroma, firstChroma) ==
  LET n == links[i]
      turn == IsLuma(i) # IsLuma(n)
      Link(from) == IF from = 0 THEN links ELSE [links EXCEPT ![from] = n]
  IN IF n = 0 THEN [links EXCEPT ![lastLuma] = firstChroma]
     ELSE IF turn /\ IsLuma(i) THEN Cat(Link(lastChroma), n, i, lastChroma, firstChroma)
     ELSE IF turn THEN Cat(Link(lastLuma), n, lastLuma, i, firstChroma)
     ELSE Cat(links, n, lastLuma, lastChroma, firstChroma)

\* The index of the unit of channel ch at the corner of the coding tree unit.
AtCorner(ch) ==
  CHOOSE i \in DOMAIN decoded : ch \in decoded[i].cu.chans /\ Position(decoded[i].cu.area) = Position(CtuArea(walk.ctu))

\* coding_tree_unit returns isLast, which ends the slice.
ReadEnd ==
  /\ phase = "CABACReader" /\ walk.at = "end"
  /\ next' = IF walk.joint THEN Cat(next, AtCorner("L"), 0, 0, AtCorner("C")) ELSE next
  /\ IF walk.last.p \/ (TreesDone /\ walk.ctu + 1 = NumCtus)
     THEN phase' = "done" /\ walk' = [walk EXCEPT !.ok = @ /\ walk.last.p]
     ELSE walk' = NextTree("CABACReader") /\ UNCHANGED phase
  /\ UNCHANGED <<c, coded, bins, taken, decoded, agree>>

Finished == phase = "done" /\ UNCHANGED vars

Next == xCheckModeSplit \/ xCheckRDCost \/ compressCtu \/ WriteNode \/ WriteEnd \/ ReadNode \/ ReadEnd \/ Finished

Spec == Init /\ [][Next]_vars

-----------------------------------------------------------------------------
(* Properties *)

\* No CHECK of splitCurrArea, exitCurrSplit, coding_tree and the slice loop
\* fails in any of the walks: a depth never goes below zero, no transform block
\* gets too small, a split is one that canSplit allows, a luma tree never ends
\* the slice, luma and chroma stay side by side. exitCurrSplit takes back what
\* splitCurrArea and nextPart added: every tree ends at the depths it began with.
NoCheckFails ==
  /\ walk.ok /\ walk.p.ok /\ walk.q.ok
  /\ walk.at = "end" =>
       \A p \in {walk.p, walk.q} :
         /\ p.depth = 0 /\ p.qtDepth = 0 /\ p.btDepth = 0 /\ p.mtDepth = 0 /\ p.implicitBt = 0 /\ p.subdiv = 0
         /\ p.modeType = "ALL" /\ p.treeType = "D"

\* The coding units of the search tile the picture, for luma and for chroma:
\* none crosses the border, no two overlap, and every sample has one, also
\* where chroma is not split along with luma.
UnitsTile ==
  phase = "done" =>
    \A ch \in {"L", "C"} :
      LET areas == {cu.area : cu \in {cu \in coded : ch \in cu.chans}}
      IN /\ \A a \in areas : a.x + a.w <= c.w /\ a.y + a.h <= c.h
         /\ \A x \in {4 * i : i \in 0 .. c.w \div 4 - 1}, y \in {4 * i : i \in 0 .. c.h \div 4 - 1} :
              Cardinality({a \in areas : Covers(a, x, y)}) = 1
         /\ Cardinality(areas) = Cardinality({cu \in coded : ch \in cu.chans})

\* What the mode constraint is for: no inter unit of 4x4, and no intra chroma
\* block of fewer than 16 samples or of a width of two.
NoSmallBlocks ==
  \A cu \in coded :
    /\ cu.predMode = "INTER" => cu.area.w > 4 \/ cu.area.h > 4
    /\ cu.predMode = "INTRA" /\ "C" \in cu.chans => ChromaArea(c, cu.area) >= 16 /\ ChromaWidth(c, cu.area) >= 4

\* The reader, which knows only the units before the block, asks for every bin
\* with the context the writer coded it with, although the writer has all the
\* units of the picture in reach, and it grows the writer's trees: the same
\* units, with the same depths, split series and modes, from all the bins and no
\* more.
TreesReadBack ==
  /\ agree
  /\ Known \subseteq coded
  /\ phase = "done" => Known = coded /\ Len(decoded) = Cardinality(coded) /\ taken = Len(bins)

\* Units of one quantisation group predict from one QP: where a luma unit finds
\* qgStart set, it is at the position of the group; the others have the position
\* of the last unit that did.  Chroma that follows the luma of its block starts
\* no group, and finds the position of the group at the corner of the block,
\* though groups may have started in between (exitCurrSplit moves it back).
QuantisationGroups ==
  decoded # <<>> =>
    LET d == Last(decoded)
        Luma(i) == "L" \in decoded[i].cu.chans
        starts == {i \in DOMAIN decoded : Luma(i) /\ decoded[i].starts}
    IN IF Luma(Len(decoded))
       THEN \E i \in starts :
              /\ \A j \in starts : j <= i
              /\ d.qgPos = Position(decoded[i].cu.area)
              /\ Position(d.cu.area) = d.qgPos => d.starts
       ELSE d.cu.treeType = "C" =>
              /\ ~d.starts
              /\ \E i \in DOMAIN decoded : /\ Luma(i) /\ Position(decoded[i].cu.area) = Position(d.cu.area)
                                           /\ decoded[i].qgPos = d.qgPos

RECURSIVE Following(_)
Following(i) == IF i = 0 THEN <<>> ELSE <<i>> \o Following(next[i])

\* The links lead the decoder through all units, and through all luma units of a
\* coding tree unit before its first chroma unit where the trees are separate,
\* each channel in the order it was decoded, although large units are read
\* in blocks of 64x64 that alternate between the channels.
LinkedByChannel ==
  phase = "done" =>
    LET path == Following(1)
        Ctu(i) == (decoded[i].cu.area.y \div c.ctu) * WidthInCtus + decoded[i].cu.area.x \div c.ctu
        Before(i, j) == \/ Ctu(i) < Ctu(j)
                        \/ Ctu(i) = Ctu(j) /\ c.dual /\ IsLuma(i) /\ ~IsLuma(j)
                        \/ Ctu(i) = Ctu(j) /\ (c.dual => IsLuma(i) = IsLuma(j)) /\ i < j
    IN /\ Len(path) = Len(decoded)
       /\ \A i \in 1 .. Len(path) - 1 : Before(path[i], path[i + 1])
=============================================================================
