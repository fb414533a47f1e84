---------------------------- MODULE DecPicBuffer ----------------------------
(***************************************************************************)
(* The decoded picture buffer m_cListPic: a list of Picture objects, and   *)
(* what DecLib, Slice and DecApp do to it.  A picture is                   *)
(*   id        which coded picture it holds, 0 if none (not in the code)   *)
(*   poc       its picture order count                                     *)
(*   type, tid, assocPoc, slices  type, layer and IRAP of its first slice, *)
(*             and how many slices it has                                  *)
(*   refd, lt, recon, needed  referenced, longTerm, reconstructed and      *)
(*             neededForOutput                                             *)
(*   cs        the parameter sets its coding structure points to: sps, pps, *)
(*             pcv and the APSs of its slices                              *)
(* An entry of a reference picture list is [lt, ident, id]: ident is the   *)
(* POC difference of a short-term or the POC's low bits of a long-term     *)
(* reference, id the picture the encoder meant (not in the code).          *)
(***************************************************************************)
EXTENDS ParamSets

CONSTANTS
  MaxDecPicBuffering,   \* of the SPS: buffers, the current picture's included
  NumReorderPics,       \* of the SPS
  MaxPocLsb             \* 2^BitsForPOC

ASSUME DpbAssumption ==
  /\ MaxDecPicBuffering \in Nat \ {0} /\ NumReorderPics \in Nat
  /\ MaxPocLsb \in Nat \ {0}

IdrTypes == {"IDR_W_RADL", "IDR_N_LP"}
RapTypes == IdrTypes \cup {"CRA"}
LeadTypes == {"RASL", "RADL"}
SliceTypes == RapTypes \cup LeadTypes \cup {"TRAIL", "GDR"}

NoCs == [sps |-> NoSet, pps |-> NoSet, pcv |-> <<>>, aps |-> {}]

NewPicture ==
  [id |-> 0, poc |-> 0, type |-> "TRAIL", tid |-> 0, assocPoc |-> 0, slices |-> 0,
   refd |-> FALSE, lt |-> FALSE, recon |-> FALSE, needed |-> FALSE,
   cs |-> NoCs]

Lsb(poc) == poc % MaxPocLsb
-----------------------------------------------------------------------------
\* The POC with these low bits nearest to the last one of temporal layer 0.
ParsePoc(type, lsb, prevTid0Poc) ==
  LET prevLsb == Lsb(prevTid0Poc)
      prevMsb == prevTid0Poc - prevLsb
      msb == CASE lsb < prevLsb /\ prevLsb - lsb >= MaxPocLsb \div 2 -> prevMsb + MaxPocLsb
               [] lsb > prevLsb /\ lsb - prevLsb > MaxPocLsb \div 2 -> prevMsb - MaxPocLsb
               [] OTHER -> prevMsb
  IN IF type \in IdrTypes THEN lsb ELSE msb + lsb

\* The insertion sort puts each picture before the first that is not below it,
\* so of equal POCs the later one comes first.
Rank(list, i) ==
  Cardinality({j \in DOMAIN list : list[j].poc < list[i].poc \/ (list[j].poc = list[i].poc /\ j >= i)})

sortPicList(list) == [k \in DOMAIN list |-> list[CHOOSE i \in DOMAIN list : Rank(list, i) = k]]

\* Mutant: a picture that is still referenced is reused.
Reusable_ReferencedToo(p) == ~p.needed

Reusable(p) == ~p.needed /\ (~p.recon \/ ~p.refd)

FreeBuffer(list) ==
  IF Len(list) < MaxDecPicBuffering THEN 0 ELSE SelectInSeq(list, Reusable)

\* Whether the buffer is created anew for the CTU size of the SPS.  Its old
\* PPS, and the PreCalcValues with it, may have been deleted: then what is read
\* is anything.
Recreates(list, ps, sps) ==
  LET free == FreeBuffer(list)
  IN CASE free = 0 -> {FALSE}
       [] free # 0 /\ Deleted(ps.pps, list[free].cs.pps) -> BOOLEAN
       [] OTHER -> {list[free].cs.pcv[2] # sps.ref}

\* The list and the place in it of the buffer for a new picture.
xGetNewPicBuffer(list, recreate) ==
  LET free == FreeBuffer(list)
      p == IF recreate THEN [list[free] EXCEPT !.slices = 0, !.cs = NoCs] ELSE list[free]
  IN IF free = 0
       THEN [list |-> Append(list, NewPicture), at |-> Len(list) + 1]
       ELSE [list |-> [list EXCEPT ![free] = [p EXCEPT !.needed = FALSE, !.recon = FALSE]],
             at |-> free]

\* Mutant: the PPS of a buffer that is used again is not replaced.
finalInit_Kept(cs, sps, pps, aps) ==
  IF cs = NoCs THEN [sps |-> sps, pps |-> pps, pcv |-> pps.pcv, aps |-> aps] ELSE cs

\* A coding structure that is there keeps its SPS.
finalInit(cs, sps, pps, aps) ==
  [sps |-> IF cs = NoCs THEN sps ELSE cs.sps, pps |-> pps, pcv |-> pps.pcv, aps |-> aps]
-----------------------------------------------------------------------------
(* Reference pictures of the slice (poc, type, rpl); rpl stands for both   *)
(* lists, which are taken to name the same pictures in the same order.     *)

MatchesShort(p, e, poc) == ~e.lt /\ p.poc = poc - e.ident
MatchesLong(p, e) == e.lt /\ p.lt /\ Lsb(p.poc) = e.ident

\* Mutant: a picture the reference picture list does not name stays marked.
MarkPicture_Keep(p, poc, type, rpl) == p

MarkPicture(p, poc, type, rpl) ==
  LET at == SelectInSeq(rpl, LAMBDA e : MatchesShort(p, e, poc) \/ MatchesLong(p, e))
  IN CASE ~p.refd -> p
       [] p.refd /\ type \notin IdrTypes /\ at # 0 -> [p EXCEPT !.lt = rpl[at].lt]
       [] p.refd /\ (type \in IdrTypes \/ at = 0) /\ p.poc # poc ->
            [p EXCEPT !.refd = FALSE, !.lt = FALSE]
       [] OTHER -> p

applyReferencePictureListBasedMarking(list, poc, type, rpl) ==
  [i \in DOMAIN list |-> MarkPicture(list[i], poc, type, rpl)]

LongAvailable(list, e, lt) ==
  SelectInSeq(list, LAMBDA p : p.refd /\ p.lt = lt /\ Lsb(p.poc) = e.ident)

ShortAvailable(list, e, poc) ==
  SelectInSeq(list, LAMBDA p : p.refd /\ ~p.lt /\ p.poc = poc - e.ident)

\* Long-term entries before the n-th that only a short-term picture answers
\* make it a long-term one.
MarkLong(list, rpl, n) ==
  [i \in DOMAIN list |->
     [list[i] EXCEPT !.lt =
        @ \/ \E k \in 1..(n - 1) : /\ rpl[k].lt /\ LongAvailable(list, rpl[k], TRUE) = 0
                                 /\ LongAvailable(list, rpl[k], FALSE) = i]]

\* The list with those marks and, in missing, the first entry without picture,
\* the long-term ones first.
checkThatAllRefPicsAreAvailable(list, poc, type, rpl) ==
  LET badLong == SelectInSeq(rpl, LAMBDA e : e.lt /\ \A lt \in BOOLEAN : LongAvailable(list, e, lt) = 0)
      marked == MarkLong(list, rpl, IF badLong = 0 THEN Len(rpl) + 1 ELSE badLong)
      bad == SelectInSeq(rpl, LAMBDA e : ~e.lt /\ ShortAvailable(marked, e, poc) = 0)
  IN CASE type \in IdrTypes -> [list |-> list, missing |-> <<>>]
       [] type \notin IdrTypes /\ badLong # 0 ->
            [list |-> marked, missing |-> <<[poc |-> rpl[badLong].ident, lt |-> TRUE]>>]
       [] type \notin IdrTypes /\ badLong = 0 /\ bad # 0 ->
            [list |-> marked, missing |-> <<[poc |-> poc - rpl[bad].ident, lt |-> FALSE]>>]
       [] OTHER -> [list |-> marked, missing |-> <<>>]

\* 0: the search runs off the end of the list.
xGetRefPic(list, poc) == SelectInSeq(list, LAMBDA p : p.poc = poc)

xGetLongTermRefPic(list, lsb, poc) ==
  LET at == SelectInSeq(list, LAMBDA p : p.poc # poc /\ p.refd /\ Lsb(p.poc) = lsb)
  IN IF at = 0 THEN 1 ELSE at

\* The list with its long-term marks, and the pictures in the two lists (-1
\* for what is read past the end of the list).
constructRefPicList(list, poc, rpl) ==
  LET at == [k \in DOMAIN rpl |-> IF rpl[k].lt THEN xGetLongTermRefPic(list, rpl[k].ident, poc)
                                             ELSE xGetRefPic(list, poc - rpl[k].ident)]
      mark(i) == SelectLastInSeq(at, LAMBDA a : a = i)
  IN [list |-> [i \in DOMAIN list |->
                  IF mark(i) = 0 THEN list[i] ELSE [list[i] EXCEPT !.lt = rpl[mark(i)].lt]],
      refs |-> [k \in DOMAIN rpl |-> IF at[k] = 0 THEN -1 ELSE list[at[k]].id]]
-----------------------------------------------------------------------------
\* No entry of a picture after an IRAP picture goes back before it.
\* (the code compares pocCRA with MAX_UINT, which as an int is -1).
checkCRA(list, poc, rpl, pocCRA) ==
  pocCRA # -1 /\ poc > pocCRA =>
    \A i \in DOMAIN rpl :
      IF rpl[i].lt THEN list[xGetLongTermRefPic(list, rpl[i].ident, poc)].poc >= pocCRA
                   ELSE poc - rpl[i].ident >= pocCRA

\* The CHECKs of checkLeadingPictureRestrictions for the slice s, a record
\* of its poc, type, assocPoc and assocType; out and noPrior are the flags of
\* the one picture header object, which every slice points to.
LeadingType(s) ==
  /\ s.assocPoc > s.poc /\ s.type \notin RapTypes => s.type \in LeadTypes
  /\ s.assocPoc < s.poc => s.type \notin LeadTypes
  /\ s.type = "RASL" => s.assocType \notin IdrTypes
  /\ s.type = "RADL" => s.assocType # "IDR_N_LP"

LeadingOrder(s, p, out, noPrior) ==
  /\ out /\ ~noPrior /\ s.type \in RapTypes => p.poc < s.poc
  /\ out /\ s.type = "RADL" /\ s.assocPoc > p.assocPoc /\ s.assocPoc # p.poc =>
       p.poc < s.poc
  /\ s.type \in LeadTypes /\ p.type \notin LeadTypes /\ p.assocPoc = s.assocPoc =>
       p.poc <= s.assocPoc
  /\ s.type = "RASL" /\ s.assocType = "CRA" /\ p.type = "RADL" /\ p.assocPoc = s.assocPoc =>
       p.poc > s.poc
  /\ s.type = "RASL" /\ s.assocType = "CRA" /\ p.type \in RapTypes /\ p.poc < s.assocPoc =>
       s.poc > p.poc

checkLeadingPictureRestrictions(list, s, out, noPrior) ==
  /\ LeadingType(s)
  /\ \A i \in DOMAIN list :
       list[i].recon /\ list[i].poc # s.poc => LeadingOrder(s, list[i], out, noPrior)

checkNoOutputPriorPics(list, poc) ==
  [i \in DOMAIN list |-> [list[i] EXCEPT !.needed = @ /\ list[i].poc = poc]]
-----------------------------------------------------------------------------
(* Output.                                                                 *)

NotYetDisplayed(p, last) == p.needed /\ p.poc > last

numPicsNotYetDisplayed(list, last) ==
  Cardinality({i \in DOMAIN list : NotYetDisplayed(list[i], last)})

dpbFullness(list, last) ==
  Cardinality({i \in DOMAIN list : NotYetDisplayed(list[i], last) \/ list[i].refd})

Displayed(p) == [p EXCEPT !.needed = FALSE, !.recon = @ /\ p.refd]

\* Mutants: one picture more, or fewer, waits than the SPS allows.
Bumps_Early(acc) == acc.waiting >= NumReorderPics \/ acc.fullness > MaxDecPicBuffering

Bumps_Late(acc) == acc.waiting > NumReorderPics + 1 \/ acc.fullness > MaxDecPicBuffering + 1

Bumps(acc) == acc.waiting > NumReorderPics \/ acc.fullness > MaxDecPicBuffering

WritePicture(acc, p) ==
  IF NotYetDisplayed(p, acc.last) /\ Bumps(acc)
    THEN [list |-> Append(acc.list, Displayed(p)),
          last |-> p.poc,
          out |-> Append(acc.out, p.id),
          waiting |-> acc.waiting - 1,
          fullness |-> IF p.refd THEN acc.fullness ELSE acc.fullness - 1]
    ELSE [acc EXCEPT !.list = Append(@, p)]

\* Frame decoding: the list and the last POC after it, and what is written.
xWriteOutput(list, last) ==
  FoldLeft(WritePicture,
           [list |-> <<>>, last |-> last, out |-> <<>>,
            waiting |-> numPicsNotYetDisplayed(list, last),
            fullness |-> dpbFullness(list, last)],
           list)

\* What xFlushOutput writes before it deletes every picture.
xFlushOutput(list) ==
  LET waiting == SelectSeq(list, LAMBDA p : p.needed)
  IN [i \in DOMAIN waiting |-> waiting[i].id]
=============================================================================
