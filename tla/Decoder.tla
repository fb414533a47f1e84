------------------------------ MODULE Decoder -------------------------------
(***************************************************************************)
(* DecApp::decode and DecLib: the loop that takes one NAL unit after the   *)
(* other from the window's queue, looks ahead for the end of a picture and *)
(* of an access unit, decodes headers and slices, and finishes, bumps and  *)
(* flushes pictures.  Each action is the part of an iteration named by pc: *)
(* nothing but Close, the window's own thread, runs beside it.             *)
(*                                                                         *)
(* A NAL unit is [type, tid, pic, poc, start, intra, rpl, aps, out,        *)
(* noPrior, ps]: a slice carries the low bits of poc, whether it starts at *)
(* CTU 0, its reference picture lists and the ids aps of its luma and      *)
(* chroma ALF APSs; a picture header ("PH") the flags out and noPrior and  *)
(* in ps.id the id of its PPS; a parameter set its id, ref and val.  pic,  *)
(* and all of poc but its low bits, are for the properties: which picture  *)
(* of the stream this is.                                                  *)
(***************************************************************************)
EXTENDS DecPicBuffer

CONSTANTS
  Streams,      \* the sequences of NAL units the queue may deliver before Fin
  Disturbed,    \* those with NAL units lost, where the window may be closed
  SkipFrames    \* values of the option -s with them

MAX_INT == 2147483647
NoNalu == [type |-> "INVALID", tid |-> 0, pic |-> 0, poc |-> 0, start |-> TRUE,
           intra |-> TRUE, rpl |-> <<>>, aps |-> {}, out |-> TRUE, noPrior |-> FALSE,
           ps |-> [id |-> -1, ref |-> 0, val |-> 0]]

ParameterSets == {"DPS", "VPS", "SPS", "PPS"}
ReservedVcl == {"RSV_VCL", "RSV_IRAP"}
ApsTypes == {"PREFIX_APS", "SUFFIX_APS"}
SuffixTypes == {"SUFFIX_APS", "SUFFIX_SEI", "FD"}
LayerFreeTypes == {"DPS", "VPS", "SPS", "EOS", "EOB"}

NaluTypes == SliceTypes \cup ParameterSets \cup ReservedVcl \cup SuffixTypes
  \cup {"INVALID", "EMPTY", "AUD", "PH", "PREFIX_SEI", "PREFIX_APS", "RSV_NVCL", "EOS", "EOB"}
Nalus == [type : NaluTypes, tid : Nat, pic : Nat, poc : Int, start : BOOLEAN, intra : BOOLEAN,
          rpl : Seq([lt : BOOLEAN, ident : Int, id : Nat]), aps : SUBSET Nat,
          out : BOOLEAN, noPrior : BOOLEAN, ps : [id : Int, ref : Nat, val : Nat]]

ASSUME DecoderAssumption ==
  Streams \subseteq Seq(Nalus) /\ Disturbed \subseteq Seq(Nalus) /\ SkipFrames \subseteq Nat

VARIABLES
  stream,       \* what the window receives
  disturbed,    \* whether something disturbs it
  recv,         \* how many NAL units get_next_nalu has returned
  lost,         \* lost() of the window
  buf,          \* outNalUnitBuf
  look,         \* how far a lookahead has read tmpNalUnitBuf
  pc,
  nalu,         \* the NAL unit of this iteration
  newPic, newAu,
  naluCount,
  app,          \* loopFiltered, pcListPic set, m_iPOCLastDisplay, m_iSkipFrame
  psm,          \* m_parameterSetManager
  dec,          \* the scalars of DecLib, of its slice pilot and picture header
  list,         \* m_cListPic
  cur,          \* m_pcPic: the id of its picture, 0 for NULL
  au,           \* m_accessUnitNals
  out,          \* the pictures written, in order
  refs          \* the reference pictures of the last slice, meant and found

queueVars == <<stream, disturbed, recv, lost, buf, look, naluCount>>
picVars == <<list, cur, out, refs>>
vars == <<stream, disturbed, recv, lost, buf, look, pc, nalu, newPic, newAu,
          naluCount, app, psm, dec, list, cur, au, out, refs>>

InitDec ==
  [firstPic |-> TRUE, firstSeq |-> TRUE, firstBits |-> TRUE,
   prevPOC |-> MAX_INT, prevTid0 |-> 0, pocRA |-> MAX_INT,
   pocCRA |-> 0, irapType |-> "INVALID",
   noPrior |-> FALSE, lastPOCNoPrior |-> -1, lastNoInc |-> FALSE,
   phValid |-> FALSE, phOut |-> TRUE, phNoPrior |-> FALSE, phPps |-> -1,
   sliceIdx |-> 0, prefixSei |-> 0,
   pilotPoc |-> 0, pilotNoInc |-> FALSE, pilotPic |-> FALSE]

Init ==
  /\ \/ stream \in Streams /\ disturbed = FALSE
     \/ stream \in Disturbed /\ disturbed = TRUE
  /\ recv = 0 /\ lost = FALSE
  /\ buf = <<>> /\ look = 0 /\ pc = "loop" /\ nalu = NoNalu
  /\ newPic = FALSE /\ newAu = FALSE /\ naluCount = 0
  /\ \E n \in IF disturbed THEN SkipFrames ELSE {0} :
       app = [loopFiltered |-> FALSE, listSet |-> FALSE, last |-> -MAX_INT + n, skip |-> n]
  /\ dec = InitDec /\ psm = NoParamSets
  /\ list = <<>> /\ cur = 0 /\ au = <<>> /\ out = <<>>
  /\ refs = [meant |-> <<>>, found |-> <<>>]
-----------------------------------------------------------------------------
(* The queue: get_next_nalu and the buffer of what was looked ahead.       *)

Arrives == ~lost /\ recv < Len(stream)     \* else get_next_nalu ends with lost

\* tmpNalUnitBuf holds the rest of buf; a new NAL unit is appended to buf.
CanLook == look < Len(buf) \/ Arrives
Looked == IF look < Len(buf) THEN buf[look + 1] ELSE stream[recv + 1]
Look ==
  /\ IF look < Len(buf) THEN UNCHANGED <<buf, recv>>
     ELSE buf' = Append(buf, stream[recv + 1]) /\ recv' = recv + 1
  /\ UNCHANGED <<stream, disturbed, lost, naluCount>>

\* Each lookahead starts with a copy of buf.
LookNext(stops) == IF stops THEN 0 ELSE look + 1

LookFails == lost' = TRUE /\ look' = 0 /\ UNCHANGED <<stream, disturbed, recv, buf, naluCount>>

Loop ==
  /\ pc = "loop" /\ ~lost
  /\ nalu' = NoNalu /\ newPic' = FALSE /\ newAu' = FALSE
  /\ pc' = IF dec.firstPic THEN "take" ELSE "isNewPicture"
  /\ UNCHANGED <<queueVars, app, psm, dec, au, picVars>>

isNewPicture ==
  /\ pc = "isNewPicture" /\ CanLook /\ Look
  /\ LET starts == Looked.type \in ParameterSets \cup {"AUD", "PH"}
         stays == Looked.type \in SliceTypes \cup ReservedVcl \cup SuffixTypes \cup {"EOS", "EOB"}
     IN /\ newPic' = starts
        /\ look' = LookNext(starts \/ stays)
        /\ pc' = IF starts THEN "isNewAccessUnit" ELSE IF stays THEN "take" ELSE pc
  /\ UNCHANGED <<nalu, newAu, app, psm, dec, au, picVars>>

isNewPictureLost ==
  /\ pc = "isNewPicture" /\ ~CanLook /\ LookFails
  /\ pc' = "take"
  /\ UNCHANGED <<nalu, newPic, newAu, app, psm, dec, au, picVars>>

\* Mutant: a slice starts an access unit when its own picture has no header yet.
isSliceNaluFirstInAU_NoHeader(n) == n.type \in SliceTypes /\ ~dec.phValid

\* A slice counts when the header of the picture before it is still there.
isSliceNaluFirstInAU(n) == n.type \in SliceTypes /\ dec.phValid

isNewAccessUnit ==
  /\ pc = "isNewAccessUnit" /\ ~lost /\ CanLook /\ Look
  /\ LET stops == Looked.type \in SliceTypes \cup SuffixTypes \cup {"AUD", "EOS", "EOB"}
     IN /\ newAu' = (Looked.type = "AUD" \/ isSliceNaluFirstInAU(Looked))
        /\ look' = LookNext(stops)
        /\ pc' = IF stops THEN "finish" ELSE pc
  /\ UNCHANGED <<nalu, newPic, app, psm, dec, au, picVars>>

isNewAccessUnitLost ==
  /\ pc = "isNewAccessUnit" /\ (lost \/ ~CanLook) /\ LookFails
  /\ pc' = "finish"
  /\ UNCHANGED <<nalu, newPic, newAu, app, psm, dec, au, picVars>>

\* Mutant: a NAL unit that was looked ahead is not taken from the buffer.
Take_SkipsBuffer ==
  /\ pc = "take" /\ Arrives
  /\ nalu' = stream[recv + 1] /\ recv' = recv + 1 /\ naluCount' = naluCount + 1
  /\ pc' = IF nalu'.type = "EMPTY" THEN "finish" ELSE "read"
  /\ UNCHANGED <<stream, disturbed, lost, look, buf, newPic, newAu, app, psm, dec, au, picVars>>

\* An empty NAL unit is counted, and its type stays INVALID.
Take ==
  /\ pc = "take" /\ (buf # <<>> \/ Arrives)
  /\ LET n == IF buf # <<>> THEN Head(buf) ELSE stream[recv + 1]
     IN IF n.type = "EMPTY" THEN nalu' = NoNalu /\ pc' = "finish"
                            ELSE nalu' = n /\ pc' = "read"
  /\ IF buf # <<>> THEN buf' = Tail(buf) /\ UNCHANGED recv
                   ELSE recv' = recv + 1 /\ UNCHANGED buf
  /\ naluCount' = naluCount + 1
  /\ UNCHANGED <<stream, disturbed, lost, look, newPic, newAu, app, psm, dec, au, picVars>>

\* Mutant: the end of the stream is retried.
TakeLost_Retries ==
  /\ pc = "take" /\ buf = <<>> /\ ~Arrives
  /\ pc' = IF lost THEN "flush" ELSE "loop"
  /\ UNCHANGED <<queueVars, nalu, newPic, newAu, app, psm, dec, au, picVars>>

TakeLost ==
  /\ pc = "take" /\ buf = <<>> /\ ~Arrives
  /\ lost' = TRUE /\ pc' = "flush"
  /\ UNCHANGED <<stream, disturbed, recv, buf, look, naluCount, nalu, newPic, newAu, app, psm, dec, au, picVars>>
-----------------------------------------------------------------------------
(* One NAL unit.                                                           *)

\* Mutant: the pictures are deleted and none is written.
Flush_Silent ==
  /\ list' = <<>> /\ app' = [app EXCEPT !.last = -MAX_INT] /\ UNCHANGED out

\* xFlushOutput, which does nothing without a list or with an empty one.
Flush ==
  IF ~app.listSet \/ list = <<>> THEN UNCHANGED <<app, list, out>>
  ELSE /\ out' = out \o xFlushOutput(list)
       /\ list' = <<>>
       /\ app' = [app EXCEPT !.last = -MAX_INT]

\* The header is read; the first slice of an IDR picture flushes the list.
Read ==
  /\ pc = "read"
  /\ IF dec.firstPic /\ nalu.type \in IdrTypes THEN Flush ELSE UNCHANGED <<app, list, out>>
  /\ pc' = "decode"
  /\ UNCHANGED <<queueVars, nalu, newPic, newAu, psm, dec, cur, au, refs>>

\* decode() begins with this.
PushNal == au' = Append(au, [type |-> nalu.type, tid |-> nalu.tid, id |-> nalu.ps.id])

NewSet ==
  [NoSet EXCEPT !.id = nalu.ps.id, !.ref = nalu.ps.ref, !.val = nalu.ps.val,
                !.tid = nalu.tid, !.at = naluCount]

\* m_accessUnitApsNals.
AccessUnitAps == {au[i].id : i \in {j \in DOMAIN au : au[j].type \in ApsTypes}}

\* The CHECKs, and the null pointers, of the NAL units other than slices.  To
\* parse a PPS takes its SPS.  Filler data has no case and throws.
UnitChecks ==
  CASE nalu.type \in {"DPS", "VPS", "SPS"} -> nalu.tid = 0
    [] nalu.type = "PPS" -> nalu.ps.ref \in DOMAIN psm.sps.sets
    [] nalu.type \in ApsTypes -> checkAuApsContent(psm, AccessUnitAps, nalu.ps.id, nalu.ps.val)
    [] nalu.type = "PH" -> /\ nalu.ps.id \in DOMAIN psm.pps.sets
                           /\ psm.pps.sets[nalu.ps.id].ref \in DOMAIN psm.sps.sets
    [] OTHER -> nalu.type # "FD"

StoreSet ==
  CASE nalu.type = "SPS" -> [psm EXCEPT !.sps = storePS(@, NewSet)]
    [] nalu.type = "PPS" -> [psm EXCEPT !.pps = storePS(@, NewSet)]
    [] nalu.type \in ApsTypes -> [psm EXCEPT !.aps = storePS(@, NewSet)]
    [] OTHER -> psm

\* decode() of all but slices.
DecodeOther ==
  /\ pc = "decode" /\ nalu.type \notin SliceTypes
  /\ PushNal
  /\ IF ~UnitChecks THEN pc' = "failed" /\ UNCHANGED <<dec, psm>>
     ELSE /\ psm' = StoreSet
          /\ dec' = CASE nalu.type = "PH" ->
                           [dec EXCEPT !.phValid = TRUE, !.phOut = nalu.out,
                                       !.phNoPrior = nalu.noPrior, !.phPps = nalu.ps.id]
                      [] nalu.type = "EOS" ->
                           [dec EXCEPT !.irapType = "INVALID", !.pocCRA = 0, !.pocRA = MAX_INT,
                                       !.prevPOC = MAX_INT]
                      [] nalu.type = "PREFIX_SEI" -> [dec EXCEPT !.prefixSei = @ + 1]
                      [] OTHER -> dec
          /\ pc' = IF nalu.type = "RSV_IRAP" /\ dec.prefixSei > 0 THEN "discard" ELSE "finish"
  /\ UNCHANGED <<queueVars, nalu, newPic, newAu, app, picVars>>

\* xParsePrefixSEIsForUnknownVCLNal deletes the front and does not pop it, so
\* the list is never empty; the second turn deletes a deleted object, at which
\* the program stops or goes on for ever.
Discard ==
  /\ pc = "discard" /\ dec.prefixSei > 0
  /\ pc' \in {"failed", "endless"}
  /\ UNCHANGED <<queueVars, nalu, newPic, newAu, app, psm, dec, au, picVars>>

\* No header: xDecodeSlice returns at once.
DecodeSliceNoHeader ==
  /\ pc = "decode" /\ nalu.type \in SliceTypes /\ ~dec.phValid
  /\ PushNal
  /\ pc' = "finish"
  /\ UNCHANGED <<queueVars, nalu, newPic, newAu, app, psm, dec, picVars>>

CurAt == SelectInSeq(list, LAMBDA p : p.id = cur)

\* The CHECK on the temporal layers of the access unit's NAL units so far.
TemporalIdOk(n) ==
  \A i \in DOMAIN au : au[i].type \notin LayerFreeTypes => au[i].tid >= n.tid

\* The CHECKs before the slice header is parsed, which follows the pointers to
\* the APSs.
SliceChecks(n) ==
  /\ ~dec.firstPic => CurAt # 0 /\ list[CurAt].type = n.type
  /\ TemporalIdOk(n)
  /\ n.type = "GDR" => n.tid = 0
  /\ n.aps \subseteq DOMAIN psm.aps.sets

IrapOrGdr(n) == n.type \in RapTypes \cup {"GDR"}
CraOrGdr(n) == n.type \in {"CRA", "GDR"}

xUpdatePreviousTid0POC(d, n, poc) ==
  IF n.tid = 0 /\ n.type \notin LeadTypes THEN [d EXCEPT !.prevTid0 = poc] ELSE d

\* NoIncorrectPicOutputFlag and NoOutputOfPriorPicsFlag are inferred.
InferNoOutput(d, n) ==
  LET noInc == d.pilotNoInc \/ (CraOrGdr(n) /\ d.firstSeq)
  IN IF ~IrapOrGdr(n) THEN d
     ELSE [d EXCEPT !.pilotNoInc = noInc,
                    !.phNoPrior = ~d.firstBits /\ noInc /\ (CraOrGdr(n) \/ @),
                    !.lastNoInc = IF CraOrGdr(n) THEN noInc ELSE @]

\* The POC's high bits are dropped at a CRA or GDR picture that starts one.
ResetMsb(d, n) ==
  IF CraOrGdr(n) /\ d.lastNoInc
    THEN xUpdatePreviousTid0POC([d EXCEPT !.pilotPoc = Lsb(@)], n, Lsb(d.pilotPoc))
    ELSE d

\* Slice header and inferences, up to the test for random access.
SliceHeader(n) ==
  LET d0 == IF dec.firstPic THEN [dec EXCEPT !.sliceIdx = 0] ELSE [dec EXCEPT !.pilotPic = TRUE]
      poc == ParsePoc(n.type, Lsb(n.poc), dec.prevTid0)
      d1 == xUpdatePreviousTid0POC([d0 EXCEPT !.pilotPoc = poc], n, poc)
      d2 == InferNoOutput(d1, n)
      prior == IrapOrGdr(n) /\ d2.phNoPrior
      d3 == [d2 EXCEPT !.noPrior = prior,
                       !.lastPOCNoPrior = IF prior THEN poc ELSE @,
                       !.phOut = @ /\ ~(n.type = "RASL" /\ d2.lastNoInc)]
  IN ResetMsb(d3, n)

\* Pending no-output of the prior pictures takes effect on the next picture.
PriorPics(n) ==
  IF (dec.firstPic \/ CraOrGdr(n)) /\ dec.noPrior
    THEN checkNoOutputPriorPics(list, dec.lastPOCNoPrior) ELSE list

Reordered(d, n) == n.type = "RASL" /\ d.pilotPoc < d.pocRA

\* isRandomAccessSkipPicture: whether the slice is skipped, and pocRA after.
RandomAccess(d, n) ==
  CASE app.skip > 0 -> [skipped |-> TRUE, pocRA |-> d.pocRA]
    [] app.skip = 0 /\ n.type \in IdrTypes -> [skipped |-> FALSE, pocRA |-> -MAX_INT]
    [] app.skip = 0 /\ n.type \notin IdrTypes /\ d.pocRA = MAX_INT ->
         IF n.type = "CRA" THEN [skipped |-> FALSE, pocRA |-> d.pilotPoc]
                           ELSE [skipped |-> TRUE, pocRA |-> d.pocRA]
    [] OTHER -> [skipped |-> Reordered(d, n), pocRA |-> d.pocRA]

\* The second slice at CTU 0 of what is taken for one picture is left undecoded.
LeavesAtNewPicture(d, n) == n.start /\ ~d.firstPic /\ d.prevPOC >= d.pocRA

DecodeSlice ==
  /\ pc = "decode" /\ nalu.type \in SliceTypes /\ dec.phValid
  /\ PushNal
  /\ IF ~SliceChecks(nalu) THEN pc' = "failed" /\ UNCHANGED <<app, dec, list>>
     ELSE LET d == SliceHeader(nalu)
              ra == RandomAccess(d, nalu)
              e == [d EXCEPT !.pocRA = ra.pocRA]
              leaves == ~ra.skipped /\ LeavesAtNewPicture(e, nalu)
          IN /\ list' = PriorPics(nalu)
             /\ app' = [app EXCEPT !.skip = IF @ > 0 THEN @ - 1 ELSE 0]
             /\ dec' = IF leaves THEN [e EXCEPT !.prevPOC = e.pilotPoc] ELSE e
             /\ pc' = IF ra.skipped \/ leaves THEN "finish" ELSE "refs"
  /\ UNCHANGED <<queueVars, nalu, newPic, newAu, psm, cur, out, refs>>

Missing ==
  checkThatAllRefPicsAreAvailable(list, dec.pilotPoc, nalu.type, nalu.rpl)

IsMissing(m) == m.missing # <<>> /\ m.missing[1].poc > 0

Available ==
  /\ pc = "refs" /\ ~IsMissing(Missing)
  /\ list' = Missing.list
  /\ dec' = [dec EXCEPT !.prevPOC = dec.pilotPoc]
  /\ pc' = "activate"
  /\ UNCHANGED <<queueVars, nalu, newPic, newAu, app, psm, cur, au, out, refs>>

\* xCreateLostPicture or, for a CRA or GDR picture that starts a sequence,
\* xCreateUnavailablePicture: reads the pilot's picture, which may be NULL, and
\* needs a buffer that has held slices.  The POC goes to the buffer's slice.
CreateLostPicture ==
  /\ pc = "refs" /\ IsMissing(Missing)
  /\ \E recreate \in Recreates(Missing.list, psm, getFirstPS(psm.sps)) :
       LET lostPoc == Missing.missing[1].poc - 1
           new == xGetNewPicBuffer(Missing.list, recreate)
           p == new.list[new.at]
           unavailable == CraOrGdr(nalu) /\ dec.pilotNoInc
       IN IF ~dec.pilotPic \/ p.slices = 0
            THEN pc' = "failed" /\ UNCHANGED <<list, dec>>
            ELSE /\ list' = [new.list EXCEPT ![new.at] =
                               [p EXCEPT !.id = 0, !.refd = TRUE, !.recon = TRUE, !.needed = ~unavailable,
                                         !.lt = IF unavailable THEN Missing.missing[1].lt ELSE @]]
                 /\ dec' = [xUpdatePreviousTid0POC(dec, p, lostPoc) EXCEPT
                              !.pocRA = IF @ = MAX_INT THEN lostPoc ELSE @]
                 /\ UNCHANGED pc
  /\ UNCHANGED <<queueVars, nalu, newPic, newAu, app, psm, cur, au, out, refs>>
-----------------------------------------------------------------------------
PilotSlice == [poc |-> dec.pilotPoc, type |-> nalu.type,
               assocPoc |-> dec.pocCRA, assocType |-> dec.irapType]

Activated ==
  IF dec.firstPic THEN FirstActivation(psm, dec.phPps, nalu.aps)
                  ELSE activateAPS(psm, nalu.aps)

\* The first slice: a buffer is taken before the lists' marking frees any.
FirstSliceList(recreate) ==
  LET new == xGetNewPicBuffer(list, recreate)
      marked == applyReferencePictureListBasedMarking(new.list, dec.pilotPoc, nalu.type, nalu.rpl)
      pps == getPS(Activated.pps, dec.phPps)
      aps == {psm.aps.sets[id] : id \in nalu.aps}
  IN [new EXCEPT !.list =
        [marked EXCEPT ![new.at] = [@ EXCEPT !.id = nalu.pic, !.type = nalu.type, !.tid = nalu.tid,
                                             !.assocPoc = dec.pocCRA, !.slices = 1,
                                             !.cs = finalInit(@, SpsOf(psm, pps), pps, aps)]]]

\* A later slice adds its APSs to those of the picture.
NextSliceList ==
  LET cs == list[CurAt].cs
      aps == {a \in cs.aps : a.id \notin nalu.aps} \cup {psm.aps.sets[id] : id \in nalu.aps}
  IN [list |-> [list EXCEPT ![CurAt] = [@ EXCEPT !.slices = @ + 1, !.cs.aps = aps]], at |-> CurAt]

\* Activation succeeds, and so does checkLeadingPictureRestrictions; or the
\* parameter sets and the count of the picture's slices are as they should be.
ActivationOk ==
  /\ IF dec.firstPic
       THEN /\ MayActivate(psm, dec.phPps, nalu.type \in RapTypes)
            /\ checkLeadingPictureRestrictions(xGetNewPicBuffer(list, FALSE).list, PilotSlice,
                                               dec.phOut, dec.phNoPrior)
       ELSE /\ list[CurAt].slices = dec.sliceIdx
            /\ Unchanged(psm, list[CurAt].cs.sps.id, list[CurAt].cs.pps.id)
  /\ ApsLayersOk(psm, nalu.aps, nalu.tid)

Recreating ==
  IF dec.firstPic THEN Recreates(list, psm, SpsOf(psm, getPS(psm.pps, dec.phPps))) ELSE {FALSE}

\* The list with the picture of the slice.
SliceList(recreate) ==
  LET a == IF dec.firstPic THEN FirstSliceList(recreate) ELSE NextSliceList
  IN [a.list EXCEPT ![a.at] = [@ EXCEPT !.poc = dec.pilotPoc, !.refd = TRUE, !.tid = nalu.tid]]

\* xActivateParameterSets and the rest of xDecodeSlice.
Activate ==
  /\ pc = "activate"
  /\ \E recreate \in Recreating :
     \E l \in {SliceList(recreate)} :
       LET first == dec.firstPic
           c == constructRefPicList(l, dec.pilotPoc, IF nalu.intra THEN <<>> ELSE nalu.rpl)
       IN IF ~ActivationOk \/ ~checkCRA(l, dec.pilotPoc, nalu.rpl, dec.pocCRA)
            THEN pc' = "failed" /\ UNCHANGED <<psm, dec, list, cur, refs>>
            ELSE /\ list' = c.list
                 /\ psm' = Activated
                 /\ cur' = IF first THEN nalu.pic ELSE cur
                 /\ refs' = [meant |-> IF nalu.intra THEN <<>> ELSE [i \in DOMAIN nalu.rpl |-> nalu.rpl[i].id],
                             found |-> c.refs]
                 /\ dec' = [dec EXCEPT !.firstPic = FALSE, !.firstSeq = FALSE, !.firstBits = FALSE,
                                       !.prefixSei = 0, !.sliceIdx = @ + 1,
                                       !.pilotNoInc = FALSE, !.pilotPic = ~first,
                                       !.pocCRA = IF nalu.type \in RapTypes THEN dec.pilotPoc ELSE @,
                                       !.irapType = IF nalu.type \in RapTypes THEN nalu.type ELSE @]
                 /\ pc' = "finish"
  /\ UNCHANGED <<queueVars, nalu, newPic, newAu, app, au, out>>
-----------------------------------------------------------------------------
(* The end of an iteration.                                                *)

Ends == newPic \/ lost \/ nalu.type = "EOS"

InitPicHeader(d) == [d EXCEPT !.phValid = FALSE, !.phOut = TRUE, !.phNoPrior = FALSE, !.phPps = -1]

\* executeLoopFilters and finishPicture on m_pcPic.
Finishes == Ends /\ ~dec.firstSeq /\ (~app.loopFiltered \/ ~lost)

FinishPicture ==
  /\ pc = "finish" /\ Finishes
  /\ IF CurAt = 0 THEN pc' = "failed" /\ UNCHANGED <<app, dec, list>>
     ELSE /\ list' = sortPicList([list EXCEPT ![CurAt].needed = dec.phOut, ![CurAt].recon = TRUE])
          /\ dec' = [InitPicHeader(dec) EXCEPT !.firstPic = TRUE, !.firstSeq = nalu.type = "EOS"]
          /\ app' = [app EXCEPT !.listSet = TRUE, !.loopFiltered = nalu.type = "EOS"]
          /\ pc' = "write"
  /\ UNCHANGED <<queueVars, nalu, newPic, newAu, psm, cur, au, out, refs>>

\* Nothing to finish: filtered already, no slice yet, or inside a picture.
NothingToFinish ==
  /\ pc = "finish" /\ ~Finishes
  /\ dec' = [dec EXCEPT !.firstPic = @ \/ (Ends /\ dec.firstSeq),
                        !.firstSeq = @ \/ (Ends /\ nalu.type = "EOS")]
  /\ app' = [app EXCEPT !.loopFiltered = IF Ends /\ ~dec.firstSeq THEN nalu.type = "EOS" ELSE @]
  /\ pc' = "write"
  /\ UNCHANGED <<queueVars, nalu, newPic, newAu, psm, au, picVars>>

Writes == newPic \/ nalu.type = "EOS" \/ nalu.type \in SliceTypes \cup ReservedVcl

Write ==
  /\ pc = "write"
  /\ \E w \in {xWriteOutput(list, app.last)} :
       IF app.listSet /\ Writes
         THEN list' = w.list /\ out' = out \o w.out /\ app' = [app EXCEPT !.last = w.last]
         ELSE UNCHANGED <<list, out, app>>
  /\ dec' = [dec EXCEPT !.firstPic = @ /\ ~(app.listSet /\ nalu.type = "EOS")]
  /\ au' = IF newAu THEN <<>> ELSE au
  /\ pc' = "loop"
  /\ UNCHANGED <<queueVars, nalu, newPic, newAu, psm, cur, refs>>

LeaveLoop ==
  /\ pc = "loop" /\ lost
  /\ pc' = "flush"
  /\ UNCHANGED <<queueVars, nalu, newPic, newAu, app, psm, dec, au, picVars>>

FlushOutput ==
  /\ pc = "flush" /\ Flush
  /\ pc' = "done"
  /\ UNCHANGED <<queueVars, nalu, newPic, newAu, psm, dec, cur, au, refs>>

\* Where the loop no longer is.
Ended == {"done", "failed", "endless"}

\* The window is closed, in its own thread, at any moment.
Close ==
  /\ disturbed /\ ~lost /\ pc \notin Ended
  /\ lost' = TRUE
  /\ UNCHANGED <<stream, disturbed, recv, buf, look, naluCount, pc, nalu, newPic, newAu, app, psm, dec, au, picVars>>

Terminated == pc \in Ended /\ UNCHANGED vars

Step ==
  \/ Loop \/ isNewPicture \/ isNewPictureLost \/ isNewAccessUnit \/ isNewAccessUnitLost
  \/ Take \/ TakeLost \/ Read \/ DecodeOther \/ Discard \/ DecodeSliceNoHeader \/ DecodeSlice
  \/ Available \/ CreateLostPicture \/ Activate \/ FinishPicture \/ NothingToFinish
  \/ Write \/ LeaveLoop \/ FlushOutput

Next == Step \/ Close \/ Terminated

Spec == Init /\ [][Next]_vars /\ WF_vars(Step)
-----------------------------------------------------------------------------
(* Properties.                                                             *)

\* Looking ahead neither loses, repeats nor reorders a NAL unit: the buffer is
\* exactly what was received and not yet taken (outNalUnitBuf, tmpNalUnitBuf).
QueueExact == buf = SubSeq(stream, naluCount + 1, recv)

SlicesOf(id) == {i \in DOMAIN stream : stream[i].type \in SliceTypes /\ stream[i].pic = id}
CodedPics == {stream[i].pic : i \in {j \in DOMAIN stream : stream[j].type \in SliceTypes}}
Coded(id) == stream[CHOOSE i \in SlicesOf(id) : TRUE]
OutFlag(id) == \E i \in DOMAIN stream : stream[i].type = "PH" /\ stream[i].pic = id /\ stream[i].out

\* On a stream that nothing disturbs no CHECK or THROW stops the decoder, and
\* it follows no null pointer: xDecodeSlice, xActivateParameterSets,
\* finishPicture.
NoFailure == disturbed \/ pc \notin {"failed", "endless"}

\* "detect lost reference picture and insert copy of earlier frame": a slice
\* that refers to a picture which is not there does not stop the decoder.
LostReplaced == [][pc = "refs" => pc' # "failed"]_vars

\* Each entry of the lists of a slice is the picture the encoder referred to,
\* undisturbed by marking, reuse of buffers and output (constructRefPicList).
RefsFound == disturbed \/ refs.found = refs.meant

\* The last parameter set of these types and this id that was taken, and the
\* header of the current picture.
Sent(types, id) ==
  LET at == {i \in 1..naluCount : stream[i].type \in types /\ stream[i].ps.id = id}
  IN stream[CHOOSE i \in at : \A j \in at : j <= i].ps
CurHeader == stream[CHOOSE i \in DOMAIN stream : stream[i].type = "PH" /\ stream[i].pic = cur]

SliceDecoded == ~disturbed /\ pc = "finish" /\ nalu.type \in SliceTypes /\ nalu.pic = cur

\* An IDR picture has come since this NAL unit: all buffers are new.
Renewed(at) == \E i \in (at + 1)..naluCount : stream[i].type \in IdrTypes

\* Whatever sets came before and whatever picture its buffer held, a slice is
\* decoded with the PPS and the APSs that were sent last under the ids that its
\* picture header and it name.  So is the SPS that was sent last under the id
\* the PPS names, unless it came with a CRA picture: a buffer that is used again
\* keeps its own.  The PreCalcValues are of that SPS unless the PPS is older
\* than it: a PPS sent again unchanged keeps them (storePS,
\* xActivateParameterSets, finalInit, xFlushOutput).
SetsCurrent ==
  SliceDecoded =>
    LET cs == list[CurAt].cs
        pps == Sent({"PPS"}, CurHeader.ps.id)
        sps == Sent({"SPS"}, pps.ref)
        spsAt == psm.sps.sets[pps.ref].at
    IN /\ SameBytes(cs.pps, pps)
       /\ SameBytes(cs.sps, sps) \/ ~Renewed(spsAt)
       /\ cs.pcv = <<sps.val, sps.ref>> \/ cs.pps.at < spsAt
       /\ {a.val : a \in cs.aps} = {Sent(ApsTypes, id).val : id \in nalu.aps}

\* The APS units taken since the first slice of the current picture whose ids
\* the picture uses.
ReplacedAps(cs) ==
  {i \in 1..naluCount : /\ stream[i].type \in ApsTypes /\ stream[i].ps.id \in {a.id : a \in cs.aps}
                        /\ \E j \in SlicesOf(cur) : j < i}

\* From its first slice until the loop filters have run, no parameter set that
\* the picture points to is deleted, though others with their ids may come: the
\* PPS in any case; the SPS unless one with its id came with a CRA picture; and
\* all the APSs as long as one of them is replaced and no more
\* (m_lastActiveParameterSet).
SetsAlive ==
  ~disturbed /\ ~dec.firstPic /\ ~dec.firstSeq /\ CurAt # 0 =>
    LET cs == list[CurAt].cs
    IN /\ ~Deleted(psm.pps, cs.pps)
       /\ ~Deleted(psm.sps, cs.sps) \/ ~Renewed(getPS(psm.sps, cs.sps.id).at)
       /\ Cardinality(ReplacedAps(cs)) <= 1 => \A a \in cs.aps : ~Deleted(psm.aps, a)

\* The picture starts a coded video sequence: an IDR picture, or the first after
\* an end of sequence.
Starts(id) ==
  LET first == CHOOSE i \in SlicesOf(id) : \A j \in SlicesOf(id) : i <= j
      before == {i \in 1..(first - 1) : stream[i].type \in SliceTypes \cup {"EOS"}}
  IN \/ Coded(id).type \in IdrTypes
     \/ before # {} /\ stream[CHOOSE i \in before : \A j \in before : j <= i].type = "EOS"

\* Pictures come out once each and by POC; those before the start of a sequence
\* in the stream come out before it (xWriteOutput, xFlushOutput).
OutputInOrder ==
  ~disturbed =>
    \A j \in DOMAIN out : \A i \in 1..(j - 1) :
      \/ \E k \in CodedPics : Starts(k) /\ out[i] < k /\ k <= out[j]
      \/ /\ Coded(out[i]).poc < Coded(out[j]).poc
         /\ \A k \in CodedPics : Starts(k) => ~(out[j] < k /\ k <= out[i])

\* Once the list has been worked on, no more pictures wait for output than the
\* SPS allows, so that each is shown as early as it may be (xWriteOutput).
BumpingDone ==
  ~disturbed /\ pc = "loop" /\ app.listSet =>
    numPicsNotYetDisplayed(list, app.last) <= NumReorderPics

\* The list never outgrows the buffers of the SPS by more than the one whose
\* reference is dropped only after a buffer was taken (xGetNewPicBuffer).
BufferBound == disturbed \/ Len(list) <= MaxDecPicBuffering + 1

\* Whether the picture can be decoded: not a RASL picture of the CRA picture
\* the stream was joined at.
Decodable(id) ==
  Coded(id).type = "RASL" =>
    \E k \in CodedPics : /\ k < id /\ Coded(k).type \in RapTypes
                         /\ \E j \in CodedPics : j < k

\* Pictures to be output, decoded and finished, that were not written.  The
\* picture after which nothing came is never finished.
NotShown == {id \in CodedPics : OutFlag(id) /\ Decodable(id) /\ id # cur /\ id \notin ToSet(out)}

\* The pictures of the sequence before the one that picture k starts.
Before(k) == {id \in CodedPics : id < k /\ \A j \in CodedPics : Starts(j) => j <= id \/ j >= k}

\* When the decoder ends, every picture to be output that it finished decoding
\* has been written: no buffer was reused or deleted before.  A CRA picture that
\* starts a sequence drops those that wait at that time, which are no more than
\* the SPS lets wait.  A decoder that joins at a CRA picture shows none of the
\* pictures whose references it never saw (xGetNewPicBuffer, xFlushOutput,
\* checkNoOutputPriorPics, isRandomAccessSkipPicture).
FinishedShown ==
  /\ ~disturbed => \A i \in DOMAIN out : Decodable(out[i])
  /\ ~disturbed /\ pc = "done" =>
       LET drops == {k \in CodedPics : Starts(k) /\ Coded(k).type = "CRA"}
       IN /\ NotShown \subseteq UNION {Before(k) : k \in drops}
          /\ \A k \in drops : Cardinality(NotShown \cap Before(k)) <= NumReorderPics

\* The loop ends, whatever is lost and whenever the window is closed: the stream
\* ends with Fin, which every wait notices.  The endless one is that of a
\* reserved IRAP NAL unit after a prefix SEI (xParsePrefixSEIsForUnknownVCLNal).
Terminates == <>(pc \in Ended)
=============================================================================
