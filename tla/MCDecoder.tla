----------------------------- MODULE MCDecoder ------------------------------
(***************************************************************************)
(* Instances of Decoder: coded streams the encoder side could send.        *)
(* A coded picture is [type, poc, tid, refs, slices, pps, aps, pre, post,  *)
(* out], refs a sequence of [poc, lt], pps and aps the ids of its PPS and  *)
(* its APSs; pre and post are the NAL units before its header and after    *)
(* its slices.                                                             *)
(***************************************************************************)
EXTENDS Decoder

Other(type) == [type |-> type, ps |-> NoNalu.ps]
ParamSet(type, id, ref, val) == [type |-> type, ps |-> [id |-> id, ref |-> ref, val |-> val]]

\* An SPS with CTUs of 128 samples, and a PPS, of the streams that change none.
FirstSets == <<ParamSet("SPS", 0, 128, 1), ParamSet("PPS", 0, 0, 1)>>

Pic(type, poc, tid, rs) ==
  [type |-> type, poc |-> poc, tid |-> tid, slices |-> 1,
   pps |-> 0, aps |-> {}, pre |-> IF type \in RapTypes THEN FirstSets ELSE <<>>, post |-> <<>>,
   out |-> TRUE, refs |-> [i \in DOMAIN rs |-> [poc |-> rs[i], lt |-> FALSE]]]

Meant(pics, i, poc) ==
  LET before == {j \in 1..(i - 1) : pics[j].poc = poc}
  IN IF before = {} THEN 0 ELSE CHOOSE j \in before : \A k \in before : k <= j

Entry(pics, i, r) ==
  [lt |-> r.lt, id |-> Meant(pics, i, r.poc),
   ident |-> IF r.lt THEN Lsb(r.poc) ELSE pics[i].poc - r.poc]

Unit(pics, i, type, start) ==
  [NoNalu EXCEPT !.type = type, !.tid = pics[i].tid, !.pic = i, !.poc = pics[i].poc,
                 !.start = start, !.intra = type \in RapTypes \/ pics[i].refs = <<>>,
                 !.rpl = [k \in DOMAIN pics[i].refs |-> Entry(pics, i, pics[i].refs[k])],
                 !.out = pics[i].out]

SetUnit(pics, i, u) == [Unit(pics, i, u.type, TRUE) EXCEPT !.ps = u.ps]

AccessUnit(pics, i) ==
  [k \in DOMAIN pics[i].pre |-> SetUnit(pics, i, pics[i].pre[k])]
    \o <<[Unit(pics, i, "PH", TRUE) EXCEPT !.ps.id = pics[i].pps]>>
    \o [k \in 1..pics[i].slices |-> [Unit(pics, i, pics[i].type, k = 1) EXCEPT !.aps = pics[i].aps]]
    \o [k \in DOMAIN pics[i].post |-> SetUnit(pics, i, pics[i].post[k])]

\* A decoder that joins at the n-th picture.
From(pics, n) ==
  FlattenSeq([i \in 1..(Len(pics) - n + 1) |-> AccessUnit(pics, i + n - 1)])
NalUnits(pics) == From(pics, 1)
-----------------------------------------------------------------------------
(* Every coding of a few pictures after an IDR picture that conforms to the *)
(* SPS: any order, any references.                                         *)

Increasing(S) == CHOOSE s \in SetToSeqs(S) : \A i \in 1..(Len(s) - 1) : s[i] < s[i + 1]

Pocs(pics) == {pics[i].poc : i \in DOMAIN pics}
RefPocs(pic) == {pic.refs[i].poc : i \in DOMAIN pic.refs}

\* What the pictures after pics may still refer to.
Marked(pics) ==
  LET p == pics[Len(pics)] IN {p.poc} \cup (IF p.type \in IdrTypes THEN {} ELSE RefPocs(p))

PrevTid0(pics) ==
  LET at == {i \in DOMAIN pics : pics[i].tid = 0}
  IN pics[CHOOSE i \in at : \A j \in at : j <= i].poc

\* The next picture p, when the POCs left are still to be coded.
Conforms(pics, p, left) ==
  LET held == RefPocs(p) \cup {q \in Pocs(pics) : q > p.poc \/ \E r \in left : r < q}
  IN /\ Cardinality(held) + 1 <= MaxDecPicBuffering
     /\ Cardinality({q \in Pocs(pics) : q > p.poc}) <= NumReorderPics
     /\ p.poc - PrevTid0(pics) \in (1 - MaxPocLsb \div 2)..(MaxPocLsb \div 2)

RECURSIVE Codings(_, _)
Codings(pics, left) ==
  IF left = {} THEN {pics}
  ELSE UNION {LET p == Pic("TRAIL", poc, poc % 2, Increasing(R))
              IN IF Conforms(pics, p, left \ {poc}) THEN Codings(Append(pics, p), left \ {poc}) ELSE {} :
                <<poc, R>> \in left \X SUBSET Marked(pics)}

WithEos(pics) == [pics EXCEPT ![Len(pics)].post = <<Other("EOS")>>]

\* The IDR picture's POC is 6, so that the low bits of the others wrap; an
\* IDR picture of the next GOP follows.
GopStreams ==
  {NalUnits(WithEos(Append(p, Pic("IDR_N_LP", 3, 0, <<>>)))) : p \in Codings(<<Pic("IDR_N_LP", 6, 0, <<>>)>>, 7..10)}

\* The n pictures after an IDR picture refer to the one before and, the first k
\* of them, to the IDR picture, from the j-th as a long-term reference.
LongGop(n, j, k) ==
  <<Pic("IDR_N_LP", 6, 0, <<>>)>> \o
    [i \in 1..n |->
       LET idr == IF i = 1 \/ i > k THEN <<>> ELSE <<[poc |-> 6, lt |-> i >= j]>>
       IN [Pic("TRAIL", 6 + 2 * i, 0, <<>>) EXCEPT !.refs = <<[poc |-> 4 + 2 * i, lt |-> i = 1 /\ j = 1]>> \o idr]]

LongStreams == {NalUnits(LongGop(4, j, k)) : <<j, k>> \in (1..4) \X (1..3)}
-----------------------------------------------------------------------------
(* Every open GOP: after two pictures, a CRA picture of n slices with two  *)
(* leading and a trailing picture; from the start, or joined at the CRA,   *)
(* when the POCs of the pictures it refers to are negative.                *)

LeadingMay(pics, type, poc, R) ==
  LET lead == {i \in DOMAIN pics : pics[i].type \in LeadTypes}
  IN IF type = "RADL" THEN R \subseteq {8} \cup {pics[i].poc : i \in {j \in lead : pics[j].type = "RADL"}}
     ELSE \A i \in lead : pics[i].type = "RADL" => poc < pics[i].poc

RECURSIVE Leading(_, _)
Leading(pics, left) ==
  IF left = {} THEN {pics}
  ELSE UNION {LET p == Pic(type, poc, 1, Increasing(R))
              IN IF /\ LeadingMay(pics, type, poc, R) /\ Conforms(pics, p, left \ {poc})
                    /\ \A i \in DOMAIN pics : pics[i].type = "RADL" /\ type = "RADL" => pics[i].poc < poc
                   THEN Leading(Append(pics, p), left \ {poc}) ELSE {} :
                <<type, poc, R>> \in LeadTypes \X left \X SUBSET Marked(pics)}

OpenGops(n) ==
  LET start == <<Pic("IDR_W_RADL", 0, 0, <<>>), Pic("TRAIL", 4, 0, <<0>>),
                 [Pic("CRA", 8, 0, <<4, 0>>) EXCEPT !.slices = n]>>
  IN {WithEos(Append(p, Pic("TRAIL", 9, 0, Increasing(Marked(p) \cap {8})))) : p \in Leading(start, {6, 7})}

OpenStreams ==
  {From(p, n) : <<p, n>> \in (OpenGops(1) \cup OpenGops(2)) \X {1, 3}}

-----------------------------------------------------------------------------
(* Parameter sets that change.  Even and odd pictures use a PPS each, all   *)
(* two APSs; each picture may bring a new PPS or APS of its id, before its  *)
(* slices or, one APS or both, after them.  Then a picture that starts a    *)
(* sequence, an IDR picture or a CRA picture after an end of sequence, may  *)
(* bring a new SPS, of the same or another CTU size, or one of another id,  *)
(* and the PPSs anew or unchanged.                                         *)

Sets(sps, ctu, val, pps) ==
  <<ParamSet("SPS", sps, ctu, val), ParamSet("PPS", 0, sps, pps), ParamSet("PPS", 1, sps, pps)>>

FirstIdr ==
  [Pic("IDR_N_LP", 0, 0, <<>>) EXCEPT !.aps = {0, 1},
     !.pre = Sets(0, 128, 1, 1) \o <<ParamSet("PREFIX_APS", 0, 0, 1), ParamSet("PREFIX_APS", 1, 0, 1)>>]

Brings == {"nothing", "PPS", "PREFIX_APS", "SUFFIX_APS", "both"}

Trailing(poc, what) ==
  LET p == [Pic("TRAIL", poc, 0, <<poc - 1>>) EXCEPT !.pps = poc % 2, !.aps = {0, 1}]
      aps(id) == ParamSet("SUFFIX_APS", id, 0, poc + 1)
  IN CASE what = "PPS" -> [p EXCEPT !.pre = <<ParamSet("PPS", poc % 2, 0, poc + 1)>>]
       [] what = "PREFIX_APS" -> [p EXCEPT !.pre = <<ParamSet(what, 0, 0, poc + 1)>>]
       [] what = "SUFFIX_APS" -> [p EXCEPT !.post = <<aps(0)>>]
       [] what = "both" -> [p EXCEPT !.post = <<aps(0), aps(1)>>]
       [] OTHER -> p

NewSets == {<<>>, Sets(0, 128, 9, 9), Sets(0, 64, 9, 9), Sets(1, 128, 9, 9), Sets(0, 128, 9, 1), Sets(0, 64, 9, 1)}

\* The next sequence starts with an IDR picture, or with a CRA picture.
NextIdr(sets) == <<[FirstIdr EXCEPT !.pre = sets], Trailing(1, "nothing")>>
NextCra(poc, sets) ==
  <<[Pic("CRA", poc, 0, <<>>) EXCEPT !.pre = sets, !.aps = {0, 1}],
    [Trailing(poc + 1, "nothing") EXCEPT !.pps = 0], [Trailing(poc + 2, "nothing") EXCEPT !.pps = 0]>>

\* Every three changes before a sequence with the same sets, or one change.
SetChanges ==
  ([1..3 -> Brings] \X {<<>>})
    \cup ({f \in [1..3 -> Brings] : Cardinality({i \in 1..3 : f[i] # "nothing"}) <= 1} \X NewSets)

ParamStreams ==
  UNION {LET first == <<FirstIdr>> \o [i \in 1..3 |-> Trailing(i, c[1][i])]
         IN {NalUnits(first \o NextIdr(c[2])), NalUnits(WithEos(first) \o NextCra(8, c[2]))} : c \in SetChanges}

\* Three sequences with an SPS each.
SpsStreams ==
  {NalUnits(WithEos(<<FirstIdr>> \o [i \in 1..3 |-> Trailing(i, "nothing")])
              \o WithEos(NextCra(8, Sets(0, 128, 2, 2))) \o NextCra(16, sets)) : sets \in NewSets}

CodedStreams == GopStreams \cup LongStreams \cup OpenStreams \cup ParamStreams \cup SpsStreams
-----------------------------------------------------------------------------
(* One NAL unit of a GOP is lost, or comes empty, among others of all kinds. *)

SmallGop(n) ==
  << [Pic("IDR_N_LP", 6, 0, <<>>) EXCEPT !.pre = <<Other("AUD")>> \o @, !.post = <<Other("SUFFIX_SEI")>>],
     [Pic("TRAIL", 7, 0, <<>>) EXCEPT !.slices = n, !.pre = <<Other("PREFIX_SEI")>>],
     [Pic("TRAIL", 8, 0, <<7>>) EXCEPT !.pre = <<ParamSet("PREFIX_APS", 0, 0, 1), Other("RSV_NVCL")>>, !.aps = {0}],
     [Pic("TRAIL", 9, 0, <<8>>) EXCEPT !.pre = <<ParamSet("PPS", 0, 0, 2)>>, !.post = <<Other("RSV_VCL")>>],
     [Pic("IDR_N_LP", 2, 0, <<>>) EXCEPT !.pre = <<Other("AUD")>>, !.post = <<Other("EOB")>>] >>

LossStreams ==
  UNION {LET s == NalUnits(SmallGop(n))
         IN {RemoveAt(s, i) : i \in DOMAIN s}
              \cup {[s EXCEPT ![i].type = t] : <<i, t>> \in (DOMAIN s) \X {"EMPTY", "RSV_IRAP"}} :
            n \in 1..2}

\* A decoder joins at a CRA picture with low bits 4, which names a picture that
\* was 4 before it.
JoinedStreams ==
  {From(<<Pic("IDR_W_RADL", 0, 0, <<>>), Pic("TRAIL", 4, 0, <<0>>), Pic("TRAIL", 8, 0, <<4>>),
          Pic("CRA", 12, 0, <<8>>), Pic("TRAIL", 13, 0, <<12>>)>>, 4)}

LostStreams == LossStreams \cup JoinedStreams

NoStreams == {}

\* Values of -s.
SkipOne == {0, 1}
=============================================================================
