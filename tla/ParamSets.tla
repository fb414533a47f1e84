----------------------------- MODULE ParamSets ------------------------------
(***************************************************************************)
(* ParameterSetMap and ParameterSetManager: the parameter sets received,   *)
(* and which of them are in use.  A parameter set is an object             *)
(*   id        its id                                                      *)
(*   ref       of a PPS the id of its SPS, of an SPS its CTU size          *)
(*   val       everything else in its bytes                                *)
(*   tid       its temporal layer                                          *)
(*   at        the NAL unit that brought it, which tells objects apart     *)
(*             (not in the code)                                           *)
(*   pcv       of a PPS the SPS its PreCalcValues were computed from, as   *)
(*             <<val, ref>>; << >> for NULL                                *)
(* A map holds sets, an object for each id; changed, the ids whose bChanged *)
(* is set; active, m_activePsId; last, m_lastActiveParameterSet.           *)
(***************************************************************************)
EXTENDS Integers, Sequences, FiniteSets, SequencesExt

NoSet == [id |-> -1, ref |-> 0, val |-> 0, tid |-> 0, at |-> 0, pcv |-> <<>>]

NoSets == [sets |-> [id \in {} |-> NoSet], changed |-> {}, active |-> {}, last |-> NoSet]

getPS(m, id) == IF id \in DOMAIN m.sets THEN m.sets[id] ELSE NoSet

\* The SPS or PPS with the lowest id.
getFirstPS(m) == m.sets[CHOOSE id \in DOMAIN m.sets : \A k \in DOMAIN m.sets : id <= k]

SameBytes(a, b) == a.ref = b.ref /\ a.val = b.val

PutPS(m, ps) ==
  [m EXCEPT !.sets = [k \in DOMAIN m.sets \cup {ps.id} |-> IF k = ps.id THEN ps ELSE m.sets[k]]]

\* calculateParameterSetChangedFlag: bChanged stays set until it is cleared.
Changes(m, ps) == ps.id \in m.changed \/ ~SameBytes(m.sets[ps.id], ps)

\* Mutant: a set in use is deleted at once.
storePS_Deletes(m, ps) ==
  CASE ps.id \notin DOMAIN m.sets -> PutPS(m, ps)
    [] ps.id \in DOMAIN m.sets /\ ~Changes(m, ps) -> m
    [] OTHER -> [PutPS(m, ps) EXCEPT !.changed = @ \cup {ps.id}]

\* A set that has not changed is dropped; one in use becomes the last active
\* one, and the one that was is deleted.
storePS(m, ps) ==
  CASE ps.id \notin DOMAIN m.sets -> PutPS(m, ps)
    [] ps.id \in DOMAIN m.sets /\ ~Changes(m, ps) -> m
    [] OTHER -> [PutPS(m, ps) EXCEPT !.changed = @ \cup {ps.id},
                                     !.last = IF ps.id \in m.active THEN m.sets[ps.id] ELSE @]

\* Whether the object has been deleted.
Deleted(m, ps) ==
  ps.at # m.last.at /\ \A id \in DOMAIN m.sets : m.sets[id].at # ps.at

clearChangedFlag(m, ids) == [m EXCEPT !.changed = @ \ ids]

setActive(m, ids) == [m EXCEPT !.active = @ \cup ids]

clear(m) == [m EXCEPT !.active = {}]
-----------------------------------------------------------------------------
(* The manager: the maps of the SPSs, PPSs and ALF APSs, and m_activeSPSId. *)

NoParamSets == [sps |-> NoSets, pps |-> NoSets, aps |-> NoSets, activeSps |-> -1]

SpsOf(ps, pps) == getPS(ps.sps, pps.ref)

\* The conditions of activatePPS.
MayActivate(ps, id, irap) ==
  LET pps == getPS(ps.pps, id)
  IN pps # NoSet /\ SpsOf(ps, pps) # NoSet /\ (irap \/ pps.ref = ps.activeSps)

activatePPS(ps, id) ==
  LET pps == getPS(ps.pps, id)
  IN [ps EXCEPT !.sps = setActive(clear(@), {pps.ref}), !.pps = setActive(clear(@), {id}),
                !.activeSps = pps.ref]

\* PreCalcValues are computed for a PPS that has none.
FillPcv(ps, id) ==
  LET pps == getPS(ps.pps, id)
      sps == SpsOf(ps, pps)
  IN IF pps.pcv # <<>> THEN ps ELSE [ps EXCEPT !.pps.sets[id].pcv = <<sps.val, sps.ref>>]

\* The APSs of the ids a slice names that are there; none is of a higher layer.
activateAPS(ps, ids) == [ps EXCEPT !.aps = setActive(@, ids \cap DOMAIN ps.aps.sets)]

ApsLayersOk(ps, ids, tid) == \A id \in ids \cap DOMAIN ps.aps.sets : ps.aps.sets[id].tid <= tid

\* The first slice of a picture activates its parameter sets.
FirstActivation(ps, id, ids) ==
  LET filled == FillPcv(ps, id)
      shown == [filled EXCEPT !.sps = clearChangedFlag(@, {getPS(ps.pps, id).ref}),
                              !.pps = clearChangedFlag(@, {id})]
      used == activatePPS(shown, id)
  IN activateAPS([used EXCEPT !.aps = clearChangedFlag(clear(@), DOMAIN used.aps.sets)], ids)

\* The later ones exit if one of them has changed since.
Unchanged(ps, spsId, ppsId) ==
  spsId \notin ps.sps.changed /\ ppsId \notin ps.pps.changed /\ ps.aps.changed = {}

\* An APS that comes again within an access unit must be the same; the object
\* is looked up under its id * 8, which is its key in the map only for id 0.
checkAuApsContent(ps, seen, id, val) ==
  id \in seen => id * 8 \in DOMAIN ps.aps.sets /\ ps.aps.sets[id * 8].val = val
=============================================================================
