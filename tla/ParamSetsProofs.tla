-------------------------- MODULE ParamSetsProofs ---------------------------
(***************************************************************************)
(* What ParameterSetMap keeps, for any number of parameter sets: the last  *)
(* bytes received under each id, and every set in use until it has been    *)
(* replaced by another one in use.                                         *)
(***************************************************************************)
EXTENDS ParamSets, TLAPS

Objects == [id : Int, ref : Nat, val : Nat, tid : Nat, at : Nat, pcv : Seq(Nat)]

\* A map as its operations leave it: each object is under its own id.
IsMap(m) ==
  /\ m = [sets |-> m.sets, changed |-> m.changed, active |-> m.active, last |-> m.last]
  /\ m.sets \in [DOMAIN m.sets -> Objects] /\ m.last \in Objects
  /\ \A id \in DOMAIN m.sets : m.sets[id].id = id

\* storePS leaves the map as it is, or puts the set under its id and may keep the one
\* it replaces.
LEMMA StoreCases ==
  ASSUME NEW m, IsMap(m), NEW ps \in Objects
  PROVE  LET new == storePS(m, ps)
         IN \/ ps.id \in DOMAIN m.sets /\ SameBytes(m.sets[ps.id], ps) /\ new = m
            \/ /\ new.sets = [k \in DOMAIN m.sets \cup {ps.id} |-> IF k = ps.id THEN ps ELSE m.sets[k]]
               /\ ps.id \in m.active /\ ps.id \in DOMAIN m.sets => new.last = m.sets[ps.id]
               /\ ~(ps.id \in m.active /\ ps.id \in DOMAIN m.sets) => new.last = m.last
               /\ new.active = m.active
  BY DEF storePS, PutPS, Changes, IsMap

\* Maps start so, and stay so.
LEMMA StartsMap == IsMap(NoSets)
  BY DEF IsMap, NoSets, NoSet, Objects

\* storePS makes a map of a map.
LEMMA StaysMap ==
  ASSUME NEW m, IsMap(m), NEW ps \in Objects
  PROVE  IsMap(storePS(m, ps))
<1> DEFINE new == storePS(m, ps)
<1>1. new = [sets |-> new.sets, changed |-> new.changed, active |-> new.active, last |-> new.last]
  BY DEF IsMap, storePS, PutPS
<1>2. /\ new.sets \in [DOMAIN new.sets -> Objects]
      /\ \A id \in DOMAIN new.sets : new.sets[id].id = id
  <2>1. \/ new = m
        \/ new.sets = [k \in DOMAIN m.sets \cup {ps.id} |-> IF k = ps.id THEN ps ELSE m.sets[k]]
    BY StoreCases
  <2> HIDE DEF new
  <2>2. CASE new = m
    BY <2>2 DEF IsMap
  <2>3. CASE new.sets = [k \in DOMAIN m.sets \cup {ps.id} |-> IF k = ps.id THEN ps ELSE m.sets[k]]
    BY <2>3 DEF IsMap
  <2> QED
    BY <2>1, <2>2, <2>3
<1>3. new.last \in Objects
  BY StoreCases DEF IsMap
<1> QED
  BY <1>1, <1>2, <1>3 DEF IsMap

\* storePS leaves under the id of a received set its bytes, though it may be the
\* object that was there, and changes nothing under another id.
THEOREM StoredIsCurrent ==
  ASSUME NEW m, IsMap(m), NEW ps \in Objects
  PROVE  /\ SameBytes(getPS(storePS(m, ps), ps.id), ps)
         /\ \A id : id # ps.id => getPS(storePS(m, ps), id) = getPS(m, id)
<1> DEFINE new == storePS(m, ps)
<1>1. CASE new = m /\ ps.id \in DOMAIN m.sets /\ SameBytes(m.sets[ps.id], ps)
  BY <1>1 DEF getPS
<1>2. CASE new.sets = [k \in DOMAIN m.sets \cup {ps.id} |-> IF k = ps.id THEN ps ELSE m.sets[k]]
  <2> HIDE DEF new
  <2>1. getPS(new, ps.id) = ps
    BY <1>2 DEF getPS
  <2>2. ASSUME NEW id, id # ps.id PROVE getPS(new, id) = getPS(m, id)
    BY <1>2, <2>2 DEF getPS
  <2> QED
    BY <2>1, <2>2 DEF SameBytes, new
<1> QED
  BY <1>1, <1>2, StoreCases

\* A set that is in use survives the storing of any one set, of its own id or
\* another, so that a picture that points to it can be finished (the swap with
\* m_lastActiveParameterSet).
THEOREM ActiveSurvives ==
  ASSUME NEW m, IsMap(m), NEW ps \in Objects,
         NEW id \in m.active, id \in DOMAIN m.sets
  PROVE  ~Deleted(storePS(m, ps), m.sets[id])
<1> DEFINE new == storePS(m, ps)
<1>1. CASE id = ps.id /\ new # m
  <2>1. new.last = m.sets[id]
    BY <1>1, StoreCases
  <2> QED
    BY <2>1 DEF Deleted
<1>2. CASE id # ps.id \/ new = m
  <2>0. \/ new = m
        \/ new.sets = [k \in DOMAIN m.sets \cup {ps.id} |-> IF k = ps.id THEN ps ELSE m.sets[k]]
    BY StoreCases
  <2> HIDE DEF new
  <2>1. id \in DOMAIN new.sets /\ new.sets[id] = m.sets[id]
    BY <1>2, <2>0
  <2>2. ~Deleted(new, m.sets[id])
    BY <2>1 DEF Deleted
  <2> QED
    BY <2>2 DEF new
<1> QED
  BY <1>1, <1>2

\* A set that left the map while in use stays until another one in use leaves.
THEOREM LastActiveSurvives ==
  ASSUME NEW m, IsMap(m), NEW ps \in Objects, ps.id \notin m.active
  PROVE  ~Deleted(storePS(m, ps), m.last)
  BY StoreCases DEF Deleted, IsMap, Objects
=============================================================================
