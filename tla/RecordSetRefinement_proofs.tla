---------------------- MODULE RecordSetRefinement_proofs ----------------------
(***************************************************************************)
(* RecordSet implements RecordSetAbstract under the mapping of RecordSet's *)
(* Abs: the rdata of the records is the abstract set, the rrsigs are the   *)
(* signatures and the serial is the serial.  Every step of insert, remove, *)
(* new_record, set_ttl, set_dns_class, insert_rrsig and clear_rrsigs is a  *)
(* step of Add, Drop, Refresh, Sign or Unsign, or leaves the abstract      *)
(* state as it was.  The argument rests on three invariants proved in      *)
(* RecordSet_proofs: the types, the uniqueness of rdata (a remove drops    *)
(* one value) and the single slot of SOA and CNAME sets (an insert of the  *)
(* value held is a refresh).                                               *)
(***************************************************************************)
EXTENDS RecordSet_proofs

USE RecordTypeAssumption, RemoveTypesAssumption, NumberAssumption

Sing == RecordType \in {"SOA", "CNAME"}

(* How an outcome o moves the abstract set.                                *)
DataAdded(o, v) ==
    /\ v \notin RDataSet(records)
    /\ RDataSet(o.records) = IF Sing THEN {v} ELSE RDataSet(records) \cup {v}
DataDropped(o, v) ==
    /\ v \in RDataSet(records)
    /\ RDataSet(o.records) = RDataSet(records) \ {v}
DataKept(o) == RDataSet(o.records) = RDataSet(records)

-----------------------------------------------------------------------------
(* The rdata set of a record sequence, under append, in-place replacement  *)
(* and Vec::remove.                                                        *)
LEMMA RDataSetAppend ==
    ASSUME NEW recs \in Seq(Records), NEW r
    PROVE  RDataSet(Append(recs, r)) = RDataSet(recs) \cup {r.rdata}
<1>1. /\ DOMAIN Append(recs, r) = 1..Len(recs) + 1
      /\ \A i \in 1..Len(recs) : Append(recs, r)[i] = recs[i]
      /\ Append(recs, r)[Len(recs) + 1] = r
  OBVIOUS
<1>2. DOMAIN recs = 1..Len(recs)
  OBVIOUS
<1>3. 1..Len(recs) + 1 = (1..Len(recs)) \cup {Len(recs) + 1}
  OBVIOUS
<1>4. RDataSet(Append(recs, r)) \subseteq RDataSet(recs) \cup {r.rdata}
  <2> SUFFICES ASSUME NEW i \in 1..Len(recs) + 1
               PROVE  Append(recs, r)[i].rdata \in RDataSet(recs) \cup {r.rdata}
    BY <1>1 DEF RDataSet
  <2>1. CASE i \in 1..Len(recs)
    BY <1>1, <1>2, <2>1 DEF RDataSet
  <2>2. CASE i = Len(recs) + 1
    BY <1>1, <2>2
  <2> QED
    BY <1>3, <2>1, <2>2
<1>5. RDataSet(recs) \cup {r.rdata} \subseteq RDataSet(Append(recs, r))
  <2>1. \A i \in 1..Len(recs) : recs[i].rdata \in RDataSet(Append(recs, r))
    BY <1>1 DEF RDataSet
  <2>2. r.rdata \in RDataSet(Append(recs, r))
    BY <1>1 DEF RDataSet
  <2> QED
    BY <1>2, <2>1, <2>2 DEF RDataSet
<1> QED
  BY <1>4, <1>5

LEMMA RDataSetReplace ==
    ASSUME NEW recs \in Seq(Records), NEW i \in DOMAIN recs, NEW r,
           recs[i].rdata = r.rdata
    PROVE  RDataSet([recs EXCEPT ![i] = r]) = RDataSet(recs)
BY DEF RDataSet

LEMMA RDataSetRemove ==
    ASSUME NEW recs \in Seq(Records), UniqueSeq(recs), NEW i \in 1..Len(recs)
    PROVE  RDataSet(VecRemove(recs, i)) = RDataSet(recs) \ {recs[i].rdata}
<1>1. /\ DOMAIN VecRemove(recs, i) = 1..Len(recs) - 1
      /\ \A j \in 1..Len(recs) - 1 :
            VecRemove(recs, i)[j] = IF j < i THEN recs[j] ELSE recs[j + 1]
  BY VecRemoveType DEF VecRemove
<1>2. \A j \in DOMAIN recs : j # i => recs[j].rdata # recs[i].rdata
  BY DEF UniqueSeq
<1>3. RDataSet(VecRemove(recs, i)) \subseteq RDataSet(recs) \ {recs[i].rdata}
  <2> SUFFICES ASSUME NEW k \in 1..Len(recs) - 1
               PROVE  VecRemove(recs, i)[k].rdata \in RDataSet(recs) \ {recs[i].rdata}
    BY <1>1 DEF RDataSet
  <2>1. CASE k < i
    BY <1>1, <1>2, <2>1 DEF RDataSet
  <2>2. CASE k >= i
    <3>1. k + 1 \in DOMAIN recs /\ k + 1 # i
      BY <2>2
    <3> QED
      BY <1>1, <1>2, <2>2, <3>1 DEF RDataSet
  <2> QED
    BY <2>1, <2>2
<1>4. RDataSet(recs) \ {recs[i].rdata} \subseteq RDataSet(VecRemove(recs, i))
  <2> SUFFICES ASSUME NEW j \in DOMAIN recs, j # i
               PROVE  recs[j].rdata \in RDataSet(VecRemove(recs, i))
    BY DEF RDataSet
  <2>1. j \in 1..Len(recs)
    OBVIOUS
  <2>2. CASE j < i
    <3>1. j \in 1..Len(recs) - 1 /\ VecRemove(recs, i)[j] = recs[j]
      BY <1>1, <2>1, <2>2
    <3> QED
      BY <1>1, <3>1 DEF RDataSet
  <2>3. CASE j > i
    <3>1. j - 1 \in 1..Len(recs) - 1 /\ VecRemove(recs, i)[j - 1] = recs[j]
      BY <1>1, <2>1, <2>3
    <3> QED
      BY <1>1, <3>1 DEF RDataSet
  <2> QED
    BY <2>1, <2>2, <2>3
<1> QED
  BY <1>3, <1>4

(* No index matches d exactly when d is not in the rdata set.              *)
LEMMA MatchEmpty ==
    ASSUME NEW recs, NEW d
    PROVE  MatchIdx(recs, d) = {} <=> d \notin RDataSet(recs)
BY DEF MatchIdx, RDataSet

-----------------------------------------------------------------------------
(* Insert adds its record's rdata, rewrites a record of equal rdata, or    *)
(* leaves the set as it was.                                               *)
LEMMA InsertRefines ==
    ASSUME TypeOK, UniqueSeq(records), SingletonSlot, NEW r \in Records, NEW s
    PROVE  LET o == InsertResult(r, s)
           IN  Unmoved(o) \/ (Stamped(o, s) /\ (DataAdded(o, r.rdata) \/ DataKept(o)))
<1> DEFINE m == MatchIdx(PreCleared, r.rdata)
           i == CHOOSE k \in m : TRUE
           o == InsertResult(r, s)
           guarded == SingletonBroken \/ StoredSoaMalformed \/ SoaUpdateRefused(r)
<1>0. PreCleared \in Seq(Records)
  BY PreClearedType
<1>1. CASE guarded
  <2>1. o \in {Rejected, Panic("singleton"), Panic("soa_rdata")}
    BY <1>1 DEF InsertResult
  <2> QED
    BY <2>1 DEF Unmoved, Rejected, Panic
<1>2. CASE ~guarded /\ m = {}
  <2>1. o = Updated(Append(PreCleared, r), r.ttl, s)
    BY <1>2 DEF InsertResult
  <2>2. Stamped(o, s) /\ o.records = Append(PreCleared, r)
    BY <2>1 DEF Stamped, Updated
  <2>3. RDataSet(o.records) = RDataSet(PreCleared) \cup {r.rdata}
    BY <1>0, <2>2, RDataSetAppend
  <2>4. CASE ~Sing
    <3>1. PreCleared = records /\ r.rdata \notin RDataSet(records)
      BY <1>2, <2>4, MatchEmpty DEF PreCleared, Sing
    <3> QED
      BY <2>2, <2>3, <2>4, <3>1 DEF DataAdded
  <2>5. CASE Sing
    <3>1. RDataSet(o.records) = {r.rdata}
      BY <2>3, <2>5 DEF PreCleared, Sing, RDataSet
    <3>2. CASE r.rdata \notin RDataSet(records)
      BY <2>2, <2>5, <3>1, <3>2 DEF DataAdded
    <3>3. CASE r.rdata \in RDataSet(records)
      <4>1. Len(records) <= 1
        BY <2>5 DEF SingletonSlot, Sing
      <4>2. RDataSet(records) = {r.rdata}
        BY <3>3, <4>1 DEF RDataSet, TypeOK
      <4> QED
        BY <2>2, <3>1, <4>2 DEF DataKept
    <3> QED
      BY <3>2, <3>3
  <2> QED
    BY <2>4, <2>5
<1>3. CASE ~guarded /\ m # {} /\ PreCleared[i] = r
  <2>1. o = Rejected
    BY <1>3 DEF InsertResult
  <2> QED
    BY <2>1 DEF Unmoved, Rejected
<1>4. CASE ~guarded /\ m # {} /\ PreCleared[i] # r
  <2>1. o = Updated([PreCleared EXCEPT ![i] = r], r.ttl, s)
    BY <1>4 DEF InsertResult
  <2>2. Stamped(o, s) /\ o.records = [PreCleared EXCEPT ![i] = r]
    BY <2>1 DEF Stamped, Updated
  <2>3. ~Sing /\ PreCleared = records
    BY <1>4 DEF PreCleared, Sing, MatchIdx
  <2>4. i \in DOMAIN records /\ records[i].rdata = r.rdata
    BY <1>4, <2>3 DEF MatchIdx
  <2>5. RDataSet([records EXCEPT ![i] = r]) = RDataSet(records)
    BY <2>4, RDataSetReplace DEF TypeOK
  <2>6. RDataSet(o.records) = RDataSet(records)
    BY <2>2, <2>3, <2>5
  <2> QED
    BY <2>2, <2>6 DEF DataKept
<1> QED
  BY <1>1, <1>2, <1>3, <1>4

(* Remove drops the one record of the given rdata, or changes nothing.     *)
LEMMA RemoveRefines ==
    ASSUME TypeOK, UniqueSeq(records), NEW rtype, NEW d, NEW s
    PROVE  LET o == RemoveResult(rtype, d, s)
           IN  Unmoved(o) \/ (Stamped(o, s) /\ DataDropped(o, d))
<1> DEFINE m == MatchIdx(records, d)
           k == CHOOSE k \in m : TRUE
           o == RemoveResult(rtype, d, s)
<1>1. CASE (rtype = "NS" /\ Len(records) <= 1) \/ rtype = "SOA" \/ m = {}
  <2>1. o = Rejected
    BY <1>1 DEF RemoveResult
  <2> QED
    BY <2>1 DEF Unmoved, Rejected
<1>2. CASE ~((rtype = "NS" /\ Len(records) <= 1) \/ rtype = "SOA" \/ m = {})
  <2>1. o = Updated(VecRemove(records, k), ttl, s)
    BY <1>2 DEF RemoveResult
  <2>2. Stamped(o, s) /\ o.records = VecRemove(records, k)
    BY <2>1 DEF Stamped, Updated
  <2>3. k \in 1..Len(records) /\ records[k].rdata = d
    BY <1>2 DEF MatchIdx, TypeOK
  <2>4. RDataSet(o.records) = RDataSet(records) \ {d}
    BY <2>2, <2>3, RDataSetRemove DEF TypeOK
  <2>5. d \in RDataSet(records)
    BY <2>3 DEF RDataSet
  <2> QED
    BY <2>2, <2>4, <2>5 DEF DataDropped
<1> QED
  BY <1>1, <1>2

(* A mutation whose outcome moves the set that way is an abstract step.    *)
LEMMA ApplyRefines ==
    ASSUME NEW o, NEW s \in Serials, NEW v \in RDatas, NEW name, Apply(o, name),
           Unmoved(o) \/ (Stamped(o, s) /\ (DataAdded(o, v) \/ DataDropped(o, v)
                                             \/ DataKept(o)))
    PROVE  [Abs!Next]_Abs!avars
<1>1. CASE Unmoved(o)
  BY <1>1 DEF Apply, Unmoved, Abs!avars
<1>2. CASE Stamped(o, s) /\ DataAdded(o, v)
  <2>1. Abs!Add(v, s)
    BY <1>2 DEF Apply, Stamped, DataAdded, Sing, Abs!Add
  <2> QED
    BY <2>1 DEF Abs!Next
<1>3. CASE Stamped(o, s) /\ DataDropped(o, v)
  <2>1. Abs!Drop(v, s)
    BY <1>3 DEF Apply, Stamped, DataDropped, Abs!Drop
  <2> QED
    BY <2>1 DEF Abs!Next
<1>4. CASE Stamped(o, s) /\ DataKept(o)
  <2>1. Abs!Refresh(s)
    BY <1>4 DEF Apply, Stamped, DataKept, Abs!Refresh
  <2> QED
    BY <2>1 DEF Abs!Next
<1> QED
  BY <1>1, <1>2, <1>3, <1>4

-----------------------------------------------------------------------------
(* The invariants the refinement rests on.                                 *)
RInv == TypeOK /\ UniqueSeq(records) /\ SingletonSlot

(* A RecordSet, driven by any sequence of calls, behaves as the abstract   *)
(* set of rdata: every data change drops the signatures and stamps the     *)
(* caller's serial, signatures come and go only over unchanged data, and a *)
(* singleton set holds one value.  Shown for every value of the constants. *)
THEOREM Refinement == Spec => RefinesAbstract
<1>1. Init => Abs!Init
  <2> SUFFICES ASSUME Init PROVE Abs!Init
    OBVIOUS
  <2>1. RDataSet(records) \in {{}} \cup {{v} : v \in RDatas}
    <3>1. CASE \E s \in Serials : New(s)
      BY <3>1 DEF New, RDataSet
    <3>2. CASE \E t \in Ttls : WithTtl(t)
      BY <3>2 DEF WithTtl, RDataSet
    <3>3. CASE \E r \in Records : From(r)
      BY <3>3 DEF From, RDataSet, Records
    <3> QED
      BY <3>1, <3>2, <3>3 DEF Init
  <2>2. serial \in Serials
    BY DEF Init, New, WithTtl, From
  <2> QED
    BY <2>1, <2>2 DEF Init, Abs!Init
<1>2. RInv /\ [Next]_vars => [Abs!Next]_Abs!avars
  <2> SUFFICES ASSUME RInv, [Next]_vars PROVE [Abs!Next]_Abs!avars
    OBVIOUS
  <2>0. TypeOK /\ UniqueSeq(records) /\ SingletonSlot
    BY DEF RInv
  <2>1. ASSUME NEW r \in Records, NEW s \in Serials, Insert(r, s)
        PROVE  [Abs!Next]_Abs!avars
    <3>1. r.rdata \in RDatas
      BY DEF Records
    <3> QED
      BY <2>0, <2>1, <3>1, InsertRefines, ApplyRefines DEF Insert
  <2>2. ASSUME NEW t \in RemoveTypes, NEW d \in RDatas, NEW s \in Serials,
               Remove(t, d, s)
        PROVE  [Abs!Next]_Abs!avars
    BY <2>0, <2>2, RemoveRefines, ApplyRefines DEF Remove
  <2>3. ASSUME NEW d \in TypedRData, NewRecord(d) PROVE [Abs!Next]_Abs!avars
    <3> DEFINE r == [rdata |-> d, ttl |-> ttl, class |-> "IN"]
               o == InsertResult(r, 0)
               lost == o.panic = "none" /\ MatchIdx(o.records, d) = {}
               o2 == IF lost THEN [o EXCEPT !.panic = "new_record"] ELSE o
    <3>1. r \in Records /\ d \in RDatas /\ r.rdata = d /\ 0 \in Serials
      BY <2>0 DEF Records, TypedRData, RDatas, TypeOK
    <3>2. Unmoved(o) \/ (Stamped(o, 0) /\ (DataAdded(o, d) \/ DataKept(o)))
      BY <2>0, <3>1, InsertRefines
    <3>3. Unmoved(o2) \/ (Stamped(o2, 0) /\ (DataAdded(o2, d) \/ DataKept(o2)))
      BY <3>2 DEF Unmoved, Stamped, DataAdded, DataKept
    <3> QED
      BY <2>3, <3>1, <3>3, ApplyRefines DEF NewRecord
  <2>4. ASSUME NEW t \in Ttls, SetTtl(t) PROVE [Abs!Next]_Abs!avars
    <3>1. RDataSet(records') = RDataSet(records)
      BY <2>4 DEF SetTtl, RDataSet
    <3> QED
      BY <2>4, <3>1 DEF SetTtl, Abs!avars
  <2>5. ASSUME NEW c \in Classes, SetDnsClass(c) PROVE [Abs!Next]_Abs!avars
    <3>1. RDataSet(records') = RDataSet(records)
      BY <2>5 DEF SetDnsClass, RDataSet
    <3> QED
      BY <2>5, <3>1 DEF SetDnsClass, Abs!avars
  <2>6. ASSUME NEW g \in Rrsigs, InsertRrsig(g) PROVE [Abs!Next]_Abs!avars
    <3>1. Abs!Sign(g)
      BY <2>6 DEF InsertRrsig, Abs!Sign
    <3> QED
      BY <3>1 DEF Abs!Next
  <2>7. CASE ClearRrsigs
    <3>1. Abs!Unsign
      BY <2>7 DEF ClearRrsigs, Abs!Unsign
    <3> QED
      BY <3>1 DEF Abs!Next
  <2>8. CASE UNCHANGED vars
    BY <2>8 DEF vars, Abs!avars
  <2> QED
    BY <2>1, <2>2, <2>3, <2>4, <2>5, <2>6, <2>7, <2>8 DEF Next
<1>3. Spec => []RInv
  BY TypeCorrect, RDataUnique, SingletonSlotHolds, PTL DEF RInv, UniqueRData, UniqueSeq
<1> QED
  BY <1>1, <1>2, <1>3, PTL DEF Spec, RefinesAbstract, Abs!Spec

=============================================================================
