------------------------ MODULE RecordSetActions_proofs ------------------------
(***************************************************************************)
(* Proofs of the action properties of RecordSet: what a single step of     *)
(* insert, remove, new_record, set_ttl or set_dns_class may never do.  Each *)
(* rests on the invariants of RecordSet_proofs (types, single slot).  Two  *)
(* of them hold only under the condition that the findings of the runs     *)
(* rrset_ns_any_remove and the CNAME re-insert show to be necessary, and  *)
(* state it as a hypothesis.                                               *)
(***************************************************************************)
EXTENDS RecordSet_proofs

USE RecordTypeAssumption, RemoveTypesAssumption, NumberAssumption

-----------------------------------------------------------------------------
(* Insert never empties a set: it appends, replaces in place, or leaves    *)
(* the records as they were.                                               *)
LEMMA InsertKeepsNonEmpty ==
    ASSUME TypeOK, records # <<>>, NEW r \in Records, NEW s
    PROVE  InsertResult(r, s).records # <<>>
<1> DEFINE m == MatchIdx(PreCleared, r.rdata)
           i == CHOOSE k \in m : TRUE
<1>0. PreCleared \in Seq(Records)
  BY PreClearedType
<1>1. Append(PreCleared, r) # <<>>
  BY <1>0
<1>2. m # {} => [PreCleared EXCEPT ![i] = r] # <<>>
  <2> SUFFICES ASSUME m # {} PROVE [PreCleared EXCEPT ![i] = r] # <<>>
    OBVIOUS
  <2>1. i \in DOMAIN PreCleared
    BY DEF MatchIdx
  <2> QED
    BY <1>0, <2>1
<1>3. /\ Rejected.records = records
      /\ Panic("singleton").records = records
      /\ Panic("soa_rdata").records = records
      /\ \A recs, t, x : Updated(recs, t, x).records = recs
  BY DEF Rejected, Panic, Updated
<1>4. CASE SingletonBroken \/ StoredSoaMalformed \/ SoaUpdateRefused(r)
  BY <1>3, <1>4 DEF InsertResult
<1>5. CASE ~(SingletonBroken \/ StoredSoaMalformed \/ SoaUpdateRefused(r)) /\ m = {}
  <2>1. InsertResult(r, s).records = Append(PreCleared, r)
    BY <1>3, <1>5 DEF InsertResult
  <2> QED
    BY <1>1, <2>1
<1>6. CASE ~(SingletonBroken \/ StoredSoaMalformed \/ SoaUpdateRefused(r)) /\ m # {}
  <2>1. InsertResult(r, s).records \in {records, [PreCleared EXCEPT ![i] = r]}
    BY <1>3, <1>6 DEF InsertResult
  <2> QED
    BY <1>2, <1>6, <2>1
<1> QED
  BY <1>4, <1>5, <1>6

(* In an SOA set that holds a record, insert leaves the records as they    *)
(* were or stores the one new SOA, whose serial is larger.                 *)
LEMMA InsertSoaStep ==
    ASSUME TypeOK, RecordType = "SOA", records # <<>>, NEW r \in Records, NEW s
    PROVE  \/ InsertResult(r, s).records = records
           \/ /\ InsertResult(r, s).records = <<r>>
              /\ IsSoa(r.rdata)
              /\ r.rdata.serial > records[1].rdata.serial
<1> DEFINE m == MatchIdx(PreCleared, r.rdata)
<1>1. PreCleared = <<>> /\ m = {}
  BY DEF PreCleared, MatchIdx
<1>2. CASE SingletonBroken \/ StoredSoaMalformed \/ SoaUpdateRefused(r)
  BY <1>2 DEF InsertResult, Rejected, Panic
<1>3. CASE ~(SingletonBroken \/ StoredSoaMalformed \/ SoaUpdateRefused(r))
  <2>1. InsertResult(r, s).records = Append(<<>>, r)
    BY <1>1, <1>3 DEF InsertResult, Updated
  <2>2. IsSoa(r.rdata) /\ ~(r.rdata.serial <= records[1].rdata.serial)
    BY <1>3 DEF SoaUpdateRefused
  <2>3. r.rdata.serial \in Nat /\ records[1].rdata.serial \in Nat
    <3>1. records[1] \in Records
      BY DEF TypeOK
    <3> QED
      BY <3>1 DEF Records, RDatas, SoaRData, OtherRData
  <2> QED
    BY <2>1, <2>2, <2>3
<1> QED
  BY <1>2, <1>3

(* In an SOA set of at most one record, remove leaves the records as they  *)
(* were or empties the set.                                                *)
LEMMA RemoveSoaStep ==
    ASSUME TypeOK, SingletonSlot, RecordType = "SOA", NEW rtype, NEW d, NEW s
    PROVE  RemoveResult(rtype, d, s).records \in {records, <<>>}
<1> DEFINE m == MatchIdx(records, d)
           k == CHOOSE k \in m : TRUE
<1>1. m # {} => VecRemove(records, k) = <<>>
  <2> SUFFICES ASSUME m # {} PROVE VecRemove(records, k) = <<>>
    OBVIOUS
  <2>1. k \in 1..Len(records) /\ Len(records) <= 1
    BY DEF MatchIdx, TypeOK, SingletonSlot
  <2>2. VecRemove(records, k) \in Seq(Records) /\ Len(VecRemove(records, k)) = 0
    BY <2>1, VecRemoveType DEF TypeOK
  <2> QED
    BY <2>2
<1>2. /\ Rejected.records = records
      /\ \A recs, t, x : Updated(recs, t, x).records = recs
  BY DEF Rejected, Updated
<1> QED
  BY <1>1, <1>2 DEF RemoveResult

-----------------------------------------------------------------------------
(* The step of ZoneSerialIncreases.                                        *)
SerialStep ==
    /\ RecordType = "SOA"
    /\ records # <<>> /\ records' # <<>>
    /\ IsSoa(records[1].rdata) /\ IsSoa(records'[1].rdata)
    /\ records'[1].rdata # records[1].rdata
    => records'[1].rdata.serial > records[1].rdata.serial

(* An SOA record is only ever replaced by one of larger serial: for every  *)
(* set of serials and every sequence of inserts, new_record calls, removes *)
(* and ttl or class rewrites, the zone serial of a stored SOA grows.       *)
THEOREM SerialIncreases == Spec => ZoneSerialIncreases
<1>1. TypeOK /\ SingletonSlot /\ [Next]_vars => [SerialStep]_records
  <2> SUFFICES ASSUME TypeOK, SingletonSlot, [Next]_vars,
                      RecordType = "SOA", records # <<>>
               PROVE  SerialStep
    BY DEF SerialStep
  <2>1. ASSUME NEW r \in Records, NEW s \in Serials, Insert(r, s) PROVE SerialStep
    BY <2>1, InsertSoaStep DEF Insert, Apply, SerialStep
  <2>2. ASSUME NEW t \in RemoveTypes, NEW d \in RDatas, NEW s \in Serials,
               Remove(t, d, s)
        PROVE  SerialStep
    BY <2>2, RemoveSoaStep DEF Remove, Apply, SerialStep
  <2>3. ASSUME NEW d \in TypedRData, NewRecord(d) PROVE SerialStep
    <3> DEFINE r == [rdata |-> d, ttl |-> ttl, class |-> "IN"]
               o == InsertResult(r, 0)
    <3>1. r \in Records
      BY DEF Records, TypedRData, RDatas, TypeOK
    <3>2. \/ o.records = records
          \/ o.records = <<r>> /\ IsSoa(r.rdata)
             /\ r.rdata.serial > records[1].rdata.serial
      BY <3>1, InsertSoaStep
    <3>3. [o EXCEPT !.panic = "new_record"].records = o.records
      OBVIOUS
    <3>4. records' = o.records
      BY <2>3, <3>3 DEF NewRecord, Apply
    <3> QED
      BY <3>2, <3>4 DEF SerialStep
  <2>4. ASSUME NEW t \in Ttls, SetTtl(t) PROVE SerialStep
    <3>1. records'[1].rdata = records[1].rdata
      BY <2>4 DEF SetTtl, TypeOK
    <3> QED
      BY <3>1 DEF SerialStep
  <2>5. ASSUME NEW c \in Classes, SetDnsClass(c) PROVE SerialStep
    <3>1. records'[1].rdata = records[1].rdata
      BY <2>5 DEF SetDnsClass, TypeOK
    <3> QED
      BY <3>1 DEF SerialStep
  <2>6. ASSUME NEW g \in Rrsigs, InsertRrsig(g) PROVE SerialStep
    BY <2>6 DEF InsertRrsig, SerialStep
  <2>7. CASE ClearRrsigs
    BY <2>7 DEF ClearRrsigs, SerialStep
  <2>8. CASE UNCHANGED vars
    BY <2>8 DEF vars, SerialStep
  <2> QED
    BY <2>1, <2>2, <2>3, <2>4, <2>5, <2>6, <2>7, <2>8 DEF Next
<1>2. Spec => [](TypeOK /\ SingletonSlot)
  BY TypeCorrect, SingletonSlotHolds, PTL
<1> QED
  BY <1>1, <1>2, PTL DEF Spec, ZoneSerialIncreases, SerialStep

-----------------------------------------------------------------------------
(* A remove whose argument has the set's own type never empties an NS set  *)
(* (the len <= 1 guard keeps its last record) nor an SOA set (refused).    *)
LEMMA RemoveKeepsProtected ==
    ASSUME TypeOK, RecordType \in {"NS", "SOA"}, records # <<>>,
           NEW d, NEW s
    PROVE  RemoveResult(RecordType, d, s).records # <<>>
<1> DEFINE m == MatchIdx(records, d)
           k == CHOOSE k \in m : TRUE
<1>1. CASE (RecordType = "NS" /\ Len(records) <= 1) \/ RecordType = "SOA" \/ m = {}
  BY <1>1 DEF RemoveResult, Rejected
<1>2. CASE ~((RecordType = "NS" /\ Len(records) <= 1) \/ RecordType = "SOA" \/ m = {})
  <2>1. RemoveResult(RecordType, d, s).records = VecRemove(records, k)
    BY <1>2 DEF RemoveResult, Updated
  <2>2. k \in 1..Len(records) /\ Len(records) > 1
    BY <1>2 DEF MatchIdx, TypeOK
  <2>3. Len(VecRemove(records, k)) = Len(records) - 1
    BY <2>2, VecRemoveType DEF TypeOK
  <2> QED
    BY <2>1, <2>2, <2>3
<1> QED
  BY <1>1, <1>2

(* The step of ProtectedSetNeverEmptied.                                   *)
KeepsStep ==
    (RecordType \in {"NS", "SOA"} /\ records # <<>>) => (records' # <<>>)

(* When callers remove records of the set's own type only (no ANY delete,  *)
(* see run rrset_ns_any_remove), no step of any kind empties a non-empty NS *)
(* or SOA set, for every choice of the other constants.                    *)
THEOREM ProtectedSetKept ==
    "ANY" \notin RemoveTypes => (Spec => ProtectedSetNeverEmptied)
<1> SUFFICES ASSUME "ANY" \notin RemoveTypes PROVE Spec => ProtectedSetNeverEmptied
  OBVIOUS
<1>1. TypeOK /\ [Next]_vars => [KeepsStep]_records
  <2> SUFFICES ASSUME TypeOK, [Next]_vars,
                      RecordType \in {"NS", "SOA"}, records # <<>>
               PROVE  records' # <<>>
    BY DEF KeepsStep
  <2>1. ASSUME NEW r \in Records, NEW s \in Serials, Insert(r, s) PROVE records' # <<>>
    BY <2>1, InsertKeepsNonEmpty DEF Insert, Apply
  <2>2. ASSUME NEW t \in RemoveTypes, NEW d \in RDatas, NEW s \in Serials,
               Remove(t, d, s)
        PROVE  records' # <<>>
    <3>1. t = RecordType
      OBVIOUS
    <3> QED
      BY <2>2, <3>1, RemoveKeepsProtected DEF Remove, Apply
  <2>3. ASSUME NEW d \in TypedRData, NewRecord(d) PROVE records' # <<>>
    <3> DEFINE r == [rdata |-> d, ttl |-> ttl, class |-> "IN"]
               o == InsertResult(r, 0)
    <3>1. r \in Records
      BY DEF Records, TypedRData, RDatas, TypeOK
    <3>2. o.records # <<>>
      BY <3>1, InsertKeepsNonEmpty
    <3>3. [o EXCEPT !.panic = "new_record"].records = o.records
      OBVIOUS
    <3> QED
      BY <2>3, <3>2, <3>3 DEF NewRecord, Apply
  <2>4. ASSUME NEW t \in Ttls, SetTtl(t) PROVE records' # <<>>
    BY <2>4 DEF SetTtl, TypeOK
  <2>5. ASSUME NEW c \in Classes, SetDnsClass(c) PROVE records' # <<>>
    BY <2>5 DEF SetDnsClass, TypeOK
  <2>6. ASSUME NEW g \in Rrsigs, InsertRrsig(g) PROVE records' # <<>>
    BY <2>6 DEF InsertRrsig
  <2>7. CASE ClearRrsigs
    BY <2>7 DEF ClearRrsigs
  <2>8. CASE UNCHANGED vars
    BY <2>8 DEF vars
  <2> QED
    BY <2>1, <2>2, <2>3, <2>4, <2>5, <2>6, <2>7, <2>8 DEF Next
<1> QED
  BY <1>1, TypeCorrect, PTL DEF Spec, ProtectedSetNeverEmptied, KeepsStep

-----------------------------------------------------------------------------
(* Outside CNAME sets, insert returns true exactly when it changes the     *)
(* records: every Updated path appends (the sequence grows), stores an SOA *)
(* of larger serial, or replaces a record by a different one.             *)
LEMMA InsertRetChange ==
    ASSUME TypeOK, RecordType # "CNAME", NEW r \in Records, NEW s
    PROVE  InsertResult(r, s).ret <=> InsertResult(r, s).records # records
<1> DEFINE m == MatchIdx(PreCleared, r.rdata)
           i == CHOOSE k \in m : TRUE
           o == InsertResult(r, s)
           guarded == SingletonBroken \/ StoredSoaMalformed \/ SoaUpdateRefused(r)
<1>0. PreCleared \in Seq(Records) /\ records \in Seq(Records)
  BY PreClearedType DEF TypeOK
<1>1. CASE guarded
  <2>1. o \in {Rejected, Panic("singleton"), Panic("soa_rdata")}
    BY <1>1 DEF InsertResult
  <2> QED
    BY <2>1 DEF Rejected, Panic
<1>2. CASE ~guarded /\ m = {}
  <2>1. o = Updated(Append(PreCleared, r), r.ttl, s)
    BY <1>2 DEF InsertResult
  <2>2. o.ret = TRUE /\ o.records = Append(PreCleared, r)
    BY <2>1 DEF Updated
  <2>3. CASE RecordType # "SOA"
    <3>1. PreCleared = records
      BY <2>3 DEF PreCleared
    <3>2. Len(Append(records, r)) # Len(records)
      BY <1>0
    <3> QED
      BY <2>2, <3>1, <3>2
  <2>4. CASE RecordType = "SOA" /\ records = <<>>
    <3>1. o.records = <<r>>
      BY <2>2, <2>4 DEF PreCleared
    <3> QED
      BY <2>2, <2>4, <3>1
  <2>5. CASE RecordType = "SOA" /\ records # <<>>
    <3>1. o.records = <<r>> /\ r.rdata.serial > records[1].rdata.serial
      <4>1. o.records = <<r>>
        BY <2>2, <2>5 DEF PreCleared
      <4>2. ~(r.rdata.serial <= records[1].rdata.serial)
        BY <1>2, <2>5 DEF SoaUpdateRefused
      <4>3. r.rdata.serial \in Nat /\ records[1].rdata.serial \in Nat
        <5>1. records[1] \in Records
          BY <2>5 DEF TypeOK
        <5> QED
          BY <5>1 DEF Records, RDatas, SoaRData, OtherRData
      <4> QED
        BY <4>1, <4>2, <4>3
    <3>2. r.rdata.serial \in Nat /\ records[1].rdata.serial \in Nat
      <4>1. records[1] \in Records
        BY <2>5 DEF TypeOK
      <4> QED
        BY <4>1 DEF Records, RDatas, SoaRData, OtherRData
    <3>3. r # records[1]
      BY <3>1, <3>2
    <3> QED
      BY <2>2, <3>1, <3>3
  <2> QED
    BY <2>3, <2>4, <2>5
<1>3. CASE ~guarded /\ m # {} /\ PreCleared[i] = r
  <2>1. o = Rejected
    BY <1>3 DEF InsertResult
  <2> QED
    BY <2>1 DEF Rejected
<1>4. CASE ~guarded /\ m # {} /\ PreCleared[i] # r
  <2>1. o = Updated([PreCleared EXCEPT ![i] = r], r.ttl, s)
    BY <1>4 DEF InsertResult
  <2>2. PreCleared = records /\ i \in DOMAIN records
    BY <1>4 DEF PreCleared, MatchIdx
  <2>3. [records EXCEPT ![i] = r][i] # records[i]
    BY <1>4, <2>2
  <2> QED
    BY <2>1, <2>2, <2>3 DEF Updated
<1> QED
  BY <1>1, <1>2, <1>3, <1>4

(* The step of InsertReportsChange.                                        *)
RetStep == op' = "insert" => (ret' <=> records' # records)

(* Spec 4.4 for every set type but CNAME (whose re-insert is the finding   *)
(* of the CNAME observation): an insert returns true exactly when it       *)
(* changes the records, whatever the constants.                           *)
THEOREM InsertReturnsChange ==
    RecordType # "CNAME" => (Spec => InsertReportsChange)
<1> SUFFICES ASSUME RecordType # "CNAME" PROVE Spec => InsertReportsChange
  OBVIOUS
<1>1. TypeOK /\ [Next]_vars => [RetStep]_vars
  <2> SUFFICES ASSUME TypeOK, [Next]_vars PROVE [RetStep]_vars
    OBVIOUS
  <2>1. ASSUME NEW r \in Records, NEW s \in Serials, Insert(r, s) PROVE RetStep
    BY <2>1, InsertRetChange DEF Insert, Apply, RetStep
  <2>2. ASSUME NEW t \in RemoveTypes, NEW d \in RDatas, NEW s \in Serials,
               Remove(t, d, s)
        PROVE  RetStep
    BY <2>2 DEF Remove, Apply, RetStep
  <2>3. ASSUME NEW d \in TypedRData, NewRecord(d) PROVE RetStep
    BY <2>3 DEF NewRecord, Apply, RetStep
  <2>4. ASSUME NEW t \in Ttls, SetTtl(t) PROVE RetStep
    BY <2>4 DEF SetTtl, RetStep
  <2>5. ASSUME NEW c \in Classes, SetDnsClass(c) PROVE RetStep
    BY <2>5 DEF SetDnsClass, RetStep
  <2>6. ASSUME NEW g \in Rrsigs, InsertRrsig(g) PROVE RetStep
    BY <2>6 DEF InsertRrsig, RetStep
  <2>7. CASE ClearRrsigs
    BY <2>7 DEF ClearRrsigs, RetStep
  <2>8. CASE UNCHANGED vars
    BY <2>8
  <2> QED
    BY <2>1, <2>2, <2>3, <2>4, <2>5, <2>6, <2>7, <2>8 DEF Next
<1> QED
  BY <1>1, TypeCorrect, PTL DEF Spec, InsertReportsChange, RetStep


-----------------------------------------------------------------------------
(* The step of ChangeClearsRrsigs.                                         *)
ClearStep ==
    (op' \in {"insert", "remove", "new_record"} /\ records' # records)
        => rrsigs' = <<>>

(* An outcome that leaves the records alone or clears the RRSIGs meets    *)
(* ClearStep once applied.                                                 *)
LEMMA ApplyClears ==
    ASSUME NEW o, NEW name, NEW s, Unmoved(o) \/ Stamped(o, s), Apply(o, name)
    PROVE  ClearStep
BY DEF Apply, Unmoved, Stamped, ClearStep

(* Spec 3 for every set type and every constant: an insert (including the *)
(* in-place replace of line 322), a remove or a new_record that changes    *)
(* the records leaves no RRSIG behind.                                     *)
THEOREM ChangesClearRrsigs == Spec => ChangeClearsRrsigs
<1>1. [Next]_vars => [ClearStep]_vars
  <2> SUFFICES ASSUME [Next]_vars PROVE [ClearStep]_vars
    OBVIOUS
  <2>1. ASSUME NEW r \in Records, NEW s \in Serials, Insert(r, s) PROVE ClearStep
    BY <2>1, InsertResultShape, ApplyClears DEF Insert
  <2>2. ASSUME NEW t \in RemoveTypes, NEW d \in RDatas, NEW s \in Serials,
               Remove(t, d, s)
        PROVE  ClearStep
    BY <2>2, RemoveResultShape, ApplyClears DEF Remove
  <2>3. ASSUME NEW d \in TypedRData, NewRecord(d) PROVE ClearStep
    <3> DEFINE o == InsertResult([rdata |-> d, ttl |-> ttl, class |-> "IN"], 0)
               lost == o.panic = "none" /\ MatchIdx(o.records, d) = {}
               o2 == IF lost THEN [o EXCEPT !.panic = "new_record"] ELSE o
    <3>1. Unmoved(o) \/ Stamped(o, 0)
      BY InsertResultShape
    <3>2. o2.records = o.records /\ o2.rrsigs = o.rrsigs /\ o2.serial = o.serial
      BY DEF InsertResult, Rejected, Panic, Updated
    <3>3. Unmoved(o2) \/ Stamped(o2, 0)
      BY <3>1, <3>2 DEF Unmoved, Stamped
    <3>4. Apply(o2, "new_record")
      BY <2>3 DEF NewRecord
    <3> QED
      BY <3>3, <3>4, ApplyClears
  <2>4. ASSUME NEW t \in Ttls, SetTtl(t) PROVE ClearStep
    BY <2>4 DEF SetTtl, ClearStep
  <2>5. ASSUME NEW c \in Classes, SetDnsClass(c) PROVE ClearStep
    BY <2>5 DEF SetDnsClass, ClearStep
  <2>6. ASSUME NEW g \in Rrsigs, InsertRrsig(g) PROVE ClearStep
    BY <2>6 DEF InsertRrsig, ClearStep
  <2>7. CASE ClearRrsigs
    BY <2>7 DEF ClearRrsigs, ClearStep
  <2>8. CASE UNCHANGED vars
    BY <2>8 DEF vars, ClearStep
  <2> QED
    BY <2>1, <2>2, <2>3, <2>4, <2>5, <2>6, <2>7, <2>8 DEF Next
<1> QED
  BY <1>1, PTL DEF Spec, ChangeClearsRrsigs, ClearStep

=============================================================================
