-------------------------- MODULE RecordSet_proofs --------------------------
(***************************************************************************)
(* Proofs about RecordSet, for every value of its constants that satisfies *)
(* the module's assumptions: type correctness and the data-level set       *)
(* semantics of the records (UniqueRData).                                 *)
(***************************************************************************)
EXTENDS RecordSet, TLAPS

USE RecordTypeAssumption, RemoveTypesAssumption, NumberAssumption

(* The outcome record of a mutation has the types of the variables.        *)
OutcomeOK(o) ==
    /\ o.records \in Seq(Records)
    /\ o.ttl \in Ttls \cup {0}
    /\ o.serial \in Serials
    /\ o.rrsigs \in Seq(Rrsigs) /\ Len(o.rrsigs) <= MaxRrsigs
    /\ o.ret \in BOOLEAN
    /\ o.panic \in Panics

-----------------------------------------------------------------------------
(* Vec::remove keeps a sequence of S a sequence of S, one element shorter, *)
(* and keeps its elements before i and shifts those after i.               *)
LEMMA VecRemoveType ==
    ASSUME NEW S, NEW v \in Seq(S), NEW i \in 1..Len(v)
    PROVE  /\ VecRemove(v, i) \in Seq(S)
           /\ Len(VecRemove(v, i)) = Len(v) - 1
           /\ \A j \in 1..Len(v) - 1 :
                 VecRemove(v, i)[j] = IF j < i THEN v[j] ELSE v[j + 1]
BY DEF VecRemove

LEMMA RejectedOK ==
    TypeOK => OutcomeOK(Rejected) /\ OutcomeOK(Panic("singleton"))
              /\ OutcomeOK(Panic("soa_rdata"))
BY DEF TypeOK, OutcomeOK, Rejected, Panic, Panics

LEMMA UpdatedOK ==
    ASSUME NEW recs \in Seq(Records), NEW t \in Ttls \cup {0}, NEW s \in Serials
    PROVE  OutcomeOK(Updated(recs, t, s))
BY DEF OutcomeOK, Updated, Panics

LEMMA PreClearedType ==
    TypeOK => PreCleared \in Seq(Records)
BY DEF PreCleared, TypeOK

LEMMA InsertResultOK ==
    ASSUME TypeOK, NEW r \in Records, NEW s \in Serials
    PROVE  OutcomeOK(InsertResult(r, s))
<1> DEFINE m == MatchIdx(PreCleared, r.rdata)
           i == CHOOSE k \in m : TRUE
<1>1. PreCleared \in Seq(Records)
  BY PreClearedType
<1>2. r.ttl \in Ttls \cup {0}
  BY DEF Records
<1>3. Append(PreCleared, r) \in Seq(Records)
  BY <1>1
<1>4. m # {} => [PreCleared EXCEPT ![i] = r] \in Seq(Records)
  <2> SUFFICES ASSUME m # {} PROVE [PreCleared EXCEPT ![i] = r] \in Seq(Records)
    OBVIOUS
  <2>1. i \in 1..Len(PreCleared)
    BY <1>1 DEF MatchIdx
  <2> QED
    BY <1>1, <2>1
<1> QED
  BY <1>2, <1>3, <1>4, RejectedOK, UpdatedOK DEF InsertResult

LEMMA RemoveResultOK ==
    ASSUME TypeOK, NEW rtype, NEW d, NEW s \in Serials
    PROVE  OutcomeOK(RemoveResult(rtype, d, s))
<1> DEFINE m == MatchIdx(records, d)
           k == CHOOSE k \in m : TRUE
<1>1. m # {} => VecRemove(records, k) \in Seq(Records)
  <2> SUFFICES ASSUME m # {} PROVE VecRemove(records, k) \in Seq(Records)
    OBVIOUS
  <2>1. k \in 1..Len(records)
    BY DEF MatchIdx, TypeOK
  <2> QED
    BY <2>1, VecRemoveType DEF TypeOK
<1>2. ttl \in Ttls \cup {0}
  BY DEF TypeOK
<1> QED
  BY <1>1, <1>2, RejectedOK, UpdatedOK DEF RemoveResult

(* Apply carries a well-typed outcome into the variables.                  *)
LEMMA ApplyOK ==
    ASSUME TypeOK, NEW o, OutcomeOK(o), NEW name \in Ops, Apply(o, name)
    PROVE  TypeOK'
BY DEF Apply, OutcomeOK, TypeOK

-----------------------------------------------------------------------------
(* Type correctness: every reachable state has the types of TypeOK; in     *)
(* particular insert_rrsig never pushes past MaxRrsigs.                    *)
THEOREM TypeCorrect == Spec => []TypeOK
<1>1. Init => TypeOK
  <2> SUFFICES ASSUME Init PROVE TypeOK
    OBVIOUS
  <2>1. /\ records \in Seq(Records) /\ ttl \in Ttls \cup {0}
        /\ dnsClass \in Classes /\ serial \in Serials
    <3>1. CASE \E s \in Serials : New(s)
      BY <3>1 DEF New
    <3>2. CASE \E t \in Ttls : WithTtl(t)
      BY <3>2 DEF WithTtl
    <3>3. CASE \E r \in Records : From(r)
      BY <3>3 DEF From, Records
    <3> QED
      BY <3>1, <3>2, <3>3 DEF Init
  <2>2. /\ rrsigs \in Seq(Rrsigs) /\ Len(rrsigs) <= MaxRrsigs
        /\ signedOver \in Seq(Records)
    BY DEF Init
  <2>3. ret \in BOOLEAN /\ op \in Ops /\ panicked \in Panics
    BY DEF Init, Ops, Panics
  <2> QED
    BY <2>1, <2>2, <2>3 DEF TypeOK
<1>2. TypeOK /\ [Next]_vars => TypeOK'
  <2> SUFFICES ASSUME TypeOK, [Next]_vars PROVE TypeOK'
    OBVIOUS
  <2>1. ASSUME NEW r \in Records, NEW s \in Serials, Insert(r, s)
        PROVE  TypeOK'
    BY <2>1, InsertResultOK, ApplyOK DEF Insert, Ops
  <2>2. ASSUME NEW t \in RemoveTypes, NEW d \in RDatas, NEW s \in Serials,
               Remove(t, d, s)
        PROVE  TypeOK'
    BY <2>2, RemoveResultOK, ApplyOK DEF Remove, Ops
  <2>3. ASSUME NEW d \in TypedRData, NewRecord(d) PROVE TypeOK'
    <3> DEFINE o == InsertResult([rdata |-> d, ttl |-> ttl, class |-> "IN"], 0)
               lost == o.panic = "none" /\ MatchIdx(o.records, d) = {}
    <3>1. [rdata |-> d, ttl |-> ttl, class |-> "IN"] \in Records
      BY DEF Records, TypedRData, RDatas, TypeOK
    <3>2. OutcomeOK(o)
      BY <3>1, InsertResultOK
    <3>3. OutcomeOK(IF lost THEN [o EXCEPT !.panic = "new_record"] ELSE o)
      BY <3>2 DEF OutcomeOK, Panics
    <3> QED
      BY <2>3, <3>3, ApplyOK DEF NewRecord, Ops
  <2>4. ASSUME NEW t \in Ttls, SetTtl(t) PROVE TypeOK'
    <3>1. records' \in Seq(Records)
      <4>1. \A i \in 1..Len(records) :
               [rdata |-> records[i].rdata, ttl |-> t, class |-> records[i].class] \in Records
        <5>1. \A i \in 1..Len(records) : records[i] \in Records
          BY DEF TypeOK
        <5> QED
          BY <5>1, Zenon DEF Records
      <4>2. records' \in [1..Len(records) -> Records]
        BY <2>4, <4>1 DEF SetTtl, TypeOK
      <4>3. Len(records) \in Nat
        BY DEF TypeOK
      <4> QED
        BY <4>2, <4>3
    <3> QED
      BY <2>4, <3>1 DEF SetTtl, TypeOK, Ops
  <2>5. ASSUME NEW c \in Classes, SetDnsClass(c) PROVE TypeOK'
    <3>1. records' \in Seq(Records)
      <4>1. \A i \in 1..Len(records) :
               [rdata |-> records[i].rdata, ttl |-> records[i].ttl, class |-> c] \in Records
        <5>1. \A i \in 1..Len(records) : records[i] \in Records
          BY DEF TypeOK
        <5> QED
          BY <5>1, Zenon DEF Records
      <4>2. records' \in [1..Len(records) -> Records]
        BY <2>5, <4>1 DEF SetDnsClass, TypeOK
      <4>3. Len(records) \in Nat
        BY DEF TypeOK
      <4> QED
        BY <4>2, <4>3
    <3> QED
      BY <2>5, <3>1 DEF SetDnsClass, TypeOK, Ops
  <2>6. ASSUME NEW g \in Rrsigs, InsertRrsig(g) PROVE TypeOK'
    BY <2>6 DEF InsertRrsig, TypeOK, Ops
  <2>7. CASE ClearRrsigs
    BY <2>7 DEF ClearRrsigs, TypeOK, Ops
  <2>8. CASE UNCHANGED vars
    BY <2>8 DEF vars, TypeOK
  <2> QED
    BY <2>1, <2>2, <2>3, <2>4, <2>5, <2>6, <2>7, <2>8 DEF Next
<1> QED
  BY <1>1, <1>2, PTL DEF Spec

-----------------------------------------------------------------------------
(* No two elements of a record sequence share rdata.                       *)
UniqueSeq(recs) ==
    \A i, j \in DOMAIN recs : i # j => recs[i].rdata # recs[j].rdata

LEMMA UniqueEmpty == UniqueSeq(<<>>)
BY DEF UniqueSeq

(* Appending a record whose rdata no element carries (the append path of   *)
(* insert) keeps the rdata unique.                                         *)
LEMMA UniqueAppend ==
    ASSUME NEW recs \in Seq(Records), UniqueSeq(recs), NEW r \in Records,
           MatchIdx(recs, r.rdata) = {}
    PROVE  UniqueSeq(Append(recs, r))
BY DEF UniqueSeq, MatchIdx

(* Replacing an element by a record of the same rdata (push, swap_remove)  *)
(* keeps the rdata unique.                                                 *)
LEMMA UniqueReplace ==
    ASSUME NEW recs \in Seq(Records), UniqueSeq(recs), NEW r \in Records,
           NEW i \in DOMAIN recs, recs[i].rdata = r.rdata
    PROVE  UniqueSeq([recs EXCEPT ![i] = r])
BY DEF UniqueSeq

(* Vec::remove keeps the rdata unique: it maps indices injectively.        *)
LEMMA UniqueRemove ==
    ASSUME NEW recs \in Seq(Records), UniqueSeq(recs), NEW i \in 1..Len(recs)
    PROVE  UniqueSeq(VecRemove(recs, i))
<1>1. /\ Len(VecRemove(recs, i)) = Len(recs) - 1
      /\ \A j \in 1..Len(recs) - 1 :
            VecRemove(recs, i)[j] = IF j < i THEN recs[j] ELSE recs[j + 1]
  BY VecRemoveType
<1>2. DOMAIN VecRemove(recs, i) = 1..Len(recs) - 1
  BY DEF VecRemove
<1> DEFINE src(j) == IF j < i THEN j ELSE j + 1
<1>3. \A j \in 1..Len(recs) - 1 :
         src(j) \in DOMAIN recs /\ VecRemove(recs, i)[j] = recs[src(j)]
  BY <1>1
<1>4. \A j, k \in 1..Len(recs) - 1 : j # k => src(j) # src(k)
  OBVIOUS
<1> SUFFICES ASSUME NEW j \in 1..Len(recs) - 1, NEW k \in 1..Len(recs) - 1, j # k
             PROVE  VecRemove(recs, i)[j].rdata # VecRemove(recs, i)[k].rdata
  BY <1>2 DEF UniqueSeq
<1>5. src(j) # src(k) /\ src(j) \in DOMAIN recs /\ src(k) \in DOMAIN recs
  BY <1>3, <1>4
<1>6. recs[src(j)].rdata # recs[src(k)].rdata
  BY <1>5 DEF UniqueSeq
<1> QED
  BY <1>3, <1>6

(* What insert leaves in records is unique if records was.                 *)
LEMMA InsertResultUnique ==
    ASSUME TypeOK, UniqueSeq(records), NEW r \in Records, NEW s
    PROVE  UniqueSeq(InsertResult(r, s).records)
<1> DEFINE m == MatchIdx(PreCleared, r.rdata)
           i == CHOOSE k \in m : TRUE
<1>1. PreCleared \in Seq(Records) /\ UniqueSeq(PreCleared)
  BY PreClearedType, UniqueEmpty DEF PreCleared
<1>2. m = {} => UniqueSeq(Append(PreCleared, r))
  BY <1>1, UniqueAppend
<1>3. m # {} => UniqueSeq([PreCleared EXCEPT ![i] = r])
  <2> SUFFICES ASSUME m # {} PROVE UniqueSeq([PreCleared EXCEPT ![i] = r])
    OBVIOUS
  <2>1. i \in DOMAIN PreCleared /\ PreCleared[i].rdata = r.rdata
    BY DEF MatchIdx
  <2> QED
    BY <1>1, <2>1, UniqueReplace
<1>4. /\ Rejected.records = records
      /\ Panic("singleton").records = records
      /\ Panic("soa_rdata").records = records
      /\ \A recs, t, x : Updated(recs, t, x).records = recs
  BY DEF Rejected, Panic, Updated
<1> QED
  BY <1>2, <1>3, <1>4 DEF InsertResult

(* What remove leaves in records is unique if records was.                 *)
LEMMA RemoveResultUnique ==
    ASSUME TypeOK, UniqueSeq(records), NEW rtype, NEW d, NEW s
    PROVE  UniqueSeq(RemoveResult(rtype, d, s).records)
<1> DEFINE m == MatchIdx(records, d)
           k == CHOOSE k \in m : TRUE
<1>1. m # {} => UniqueSeq(VecRemove(records, k))
  <2> SUFFICES ASSUME m # {} PROVE UniqueSeq(VecRemove(records, k))
    OBVIOUS
  <2>1. k \in 1..Len(records)
    BY DEF MatchIdx, TypeOK
  <2> QED
    BY <2>1, UniqueRemove DEF TypeOK
<1>2. /\ Rejected.records = records
      /\ \A recs, t, x : Updated(recs, t, x).records = recs
  BY DEF Rejected, Updated
<1> QED
  BY <1>1, <1>2 DEF RemoveResult

(* An insert either leaves records, rrsigs and serial as they were (a       *)
(* rejection or a panic) or clears the RRSIGs and takes the caller's       *)
(* serial (updated()).                                                     *)
Unmoved(o) == o.records = records /\ o.rrsigs = rrsigs /\ o.serial = serial
Stamped(o, s) == o.rrsigs = <<>> /\ o.serial = s

LEMMA InsertResultShape ==
    ASSUME NEW r, NEW s
    PROVE  Unmoved(InsertResult(r, s)) \/ Stamped(InsertResult(r, s), s)
<1>1. /\ Unmoved(Rejected)
      /\ Unmoved(Panic("singleton")) /\ Unmoved(Panic("soa_rdata"))
      /\ \A recs, t : Stamped(Updated(recs, t, s), s)
  BY DEF Unmoved, Stamped, Rejected, Panic, Updated
<1> QED
  BY <1>1 DEF InsertResult

(* The same holds of remove.                                               *)
LEMMA RemoveResultShape ==
    ASSUME NEW rtype, NEW d, NEW s
    PROVE  Unmoved(RemoveResult(rtype, d, s)) \/ Stamped(RemoveResult(rtype, d, s), s)
<1>1. Unmoved(Rejected) /\ \A recs, t : Stamped(Updated(recs, t, s), s)
  BY DEF Unmoved, Stamped, Rejected, Updated
<1> QED
  BY <1>1 DEF RemoveResult

(* Data-level set semantics: in every reachable state no two stored        *)
(* records share rdata.  UniqueRData is inductive relative to TypeOK.      *)
THEOREM RDataUnique == Spec => []UniqueRData
<1>1. Init => UniqueSeq(records)
  BY DEF Init, New, WithTtl, From, UniqueSeq
<1>2. TypeOK /\ UniqueSeq(records) /\ [Next]_vars => UniqueSeq(records)'
  <2> SUFFICES ASSUME TypeOK, UniqueSeq(records), [Next]_vars
               PROVE  UniqueSeq(records')
    OBVIOUS
  <2>1. ASSUME NEW r \in Records, NEW s \in Serials, Insert(r, s)
        PROVE  UniqueSeq(records')
    BY <2>1, InsertResultUnique DEF Insert, Apply
  <2>2. ASSUME NEW t \in RemoveTypes, NEW d \in RDatas, NEW s \in Serials,
               Remove(t, d, s)
        PROVE  UniqueSeq(records')
    BY <2>2, RemoveResultUnique DEF Remove, Apply
  <2>3. ASSUME NEW d \in TypedRData, NewRecord(d) PROVE UniqueSeq(records')
    <3> DEFINE o == InsertResult([rdata |-> d, ttl |-> ttl, class |-> "IN"], 0)
    <3>1. [rdata |-> d, ttl |-> ttl, class |-> "IN"] \in Records
      BY DEF Records, TypedRData, RDatas, TypeOK
    <3>2. UniqueSeq(o.records) /\ [o EXCEPT !.panic = "new_record"].records = o.records
      BY <3>1, InsertResultUnique
    <3> QED
      BY <2>3, <3>2 DEF NewRecord, Apply
  <2>4. ASSUME NEW t \in Ttls, SetTtl(t) PROVE UniqueSeq(records')
    BY <2>4 DEF SetTtl, UniqueSeq, TypeOK
  <2>5. ASSUME NEW c \in Classes, SetDnsClass(c) PROVE UniqueSeq(records')
    BY <2>5 DEF SetDnsClass, UniqueSeq, TypeOK
  <2>6. ASSUME NEW g \in Rrsigs, InsertRrsig(g) PROVE UniqueSeq(records')
    BY <2>6 DEF InsertRrsig
  <2>7. CASE ClearRrsigs
    BY <2>7 DEF ClearRrsigs
  <2>8. CASE UNCHANGED vars
    BY <2>8 DEF vars
  <2> QED
    BY <2>1, <2>2, <2>3, <2>4, <2>5, <2>6, <2>7, <2>8 DEF Next
<1>3. Spec => []UniqueSeq(records)
  BY <1>1, <1>2, TypeCorrect, PTL DEF Spec
<1> QED
  BY <1>3 DEF UniqueRData, UniqueSeq


-----------------------------------------------------------------------------
(* RRSIGs are dropped by every change of the data: while one is stored     *)
(* the rdata of the records is the one it was pushed over, whatever        *)
(* inserts, removes, new_record, set_ttl and set_dns_class calls came      *)
(* after it.                                                               *)
THEOREM SignaturesCovered == Spec => []SignaturesCoverData
<1>1. Init => SignaturesCoverData
  BY DEF Init, SignaturesCoverData
<1>2. TypeOK /\ SignaturesCoverData /\ [Next]_vars => SignaturesCoverData'
  <2> SUFFICES ASSUME TypeOK, SignaturesCoverData, [Next]_vars
               PROVE  SignaturesCoverData'
    OBVIOUS
  <2>1. ASSUME NEW o, NEW s, NEW name, Apply(o, name),
               Unmoved(o) \/ Stamped(o, s)
        PROVE  SignaturesCoverData'
    BY <2>1 DEF Apply, Unmoved, Stamped, SignaturesCoverData
  <2>2. ASSUME NEW r \in Records, NEW s \in Serials, Insert(r, s)
        PROVE  SignaturesCoverData'
    BY <2>1, <2>2, InsertResultShape DEF Insert
  <2>3. ASSUME NEW t \in RemoveTypes, NEW d \in RDatas, NEW s \in Serials,
               Remove(t, d, s)
        PROVE  SignaturesCoverData'
    BY <2>1, <2>3, RemoveResultShape DEF Remove
  <2>4. ASSUME NEW d \in TypedRData, NewRecord(d) PROVE SignaturesCoverData'
    <3> DEFINE o == InsertResult([rdata |-> d, ttl |-> ttl, class |-> "IN"], 0)
               lost == o.panic = "none" /\ MatchIdx(o.records, d) = {}
               o2 == IF lost THEN [o EXCEPT !.panic = "new_record"] ELSE o
    <3>1. Unmoved(o) \/ Stamped(o, 0)
      BY InsertResultShape
    <3>2. Unmoved(o2) \/ Stamped(o2, 0)
      BY <3>1 DEF Unmoved, Stamped
    <3> QED
      BY <2>1, <2>4, <3>2 DEF NewRecord
  <2>5. ASSUME NEW t \in Ttls, SetTtl(t) PROVE SignaturesCoverData'
    <3>1. RDataOf(records') = RDataOf(records)
      <4>1. DOMAIN records' = DOMAIN records
        BY <2>5 DEF SetTtl
      <4>2. \A i \in DOMAIN records : records'[i].rdata = records[i].rdata
        BY <2>5 DEF SetTtl
      <4> QED
        BY <4>1, <4>2 DEF RDataOf
    <3> QED
      BY <2>5, <3>1 DEF SetTtl, SignaturesCoverData
  <2>6. ASSUME NEW c \in Classes, SetDnsClass(c) PROVE SignaturesCoverData'
    <3>1. RDataOf(records') = RDataOf(records)
      <4>1. DOMAIN records' = DOMAIN records
        BY <2>6 DEF SetDnsClass
      <4>2. \A i \in DOMAIN records : records'[i].rdata = records[i].rdata
        BY <2>6 DEF SetDnsClass
      <4> QED
        BY <4>1, <4>2 DEF RDataOf
    <3> QED
      BY <2>6, <3>1 DEF SetDnsClass, SignaturesCoverData
  <2>7. ASSUME NEW g \in Rrsigs, InsertRrsig(g) PROVE SignaturesCoverData'
    BY <2>7 DEF InsertRrsig, SignaturesCoverData
  <2>8. CASE ClearRrsigs
    BY <2>8 DEF ClearRrsigs, SignaturesCoverData
  <2>9. CASE UNCHANGED vars
    BY <2>9 DEF vars, SignaturesCoverData
  <2> QED
    BY <2>2, <2>3, <2>4, <2>5, <2>6, <2>7, <2>8, <2>9 DEF Next
<1> QED
  BY <1>1, <1>2, TypeCorrect, PTL DEF Spec


-----------------------------------------------------------------------------
(* In an SOA or CNAME set, insert leaves at most one record: it clears the *)
(* set before the data match, so nothing matches and the record is         *)
(* appended to the empty sequence, or the set is left as it was.           *)
LEMMA InsertResultSingleton ==
    ASSUME TypeOK, SingletonSlot, NEW r, NEW s
    PROVE  RecordType \in {"SOA", "CNAME"} => Len(InsertResult(r, s).records) <= 1
<1> SUFFICES ASSUME RecordType \in {"SOA", "CNAME"}
             PROVE  Len(InsertResult(r, s).records) <= 1
  OBVIOUS
<1>1. PreCleared = <<>> /\ MatchIdx(PreCleared, r.rdata) = {}
  BY DEF PreCleared, MatchIdx
<1>2. Len(Append(PreCleared, r)) = 1
  BY <1>1
<1>3. /\ Rejected.records = records
      /\ Panic("singleton").records = records
      /\ Panic("soa_rdata").records = records
      /\ \A recs, t, x : Updated(recs, t, x).records = recs
  BY DEF Rejected, Panic, Updated
<1>4. Len(records) <= 1
  BY DEF SingletonSlot
<1>5. InsertResult(r, s).records \in {records, Append(PreCleared, r)}
  BY <1>1, <1>3 DEF InsertResult
<1> QED
  BY <1>2, <1>4, <1>5

(* Remove never lengthens the records.                                     *)
LEMMA RemoveResultShorter ==
    ASSUME TypeOK, NEW rtype, NEW d, NEW s
    PROVE  Len(RemoveResult(rtype, d, s).records) <= Len(records)
<1> DEFINE m == MatchIdx(records, d)
           k == CHOOSE k \in m : TRUE
<1>1. m # {} => Len(VecRemove(records, k)) <= Len(records)
  <2> SUFFICES ASSUME m # {} PROVE Len(VecRemove(records, k)) <= Len(records)
    OBVIOUS
  <2>1. k \in 1..Len(records)
    BY DEF MatchIdx, TypeOK
  <2> QED
    BY <2>1, VecRemoveType DEF TypeOK
<1>2. /\ Rejected.records = records
      /\ \A recs, t, x : Updated(recs, t, x).records = recs
  BY DEF Rejected, Updated
<1> QED
  BY <1>1, <1>2 DEF RemoveResult

(* RFC 2136 1.1.5: an SOA or CNAME set never holds two records, so the     *)
(* assert!(len <= 1) of insert never fires, for every choice of the       *)
(* constants.                                                             *)
THEOREM SingletonSlotHolds == Spec => []SingletonSlot
<1>1. Init => SingletonSlot
  <2> SUFFICES ASSUME Init PROVE Len(records) <= 1
    BY DEF SingletonSlot
  <2>1. CASE \E s \in Serials : New(s)
    BY <2>1 DEF New
  <2>2. CASE \E t \in Ttls : WithTtl(t)
    BY <2>2 DEF WithTtl
  <2>3. CASE \E r \in Records : From(r)
    BY <2>3 DEF From
  <2> QED
    BY <2>1, <2>2, <2>3 DEF Init
<1>2. TypeOK /\ SingletonSlot /\ [Next]_vars => SingletonSlot'
  <2> SUFFICES ASSUME TypeOK, SingletonSlot, [Next]_vars PROVE SingletonSlot'
    OBVIOUS
  <2>1. ASSUME NEW r \in Records, NEW s \in Serials, Insert(r, s)
        PROVE  SingletonSlot'
    BY <2>1, InsertResultSingleton DEF Insert, Apply, SingletonSlot
  <2>2. ASSUME NEW t \in RemoveTypes, NEW d \in RDatas, NEW s \in Serials,
               Remove(t, d, s)
        PROVE  SingletonSlot'
    BY <2>2, RemoveResultShorter DEF Remove, Apply, SingletonSlot
  <2>3. ASSUME NEW d \in TypedRData, NewRecord(d) PROVE SingletonSlot'
    <3> DEFINE o == InsertResult([rdata |-> d, ttl |-> ttl, class |-> "IN"], 0)
    <3>1. RecordType \in {"SOA", "CNAME"} => Len(o.records) <= 1
      BY InsertResultSingleton
    <3>2. [o EXCEPT !.panic = "new_record"].records = o.records
      OBVIOUS
    <3> QED
      BY <2>3, <3>1, <3>2 DEF NewRecord, Apply, SingletonSlot
  <2>4. ASSUME NEW t \in Ttls, SetTtl(t) PROVE SingletonSlot'
    BY <2>4 DEF SetTtl, SingletonSlot, TypeOK
  <2>5. ASSUME NEW c \in Classes, SetDnsClass(c) PROVE SingletonSlot'
    BY <2>5 DEF SetDnsClass, SingletonSlot, TypeOK
  <2>6. ASSUME NEW g \in Rrsigs, InsertRrsig(g) PROVE SingletonSlot'
    BY <2>6 DEF InsertRrsig, SingletonSlot
  <2>7. CASE ClearRrsigs
    BY <2>7 DEF ClearRrsigs, SingletonSlot
  <2>8. CASE UNCHANGED vars
    BY <2>8 DEF vars, SingletonSlot
  <2> QED
    BY <2>1, <2>2, <2>3, <2>4, <2>5, <2>6, <2>7, <2>8 DEF Next
<1> QED
  BY <1>1, <1>2, TypeCorrect, PTL DEF Spec

=============================================================================
