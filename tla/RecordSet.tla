----------------------------- MODULE RecordSet -----------------------------
(***************************************************************************)
(* One RecordSet of client/src/rr/rr_set.rs: the records sharing one owner *)
(* name and one RR type, their RRSIGs and the serial at which the set was  *)
(* last modified.  The name is fixed and not represented; the set's type   *)
(* is the constant RecordType.  A Record is abstracted to its rdata, ttl   *)
(* and class (name and type are asserted equal to the set's by insert).    *)
(* An RRSIG is abstracted to the rank of its algorithm, or NotSig for a    *)
(* record pushed by insert_rrsig whose rdata is not a SIG.                 *)
(*                                                                         *)
(* A panic of the code (assert!, panic!, expect) ends the process: it sets *)
(* panicked to the site that fired and every action is then disabled.      *)
(***************************************************************************)
EXTENDS Integers, Sequences, FiniteSets

CONSTANTS
    RecordType,     \* the set's RR type: "A" (any ordinary type), "NS", "CNAME" or "SOA"
    RemoveTypes,    \* RR types of the records callers pass to remove
    Data,           \* rdata payloads (an address, a target name, an SOA mname)
    SoaSerials,     \* values of the serial field of SOA rdata
    Serials,        \* zone serials callers pass to insert and remove
    Ttls,           \* ttls of records and of set_ttl
    Classes,        \* DNS classes
    NumAlgorithms,  \* DNSSEC algorithms, ranked 1..NumAlgorithms by their Ord
    MaxRrsigs       \* bound on the RRSIGs insert_rrsig may push

RecordTypes == {"A", "NS", "CNAME", "SOA"}

ASSUME RecordTypeAssumption == RecordType \in RecordTypes
ASSUME RemoveTypesAssumption == RemoveTypes \subseteq {RecordType, "ANY"}
ASSUME NumberAssumption ==
    /\ SoaSerials \subseteq Nat /\ Serials \subseteq Nat /\ Ttls \subseteq Nat
    /\ 0 \in Serials /\ "IN" \in Classes
    /\ NumAlgorithms \in Nat /\ MaxRrsigs \in Nat

(* RData: an SOA payload carries its serial; any other payload does not.  *)
SoaRData == [tag : {"SOA"}, val : Data, serial : SoaSerials]
OtherRData == [tag : {"OTHER"}, val : Data, serial : {0}]

(* The rdata a record of this set may carry: nothing stops a record typed  *)
(* SOA from carrying non-SOA rdata (insert only asserts the record type).  *)
RDatas == IF RecordType = "SOA" THEN SoaRData \cup OtherRData ELSE OtherRData

(* The rdata whose to_record_type() is RecordType (new_record's assert).   *)
TypedRData == IF RecordType = "SOA" THEN SoaRData ELSE OtherRData

Records == [rdata : RDatas, ttl : Ttls \cup {0}, class : Classes]

Algorithms == 1..NumAlgorithms
NotSig == 0
Rrsigs == Algorithms \cup {NotSig}

Panics == {"none", "singleton", "soa_rdata", "new_record"}
Ops == {"init", "insert", "remove", "new_record", "set_ttl", "set_dns_class",
        "insert_rrsig", "clear_rrsigs"}

VARIABLES
    records,     \* self.records
    rrsigs,      \* self.rrsigs
    ttl,         \* self.ttl
    dnsClass,    \* self.dns_class
    serial,      \* self.serial
    ret,         \* value returned by the last insert or remove
    op,          \* the last operation called
    panicked,    \* the panic site that ended the process, or "none"
    signedOver   \* history: records when the first present RRSIG was pushed

vars == <<records, rrsigs, ttl, dnsClass, serial, ret, op, panicked, signedOver>>

-----------------------------------------------------------------------------
(* The three constructors: new, with_ttl and from(record).                 *)
New(s) ==
    /\ records = <<>> /\ ttl = 0 /\ dnsClass = "IN" /\ serial = s

WithTtl(t) ==
    /\ records = <<>> /\ ttl = t /\ dnsClass = "IN" /\ serial = 0

From(r) ==
    /\ records = <<r>> /\ ttl = r.ttl /\ dnsClass = r.class /\ serial = 0

Init ==
    /\ \/ \E s \in Serials : New(s)
       \/ \E t \in Ttls : WithTtl(t)
       \/ \E r \in Records : From(r)
    /\ rrsigs = <<>>
    /\ ret = FALSE
    /\ op = "init"
    /\ panicked = "none"
    /\ signedOver = <<>>

-----------------------------------------------------------------------------
(* The outcome of a mutation: the new records, ttl, serial and rrsigs, the *)
(* return value and the panic it raised.                                   *)
Rejected == [records |-> records, ttl |-> ttl, serial |-> serial,
             rrsigs |-> rrsigs, ret |-> FALSE, panic |-> "none"]

Panic(site) == [Rejected EXCEPT !.panic = site]

(* Mutant of Updated: the rrsigs.clear() of updated() is lost.          *)
UpdatedKeepingRrsigs(recs, t, s) ==
    [records |-> recs, ttl |-> t, serial |-> s,
     rrsigs |-> rrsigs, ret |-> TRUE, panic |-> "none"]

(* updated(serial): the set changed at zone serial s and its RRSIGs are    *)
(* no longer valid.                                                        *)
Updated(recs, t, s) == [records |-> recs, ttl |-> t, serial |-> s,
                        rrsigs |-> <<>>, ret |-> TRUE, panic |-> "none"]

IsSoa(d) == d.tag = "SOA"

(* Mutant of MatchIdx: the scan stops one record short.                  *)
MatchIdxShort(recs, d) == {i \in 1..Len(recs) - 1 : recs[i].rdata = d}

(* Indices of the stored records whose rdata equals d (to_replace,         *)
(* to_remove).                                                             *)
MatchIdx(recs, d) == {i \in DOMAIN recs : recs[i].rdata = d}

(* Vec::remove(i): the elements after i shift down by one.                 *)
VecRemove(v, i) == [j \in 1..Len(v) - 1 |-> IF j < i THEN v[j] ELSE v[j + 1]]

(* Mutant of SoaUpdateRefused: an SOA of equal serial is accepted.       *)
SoaUpdateRefusedStrict(r) ==
    /\ RecordType = "SOA" /\ records # <<>>
    /\ \/ ~IsSoa(r.rdata)
       \/ r.rdata.serial < records[1].rdata.serial

(* Insert step 1, the RFC 2136 1.1.5 policy of SOA and CNAME sets.         *)
SingletonBroken == RecordType \in {"SOA", "CNAME"} /\ Len(records) > 1
StoredSoaMalformed ==
    RecordType = "SOA" /\ records # <<>> /\ ~IsSoa(records[1].rdata)
SoaUpdateRefused(r) ==
    /\ RecordType = "SOA" /\ records # <<>>
    /\ \/ ~IsSoa(r.rdata)
       \/ r.rdata.serial <= records[1].rdata.serial

(* Mutants of PreCleared: one of the two singleton types is not cleared. *)
PreClearedOnlySoa == IF RecordType = "SOA" THEN <<>> ELSE records
PreClearedOnlyCname == IF RecordType = "CNAME" THEN <<>> ELSE records

(* The records left for the data match: SOA and CNAME sets are cleared.    *)
PreCleared == IF RecordType \in {"SOA", "CNAME"} THEN <<>> ELSE records

(* Mutant of InsertResult: the early return of a fully equal record is   *)
(* lost, so a duplicate is "replaced" by itself and reported as a change. *)
InsertResultNoIdentityCheck(r, s) ==
    LET m == MatchIdx(PreCleared, r.rdata)
        i == CHOOSE k \in m : TRUE
    IN  IF SingletonBroken THEN Panic("singleton")
        ELSE IF StoredSoaMalformed THEN Panic("soa_rdata")
        ELSE IF SoaUpdateRefused(r) THEN Rejected
        ELSE IF m = {} THEN Updated(Append(PreCleared, r), r.ttl, s)
        ELSE Updated([PreCleared EXCEPT ![i] = r], r.ttl, s)

(* Mutant of InsertResult: the replace loop does not call updated(), so a *)
(* record replaced in place keeps the RRSIGs computed over the old one.   *)
InsertResultReplaceKeepsRrsigs(r, s) ==
    LET m == MatchIdx(PreCleared, r.rdata)
        i == CHOOSE k \in m : TRUE
    IN  IF SingletonBroken THEN Panic("singleton")
        ELSE IF StoredSoaMalformed THEN Panic("soa_rdata")
        ELSE IF SoaUpdateRefused(r) THEN Rejected
        ELSE IF m = {} THEN Updated(Append(PreCleared, r), r.ttl, s)
        ELSE IF PreCleared[i] = r THEN Rejected
        ELSE UpdatedKeepingRrsigs([PreCleared EXCEPT ![i] = r], r.ttl, s)

(* insert(record, serial): step 1, then replace the record of equal rdata  *)
(* in place (push, swap_remove) unless it is fully equal, else append.     *)
InsertResult(r, s) ==
    LET m == MatchIdx(PreCleared, r.rdata)
        i == CHOOSE k \in m : TRUE
    IN  IF SingletonBroken THEN Panic("singleton")
        ELSE IF StoredSoaMalformed THEN Panic("soa_rdata")
        ELSE IF SoaUpdateRefused(r) THEN Rejected
        ELSE IF m = {} THEN Updated(Append(PreCleared, r), r.ttl, s)
        ELSE IF PreCleared[i] = r THEN Rejected
        ELSE Updated([PreCleared EXCEPT ![i] = r], r.ttl, s)

(* Mutant of RemoveResult: the last-NS guard tests len < 1.             *)
RemoveResultNsShort(rtype, d, s) ==
    LET m == MatchIdx(records, d)
    IN  IF rtype = "NS" /\ Len(records) < 1 THEN Rejected
        ELSE IF rtype = "SOA" THEN Rejected
        ELSE IF m = {} THEN Rejected
        ELSE Updated(VecRemove(records, CHOOSE k \in m : TRUE), ttl, s)

(* remove(record, serial): the guards look at the argument's type, which  *)
(* may be ANY; then every record of equal rdata is removed.               *)
RemoveResult(rtype, d, s) ==
    LET m == MatchIdx(records, d)
    IN  IF rtype = "NS" /\ Len(records) <= 1 THEN Rejected
        ELSE IF rtype = "SOA" THEN Rejected
        ELSE IF m = {} THEN Rejected
        ELSE Updated(VecRemove(records, CHOOSE k \in m : TRUE), ttl, s)

(* A mutation takes effect: o is its outcome, name the operation.          *)
Apply(o, name) ==
    /\ records' = o.records
    /\ ttl' = o.ttl
    /\ serial' = o.serial
    /\ rrsigs' = o.rrsigs
    /\ ret' = o.ret
    /\ panicked' = o.panic
    /\ op' = name
    /\ UNCHANGED <<dnsClass, signedOver>>

Running == panicked = "none"

-----------------------------------------------------------------------------
Insert(r, s) ==
    /\ Running
    /\ Apply(InsertResult(r, s), "insert")

Remove(rtype, d, s) ==
    /\ Running
    /\ Apply(RemoveResult(rtype, d, s), "remove")

(* new_record(rdata): Record::with(name, type, self.ttl) (class IN), then  *)
(* insert(record, 0), then find the stored record of that rdata, or panic. *)
NewRecord(d) ==
    LET o == InsertResult([rdata |-> d, ttl |-> ttl, class |-> "IN"], 0)
        lost == o.panic = "none" /\ MatchIdx(o.records, d) = {}
    IN  /\ Running
        /\ Apply(IF lost THEN [o EXCEPT !.panic = "new_record"] ELSE o,
                 "new_record")

SetTtl(t) ==
    /\ Running
    /\ ttl' = t
    /\ records' = [i \in DOMAIN records |->
                    [rdata |-> records[i].rdata, ttl |-> t, class |-> records[i].class]]
    /\ op' = "set_ttl"
    /\ UNCHANGED <<rrsigs, dnsClass, serial, ret, panicked, signedOver>>

SetDnsClass(c) ==
    /\ Running
    /\ dnsClass' = c
    /\ records' = [i \in DOMAIN records |->
                    [rdata |-> records[i].rdata, ttl |-> records[i].ttl, class |-> c]]
    /\ op' = "set_dns_class"
    /\ UNCHANGED <<rrsigs, ttl, serial, ret, panicked, signedOver>>

(* Mutant of InsertRrsig: the bound is tested with <=.                   *)
InsertRrsigPastBound(g) ==
    /\ Running
    /\ Len(rrsigs) <= MaxRrsigs
    /\ rrsigs' = Append(rrsigs, g)
    /\ signedOver' = IF rrsigs = <<>> THEN records ELSE signedOver
    /\ op' = "insert_rrsig"
    /\ UNCHANGED <<records, ttl, dnsClass, serial, ret, panicked>>

InsertRrsig(g) ==
    /\ Running
    /\ Len(rrsigs) < MaxRrsigs
    /\ rrsigs' = Append(rrsigs, g)
    /\ signedOver' = IF rrsigs = <<>> THEN records ELSE signedOver
    /\ op' = "insert_rrsig"
    /\ UNCHANGED <<records, ttl, dnsClass, serial, ret, panicked>>

ClearRrsigs ==
    /\ Running
    /\ rrsigs' = <<>>
    /\ op' = "clear_rrsigs"
    /\ UNCHANGED <<records, ttl, dnsClass, serial, ret, panicked, signedOver>>

Next ==
    \/ \E r \in Records, s \in Serials : Insert(r, s)
    \/ \E t \in RemoveTypes, d \in RDatas, s \in Serials : Remove(t, d, s)
    \/ \E d \in TypedRData : NewRecord(d)
    \/ \E t \in Ttls : SetTtl(t)
    \/ \E c \in Classes : SetDnsClass(c)
    \/ \E g \in Rrsigs : InsertRrsig(g)
    \/ ClearRrsigs

Spec == Init /\ [][Next]_vars

-----------------------------------------------------------------------------
(* Mutant of BestRrsig: the filter on supported algorithms is lost.      *)
BestRrsigUnfiltered(sigs, supported) ==
    LET best[i \in 0..Len(sigs)] ==
          IF i = 0 THEN 0
          ELSE IF best[i - 1] = 0 \/ sigs[i] >= sigs[best[i - 1]]
               THEN i
               ELSE best[i - 1]
    IN  best[Len(sigs)]

(* get_records(and_rrsigs, supported): the records, then, if asked, the    *)
(* RRSIG of the highest supported algorithm.  max_by_key keeps the last of *)
(* equal maxima, hence >=.  best[i] is the index chosen among rrsigs[1..i] *)
(* (0: none).                                                              *)
BestRrsig(sigs, supported) ==
    LET best[i \in 0..Len(sigs)] ==
          IF i = 0 THEN 0
          ELSE IF sigs[i] \in supported
                  /\ (best[i - 1] = 0 \/ sigs[i] >= sigs[best[i - 1]])
               THEN i
               ELSE best[i - 1]
    IN  best[Len(sigs)]

GetRecords(andRrsigs, supported) ==
    LET b == BestRrsig(rrsigs, supported)
    IN  IF andRrsigs /\ b # 0 THEN Append(records, rrsigs[b]) ELSE records

-----------------------------------------------------------------------------
TypeOK ==
    /\ records \in Seq(Records)
    /\ rrsigs \in Seq(Rrsigs) /\ Len(rrsigs) <= MaxRrsigs
    /\ ttl \in Ttls \cup {0}
    /\ dnsClass \in Classes
    /\ serial \in Serials
    /\ ret \in BOOLEAN
    /\ op \in Ops
    /\ panicked \in Panics
    /\ signedOver \in Seq(Records)

(* Data-level set semantics (spec 3): insert replaces a record of equal   *)
(* rdata instead of appending a second one, so no two stored records ever *)
(* share rdata, whatever sequence of inserts, removes and set_ttl calls.  *)
UniqueRData ==
    \A i, j \in DOMAIN records : i # j => records[i].rdata # records[j].rdata

(* RFC 2136 1.1.5: an SOA or CNAME set never holds two records; insert    *)
(* clears these sets before it appends, and its assert!(len <= 1) relies  *)
(* on it.                                                                  *)
SingletonSlot ==
    RecordType \in {"SOA", "CNAME"} => Len(records) <= 1

(* The rdata sequence of a record sequence, and with the classes.         *)
RDataOf(recs) == [i \in DOMAIN recs |-> recs[i].rdata]
SignedDataOf(recs) == [i \in DOMAIN recs |-> <<recs[i].rdata, recs[i].class>>]

(* RRSIGs are invalidated by any data change (updated() clears them): as   *)
(* long as an RRSIG is stored, the rdata of the records is the one it was  *)
(* pushed over, across any later inserts, removes and new_record calls.    *)
SignaturesCoverData ==
    rrsigs # <<>> => RDataOf(records) = RDataOf(signedOver)

(* Spec 3: any mutation of the records clears the RRSIGs; a signature     *)
(* covers the rdata and the class of the records (not their ttl, whose     *)
(* original value the RRSIG carries), so while one is stored neither may   *)
(* have changed.  set_dns_class rewrites the class of every record.        *)
SignaturesCurrent ==
    rrsigs # <<>> => SignedDataOf(records) = SignedDataOf(signedOver)

(* Spec 3, updated() (lines 204-207): every insert, remove or new_record  *)
(* that changes the records clears the RRSIGs, also the insert that        *)
(* replaces a record of equal rdata in place (line 322), e.g. a new ttl,   *)
(* which leaves the rdata the RRSIGs were computed over unchanged.         *)
ChangeClearsRrsigs ==
    [][(op' \in {"insert", "remove", "new_record"} /\ records' # records)
         => rrsigs' = <<>>]_vars

(* Spec 4.3: insert returns true iff the set's visible state changed: a    *)
(* record fully equal to a stored one is a no-op returning false, and a    *)
(* true result always comes with a change of the records.                  *)
InsertReportsChange ==
    [][op' = "insert" => (ret' <=> records' # records)]_vars

(* Spec 4.4: a non-empty NS set keeps its last record, and an SOA set its  *)
(* SOA, through every remove; no step of any kind empties such a set.     *)
ProtectedSetNeverEmptied ==
    [][(RecordType \in {"NS", "SOA"} /\ records # <<>>) => (records' # <<>>)]_records

(* SOA updates must strictly increase the zone serial: whenever the stored *)
(* SOA rdata is replaced by another SOA rdata, its serial field grows.     *)
ZoneSerialIncreases ==
    [][ /\ RecordType = "SOA"
        /\ records # <<>> /\ records' # <<>>
        /\ IsSoa(records[1].rdata) /\ IsSoa(records'[1].rdata)
        /\ records'[1].rdata # records[1].rdata
        => records'[1].rdata.serial > records[1].rdata.serial ]_records

(* get_records(true, supported) returns the records followed by exactly    *)
(* one RRSIG when some stored RRSIG has a supported algorithm, and that    *)
(* one has a supported algorithm of maximal rank; none otherwise.          *)
SignatureSelection ==
    \A supported \in SUBSET Algorithms :
      LET out == GetRecords(TRUE, supported)
          ok == {j \in DOMAIN rrsigs : rrsigs[j] \in supported}
      IN  /\ SubSeq(out, 1, Len(records)) = records
          /\ Len(out) = Len(records) + (IF ok = {} THEN 0 ELSE 1)
          /\ ok # {} => /\ out[Len(out)] \in supported
                        /\ \A j \in ok : rrsigs[j] <= out[Len(out)]

(* The refinement mapping: the abstract set holds the rdata of the stored  *)
(* records; signatures and serial map to themselves.                       *)
RDataSet(recs) == {recs[i].rdata : i \in DOMAIN recs}

Abs == INSTANCE RecordSetAbstract
         WITH Values <- RDatas, Sigs <- Rrsigs, Serials <- Serials,
              Singleton <- RecordType \in {"SOA", "CNAME"}, MaxSigs <- MaxRrsigs,
              data <- RDataSet(records), sigs <- rrsigs, zserial <- serial

(* RecordSet implements RecordSetAbstract: through insert, remove,         *)
(* new_record, set_ttl, set_dns_class and the rrsig calls, the rdata of    *)
(* the stored records changes one value at a time (a singleton type's      *)
(* value replaced whole), every change and every rewrite clears the        *)
(* RRSIGs and records the caller's serial, and nothing else moves them.    *)
RefinesAbstract == Abs!Spec

NewRecordFinds == panicked # "new_record"

=============================================================================
