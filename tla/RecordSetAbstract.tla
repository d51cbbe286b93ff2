-------------------------- MODULE RecordSetAbstract --------------------------
(***************************************************************************)
(* What a RecordSet promises its caller, without records, ttls or classes: *)
(* a set of rdata values, the signatures held over it and the zone serial  *)
(* of its last change.  Every change of the data, and every rewrite of a   *)
(* record that keeps its data, drops the signatures and stamps the serial  *)
(* given by the caller; signatures are added or dropped only while the     *)
(* data stays as it is.  A set of a singleton type (SOA, CNAME) holds at   *)
(* most one value: adding one replaces the one held.                      *)
(***************************************************************************)
EXTENDS Naturals, Sequences, FiniteSets

CONSTANTS
    Values,     \* rdata values
    Sigs,       \* signatures (their algorithm ranks)
    Serials,    \* zone serials supplied by the caller
    Singleton,  \* TRUE for the types of which a set holds one record
    MaxSigs     \* bound on the stored signatures

VARIABLES
    data,       \* the set of rdata held
    sigs,       \* the signatures held, in the order they were added
    zserial     \* the serial of the last change

avars == <<data, sigs, zserial>>

Init ==
    /\ data \in {{}} \cup {{v} : v \in Values}
    /\ sigs = <<>>
    /\ zserial \in Serials

(* A value not held is added; a singleton set gives up the one it held.   *)
Add(v, s) ==
    /\ v \notin data
    /\ data' = IF Singleton THEN {v} ELSE data \cup {v}
    /\ sigs' = <<>>
    /\ zserial' = s

(* A held value is dropped.                                                *)
Drop(v, s) ==
    /\ v \in data
    /\ data' = data \ {v}
    /\ sigs' = <<>>
    /\ zserial' = s

(* A record is rewritten with the data it had (another ttl or class).      *)
Refresh(s) ==
    /\ sigs' = <<>>
    /\ zserial' = s
    /\ UNCHANGED data

Sign(g) ==
    /\ Len(sigs) < MaxSigs
    /\ sigs' = Append(sigs, g)
    /\ UNCHANGED <<data, zserial>>

Unsign ==
    /\ sigs' = <<>>
    /\ UNCHANGED <<data, zserial>>

Next ==
    \/ \E v \in Values, s \in Serials : Add(v, s) \/ Drop(v, s)
    \/ \E s \in Serials : Refresh(s)
    \/ \E g \in Sigs : Sign(g)
    \/ Unsign

Spec == Init /\ [][Next]_avars

=============================================================================
