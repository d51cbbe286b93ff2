--------------------------- MODULE MC_RecordSet ---------------------------
(***************************************************************************)
(* Model-checking instance of RecordSet.  The constants are given in the   *)
(* .cfg files, one per RR type policy; Data is a set of model values.      *)
(***************************************************************************)
EXTENDS RecordSet, TLC

(* No definition tells two rdata payloads apart other than by equality:    *)
(* SOA ordering is on the serial field, never on Data.                     *)
MCSymmetry == Permutations(Data)

=============================================================================
