------------------------- MODULE TcpFraming_proofs -------------------------
(***************************************************************************)
(* Proofs about TcpFraming: the prefix of lines 97 and 123 decodes to the  *)
(* length it encodes for every length up to 65535, and therefore an answer *)
(* that send() returns is the framed message, for every set of such        *)
(* lengths and every way the stream is segmented.                          *)
(***************************************************************************)
EXTENDS TcpFraming, TLAPS

USE FramingAssumption

(* The lengths the 16-bit prefix can express.                              *)
FitsPrefix == \A m \in MsgLens : m <= 65535

(* Decoding the two bytes written for len gives len back, for every len    *)
(* below 2^16: (len >> 8 & 0xFF) << 8 | len & 0xFF = len.                  *)
LEMMA PrefixRoundTrip ==
    \A k \in Nat : k <= 65535 => Decode(PrefixOf(k)[1], PrefixOf(k)[2]) = k
<1> SUFFICES ASSUME NEW k \in Nat, k <= 65535
             PROVE  Decode(PrefixOf(k)[1], PrefixOf(k)[2]) = k
  OBVIOUS
<1> DEFINE hi == k \div 256
           lo == k % 256
<1>1. hi \in Nat /\ hi <= 255
  BY SMT
<1>2. lo \in Nat /\ lo <= 255 /\ k = hi * 256 + lo
  BY SMT
<1>3. PrefixOf(k)[1] = hi % 256 /\ PrefixOf(k)[2] = lo
  BY DEF PrefixOf
<1>4. hi % 256 = hi /\ lo % 256 = lo
  BY <1>1, <1>2
<1>5. (hi * 256) % 65536 = hi * 256
  BY <1>1
<1> QED
  BY <1>2, <1>3, <1>4, <1>5 DEF Decode

(* The inductive invariant: as long as no error was recorded, the reader   *)
(* either has consumed nothing yet or has shut down with the framed body.  *)
FInv ==
    /\ msgLen \in MsgLens
    /\ error = "none" =>
         \/ phase = "reading" /\ pos = 0
         \/ phase = "done" /\ buf = [start |-> 2, len |-> msgLen, none |-> FALSE]

LEMMA FInvInductive ==
    ASSUME FitsPrefix
    PROVE  FInv /\ [Next]_fvars => FInv'
<1> SUFFICES ASSUME FInv, [Next]_fvars PROVE FInv'
  OBVIOUS
<1>1. CASE Write
  BY <1>1 DEF Write, FInv
<1>2. CASE Close
  BY <1>2 DEF Close, FInv
<1>3. CASE Arrive
  BY <1>3 DEF Arrive, FInv
<1>4. CASE Read
  <2>1. msgLen' = msgLen /\ msgLen \in Nat /\ msgLen <= 65535
    BY <1>4 DEF Read, FInv, FitsPrefix
  <2>2. CASE error = "none"
    <3>1. phase = "reading" /\ pos = 0
      BY <1>4, <2>2 DEF Read, FInv
    <3>2. Decode(ByteAt(pos + 1), ByteAt(pos + 2)) = msgLen
      <4>1. ByteAt(pos + 1) = PrefixOf(msgLen)[1] /\ ByteAt(pos + 2) = PrefixOf(msgLen)[2]
        BY <3>1 DEF ByteAt
      <4>2. Decode(PrefixOf(msgLen)[1], PrefixOf(msgLen)[2]) = msgLen
        BY <2>1, PrefixRoundTrip
      <4> QED
        BY <4>1, <4>2, Zenon
    <3> DEFINE n    == IF arrived - pos < 2 THEN arrived - pos ELSE 2
               body == arrived - (pos + 2)
    <3>3. CASE n < 2
      <4>1. error' = "not_all" /\ msgLen' = msgLen
        BY <1>4, <3>3 DEF Read
      <4> QED
        BY <2>1, <4>1 DEF FInv
    <3>4. CASE ~(n < 2) /\ body >= msgLen
      <4>1. phase' = "done" /\ buf' = [start |-> pos + 2, len |-> msgLen, none |-> FALSE]
        BY <1>4, <3>2, <3>4 DEF Read
      <4> QED
        BY <2>1, <3>1, <4>1 DEF FInv
    <3>5. CASE ~(n < 2) /\ ~(body >= msgLen)
      <4>1. error' # "none"
        BY <1>4, <3>2, <3>5 DEF Read
      <4> QED
        BY <2>1, <4>1 DEF FInv
    <3> QED
      BY <3>3, <3>4, <3>5
  <2>3. CASE error # "none"
    <3>1. error' # "none"
      BY <1>4, <2>3 DEF Read
    <3> QED
      BY <2>1, <3>1 DEF FInv
  <2> QED
    BY <2>2, <2>3
<1>5. CASE UNCHANGED fvars
  BY <1>5 DEF fvars, FInv
<1> QED
  BY <1>1, <1>2, <1>3, <1>4, <1>5 DEF Next

(* For lengths the prefix can express, send() only ever returns the body   *)
(* that was framed, however the bytes are segmented or the writer fails.   *)
THEOREM FramedAnswerHolds == FitsPrefix => (Spec => []FramedAnswer)
<1> SUFFICES ASSUME FitsPrefix PROVE Spec => []FramedAnswer
  OBVIOUS
<1>1. Init => FInv
  BY DEF Init, FInv
<1>2. FInv /\ [Next]_fvars => FInv'
  BY FInvInductive
<1>3. FInv => FramedAnswer
  BY DEF FInv, FramedAnswer, SendOk
<1>4. Spec => []FInv
  BY <1>1, <1>2, PTL DEF Spec
<1> QED
  BY <1>3, <1>4, PTL
-----------------------------------------------------------------------------
(* Every byte of the stream, and so every decoded length, is a natural.    *)
LEMMA DecodeNat ==
    ASSUME msgLen \in Nat, NEW p
    PROVE  Decode(ByteAt(p), ByteAt(p + 1)) \in Nat
<1>1. \A q : ByteAt(q) \in Nat
  BY DEF ByteAt, PrefixOf
<1> QED
  BY <1>1 DEF Decode

(* Each step keeps the counters ordered, sent <= Total, arrived <= sent and *)
(* pos <= arrived: a segment only brings bytes that were sent, and a read  *)
(* consumes only bytes that arrived, whichever branch it takes.            *)
LEMMA TypeOKInductive == TypeOK /\ [Next]_fvars => TypeOK'
<1> SUFFICES ASSUME TypeOK, [Next]_fvars PROVE TypeOK'
  OBVIOUS
<1>0. msgLen \in Nat
  BY DEF TypeOK, Total
<1>1. CASE Write
  <2>1. UNCHANGED <<msgLen, arrived, pos, phase, error, buf>> /\ sent = 0
    BY <1>1 DEF Write
  <2>2. sent' \in 0..Total /\ closed' \in BOOLEAN
    <3>1. CASE sent' = Total /\ UNCHANGED closed
      BY <1>0, <3>1 DEF Total, TypeOK
    <3>2. CASE \E k \in ({0} \cup Cuts) \cap 0..(Total - 1) : sent' = k /\ closed' = TRUE
      BY <1>0, <3>2 DEF Total
    <3> QED
      BY <1>1, <3>1, <3>2 DEF Write
  <2>3. arrived = 0 /\ pos = 0
    BY <2>1 DEF TypeOK
  <2> QED
    BY <2>1, <2>2, <2>3 DEF TypeOK, Total
<1>2. CASE Close
  BY <1>2 DEF Close, TypeOK, Total
<1>3. CASE Arrive
  BY <1>3 DEF Arrive, TypeOK, Total, Cuts
<1>4. CASE Read
  <2> DEFINE n    == IF arrived - pos < 2 THEN arrived - pos ELSE 2
             len  == Decode(ByteAt(pos + 1), ByteAt(pos + 2))
             body == arrived - (pos + 2)
  <2>0. len \in Nat /\ arrived - pos \in Nat
    BY <1>0, DecodeNat DEF TypeOK, Total
  <2>1. UNCHANGED <<msgLen, sent, closed, arrived>>
    BY <1>4 DEF Read
  <2>2. CASE n < 2
    <3>1. error' = "not_all" /\ pos' = pos + n /\ UNCHANGED <<phase, buf>>
      BY <1>4, <2>2 DEF Read
    <3>2. pos' \in 0..arrived
      BY <2>0, <2>2, <3>1 DEF TypeOK, Total
    <3> QED
      BY <2>1, <3>1, <3>2 DEF TypeOK, Total
  <2>3. CASE ~(n < 2) /\ body >= len
    <3>1. /\ pos' = pos + 2 + len /\ phase' = "done"
          /\ buf' = [start |-> pos + 2, len |-> len, none |-> FALSE]
          /\ UNCHANGED error
      BY <1>4, <2>3 DEF Read
    <3>2. pos' \in 0..arrived
      BY <2>0, <2>3, <3>1 DEF TypeOK, Total
    <3>3. buf' \in [start : Nat, len : Nat, none : BOOLEAN]
      BY <2>0, <3>1 DEF TypeOK, Total
    <3> QED
      BY <2>1, <3>1, <3>2, <3>3 DEF TypeOK, Total
  <2>4. CASE ~(n < 2) /\ ~(body >= len)
    <3>1. /\ error' \in {"not_all", "io"} /\ pos' = arrived
          /\ UNCHANGED <<phase, buf>>
      BY <1>4, <2>4 DEF Read
    <3> QED
      BY <2>1, <3>1 DEF TypeOK, Total
  <2> QED
    BY <2>2, <2>3, <2>4
<1>5. CASE UNCHANGED fvars
  BY <1>5 DEF fvars, TypeOK, Total
<1> QED
  BY <1>1, <1>2, <1>3, <1>4, <1>5 DEF Next

(* The framing state stays well typed for every set of message lengths,    *)
(* those past 65535 included: no read moves past the bytes that arrived.   *)
THEOREM FramingTypeCorrect == Spec => []TypeOK
<1>1. Init => TypeOK
  <2> SUFFICES ASSUME Init PROVE TypeOK
    OBVIOUS
  <2>1. msgLen \in Nat /\ msgLen \in MsgLens
    BY DEF Init
  <2>2. NoBuf \in [start : Nat, len : Nat, none : BOOLEAN]
    BY DEF NoBuf
  <2>3. sent \in 0..Total /\ arrived \in 0..sent /\ pos \in 0..arrived
    BY <2>1 DEF Init, Total
  <2>4. /\ closed \in BOOLEAN /\ phase \in {"reading", "done"}
        /\ error \in {"none", "not_all", "io"}
        /\ buf \in [start : Nat, len : Nat, none : BOOLEAN]
    BY <2>2 DEF Init
  <2> QED
    BY <2>1, <2>3, <2>4 DEF TypeOK
<1> QED
  BY <1>1, TypeOKInductive, PTL DEF Spec

=============================================================================
