----------------------------- MODULE TcpFraming -----------------------------
(***************************************************************************)
(* The two-byte length-prefixed framing of src/tcp/tcp_client_connection.rs *)
(* at the level of bytes: the writable branch of Response::ready frames a  *)
(* message (lines 97-101), the bytes cross the connection in segments, and *)
(* the readable branch (lines 103-150) reads the prefix with one read of   *)
(* take(2) and the body with take(len).read_to_end on the non-blocking     *)
(* stream, the branch running again on every readable event.  The answer   *)
(* send() returns is the buf of a shutdown without error (lines 55-57).    *)
(*                                                                         *)
(* A byte of the stream is known by its position: positions 1 and 2 hold   *)
(* the prefix, the body's bytes all hold the value BodyByte.  Segments end *)
(* at the cut points of Cuts, the positions around the prefix and the end  *)
(* of the message, so that large messages keep the state space small.     *)
(***************************************************************************)
EXTENDS Naturals, FiniteSets

CONSTANTS
    MsgLens,    \* lengths of the framed messages (message.len(), a usize)
    BodyByte    \* the value of every body byte

ASSUME FramingAssumption == MsgLens \subseteq Nat /\ BodyByte \in 0..255

VARIABLES
    msgLen,     \* the length of the message being framed
    sent,       \* bytes the writer put on the connection
    closed,     \* the writer's end is closed: the reader sees end of stream
    arrived,    \* bytes that reached the reader's socket
    pos,        \* bytes the reader consumed
    phase,      \* the reader: "reading" or "done" (event_loop.shutdown())
    error,      \* self.error: "none", "not_all" or "io"
    buf         \* self.buf: [start, len] (positions after start), or NoBuf

fvars == <<msgLen, sent, closed, arrived, pos, phase, error, buf>>

NoBuf == [start |-> 0, len |-> 0, none |-> TRUE]

-----------------------------------------------------------------------------
(* Line 97: [(len >> 8 & 0xFF) as u8, (len & 0xFF) as u8].                *)
PrefixOf(len) == <<(len \div 256) % 256, len % 256>>

(* Mutant of Decode: the high byte of the prefix is dropped.             *)
DecodeLowByte(b0, b1) == b1 % 256

(* Line 123: (b0 as u16) << 8 & 0xFF00 | b1 as u16 & 0x00FF.              *)
Decode(b0, b1) == ((b0 * 256) % 65536) + (b1 % 256)

(* The byte at position p of the framed stream.                            *)
ByteAt(p) == IF p \in {1, 2} THEN PrefixOf(msgLen)[p] ELSE BodyByte

Total == 2 + msgLen

(* Positions at which a segment may end.                                   *)
Cuts == {1, 2, 3, Total - 1, Total}

-----------------------------------------------------------------------------
Init ==
    /\ msgLen \in MsgLens
    /\ sent = 0
    /\ closed = FALSE
    /\ arrived = 0
    /\ pos = 0
    /\ phase = "reading"
    /\ error = "none"
    /\ buf = NoBuf

(* Lines 98-101: write_all(prefix), then write_all(message), then flush.   *)
(* Either all of it goes out, or an I/O error stops the writer after some  *)
(* of the bytes and the connection is closed.                              *)
Write ==
    /\ sent = 0 /\ ~closed
    /\ \/ sent' = Total /\ UNCHANGED closed
       \/ \E k \in ({0} \cup Cuts) \cap 0..(Total - 1) : sent' = k /\ closed' = TRUE
    /\ UNCHANGED <<msgLen, arrived, pos, phase, error, buf>>

(* The writer closes the connection once its message is out.               *)
Close ==
    /\ sent = Total /\ ~closed
    /\ closed' = TRUE
    /\ UNCHANGED <<msgLen, sent, arrived, pos, phase, error, buf>>

(* A segment reaches the reader.                                           *)
Arrive ==
    /\ \E k \in Cuts : arrived < k /\ k <= sent /\ arrived' = k
    /\ UNCHANGED <<msgLen, sent, closed, pos, phase, error, buf>>

(* Mutant of Read: the body is taken as complete one byte early.         *)
ReadOneShort ==
    LET n    == IF arrived - pos < 2 THEN arrived - pos ELSE 2
        len  == Decode(ByteAt(pos + 1), ByteAt(pos + 2))
        body == arrived - (pos + 2)
    IN  /\ phase = "reading"
        /\ arrived > pos \/ closed
        /\ IF n < 2
             THEN /\ error' = "not_all"
                  /\ pos' = pos + n
                  /\ UNCHANGED <<phase, buf>>
           ELSE IF body + 1 >= len
             THEN /\ pos' = pos + 2 + len
                  /\ phase' = "done"
                  /\ buf' = [start |-> pos + 2, len |-> len, none |-> FALSE]
                  /\ UNCHANGED error
           ELSE /\ error' = IF closed THEN "not_all" ELSE "io"
                /\ pos' = arrived
                /\ UNCHANGED <<phase, buf>>
        /\ UNCHANGED <<msgLen, sent, closed, arrived>>

(* Lines 105-142 on a readable event (bytes to read, or end of stream).    *)
(* read of take(2): the bytes available up to 2; fewer than 2 is           *)
(* NotAllBytesReceived and the bytes read are lost.  take(len).read_to_end *)
(* reads what is there: all len bytes end the read with shutdown and buf;  *)
(* end of stream first is NotAllBytesReceived; no more bytes on the open   *)
(* socket is WouldBlock, an io error.  An error returns without shutdown.  *)
Read ==
    LET n    == IF arrived - pos < 2 THEN arrived - pos ELSE 2
        len  == Decode(ByteAt(pos + 1), ByteAt(pos + 2))
        body == arrived - (pos + 2)
    IN  /\ phase = "reading"
        /\ arrived > pos \/ closed
        /\ IF n < 2
             THEN /\ error' = "not_all"
                  /\ pos' = pos + n
                  /\ UNCHANGED <<phase, buf>>
           ELSE IF body >= len
             THEN /\ pos' = pos + 2 + len
                  /\ phase' = "done"
                  /\ buf' = [start |-> pos + 2, len |-> len, none |-> FALSE]
                  /\ UNCHANGED error
           ELSE /\ error' = IF closed THEN "not_all" ELSE "io"
                /\ pos' = arrived
                /\ UNCHANGED <<phase, buf>>
        /\ UNCHANGED <<msgLen, sent, closed, arrived>>

Next == Write \/ Close \/ Arrive \/ Read

Spec == Init /\ [][Next]_fvars

(* The event loop hands every readable event to the handler and the        *)
(* network delivers what was sent.                                         *)
FairSpec == Spec /\ WF_fvars(Read) /\ WF_fvars(Arrive)

(* send() returns Ok(buf) (lines 55-57).                                   *)
SendOk == phase = "done" /\ error = "none"

-----------------------------------------------------------------------------
TypeOK ==
    /\ msgLen \in MsgLens
    /\ sent \in 0..Total /\ arrived \in 0..sent /\ pos \in 0..arrived
    /\ closed \in BOOLEAN
    /\ phase \in {"reading", "done"}
    /\ error \in {"none", "not_all", "io"}
    /\ buf \in [start : Nat, len : Nat, none : BOOLEAN]

(* The answer send() returns is exactly the framed message: the body that  *)
(* follows the prefix, all msgLen bytes of it, never a misframed slice.    *)
FramedAnswer ==
    SendOk => buf = [start |-> 2, len |-> msgLen, none |-> FALSE]

(* The comment at line 104 assumes the two length bytes can always be     *)
(* read: a message the writer sent whole, over a connection that stays     *)
(* open, is returned by send().                                            *)
WholeAnswerAccepted ==
    (sent = Total /\ ~closed) ~> SendOk

=============================================================================
