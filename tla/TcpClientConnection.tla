------------------------ MODULE TcpClientConnection ------------------------
(***************************************************************************)
(* The mio-based TCP client of src/tcp/tcp_client_connection.rs: send()    *)
(* re-registers the stream, hands it to a Response handler and runs the    *)
(* event loop until the handler shuts it down; the handler writes the      *)
(* length-prefixed query on a writable event and reads the length-prefixed *)
(* answer on a readable one; the one timer armed by new() ends a run with  *)
(* TimedOut.  The server at the other end answers, stays silent or closes  *)
(* the connection.  Bytes are abstracted away: an I/O call is modelled by  *)
(* its outcome (done, short, failed); TcpFraming models the bytes.         *)
(*                                                                         *)
(* new() connects but never registers the stream; send() calls reregister *)
(* with EventSet::all() and PollOpt::all() (edge | level | oneshot).  What *)
(* that does depends on mio 0.5's poller, the constant Backend:            *)
(*   epoll  - reregister is EPOLL_CTL_MOD, which fails with ENOENT for a   *)
(*            descriptor that was never added;                             *)
(*   kqueue - reregister is EV_ADD of a read and a write filter, each with *)
(*            EV_ONESHOT: a filter that fired stays disarmed until the     *)
(*            next reregister, the other one stays armed.  Events of both  *)
(*            filters for the one token may be coalesced into one event.   *)
(***************************************************************************)
EXTENDS Naturals

CONSTANTS
    MaxSends,   \* bound on the calls of send
    Backend     \* mio's poller: "epoll" or "kqueue"

ASSUME MaxSendsAssumption == MaxSends \in Nat \ {0}
ASSUME BackendAssumption == Backend \in {"epoll", "kqueue"}

Errors == {"none", "io", "not_all", "no_data", "timed_out"}
Filters == {"read", "write"}

VARIABLES
    socket,     \* self.socket: "some" or "none" (taken by a send in progress)
    registered, \* the poller knows the stream's descriptor
    timer,      \* the timeout armed by new(): "armed" or "fired"
    phase,      \* "idle", "running" (inside event_loop.run) or "panicked"
    armed,      \* the filters of the registration that can still fire
    error,      \* response.error
    buf,        \* response.buf: "none" or "answer"
    pending,    \* "none", "query" (the server holds an unanswered query)
                \* or "answer" (its answer waits in the client's socket)
    closed,     \* the server closed the connection
    writes,     \* times the handler wrote the query during this send
    result,     \* the value of the last send: "none", "ok" or "err"
    sends       \* calls of send so far

vars == <<socket, registered, timer, phase, armed, error, buf, pending, closed,
          writes, result, sends>>

-----------------------------------------------------------------------------
(* new(): connect, create the event loop, arm the 5 s timer once.  The     *)
(* stream is not registered.                                               *)
Init ==
    /\ socket = "some"
    /\ registered = FALSE
    /\ timer = "armed"
    /\ phase = "idle"
    /\ armed = {}
    /\ error = "none"
    /\ buf = "none"
    /\ pending = "none"
    /\ closed = FALSE
    /\ writes = 0
    /\ result = "none"
    /\ sends = 0

(* Lines 50-51: reregister(socket.expect("never none")), whose failure     *)
(* returns Err with the stream still in self.socket; then the stream is    *)
(* moved into a fresh Response (error and buf None).  On epoll reregister  *)
(* succeeds only for a registered descriptor; on kqueue it adds it, and    *)
(* may still fail for lack of kernel resources.                            *)
SendBegin ==
    /\ phase = "idle"
    /\ sends < MaxSends
    /\ sends' = sends + 1
    /\ \/ /\ socket = "none"
          /\ phase' = "panicked"
          /\ UNCHANGED <<socket, registered, armed, error, buf, writes, result>>
       \/ /\ socket = "some"
          /\ result' = "err"
          /\ UNCHANGED <<socket, registered, phase, armed, error, buf, writes>>
       \/ /\ socket = "some"
          /\ Backend = "kqueue" \/ registered
          /\ registered' = TRUE
          /\ socket' = "none"
          /\ armed' = Filters
          /\ phase' = "running"
          /\ error' = "none"
          /\ buf' = "none"
          /\ writes' = 0
          /\ result' = "none"
    /\ UNCHANGED <<timer, pending, closed>>

(* Lines 52-59: event_loop.shutdown() and the rest of send: an error, then *)
(* a missing buffer, turn into Err and the stream is not put back; Ok puts *)
(* it back.                                                                *)
Finish(e, b) ==
    /\ phase' = "idle"
    /\ result' = IF e = "none" /\ b = "answer" THEN "ok" ELSE "err"
    /\ socket' = IF e = "none" /\ b = "answer" THEN "some" ELSE "none"
    /\ error' = e
    /\ buf' = b

(* What a filter reports when it fires: the write filter that the stream is *)
(* writable, the read filter that bytes or the end of stream arrived; both *)
(* report hup (EV_EOF) once the server closed.                            *)
FilterReady(f) ==
    IF f = "write" THEN {"writable"} \cup (IF closed THEN {"hup"} ELSE {})
    ELSE (IF pending = "answer" \/ closed THEN {"readable"} ELSE {})
         \cup (IF closed THEN {"hup"} ELSE {})

(* Mutant of Disarmed: a level-triggered registration is never disarmed. *)
DisarmedLevel(fired) == armed

(* EV_ONESHOT: each filter that fired is disarmed, the others stay armed.  *)
Disarmed(fired) == armed \ fired

(* Lines 96-102, a writable event: write the two length bytes and the      *)
(* message, then flush; error is overwritten with the outcome.  The server *)
(* gets the query unless the write failed before any byte went out.        *)
OnWritable ==
    /\ \/ /\ error' = "none"
          /\ writes' = writes + 1
          /\ pending' = IF pending = "none" THEN "query" ELSE pending
       \/ /\ error' = "io"
          /\ writes' = writes + 1
          /\ pending' = IF pending = "none" THEN "query" ELSE pending
       \/ /\ error' = "io"
          /\ UNCHANGED <<writes, pending>>
    /\ UNCHANGED <<phase, result, socket, buf>>

(* Lines 103-153, a readable (not writable) event: read two length bytes,  *)
(* then that many bytes; a short read or an error sets error and returns   *)
(* without shutdown; a full read, possible while an answer waits, even     *)
(* after the server closed, consumes it and shuts the loop down.          *)
ReadOutcomes ==
    IF pending = "answer" THEN {"full", "not_all", "io"} ELSE {"not_all", "io"}

OnReadable ==
    /\ \E o \in ReadOutcomes :
          IF o = "full"
            THEN Finish(error, "answer") /\ pending' = "none"
            ELSE /\ error' = o
                 /\ UNCHANGED <<phase, result, socket, buf, pending>>
    /\ UNCHANGED writes

(* Lines 154-157, an error or hup event: NoDataReceived, shutdown.        *)
OnHup ==
    /\ Finish("no_data", buf)
    /\ UNCHANGED <<writes, pending>>

(* Response::ready for the event of the filters in fired (lines 93-161).  *)
Deliver(fired) ==
    LET ev == UNION {FilterReady(f) : f \in fired}
    IN  /\ phase = "running"
        /\ \A f \in fired : FilterReady(f) # {}
        /\ armed' = Disarmed(fired)
        /\ IF "writable" \in ev THEN OnWritable
           ELSE IF "readable" \in ev THEN OnReadable
           ELSE OnHup
        /\ UNCHANGED <<registered, timer, closed, sends>>

(* Mutant of Timeout: the handler records TimedOut but does not shut the  *)
(* event loop down.                                                        *)
TimeoutNoShutdown ==
    /\ phase = "running"
    /\ timer = "armed"
    /\ timer' = "fired"
    /\ error' = "timed_out"
    /\ UNCHANGED <<socket, registered, phase, armed, buf, pending, closed,
                   writes, result, sends>>

(* Response::timeout (lines 170-173): TimedOut, shutdown.  The timer was   *)
(* armed once, by new(): it fires in whichever run is going on when it     *)
(* expires.                                                                *)
Timeout ==
    /\ phase = "running"
    /\ timer = "armed"
    /\ timer' = "fired"
    /\ Finish("timed_out", buf)
    /\ UNCHANGED <<registered, armed, pending, closed, writes, sends>>

(* try!(self.event_loop.run(..)) fails (line 52): Err, the stream is not   *)
(* put back.                                                               *)
RunFails ==
    /\ phase = "running"
    /\ phase' = "idle"
    /\ result' = "err"
    /\ UNCHANGED <<socket, registered, timer, armed, error, buf, pending, closed,
                   writes, sends>>

(* The server answers a query it received, or closes the connection.      *)
PeerAnswers ==
    /\ pending = "query" /\ ~closed
    /\ pending' = "answer"
    /\ UNCHANGED <<socket, registered, timer, phase, armed, error, buf, closed,
                   writes, result, sends>>

PeerCloses ==
    /\ ~closed
    /\ closed' = TRUE
    /\ UNCHANGED <<socket, registered, timer, phase, armed, error, buf, pending,
                   writes, result, sends>>

Next ==
    \/ SendBegin
    \/ \E fired \in (SUBSET armed) \ {{}} : Deliver(fired)
    \/ Timeout
    \/ RunFails
    \/ PeerAnswers
    \/ PeerCloses

Spec == Init /\ [][Next]_vars

(* The event loop polls while it runs: a ready, armed filter fires and an  *)
(* expired timer fires.  Nothing is assumed of the server.                 *)
FairSpec ==
    /\ Spec
    /\ WF_vars(\E fired \in (SUBSET armed) \ {{}} : Deliver(fired))
    /\ WF_vars(Timeout)

-----------------------------------------------------------------------------
TypeOK ==
    /\ socket \in {"some", "none"}
    /\ registered \in BOOLEAN
    /\ timer \in {"armed", "fired"}
    /\ phase \in {"idle", "running", "panicked"}
    /\ armed \subseteq Filters
    /\ error \in Errors
    /\ buf \in {"none", "answer"}
    /\ pending \in {"none", "query", "answer"}
    /\ closed \in BOOLEAN
    /\ writes \in Nat
    /\ result \in {"none", "ok", "err"}
    /\ sends \in 0..MaxSends

(* One send puts its query on the wire at most once: a second writable     *)
(* event would make the handler write the length prefix and the message   *)
(* again, and the server would answer twice.                               *)
QueryWrittenOnce == writes <= 1

(* Every send returns (or the process panics): the loop is shut down by    *)
(* the answer, a hup or the timer, whatever the server does.               *)
SendReturns == phase = "running" ~> phase # "running"

(* expect("never none"): send always finds the stream in self.socket.      *)
NoSendPanic == phase # "panicked"

(* mio's reregister changes the registration of a stream registered        *)
(* before: send calls it on a stream that the event loop already knows.    *)
ReregisterRegistered ==
    [][(phase = "idle" /\ socket = "some" /\ sends' = sends + 1) => registered]_vars

=============================================================================
