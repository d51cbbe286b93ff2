--------------------- MODULE TcpClientConnection_proofs ---------------------
(***************************************************************************)
(* Proofs about TcpClientConnection for every MaxSends and both pollers:   *)
(* type correctness, that a send writes its query at most once, and that  *)
(* on epoll no send ever reaches the event loop.                           *)
(***************************************************************************)
EXTENDS TcpClientConnection, TLAPS

USE MaxSendsAssumption, BackendAssumption

(* The inductive invariant: while the write filter is armed, the query of  *)
(* the current send has not been written; the writable event that writes  *)
(* it disarms the write filter (EV_ONESHOT), and only send rearms it.      *)
IInv ==
    /\ TypeOK
    /\ QueryWrittenOnce
    /\ "write" \in armed => writes = 0

(* new() starts in a state of the inductive invariant.                    *)
LEMMA IInvInit == Init => IInv
<1> SUFFICES ASSUME Init PROVE IInv
  OBVIOUS
<1>1. /\ socket \in {"some", "none"} /\ registered \in BOOLEAN
      /\ timer \in {"armed", "fired"} /\ phase \in {"idle", "running", "panicked"}
      /\ armed \subseteq Filters
  BY DEF Init
<1>2. /\ error \in Errors /\ buf \in {"none", "answer"}
      /\ pending \in {"none", "query", "answer"} /\ closed \in BOOLEAN
  BY DEF Init, Errors
<1>3. writes \in Nat /\ result \in {"none", "ok", "err"} /\ sends \in 0..MaxSends
  BY DEF Init
<1> QED
  BY <1>1, <1>2, <1>3 DEF Init, IInv, TypeOK, QueryWrittenOnce

(* The writable outcome is only in an event of the write filter.           *)
LEMMA WritableFromWrite ==
    ASSUME NEW fired, "writable" \in UNION {FilterReady(f) : f \in fired}
    PROVE  "write" \in fired
BY DEF FilterReady

(* Every step of send, of the event loop and of the server keeps IInv.     *)
LEMMA IInvStep == IInv /\ [Next]_vars => IInv'
<1> SUFFICES ASSUME IInv, [Next]_vars PROVE IInv'
  OBVIOUS
<1>1. CASE SendBegin
  <2>1. sends' \in 0..MaxSends /\ UNCHANGED <<timer, pending, closed>>
    BY <1>1 DEF SendBegin, IInv, TypeOK
  <2>2. CASE UNCHANGED <<socket, registered, armed, error, buf, writes, result>>
             /\ phase' = "panicked"
    BY <2>1, <2>2 DEF IInv, TypeOK, QueryWrittenOnce
  <2>3. CASE UNCHANGED <<socket, registered, phase, armed, error, buf, writes>>
             /\ result' = "err"
    BY <2>1, <2>3 DEF IInv, TypeOK, QueryWrittenOnce
  <2>4. CASE /\ registered' = TRUE /\ socket' = "none" /\ armed' = Filters
             /\ phase' = "running" /\ error' = "none" /\ buf' = "none"
             /\ writes' = 0 /\ result' = "none"
    BY <2>1, <2>4 DEF IInv, TypeOK, QueryWrittenOnce, Errors
  <2> QED
    BY <1>1, <2>2, <2>3, <2>4 DEF SendBegin
<1>2. ASSUME NEW fired \in (SUBSET armed) \ {{}}, Deliver(fired) PROVE IInv'
  <2> DEFINE ev == UNION {FilterReady(f) : f \in fired}
  <2>1. armed' = armed \ fired /\ UNCHANGED <<registered, timer, closed, sends>>
    BY <1>2 DEF Deliver, Disarmed
  <2>2. armed' \subseteq Filters
    BY <2>1 DEF IInv, TypeOK
  <2>3. CASE "writable" \in ev
    <3>1. OnWritable
      BY <1>2, <2>3 DEF Deliver
    <3>2. "write" \in armed /\ "write" \notin armed'
      BY <2>1, <2>3, WritableFromWrite
    <3>3. writes = 0
      BY <3>2 DEF IInv
    <3>4. writes' \in {0, 1} /\ error' \in Errors
          /\ pending' \in {"none", "query", "answer"}
      BY <3>1, <3>3 DEF OnWritable, Errors, IInv, TypeOK
    <3> QED
      BY <2>1, <2>2, <3>1, <3>2, <3>4 DEF OnWritable, IInv, TypeOK, QueryWrittenOnce
  <2>4. CASE "writable" \notin ev /\ "readable" \in ev
    <3>1. OnReadable
      BY <1>2, <2>4 DEF Deliver
    <3>2. UNCHANGED writes /\ pending' \in {"none", "query", "answer"}
          /\ error' \in Errors /\ phase' \in {"idle", "running", "panicked"}
          /\ result' \in {"none", "ok", "err"} /\ socket' \in {"some", "none"}
          /\ buf' \in {"none", "answer"}
      BY <3>1 DEF OnReadable, ReadOutcomes, Finish, IInv, TypeOK, Errors
    <3> QED
      BY <2>1, <2>2, <3>2 DEF IInv, TypeOK, QueryWrittenOnce
  <2>5. CASE "writable" \notin ev /\ "readable" \notin ev
    <3>1. OnHup
      BY <1>2, <2>5 DEF Deliver
    <3> QED
      BY <2>1, <2>2, <3>1 DEF OnHup, Finish, IInv, TypeOK, QueryWrittenOnce, Errors
  <2> QED
    BY <2>3, <2>4, <2>5
<1>3. CASE Timeout
  BY <1>3 DEF Timeout, Finish, IInv, TypeOK, QueryWrittenOnce, Errors
<1>4. CASE RunFails
  BY <1>4 DEF RunFails, IInv, TypeOK, QueryWrittenOnce
<1>5. CASE PeerAnswers
  BY <1>5 DEF PeerAnswers, IInv, TypeOK, QueryWrittenOnce
<1>6. CASE PeerCloses
  BY <1>6 DEF PeerCloses, IInv, TypeOK, QueryWrittenOnce
<1>7. CASE UNCHANGED vars
  BY <1>7 DEF vars, IInv, TypeOK, QueryWrittenOnce
<1> QED
  BY <1>1, <1>2, <1>3, <1>4, <1>5, <1>6, <1>7 DEF Next

(* A send writes its query at most once, for every bound on the sends and  *)
(* on either poller: the write filter fires once per reregister.           *)
THEOREM WrittenOnce == Spec => []QueryWrittenOnce
<1>1. Spec => []IInv
  BY IInvInit, IInvStep, PTL DEF Spec
<1>2. IInv => QueryWrittenOnce
  BY DEF IInv
<1> QED
  BY <1>1, <1>2, PTL

(* The connection's state stays well typed: in particular the number of    *)
(* sends never passes the bound, whatever the events and the server do.    *)
THEOREM TypeCorrect == Spec => []TypeOK
<1>1. Spec => []IInv
  BY IInvInit, IInvStep, PTL DEF Spec
<1>2. IInv => TypeOK
  BY DEF IInv
<1> QED
  BY <1>1, <1>2, PTL

-----------------------------------------------------------------------------
(* On epoll the stream is never registered: new() does not register it and *)
(* reregister (EPOLL_CTL_MOD) fails with ENOENT, so no send enters the     *)
(* event loop and no query is written.                                     *)
EInv == ~registered /\ phase # "running" /\ writes = 0

LEMMA EInvStep ==
    ASSUME Backend = "epoll", EInv, [Next]_vars
    PROVE  EInv'
<1>1. CASE SendBegin
  BY <1>1 DEF SendBegin, EInv
<1>2. ASSUME NEW fired \in (SUBSET armed) \ {{}}, Deliver(fired) PROVE EInv'
  BY <1>2 DEF Deliver, EInv
<1>3. CASE Timeout \/ RunFails
  BY <1>3 DEF Timeout, RunFails, EInv
<1>4. CASE PeerAnswers \/ PeerCloses \/ UNCHANGED vars
  BY <1>4 DEF PeerAnswers, PeerCloses, vars, EInv
<1> QED
  BY <1>1, <1>2, <1>3, <1>4 DEF Next

(* On Linux (epoll) no call of send ever writes its query, for every bound *)
(* on the sends: each returns the Err of reregister, keeping the stream.   *)
THEOREM EpollNeverSends ==
    Backend = "epoll" => (Spec => [](phase # "running" /\ writes = 0))
<1> SUFFICES ASSUME Backend = "epoll" PROVE Spec => [](phase # "running" /\ writes = 0)
  OBVIOUS
<1>1. Init => EInv
  BY DEF Init, EInv
<1>2. EInv /\ [Next]_vars => EInv'
  BY EInvStep
<1>3. EInv => (phase # "running" /\ writes = 0)
  BY DEF EInv
<1> QED
  BY <1>1, <1>2, <1>3, PTL DEF Spec

=============================================================================
