---------------------------- MODULE SocketProofs ----------------------------
(***************************************************************************)
(* Theorems about Socket, for every set of streams and connections, every  *)
(* capacity of connSlots and every backoff bound: the types and the slots; *)
(* then which connection may still be pinged, that none is left open by    *)
(* everybody, that there is one at most, how many a process has, and that  *)
(* the end of one is reported for what it was, whoever dropped it; that    *)
(* Socket implements StreamContract; and that every wait is the backoff of *)
(* a count the code does not keep.                                         *)
(***************************************************************************)
EXTENDS Socket, FiniteSetTheorems, Numbers, TLAPS

-----------------------------------------------------------------------------
(* Type correctness                                                        *)

\* The next delay lies between the backoff bounds, whatever the last one was.
LEMMA NextDelayType ==
    ASSUME NEW d \in Nat
    PROVE  NextDelay(d) \in MinDelay..MaxDelay
BY BoundAssumption DEF NextDelay, AtMost

\* What a step leaves alone keeps its type.
LEMMA SameTypes ==
    ASSUME TypeOK
    PROVE  /\ UNCHANGED slotVars  => SlotType'
           /\ UNCHANGED sockVars  => SockType'
           /\ UNCHANGED backVars  => BackType'
           /\ UNCHANGED readVars  => ReadType'
           /\ UNCHANGED closeVars => CloseType'
           /\ UNCHANGED linkVars  => LinkType'
<1>1. UNCHANGED slotVars => SlotType'
  BY DEF TypeOK, slotVars, SlotType
<1>2. UNCHANGED sockVars => SockType'
  BY DEF TypeOK, sockVars, SockType
<1>3. UNCHANGED backVars => BackType'
  BY DEF TypeOK, backVars, BackType
<1>4. UNCHANGED readVars => ReadType'
  BY DEF TypeOK, readVars, ReadType
<1>5. UNCHANGED closeVars => CloseType'
  BY DEF TypeOK, closeVars, CloseType
<1>6. UNCHANGED linkVars => LinkType'
  BY DEF TypeOK, linkVars, LinkType
<1>7. QED
  BY <1>1, <1>2, <1>3, <1>4, <1>5, <1>6

\* A function of functions keeps its type when one entry of one row changes.
LEMMA UpdateEntry ==
    ASSUME NEW A, NEW B, NEW C, NEW f \in [A -> [B -> C]], NEW a \in A, NEW b, NEW c \in C
    PROVE  [f EXCEPT ![a][b] = c] \in [A -> [B -> C]]
OBVIOUS

\* Giving a token back, at most once, leaves connSlots within its capacity.
LEMMA ReleaseType ==
    ASSUME TypeOK, NEW s \in Streams, Release(s)
    PROVE  SlotType'
<1>1. CASE UNCHANGED slotVars
  BY <1>1, SameTypes
<1>2. CASE connSlots > 0 /\ connSlots' = connSlots - 1 /\ freed' = [freed EXCEPT ![s] = TRUE]
  BY <1>2, BoundAssumption DEF TypeOK, SlotType
<1>3. QED
  BY <1>1, <1>2 DEF Release

\* Closing a connection, or cancelling its keepalive, leaves a connection.
LEMMA CloseNowType ==
    ASSUME TypeOK, NEW s \in Streams, NEW g, CloseNow(s, g)
    PROVE  link' \in [Streams -> [Gens -> {"open", "silent", "broken", "closed", "killed"}]]
BY UpdateEntry DEF TypeOK, LinkType, CloseNow

\* Cancelling the keepalive and forgetting its context keeps cause and alive well typed.
LEMMA EndAliveType ==
    ASSUME TypeOK, NEW s \in Streams, EndAlive(s)
    PROVE  /\ cause' \in [Streams -> [Gens -> {"live", "canceled", "stale"}]]
           /\ alive' \in [Streams -> Gens \cup {NoConn}]
<1>1. cause' \in [Streams -> [Gens -> {"live", "canceled", "stale"}]]
  BY UpdateEntry DEF TypeOK, LinkType, EndAlive
<1>2. alive' \in [Streams -> Gens \cup {NoConn}]
  BY DEF TypeOK, SockType, EndAlive
<1>3. QED
  BY <1>1, <1>2

\* The initial state has the types.
LEMMA InitTypeOK == Init => TypeOK
BY BoundAssumption
   DEF Init, TypeOK, SlotType, SockType, BackType, ReadType, CloseType, LinkType, ReaderAt, Results

\* Every step of every goroutine and of the network keeps the types.
LEMMA StepTypeOK == TypeOK /\ [Next]_vars => TypeOK'
<1> SUFFICES ASSUME TypeOK, [Next]_vars PROVE TypeOK'
    OBVIOUS
<1> USE ConnAssumption, BoundAssumption DEF TypeOK
<1>1. ASSUME NEW s \in Streams, Program(s) PROVE TypeOK'
  <2>1. CASE Open(s)
    <3>1. SlotType'
      BY <2>1 DEF Open, SlotType
    <3>2. ReadType'
      BY <2>1 DEF Open, ReadType, ReaderAt, Results
    <3>3. QED
      BY <2>1, <3>1, <3>2, SameTypes DEF Open
  <2>2. CASE OpenRefused(s)
    <3>1. ReadType'
      BY <2>2 DEF OpenRefused, ReadType, ReaderAt, Results
    <3>2. QED
      BY <2>2, <3>1, SameTypes DEF OpenRefused
  <2>3. CASE CallNext(s)
    <3>1. ReadType'
      BY <2>3 DEF CallNext, ReadType, ReaderAt, Results
    <3>2. QED
      BY <2>3, <3>1, SameTypes DEF CallNext
  <2>4. CASE CancelCtx(s)
    <3>1. ReadType'
      BY <2>4 DEF CancelCtx, ReadType, ReaderAt, Results
    <3>2. QED
      BY <2>4, <3>1, SameTypes DEF CancelCtx
  <2>5. CASE CallClose(s)
    <3>1. CloseType'
      BY <2>5 DEF CallClose, CloseType, Closers
    <3>2. QED
      BY <2>5, <3>1, SameTypes DEF CallClose
  <2>6. CASE WriteBegins(s)
    <3>1. SockType'
      BY <2>6 DEF WriteBegins, SockType
    <3>2. QED
      BY <2>6, <3>1, SameTypes DEF WriteBegins
  <2>7. CASE WriteEnds(s)
    <3>1. SockType'
      BY <2>7 DEF WriteEnds, SockType
    <3>2. LinkType'
      BY <2>7, CloseNowType DEF WriteEnds, LinkType
    <3>3. QED
      BY <2>7, <3>1, <3>2, SameTypes DEF WriteEnds
  <2>8. QED
    BY <1>1, <2>1, <2>2, <2>3, <2>4, <2>5, <2>6, <2>7
       DEF Program
<1>2. ASSUME NEW s \in Streams, Reader(s) PROVE TypeOK'
  <2>1. CASE Look(s)
    <3>1. BackType'
      BY <2>1, NextDelayType DEF Look, BackType, backVars
    <3>2. ReadType'
      BY <2>1 DEF Look, ReadType, ReaderAt, Results, Return, SockType
    <3>3. QED
      BY <2>1, <3>1, <3>2, SameTypes DEF Look
  <2>2. CASE WaitEnds(s)
    <3>1. ReadType'
      BY <2>2 DEF WaitEnds, ReadType, ReaderAt, Results, Return
    <3>2. QED
      BY <2>2, <3>1, SameTypes DEF WaitEnds
  <2>3. CASE DialOK(s)
    <3>1. ReadType'
      BY <2>3 DEF DialOK, ReadType, ReaderAt, Results
    <3>2. LinkType'
      BY <2>3 DEF DialOK, LinkType
    <3>3. QED
      BY <2>3, <3>1, <3>2, SameTypes DEF DialOK
  <2>4. CASE DialFails(s)
    <3>1. SlotType'
      BY <2>4, ReleaseType, SameTypes DEF DialFails, AttemptFails
    <3>2. ReadType'
      BY <2>4 DEF DialFails, ReadType, ReaderAt, Results, AttemptFails, Return
    <3>3. QED
      BY <2>4, <3>1, <3>2, SameTypes DEF DialFails
  <2>5. CASE ConnectLock(s)
    <3>1. SockType'
      BY <2>5 DEF ConnectLock, SockType
    <3>2. ReadType'
      BY <2>5 DEF ConnectLock, ReadType, ReaderAt, Results, Return
    <3>3. LinkType'
      BY <2>5, CloseNowType DEF ConnectLock, LinkType
    <3>4. QED
      BY <2>5, <3>1, <3>2, <3>3, SameTypes DEF ConnectLock
  <2>6. CASE HelloOK(s)
    <3>1. SockType'
      BY <2>6 DEF HelloOK, SockType, ReadType
    <3>2. BackType'
      BY <2>6 DEF HelloOK, BackType
    <3>3. ReadType'
      BY <2>6 DEF HelloOK, ReadType, ReaderAt, Results, Return
    <3>4. LinkType'
      <4>1. link' = link
        BY <2>6 DEF HelloOK
      <4>2. /\ [cause EXCEPT ![s][rconn[s]] = "live"]
                   \in [Streams -> [Gens -> {"live", "canceled", "stale"}]]
            /\ [ka EXCEPT ![s][rconn[s]] = "tick"]
                   \in [Streams -> [Gens -> {"off", "tick", "ping", "stop", "kill"}]]
        BY UpdateEntry DEF LinkType
      <4>3. QED
        BY <2>6, <4>1, <4>2 DEF HelloOK, LinkType
    <3>5. QED
      BY <2>6, <3>1, <3>2, <3>3, <3>4, SameTypes DEF HelloOK
  <2>7. CASE HelloFails(s)
    <3>1. SlotType'
      BY <2>7, ReleaseType, SameTypes DEF HelloFails, AttemptFails
    <3>2. SockType'
      BY <2>7 DEF HelloFails, SockType
    <3>3. ReadType'
      BY <2>7 DEF HelloFails, ReadType, ReaderAt, Results, AttemptFails, Return
    <3>4. LinkType'
      BY <2>7, CloseNowType DEF HelloFails, LinkType
    <3>5. QED
      BY <2>7, <3>1, <3>2, <3>3, <3>4, SameTypes DEF HelloFails
  <2>8. CASE ReadFrame(s)
    <3>1. BackType'
      BY <2>8 DEF ReadFrame, BackType
    <3>2. ReadType'
      BY <2>8 DEF ReadFrame, ReadType, ReaderAt, Results, Return
    <3>3. QED
      BY <2>8, <3>1, <3>2, SameTypes DEF ReadFrame
  <2>9. CASE ReadRefusal(s)
    <3>1. BackType'
      BY <2>9 DEF ReadRefusal, BackType
    <3>2. ReadType'
      BY <2>9 DEF ReadRefusal, ReadType, ReaderAt, Results
    <3>3. CloseType'
      BY <2>9 DEF ReadRefusal, CloseType, Closers
    <3>4. QED
      BY <2>9, <3>1, <3>2, <3>3, SameTypes DEF ReadRefusal
  <2>10. CASE RefusalReturns(s)
    <3>1. ReadType'
      BY <2>10 DEF RefusalReturns, ReadType, ReaderAt, Results, Return
    <3>2. QED
      BY <2>10, <3>1, SameTypes DEF RefusalReturns
  <2>11. CASE ReadFails(s)
    <3>1. ReadType'
      BY <2>11 DEF ReadFails, ReadType, ReaderAt, Results
    <3>2. LinkType'
      BY <2>11, CloseNowType DEF ReadFails, LinkType
    <3>3. QED
      BY <2>11, <3>1, <3>2, SameTypes DEF ReadFails
  <2>12. CASE ForgetConn(s)
    <3>1. SockType'
      BY <2>12, EndAliveType DEF ForgetConn, SockType
    <3>2. ReadType'
      BY <2>12 DEF ForgetConn, ReadType, ReaderAt, Results
    <3>3. LinkType'
      BY <2>12, EndAliveType DEF ForgetConn, LinkType
    <3>4. QED
      BY <2>12, <3>1, <3>2, <3>3, SameTypes DEF ForgetConn
  <2>13. CASE DropConn(s)
    <3>1. BackType'
      BY <2>13 DEF DropConn, BackType
    <3>2. ReadType'
      BY <2>13 DEF DropConn, ReadType, ReaderAt, Results, Return
    <3>3. LinkType'
      BY <2>13, CloseNowType DEF DropConn, LinkType
    <3>4. QED
      BY <2>13, <3>1, <3>2, <3>3, SameTypes DEF DropConn
  <2>14. QED
    BY <1>2, <2>1, <2>2, <2>3, <2>4, <2>5, <2>6, <2>7, <2>8, <2>9, <2>10, <2>11, <2>12, <2>13
       DEF Reader
<1>3. ASSUME NEW s \in Streams, NEW t \in Closers, Closer(s, t) PROVE TypeOK'
  <2>1. CASE CloseLock(s, t)
    <3>1. SockType'
      BY <2>1, EndAliveType DEF CloseLock, SockType, sockVars
    <3>2. CloseType'
      <4>1. cpc' \in [Streams -> [Closers -> {"idle", "lock", "release", "drop"}]]
        <5>1. /\ [cpc EXCEPT ![s][t] = "idle"]
                     \in [Streams -> [Closers -> {"idle", "lock", "release", "drop"}]]
              /\ [cpc EXCEPT ![s][t] = "release"]
                     \in [Streams -> [Closers -> {"idle", "lock", "release", "drop"}]]
          BY UpdateEntry DEF CloseType
        <5>2. QED
          BY <2>1, <5>1 DEF CloseLock
      <4>2. conn[s] \in Gens \cup {NoConn}
        BY DEF SockType
      <4>3. [cconn EXCEPT ![s][t] = conn[s]] \in [Streams -> [Closers -> Gens \cup {NoConn}]]
        BY <4>2, UpdateEntry DEF CloseType
      <4>4. cconn' \in [Streams -> [Closers -> Gens \cup {NoConn}]]
        BY <2>1, <4>3 DEF CloseLock, CloseType
      <4>5. QED
        BY <4>1, <4>4 DEF CloseType
    <3>3. LinkType'
      BY <2>1, EndAliveType DEF CloseLock, LinkType
    <3>4. QED
      BY <2>1, <3>1, <3>2, <3>3, SameTypes DEF CloseLock
  <2>2. CASE CloseRelease(s, t)
    <3>1. SlotType'
      BY <2>2, ReleaseType, SameTypes DEF CloseRelease
    <3>2. CloseType'
      BY <2>2 DEF CloseRelease, CloseType, Closers
    <3>3. QED
      BY <2>2, <3>1, <3>2, SameTypes DEF CloseRelease
  <2>3. CASE CloseDrop(s, t)
    <3>1. CloseType'
      BY <2>3 DEF CloseDrop, CloseType, Closers
    <3>2. LinkType'
      BY <2>3, CloseNowType DEF CloseDrop, LinkType
    <3>3. QED
      BY <2>3, <3>1, <3>2, SameTypes DEF CloseDrop
  <2>4. QED
    BY <1>3, <2>1, <2>2, <2>3
       DEF Closer
<1>4. ASSUME NEW s \in Streams, NEW g \in Gens, KeepaliveOf(s, g) \/ Network(s, g)
      PROVE  TypeOK'
  <2>1. CASE KeepaliveTick(s, g)
    <3>1. LinkType'
      BY <2>1 DEF KeepaliveTick, LinkType
    <3>2. QED
      BY <2>1, <3>1, SameTypes DEF KeepaliveTick
  <2>2. CASE KeepaliveQuit(s, g)
    <3>1. LinkType'
      BY <2>2 DEF KeepaliveQuit, LinkType
    <3>2. QED
      BY <2>2, <3>1, SameTypes DEF KeepaliveQuit
  <2>3. CASE PingAnswered(s, g)
    <3>1. LinkType'
      BY <2>3 DEF PingAnswered, LinkType
    <3>2. QED
      BY <2>3, <3>1, SameTypes DEF PingAnswered
  <2>4. CASE PingFails(s, g)
    <3>1. /\ link' = link \/ link' = [link EXCEPT ![s][g] = "broken"]
          /\ ka' = [ka EXCEPT ![s][g] = "off"] /\ UNCHANGED cause
      BY <2>4 DEF PingFails, PingBreaks
    <3>2. CASE link' = link
      <4>1. LinkType'
        BY <3>1, <3>2 DEF LinkType
      <4>2. QED
        BY <2>4, <4>1, SameTypes DEF PingFails
    <3>3. CASE link' = [link EXCEPT ![s][g] = "broken"]
      <4>1. LinkType'
        BY <3>1, <3>3 DEF LinkType
      <4>2. QED
        BY <2>4, <4>1, SameTypes DEF PingFails
    <3>4. QED
      BY <3>1, <3>2, <3>3
  <2>5. CASE PingTimesOut(s, g)
    <3>1. LinkType'
      BY <2>5 DEF PingTimesOut, LinkType
    <3>2. QED
      BY <2>5, <3>1, SameTypes DEF PingTimesOut
  <2>6. CASE KeepaliveStop(s, g)
    <3>1. LinkType'
      BY <2>6 DEF KeepaliveStop, LinkType
    <3>2. QED
      BY <2>6, <3>1, SameTypes DEF KeepaliveStop
  <2>7. CASE KeepaliveKill(s, g)
    <3>1. LinkType'
      BY <2>7 DEF KeepaliveKill, LinkType
    <3>2. QED
      BY <2>7, <3>1, SameTypes DEF KeepaliveKill
  <2>8. CASE GoSilent(s, g)
    <3>1. LinkType'
      BY <2>8 DEF GoSilent, LinkType
    <3>2. QED
      BY <2>8, <3>1, SameTypes DEF GoSilent
  <2>9. CASE Break(s, g)
    <3>1. LinkType'
      BY <2>9 DEF Break, LinkType
    <3>2. QED
      BY <2>9, <3>1, SameTypes DEF Break
  <2>10. QED
    BY <1>4, <2>1, <2>2, <2>3, <2>4, <2>5, <2>6, <2>7, <2>8, <2>9
       DEF KeepaliveOf, Network
<1>5. CASE UNCHANGED vars
  BY <1>5, SameTypes DEF vars
<1>6. QED
  BY <1>1, <1>2, <1>3, <1>4, <1>5 DEF Next

\* Every variable keeps its type: in particular connSlots never exceeds its
\* capacity and the backoff never leaves its bounds.
THEOREM SocketTypeCorrect == Spec => []TypeOK
BY InitTypeOK, StepTypeOK, PTL DEF Spec

-----------------------------------------------------------------------------
(* One token per open stream                                               *)

\* What makes the count inductive.  A stream that openSocket has not returned is
\* unknown to any Close and its reader is still opening it; at most one Close gets
\* past the critical section; the reader closes only while it handles a refusal; and
\* the sync.Once has run exactly when the stream stopped being one that should hold
\* a token.
SlotLocal(s) ==
    /\ rpc[s] = "new" => phase[s] = "new"
    /\ phase[s] = "new" =>
          /\ rpc[s] \in {"new", "dial", "lock", "hello"}
          /\ ~closed[s]
          /\ \A t \in Closers : cpc[s][t] = "idle"
    /\ \A t \in Closers : Closing(s, t) => closed[s]
    /\ \A t, u \in Closers : Closing(s, t) /\ Closing(s, u) => t = u
    /\ rpc[s] # "refused" => cpc[s]["reader"] = "idle"
    /\ rpc[s] # "new" => (freed[s] <=> s \notin Holders)

SlotInv == SlotPerStream /\ \A s \in Streams : SlotLocal(s)

\* The steps that take or give back no token and get no Close past its critical
\* section: the reader may move, between calls and inside them, as long as no
\* stream becomes unopened or opens again.
SlotQuiet ==
    /\ UNCHANGED <<connSlots, freed, closed>>
    /\ \A r \in Streams :
          /\ rpc'[r] = "new" <=> rpc[r] = "new"
          /\ rpc'[r] = "new" => phase'[r] = "new"
          /\ phase'[r] = "new" => /\ phase[r] = "new"
                                 /\ rpc'[r] \in {"new", "dial", "lock", "hello"}
                                 /\ \A t \in Closers : cpc'[r][t] = "idle"
          /\ rpc'[r] # "refused" => cpc'[r]["reader"] = "idle"
          /\ \A t \in Closers : /\ cpc'[r][t] = "release" <=> cpc[r][t] = "release"
                                /\ cpc'[r][t] = "drop" => cpc[r][t] = "drop"

\* A step that moves no token and changes no stream's claim to one keeps the invariant.
LEMMA QuietKeepsSlots ==
    ASSUME SlotInv, SlotQuiet
    PROVE  SlotInv'
<1>1. Holders' = Holders
  BY DEF SlotQuiet, Holders
<1>2. SlotPerStream'
  BY <1>1 DEF SlotInv, SlotPerStream, SlotQuiet
<1>3. ASSUME NEW r \in Streams PROVE SlotLocal(r)'
  <2>1. SlotLocal(r)
    BY DEF SlotInv
  <2>2. QED
    BY <1>1, <2>1 DEF SlotLocal, SlotQuiet, Closing
<1>4. QED
  BY <1>2, <1>3 DEF SlotInv

\* A failed open gives the token of the stream it was opening back; a failed
\* reconnect gives nothing back.
LEMMA FailedAttemptKeepsSlots ==
    ASSUME TypeOK, SlotInv, NEW s \in Streams, rpc[s] \in {"dial", "hello"},
           AttemptFails(s), UNCHANGED <<closed, cpc>>
    PROVE  SlotInv'
<1>1. SlotLocal(s)
  BY DEF SlotInv
<1>2. CASE phase[s] = "new"
  <2>1. s \in Holders /\ ~freed[s]
    BY <1>1, <1>2 DEF SlotLocal, Holders
  <2>2. /\ connSlots' = connSlots - 1
        /\ freed' = [freed EXCEPT ![s] = TRUE]
        /\ rpc' = [rpc EXCEPT ![s] = "new"]
        /\ UNCHANGED phase
    BY <1>2, <2>1 DEF AttemptFails, Release
  <2>3. Holders' = Holders \ {s}
    BY <2>2 DEF Holders, TypeOK, ReadType
  <2>4. IsFiniteSet(Holders)
    BY StreamAssumption, FS_Subset DEF Holders
  <2>5. SlotPerStream'
    BY <2>1, <2>2, <2>3, <2>4, FS_RemoveElement DEF SlotInv, SlotPerStream
  <2>6. ASSUME NEW r \in Streams PROVE SlotLocal(r)'
    <3>1. SlotLocal(r)
      BY DEF SlotInv
    <3>2. QED
      BY <1>1, <1>2, <2>2, <2>3, <3>1 DEF SlotLocal, Closing, TypeOK, ReadType, SlotType
  <2>7. QED
    BY <2>5, <2>6 DEF SlotInv
<1>3. CASE phase[s] # "new"
  <2>1. SlotQuiet
    BY <1>3 DEF SlotQuiet, SlotInv, SlotLocal, AttemptFails, Return, slotVars, TypeOK, ReadType
  <2>2. QED
    BY <2>1, QuietKeepsSlots
<1>4. QED
  BY <1>2, <1>3

\* Nothing is open at first, and no token is taken.
LEMMA InitSlotInv == Init => SlotInv
<1> SUFFICES ASSUME Init PROVE SlotInv
    OBVIOUS
<1>1. Holders = {}
  BY DEF Init, Holders
<1>2. SlotPerStream
  BY <1>1, FS_EmptySet DEF Init, SlotPerStream
<1>3. ASSUME NEW s \in Streams PROVE SlotLocal(s)
  BY DEF Init, SlotLocal, Closing, Holders, Closers
<1>4. QED
  BY <1>2, <1>3 DEF SlotInv

\* Every step of every goroutine keeps the invariant, one case per action.
LEMMA StepSlotInv == TypeOK /\ SlotInv /\ [Next]_vars => SlotInv'
<1> SUFFICES ASSUME TypeOK, SlotInv, [Next]_vars PROVE SlotInv'
    OBVIOUS
<1>1. ASSUME NEW s \in Streams, Program(s) PROVE SlotInv'
  <2>1. CASE Open(s)
    <3>1. SlotLocal(s)
      BY DEF SlotInv
    <3>2. s \notin Holders /\ Holders' = Holders \cup {s}
      BY <2>1, <3>1 DEF Open, Holders, SlotLocal, sockVars, closeVars, TypeOK, ReadType
    <3>3. IsFiniteSet(Holders)
      BY StreamAssumption, FS_Subset DEF Holders
    <3>4. SlotPerStream'
      BY <2>1, <3>2, <3>3, FS_AddElement DEF Open, SlotInv, SlotPerStream
    <3>5. ASSUME NEW r \in Streams PROVE SlotLocal(r)'
      <4>1. SlotLocal(r)
        BY DEF SlotInv
      <4>2. QED
        BY <2>1, <3>1, <3>2, <4>1
           DEF Open, SlotLocal, Closing, sockVars, closeVars, TypeOK, ReadType, SlotType
    <3>6. QED
      BY <3>4, <3>5 DEF SlotInv
  <2>2. CASE ~Open(s)
    <3>1. SlotQuiet
      <4>1. CASE OpenRefused(s) \/ CancelCtx(s) \/ WriteBegins(s) \/ WriteEnds(s)
        BY <4>1 DEF OpenRefused, CancelCtx, WriteBegins, WriteEnds, SlotQuiet, SlotInv, SlotLocal,
                    slotVars, sockVars, readVars, closeVars
      <4>2. CASE CallNext(s)
        BY <4>2 DEF CallNext, SlotQuiet, SlotInv, SlotLocal, slotVars, sockVars, closeVars,
                    TypeOK, ReadType
      <4>3. CASE CallClose(s)
        BY <4>3 DEF CallClose, SlotQuiet, SlotInv, SlotLocal, slotVars, sockVars, readVars,
                    TypeOK, CloseType
      <4>4. QED
        BY <1>1, <2>2, <4>1, <4>2, <4>3 DEF Program
    <3>2. QED
      BY <3>1, QuietKeepsSlots
  <2>3. QED
    BY <2>1, <2>2
<1>2. ASSUME NEW s \in Streams, Reader(s) PROVE SlotInv'
  <2>1. CASE DialFails(s)
    BY <2>1, FailedAttemptKeepsSlots DEF DialFails, sockVars, closeVars
  <2>2. CASE HelloFails(s)
    BY <2>2, FailedAttemptKeepsSlots DEF HelloFails, closeVars
  <2>3. CASE ~DialFails(s) /\ ~HelloFails(s)
    <3>1. SlotQuiet
      <4> USE DEF SlotQuiet, SlotInv, SlotLocal, Return, slotVars, sockVars, closeVars,
                  TypeOK, ReadType
      <4>1. CASE Look(s)
        BY <4>1 DEF Look
      <4>2. CASE WaitEnds(s)
        BY <4>2 DEF WaitEnds
      <4>3. CASE DialOK(s)
        BY <4>3 DEF DialOK
      <4>4. CASE ConnectLock(s)
        BY <4>4 DEF ConnectLock
      <4>5. CASE HelloOK(s)
        BY <4>5 DEF HelloOK
      <4>6. CASE ReadFrame(s)
        BY <4>6 DEF ReadFrame
      <4>7. CASE ReadRefusal(s)
        <5>1. /\ phase[s] # "new"
              /\ UNCHANGED <<connSlots, freed, closed, phase>>
              /\ rpc[s] = "read" /\ rpc' = [rpc EXCEPT ![s] = "refused"]
              /\ cpc[s]["reader"] = "idle"
              /\ cpc' = [cpc EXCEPT ![s]["reader"] = "lock"]
          BY <4>7 DEF ReadRefusal
        <5>2. \A r \in Streams : \A t \in Closers :
                  \/ cpc'[r][t] = cpc[r][t]
                  \/ r = s /\ cpc'[r][t] = "lock" /\ cpc[r][t] \notin {"release", "drop"}
          BY <5>1 DEF CloseType
        <5>3. QED
          BY <5>1, <5>2
      <4>8. CASE RefusalReturns(s)
        BY <4>8 DEF RefusalReturns
      <4>9. CASE ReadFails(s)
        BY <4>9 DEF ReadFails
      <4>10. CASE ForgetConn(s)
        BY <4>10 DEF ForgetConn
      <4>11. CASE DropConn(s)
        BY <4>11 DEF DropConn
      <4>12. QED
        BY <1>2, <2>3, <4>1, <4>2, <4>3, <4>4, <4>5, <4>6, <4>7, <4>8, <4>9, <4>10, <4>11
           DEF Reader
    <3>2. QED
      BY <3>1, QuietKeepsSlots
  <2>4. QED
    BY <2>1, <2>2, <2>3
<1>3. ASSUME NEW s \in Streams, NEW t \in Closers, Closer(s, t) PROVE SlotInv'
  <2>1. SlotLocal(s)
    BY DEF SlotInv
  <2>2. CASE (CloseLock(s, t) /\ closed[s]) \/ CloseDrop(s, t)
    <3>1. SlotQuiet
      BY <2>2, SMTT(30) DEF CloseLock, CloseDrop, SlotQuiet, SlotInv, SlotLocal, slotVars, sockVars,
                  readVars, TypeOK, CloseType, Closers
    <3>2. QED
      BY <3>1, QuietKeepsSlots
  <2>3. CASE CloseLock(s, t) /\ ~closed[s]
    <3>1. /\ cpc' = [cpc EXCEPT ![s][t] = "release"]
          /\ closed' = [closed EXCEPT ![s] = TRUE]
          /\ UNCHANGED <<connSlots, freed, rpc, phase>>
      BY <2>3 DEF CloseLock, slotVars, readVars
    <3>2. Holders' = Holders
      BY <2>3, <3>1 DEF Holders, TypeOK, CloseType, SockType
    <3>3. SlotPerStream'
      BY <3>1, <3>2 DEF SlotInv, SlotPerStream
    <3>4. ASSUME NEW r \in Streams PROVE SlotLocal(r)'
      <4>1. SlotLocal(r)
        BY DEF SlotInv
      <4>2. phase[s] # "new"
        BY <2>1, <2>3 DEF SlotLocal, CloseLock
      <4>3. QED
        BY <2>1, <2>3, <3>1, <3>2, <4>1, <4>2
           DEF CloseLock, SlotLocal, Closing, Closers, TypeOK, CloseType, SockType
    <3>5. QED
      BY <3>3, <3>4 DEF SlotInv
  <2>4. CASE CloseRelease(s, t)
    <3>1. phase[s] # "new" /\ closed[s] /\ s \in Holders /\ ~freed[s]
      BY <2>1, <2>4 DEF CloseRelease, SlotLocal, Closing, Holders
    <3>2. /\ cpc' = [cpc EXCEPT ![s][t] = "drop"]
          /\ connSlots' = connSlots - 1
          /\ freed' = [freed EXCEPT ![s] = TRUE]
          /\ UNCHANGED <<closed, rpc, phase>>
      BY <2>4, <3>1 DEF CloseRelease, Release, sockVars, readVars
    <3>3. Holders' = Holders \ {s}
      BY <2>1, <2>4, <3>1, <3>2
         DEF CloseRelease, SlotLocal, Closing, Holders, TypeOK, CloseType
    <3>4. IsFiniteSet(Holders)
      BY StreamAssumption, FS_Subset DEF Holders
    <3>5. SlotPerStream'
      BY <3>1, <3>2, <3>3, <3>4, FS_RemoveElement DEF SlotInv, SlotPerStream
    <3>6. ASSUME NEW r \in Streams PROVE SlotLocal(r)'
      <4>1. SlotLocal(r)
        BY DEF SlotInv
      <4>2. QED
        BY <2>1, <2>4, <3>1, <3>2, <3>3, <4>1
           DEF CloseRelease, SlotLocal, Closing, TypeOK, CloseType, SlotType
    <3>7. QED
      BY <3>5, <3>6 DEF SlotInv
  <2>5. QED
    BY <1>3, <2>2, <2>3, <2>4 DEF Closer
<1>4. ASSUME NEW s \in Streams, NEW g \in Gens, KeepaliveOf(s, g) \/ Network(s, g)
      PROVE  SlotInv'
  <2>1. UNCHANGED <<slotVars, sockVars, readVars, closeVars>>
    BY <1>4 DEF KeepaliveOf, KeepaliveTick, KeepaliveQuit, PingAnswered, PingFails, PingTimesOut,
                KeepaliveStop, KeepaliveKill, Network, GoSilent, Break
  <2>2. SlotQuiet
    BY <2>1 DEF SlotQuiet, SlotInv, SlotLocal, slotVars, sockVars, readVars, closeVars
  <2>3. QED
    BY <2>2, QuietKeepsSlots
<1>5. CASE UNCHANGED vars
  <2>1. SlotQuiet
    BY <1>5 DEF vars, SlotQuiet, SlotInv, SlotLocal, slotVars, sockVars, readVars, closeVars
  <2>2. QED
    BY <2>1, QuietKeepsSlots
<1>6. QED
  BY <1>1, <1>2, <1>3, <1>4, <1>5 DEF Next

\* connSlots holds exactly one token per stream that is opening or open: a failed
\* open returns its token, a stream keeps it through every reconnect, and of all
\* the Closes that race, exactly one gives it back.
THEOREM SlotsMatchStreams == Spec => []SlotPerStream
<1>1. SlotInv => SlotPerStream
  BY DEF SlotInv
<1>2. QED
  BY InitTypeOK, StepTypeOK, InitSlotInv, StepSlotInv, <1>1, PTL DEF Spec


-----------------------------------------------------------------------------
(* KeepaliveFollowsConn is not inductive: HelloOK would start a keepalive  *)
(* next to another connection's, or on a closed stream, if conn could be   *)
(* set while the reader is on its way to a new connection, or if Close     *)
(* could run during the hello.                                             *)

\* The reader is on its way to a new connection, or has just given one up.
Unconnected == {"new", "wait", "dial", "lock", "hello", "drop"}

ConnLocal(s) ==
    /\ rpc[s] \in Unconnected => conn[s] = NoConn
    /\ rpc[s] = "hello" => mu[s] = "hello" /\ ~closed[s]
    /\ alive[s] = IF s \in Pinged THEN conn[s] ELSE NoConn
    /\ closed[s] => conn[s] = NoConn
    /\ \A g \in Gens : cause[s][g] = "live" => alive[s] = g

ConnInv == \A s \in Streams : ConnLocal(s)

\* No action but those of HelloOK, ForgetConn and CloseLock touches conn, closed
\* or alive; the reader of the stream moves in keeping with conn, and a keepalive
\* only ever ends a context.
ConnQuiet ==
    /\ UNCHANGED <<conn, closed, alive>>
    /\ \A s \in Streams :
          /\ rpc'[s] \in Unconnected => conn[s] = NoConn
          /\ rpc'[s] = "hello" => mu'[s] = "hello" /\ ~closed[s]
          /\ \A g \in Gens : cause'[s][g] = "live" => cause[s][g] = "live"

\* A quiet step keeps the invariant.
LEMMA QuietKeepsConn == ASSUME ConnInv, ConnQuiet PROVE ConnInv'
<1> SUFFICES ASSUME NEW s \in Streams PROVE ConnLocal(s)'
    BY DEF ConnInv
<1>1. ConnLocal(s)
  BY DEF ConnInv
<1>2. QED
  BY <1>1 DEF ConnQuiet, ConnLocal

\* endAlive leaves no live context behind: the stream's only one was alive.
LEMMA EndAliveEndsAll ==
    ASSUME TypeOK, ConnInv, NEW s \in Streams, EndAlive(s)
    PROVE  /\ alive' = [alive EXCEPT ![s] = NoConn]
           /\ \A g \in Gens : cause'[s][g] # "live"
           /\ \A r \in Streams \ {s} : cause'[r] = cause[r]
<1>1. \A g \in Gens : cause[s][g] = "live" => alive[s] = g
  BY DEF ConnInv, ConnLocal
<1>2. CASE alive[s] # NoConn /\ cause[s][alive[s]] = "live"
  BY <1>1, <1>2 DEF EndAlive, TypeOK, SockType, LinkType
<1>3. CASE ~(alive[s] # NoConn /\ cause[s][alive[s]] = "live")
  BY <1>1, <1>3, ConnAssumption DEF EndAlive, TypeOK, SockType
<1>4. QED
  BY <1>2, <1>3

\* At first no stream has a connection and no keepalive is live.
LEMMA InitConnInv == Init => ConnInv
BY DEF Init, ConnInv, ConnLocal

\* Every step keeps the invariant: HelloOK, ForgetConn and CloseLock by cases of
\* their own, all the others because they are quiet.
LEMMA StepConnInv == TypeOK /\ ConnInv /\ [Next]_vars => ConnInv'
<1> SUFFICES ASSUME TypeOK, ConnInv, [Next]_vars PROVE ConnInv'
    OBVIOUS
<1>1. ASSUME NEW s \in Streams, Program(s) PROVE ConnInv'
  <2>1. ConnQuiet
    <3> USE DEF ConnQuiet, ConnInv, ConnLocal, Unconnected, TypeOK, SockType, ReadType, sockVars,
                readVars, linkVars
    <3>1. CASE Open(s)
      BY <3>1 DEF Open
    <3>2. CASE OpenRefused(s)
      BY <3>2 DEF OpenRefused
    <3>3. CASE CallNext(s)
      BY <3>3 DEF CallNext
    <3>4. CASE CancelCtx(s)
      BY <3>4 DEF CancelCtx
    <3>5. CASE CallClose(s)
      BY <3>5 DEF CallClose
    <3>6. CASE WriteBegins(s)
      BY <3>6 DEF WriteBegins
    <3>7. CASE WriteEnds(s)
      BY <3>7 DEF WriteEnds
    <3>8. QED
      BY <1>1, <3>1, <3>2, <3>3, <3>4, <3>5, <3>6, <3>7 DEF Program
  <2>2. QED
    BY <2>1, QuietKeepsConn
<1>2. ASSUME NEW s \in Streams, Reader(s) PROVE ConnInv'
  <2>1. ConnLocal(s)
    BY DEF ConnInv
  <2>2. CASE HelloOK(s)
    <3>1. conn[s] = NoConn /\ ~closed[s] /\ \A g \in Gens : cause[s][g] # "live"
      BY <2>1, <2>2, ConnAssumption DEF HelloOK, ConnLocal, Unconnected
    <3>2. ConnLocal(s)'
      BY <2>1, <2>2, <3>1
         DEF HelloOK, Return, ConnLocal, Unconnected, TypeOK, SockType, ReadType, LinkType
    <3>3. ASSUME NEW r \in Streams \ {s} PROVE ConnLocal(r)'
      <4>1. ConnLocal(r)
        BY DEF ConnInv
      <4>2. QED
        BY <2>2, <4>1
           DEF HelloOK, Return, ConnLocal, TypeOK, SockType, ReadType, LinkType
    <3>4. QED
      BY <3>2, <3>3 DEF ConnInv
  <2>3. CASE ForgetConn(s)
    <3>1. /\ conn' = [conn EXCEPT ![s] = NoConn]
          /\ rpc' = [rpc EXCEPT ![s] = "drop"]
          /\ UNCHANGED <<mu, closed>>
          /\ EndAlive(s)
      BY <2>3 DEF ForgetConn
    <3>2. ASSUME NEW r \in Streams PROVE ConnLocal(r)'
      <4>1. ConnLocal(r)
        BY DEF ConnInv
      <4>2. QED
        BY <3>1, <4>1, EndAliveEndsAll DEF ConnLocal, TypeOK, SockType, ReadType
    <3>3. QED
      BY <3>2 DEF ConnInv
  <2>4. CASE ~HelloOK(s) /\ ~ForgetConn(s)
    <3>1. ConnQuiet
      <4> USE DEF ConnQuiet, ConnInv, ConnLocal, Unconnected, Return, AttemptFails, TypeOK,
                  SockType, ReadType, sockVars, linkVars
      <4>1. CASE Look(s)
        BY <4>1 DEF Look
      <4>2. CASE WaitEnds(s)
        BY <4>2 DEF WaitEnds
      <4>3. CASE DialOK(s)
        BY <4>3 DEF DialOK
      <4>4. CASE DialFails(s)
        BY <4>4 DEF DialFails
      <4>5. CASE ConnectLock(s)
        BY <4>5 DEF ConnectLock
      <4>6. CASE HelloFails(s)
        BY <4>6 DEF HelloFails
      <4>7. CASE ReadFrame(s)
        BY <4>7 DEF ReadFrame
      <4>8. CASE ReadRefusal(s)
        BY <4>8 DEF ReadRefusal
      <4>9. CASE RefusalReturns(s)
        BY <4>9 DEF RefusalReturns
      <4>10. CASE ReadFails(s)
        BY <4>10 DEF ReadFails
      <4>11. CASE DropConn(s)
        BY <4>11 DEF DropConn
      <4>12. QED
        BY <1>2, <2>4, <4>1, <4>2, <4>3, <4>4, <4>5, <4>6, <4>7, <4>8, <4>9, <4>10, <4>11
           DEF Reader
    <3>2. QED
      BY <3>1, QuietKeepsConn
  <2>5. QED
    BY <2>2, <2>3, <2>4
<1>3. ASSUME NEW s \in Streams, NEW t \in Closers, Closer(s, t) PROVE ConnInv'
  <2>1. CASE CloseLock(s, t) /\ ~closed[s]
    <3>1. /\ conn' = [conn EXCEPT ![s] = NoConn]
          /\ closed' = [closed EXCEPT ![s] = TRUE]
          /\ mu[s] = "free"
          /\ UNCHANGED <<mu, rpc>>
          /\ EndAlive(s)
      BY <2>1 DEF CloseLock, readVars
    <3>2. ASSUME NEW r \in Streams PROVE ConnLocal(r)'
      <4>1. ConnLocal(r)
        BY DEF ConnInv
      <4>2. QED
        BY <3>1, <4>1, EndAliveEndsAll DEF ConnLocal, TypeOK, SockType
    <3>3. QED
      BY <3>2 DEF ConnInv
  <2>2. CASE ~(CloseLock(s, t) /\ ~closed[s])
    <3>1. UNCHANGED <<mu, conn, closed, alive, rpc, cause>>
      BY <1>3, <2>2
         DEF Closer, CloseLock, CloseRelease, CloseDrop, sockVars, readVars, linkVars
    <3>2. ConnQuiet
      BY <3>1 DEF ConnQuiet, ConnInv, ConnLocal
    <3>3. QED
      BY <3>2, QuietKeepsConn
  <2>3. QED
    BY <2>1, <2>2
<1>4. ASSUME NEW s \in Streams, NEW g \in Gens, KeepaliveOf(s, g) \/ Network(s, g)
      PROVE  ConnInv'
  <2>1. UNCHANGED <<sockVars, readVars>>
    BY <1>4 DEF KeepaliveOf, KeepaliveTick, KeepaliveQuit, PingAnswered, PingFails, PingTimesOut,
                KeepaliveStop, KeepaliveKill, Network, GoSilent, Break
  <2>2. \/ UNCHANGED cause
        \/ cause' = [cause EXCEPT ![s][g] = IF @ = "live" THEN "stale" ELSE @]
    BY <1>4 DEF KeepaliveOf, KeepaliveTick, KeepaliveQuit, PingAnswered, PingFails, PingTimesOut,
                KeepaliveStop, KeepaliveKill, Network, GoSilent, Break
  <2>3. \A r \in Streams : \A h \in Gens : cause'[r][h] = "live" => cause[r][h] = "live"
    BY <2>2, SMTT(30) DEF TypeOK, LinkType
  <2>4. ConnQuiet
    BY <2>1, <2>3 DEF ConnQuiet, ConnInv, ConnLocal, sockVars, readVars
  <2>5. QED
    BY <2>4, QuietKeepsConn
<1>5. CASE UNCHANGED vars
  <2>1. ConnQuiet
    BY <1>5 DEF vars, ConnQuiet, ConnInv, ConnLocal, sockVars, readVars, linkVars
  <2>2. QED
    BY <2>1, QuietKeepsConn
<1>6. QED
  BY <1>1, <1>2, <1>3, <1>4, <1>5 DEF Next

\* alive ends with the current conn, whichever of the reader and Close drops it:
\* only the connection in use has a live keepalive, s.alive is its context, and
\* a closed stream has neither.
THEOREM KeepaliveFollows == Spec => []KeepaliveFollowsConn
<1>1. ConnInv => KeepaliveFollowsConn
  BY DEF ConnInv, ConnLocal, KeepaliveFollowsConn
<1>2. QED
  BY InitTypeOK, StepTypeOK, InitConnInv, StepConnInv, <1>1, PTL DEF Spec

-----------------------------------------------------------------------------
(* NoLeakedConnection and OneConnection.  What they need beside ConnInv:   *)
(* the connection the reader reads is the stream's unless that was         *)
(* forgotten, and a Close that took a connection away found the reader     *)
(* between connections or on that very one, and stops it from dialling.    *)

Held(s, g) ==
    \/ conn[s] = g
    \/ rconn[s] = g /\ rpc[s] \in {"lock", "hello", "failed", "drop"}
    \/ \E t \in Closers : cconn[s][t] = g /\ Closing(s, t)

LinkLocal(s) ==
    /\ \A g \in Gens : OpenLink(s, g) => Held(s, g)
    /\ rpc[s] \in {"read", "failed"} => conn[s] \in {NoConn, rconn[s]}
    /\ \A t \in Closers :
          Closing(s, t) /\ cconn[s][t] # NoConn =>
              /\ closed[s]
              /\ rpc[s] \in {"app", "next", "read", "failed", "drop", "refused"}
              /\ rpc[s] \in {"read", "failed", "drop"} => rconn[s] = cconn[s][t]

LinkInv == \A s \in Streams : LinkLocal(s)

\* A step of stream s leaves every other stream as it was.
Elsewhere(s) ==
    \A r \in Streams \ {s} :
        /\ conn'[r] = conn[r] /\ closed'[r] = closed[r]
        /\ rpc'[r] = rpc[r] /\ rconn'[r] = rconn[r]
        /\ cpc'[r] = cpc[r] /\ cconn'[r] = cconn[r] /\ link'[r] = link[r]

\* So the invariant need only be shown of the stream that moved.
LEMMA ElsewhereKeepsLinks ==
    ASSUME LinkInv, NEW s \in Streams, Elsewhere(s), LinkLocal(s)'
    PROVE  LinkInv'
<1> SUFFICES ASSUME NEW r \in Streams \ {s} PROVE LinkLocal(r)'
    BY DEF LinkInv
<1>1. LinkLocal(r)
  BY DEF LinkInv
<1>2. QED
  BY <1>1 DEF Elsewhere, LinkLocal, Held, OpenLink, Closing

\* CloseNow closes the connection it is given and opens none.
LEMMA CloseNowCloses ==
    ASSUME TypeOK, NEW s \in Streams, NEW g, CloseNow(s, g)
    PROVE  /\ \A h \in Gens : OpenLink(s, h)' => OpenLink(s, h) /\ h # g
           /\ \A r \in Streams \ {s} : link'[r] = link[r]
BY DEF TypeOK, LinkType, CloseNow, OpenLink

\* At first no connection is open.
LEMMA InitLinkInv == Init => LinkInv
BY DEF Init, LinkInv, LinkLocal, OpenLink, Closing

\* Every step keeps the invariant, one case per action that opens, closes or hands
\* over a connection.
LEMMA StepLinkInv == TypeOK /\ SlotInv /\ ConnInv /\ LinkInv /\ [Next]_vars => LinkInv'
<1> SUFFICES ASSUME TypeOK, SlotInv, ConnInv, LinkInv, [Next]_vars PROVE LinkInv'
    OBVIOUS
<1>1. ASSUME NEW s \in Streams, Program(s) PROVE LinkInv'
  <2>1. LinkLocal(s) /\ ConnLocal(s)
    BY DEF LinkInv, ConnInv
  <2>2. Elsewhere(s)
    BY <1>1 DEF Program, Open, OpenRefused, CallNext, CancelCtx, CallClose, WriteBegins, WriteEnds,
                CloseNow, Elsewhere, TypeOK, SockType, ReadType, CloseType, LinkType, sockVars,
                readVars, closeVars, linkVars
  <2>3. LinkLocal(s)'
    <3> USE <2>1 DEF LinkLocal, Held, OpenLink, Closing, TypeOK, ReadType, sockVars, readVars,
                     closeVars, linkVars
    <3>1. CASE Open(s)
      BY <3>1 DEF Open
    <3>2. CASE OpenRefused(s) \/ CancelCtx(s) \/ WriteBegins(s)
      BY <3>2 DEF OpenRefused, CancelCtx, WriteBegins
    <3>3. CASE CallNext(s)
      BY <3>3 DEF CallNext
    <3>4. CASE CallClose(s)
      BY <3>4 DEF CallClose, CloseType
    <3>5. CASE WriteEnds(s)
      <4>1. \A g \in Gens : OpenLink(s, g)' => OpenLink(s, g)
        BY <3>5, CloseNowCloses DEF WriteEnds
      <4>2. UNCHANGED <<conn, closed, rpc, rconn, cpc, cconn>>
        BY <3>5 DEF WriteEnds
      <4>3. QED
        BY <4>1, <4>2
    <3>6. QED
      BY <1>1, <3>1, <3>2, <3>3, <3>4, <3>5 DEF Program
  <2>4. QED
    BY <2>2, <2>3, ElsewhereKeepsLinks
<1>2. ASSUME NEW s \in Streams, Reader(s) PROVE LinkInv'
  <2>1. LinkLocal(s) /\ ConnLocal(s)
    BY DEF LinkInv, ConnInv
  <2>2. Elsewhere(s)
    <3> USE DEF Elsewhere, CloseNow, Return, AttemptFails, TypeOK, SockType, ReadType, CloseType,
                LinkType, sockVars, closeVars, linkVars
    <3>1. CASE Look(s) \/ WaitEnds(s) \/ RefusalReturns(s) \/ ReadFrame(s) \/ DialFails(s)
      BY <3>1 DEF Look, WaitEnds, RefusalReturns, ReadFrame, DialFails
    <3>2. CASE DialOK(s) \/ ConnectLock(s) \/ HelloOK(s) \/ HelloFails(s)
      BY <3>2 DEF DialOK, ConnectLock, HelloOK, HelloFails
    <3>3. CASE ReadRefusal(s)
      BY <3>3 DEF ReadRefusal
    <3>4. CASE ReadFails(s) \/ ForgetConn(s)
      BY <3>4 DEF ReadFails, ForgetConn
    <3>5. CASE DropConn(s)
      BY <3>5 DEF DropConn
    <3>6. QED
      BY <1>2, <3>1, <3>2, <3>3, <3>4, <3>5 DEF Reader
  <2>3. LinkLocal(s)'
    <3> USE <2>1, ConnAssumption
        DEF LinkLocal, ConnLocal, Unconnected, Held, OpenLink, Closing, Return, AttemptFails,
            TypeOK, SockType, ReadType, sockVars, closeVars, linkVars
    <3>1. CASE Look(s)
      BY <3>1 DEF Look
    <3>2. CASE WaitEnds(s)
      BY <3>2 DEF WaitEnds
    <3>3. CASE DialOK(s)
      BY <3>3 DEF DialOK, Free, LinkType
    <3>4. CASE DialFails(s)
      BY <3>4 DEF DialFails
    <3>5. CASE ConnectLock(s)
      <4>1. CASE closed[s]
        <5>1. \A g \in Gens : OpenLink(s, g)' => OpenLink(s, g) /\ g # rconn[s]
          BY <3>5, <4>1, CloseNowCloses DEF ConnectLock
        <5>2. /\ rpc[s] = "lock" /\ rpc' = [rpc EXCEPT ![s] = "app"]
              /\ UNCHANGED <<conn, closed, cpc, cconn>>
          BY <3>5, <4>1 DEF ConnectLock
        <5>3. QED
          BY <5>1, <5>2
      <4>2. CASE ~closed[s]
        BY <3>5, <4>2 DEF ConnectLock
      <4>3. QED
        BY <4>1, <4>2
    <3>6. CASE HelloOK(s)
      BY <3>6 DEF HelloOK
    <3>7. CASE HelloFails(s)
      <4>1. \A g \in Gens : OpenLink(s, g)' => OpenLink(s, g) /\ g # rconn[s]
        BY <3>7, CloseNowCloses DEF HelloFails
      <4>2. /\ rpc[s] = "hello" /\ rpc'[s] \in {"new", "app"}
            /\ UNCHANGED <<conn, closed, cpc, cconn>>
        BY <3>7 DEF HelloFails
      <4>3. QED
        BY <4>1, <4>2
    <3>8. CASE ReadFrame(s)
      BY <3>8 DEF ReadFrame
    <3>9. CASE ReadRefusal(s)
      <4>1. /\ \A u \in Closers : u # "reader" => cpc'[s][u] = cpc[s][u]
            /\ cpc'[s]["reader"] = "lock" /\ rpc[s] = "read" /\ rpc'[s] = "refused"
            /\ UNCHANGED <<conn, closed, cconn, link>>
        BY <3>9 DEF ReadRefusal, CloseType, Closers
      <4>2. cpc[s]["reader"] = "idle"
        BY <4>1 DEF SlotInv, SlotLocal
      <4>3. QED
        BY <4>1, <4>2
    <3>10. CASE RefusalReturns(s)
      BY <3>10 DEF RefusalReturns
    <3>11. CASE ReadFails(s)
      <4>1. \A g \in Gens : OpenLink(s, g)' => OpenLink(s, g)
        BY <3>11, CloseNowCloses DEF ReadFails
      <4>2. /\ rpc[s] = "read" /\ rpc' = [rpc EXCEPT ![s] = "failed"]
            /\ UNCHANGED <<conn, closed, rconn, cpc, cconn>>
        BY <3>11 DEF ReadFails
      <4>3. QED
        BY <4>1, <4>2
    <3>12. CASE ForgetConn(s)
      <4>1. /\ rpc[s] = "failed" /\ rpc' = [rpc EXCEPT ![s] = "drop"]
            /\ conn' = [conn EXCEPT ![s] = NoConn]
            /\ UNCHANGED <<closed, rconn, cpc, cconn, link>>
        BY <3>12 DEF ForgetConn
      <4>2. QED
        BY <4>1
    <3>13. CASE DropConn(s)
      <4>1. \A g \in Gens : OpenLink(s, g)' => OpenLink(s, g) /\ g # rconn[s]
        BY <3>13, CloseNowCloses DEF DropConn
      <4>2. /\ rpc[s] = "drop" /\ rpc'[s] = "app"
            /\ UNCHANGED <<conn, closed, cpc, cconn>>
        BY <3>13 DEF DropConn
      <4>3. QED
        BY <4>1, <4>2
    <3>14. QED
      BY <1>2, <3>1, <3>2, <3>3, <3>4, <3>5, <3>6, <3>7, <3>8, <3>9, <3>10, <3>11, <3>12, <3>13
         DEF Reader
  <2>4. QED
    BY <2>2, <2>3, ElsewhereKeepsLinks
<1>3. ASSUME NEW s \in Streams, NEW t \in Closers, Closer(s, t) PROVE LinkInv'
  <2>1. LinkLocal(s) /\ ConnLocal(s)
    BY DEF LinkInv, ConnInv
  <2>2. Elsewhere(s)
    BY <1>3 DEF Closer, CloseLock, CloseRelease, CloseDrop, CloseNow, Elsewhere, TypeOK, SockType,
                CloseType, LinkType, sockVars, readVars, linkVars
  <2>3. LinkLocal(s)'
    <3> USE <2>1, ConnAssumption
        DEF LinkLocal, ConnLocal, Unconnected, Held, OpenLink, Closing, TypeOK, SockType, ReadType,
            CloseType, ReaderAt, sockVars, readVars, linkVars
    <3>1. CASE CloseLock(s, t)
      <4>1. CASE closed[s]
        <5>1. /\ \A u \in Closers : Closing(s, u)' => Closing(s, u)
              /\ \A u \in Closers : Closing(s, u) => Closing(s, u)'
              /\ UNCHANGED <<conn, closed, rpc, rconn, cconn, link>>
          BY <3>1, <4>1 DEF CloseLock
        <5>2. QED
          BY <2>1, <5>1 DEF LinkLocal, Held, OpenLink
      <4>2. CASE ~closed[s]
        <5>1. /\ \A u \in Closers : u # t => cpc'[s][u] = cpc[s][u] /\ cconn'[s][u] = cconn[s][u]
              /\ Closing(s, t)' /\ cconn'[s][t] = conn[s] /\ cpc[s][t] = "lock"
              /\ conn'[s] = NoConn /\ closed'[s]
              /\ UNCHANGED <<rpc, rconn, link>>
          BY <3>1, <4>2 DEF CloseLock
        <5>2. \A u \in Closers : u # t /\ Closing(s, u)' => cconn'[s][u] = NoConn
          BY <4>2, <5>1
        <5>3. \A g \in Gens : OpenLink(s, g)' => Held(s, g)'
          BY <5>1, <4>2
        <5>4. conn[s] # NoConn => rpc[s] \in {"app", "next", "read", "failed", "refused"}
          OBVIOUS
        <5>5. QED
          BY <5>1, <5>2, <5>3, <5>4 DEF LinkLocal
      <4>3. QED
        BY <4>1, <4>2
    <3>2. CASE CloseRelease(s, t)
      BY <3>2 DEF CloseRelease
    <3>3. CASE CloseDrop(s, t)
      <4>1. \A g \in Gens : OpenLink(s, g)' => OpenLink(s, g) /\ g # cconn[s][t]
        BY <3>3, CloseNowCloses DEF CloseDrop
      <4>2. /\ cpc' = [cpc EXCEPT ![s][t] = "idle"]
            /\ cconn' = [cconn EXCEPT ![s][t] = NoConn]
            /\ UNCHANGED <<conn, closed, rpc, rconn>>
        BY <3>3 DEF CloseDrop
      <4>3. QED
        BY <4>1, <4>2, SMTT(30)
    <3>4. QED
      BY <1>3, <3>1, <3>2, <3>3 DEF Closer
  <2>4. QED
    BY <2>2, <2>3, ElsewhereKeepsLinks
<1>4. ASSUME NEW s \in Streams, NEW g \in Gens, KeepaliveOf(s, g) \/ Network(s, g)
      PROVE  LinkInv'
  <2>1. LinkLocal(s)
    BY DEF LinkInv
  <2>2. UNCHANGED <<sockVars, readVars, closeVars>>
    BY <1>4 DEF KeepaliveOf, KeepaliveTick, KeepaliveQuit, PingAnswered, PingFails, PingTimesOut,
                KeepaliveStop, KeepaliveKill, Network, GoSilent, Break
  <2>3. \/ UNCHANGED link
        \/ link' = [link EXCEPT ![s][g] = "killed"]
        \/ OpenLink(s, g) /\ link' = [link EXCEPT ![s][g] = "silent"]
        \/ OpenLink(s, g) /\ link' = [link EXCEPT ![s][g] = "broken"]
    BY <1>4 DEF KeepaliveOf, KeepaliveTick, KeepaliveQuit, PingAnswered, PingFails, PingBreaks, PingTimesOut,
                KeepaliveStop, KeepaliveKill, Network, GoSilent, Break, OpenLink
  <2>4. \A h \in Gens : OpenLink(s, h)' => OpenLink(s, h)
    BY <2>3 DEF OpenLink, TypeOK, LinkType
  <2>5. Elsewhere(s)
    BY <2>2, <2>3 DEF Elsewhere, sockVars, readVars, closeVars, TypeOK, LinkType
  <2>6. LinkLocal(s)'
    BY <2>1, <2>2, <2>4 DEF LinkLocal, Held, Closing, sockVars, readVars, closeVars
  <2>7. QED
    BY <2>5, <2>6, ElsewhereKeepsLinks
<1>5. CASE UNCHANGED vars
  BY <1>5 DEF vars, LinkInv, LinkLocal, Held, OpenLink, Closing, sockVars, readVars, closeVars,
              linkVars
<1>6. QED
  BY <1>1, <1>2, <1>3, <1>4, <1>5 DEF Next

\* The invariants of all the proofs so far, together.
LEMMA ConnectionInvariants == Spec => [](TypeOK /\ SlotInv /\ ConnInv /\ LinkInv)
BY InitTypeOK, StepTypeOK, InitSlotInv, StepSlotInv, InitConnInv, StepConnInv, InitLinkInv,
   StepLinkInv, PTL DEF Spec

\* No connection is left open that nobody will close, whether the dial was
\* overtaken by Close, the hello failed, or Close and a failing read met.
THEOREM NoConnectionLeaks == Spec => []NoLeakedConnection
<1>1. LinkInv => NoLeakedConnection
  BY DEF LinkInv, LinkLocal, Held, NoLeakedConnection
<1>2. QED
  BY ConnectionInvariants, <1>1, PTL

\* A stream never has two connections open: any two are held in one way each, and
\* the ways that can hold at once hold the same connection.
THEOREM AtMostOneConnection == Spec => []OneConnection
<1>1. SlotInv /\ ConnInv /\ LinkInv => OneConnection
  <2> SUFFICES ASSUME SlotInv, ConnInv, LinkInv, NEW s \in Streams, NEW g \in Gens, NEW h \in Gens,
                      OpenLink(s, g), OpenLink(s, h)
               PROVE  g = h
      BY DEF OneConnection
  <2>1. SlotLocal(s) /\ ConnLocal(s) /\ LinkLocal(s) /\ Held(s, g) /\ Held(s, h)
    BY DEF SlotInv, ConnInv, LinkInv, LinkLocal
  <2>2. \A t, u \in Closers : Closing(s, t) /\ Closing(s, u) => t = u
    BY <2>1 DEF SlotLocal
  <2>3. QED
    BY <2>1, <2>2, ConnAssumption DEF Held, ConnLocal, LinkLocal, Unconnected
<1>2. QED
  BY ConnectionInvariants, <1>1, PTL

\* A stream with an open connection holds a token, or its Close or its interrupted dial has yet to
\* close it.
LEMMA OpenIsAccounted ==
    ASSUME SlotInv, ConnInv, LinkInv, NEW s \in Streams, NEW g \in Gens, OpenLink(s, g)
    PROVE  s \in Holders \/ Winding(s)
<1>1. SlotLocal(s) /\ ConnLocal(s) /\ LinkLocal(s) /\ Held(s, g)
  BY DEF SlotInv, ConnInv, LinkInv, LinkLocal
<1>2. CASE conn[s] = g
  BY <1>1, <1>2, ConnAssumption DEF ConnLocal, Unconnected, Holders
<1>3. CASE rconn[s] = g /\ rpc[s] \in {"lock", "hello", "failed", "drop"}
  BY <1>1, <1>3 DEF ConnLocal, Holders, Winding
<1>4. CASE \E t \in Closers : cconn[s][t] = g /\ Closing(s, t)
  <2>1. PICK t \in Closers : cconn[s][t] = g /\ Closing(s, t)
    BY <1>4
  <2>2. closed[s] /\ rpc[s] # "new" /\ g # NoConn
    BY <1>1, <2>1, ConnAssumption DEF SlotLocal, Closing
  <2>3. QED
    BY <2>1, <2>2 DEF Closing, Holders, Winding
<1>5. QED
  BY <1>1, <1>2, <1>3, <1>4 DEF Held

\* A process holds no more connections than tokens taken and streams that are being wound up.
THEOREM ConnectionsBounded == Spec => []ConnectionsAccounted
<1>1. SlotInv /\ ConnInv /\ LinkInv /\ OneConnection => ConnectionsAccounted
  <2> SUFFICES ASSUME SlotInv, ConnInv, LinkInv, OneConnection PROVE ConnectionsAccounted
      OBVIOUS
  <2> DEFINE P == {p \in Streams \X Gens : OpenLink(p[1], p[2])}
             W == {s \in Streams \ Holders : Winding(s)}
             f == [p \in P |-> p[1]]
  <2>1. Holders \in SUBSET Streams /\ W \in SUBSET Streams /\ Holders \cap W = {}
    BY DEF Holders
  <2>2. IsFiniteSet(Holders) /\ IsFiniteSet(W)
    BY <2>1, StreamAssumption, FS_Subset
  <2>3. IsFiniteSet(Holders \cup W) /\ Cardinality(Holders \cup W) = Cardinality(Holders) + Cardinality(W)
    <3>1. Cardinality(Holders) \in Nat /\ Cardinality(W) \in Nat
      BY <2>2, FS_CardinalityType
    <3>2. /\ IsFiniteSet(Holders \cup W)
          /\ Cardinality(Holders \cup W)
                = Cardinality(Holders) + Cardinality(W) - Cardinality(Holders \cap W)
      BY <2>2, FS_Union
    <3>3. Cardinality(Holders \cap W) = 0
      BY <2>1, FS_EmptySet
    <3> HIDE DEF W
    <3>4. QED
      BY <3>1, <3>2, <3>3
  <2>4. \A p \in P : p[1] \in Holders \cup W
    BY OpenIsAccounted
  <2>5. f \in Injection(P, Holders \cup W)
    <3>1. \A p, q \in P : p[1] = q[1] => p = q
      BY DEF OneConnection
    <3>2. f \in [P -> Holders \cup W]
      BY <2>4
    <3>3. \A p, q \in P : f[p] = f[q] => p = q
      BY <3>1
    <3>4. QED
      BY <3>2, <3>3 DEF Injection, IsInjective
  <2>6. Cardinality(P) <= Cardinality(Holders \cup W)
    <3> HIDE DEF P, W, f
    <3> QED
      BY <2>3, <2>5, FS_Injection
  <2>7. connSlots = Cardinality(Holders)
    BY DEF SlotInv, SlotPerStream
  <2> HIDE DEF f
  <2>8. QED
    BY <2>3, <2>6, <2>7 DEF ConnectionsAccounted
<1>2. QED
  BY ConnectionInvariants, AtMostOneConnection, <1>1, PTL
-----------------------------------------------------------------------------
(* StaleIsReported.  A connection in use was killed by its own keepalive    *)
(* only, which had ended its context first; nobody else can have ended it,  *)
(* since EndAlive and forgetting the connection are one critical section.   *)

StaleLocal(s) ==
    /\ s \notin Pinged => \A g \in Gens : ka[s][g] = "off"
    /\ rpc[s] \in {"lock", "hello"} =>
           rconn[s] \in Gens /\ ka[s][rconn[s]] = "off" /\ link[s][rconn[s]] # "killed"
    /\ rpc[s] \in {"read", "failed"} /\ ~closed[s] => conn[s] = rconn[s] /\ conn[s] # NoConn
    /\ conn[s] # NoConn =>
           /\ s \in Pinged => cause[s][conn[s]] # "canceled"
           /\ link[s][conn[s]] = "killed" \/ ka[s][conn[s]] = "kill" =>
                  s \in Pinged /\ cause[s][conn[s]] = "stale"

StaleInv == \A s \in Streams : StaleLocal(s)

\* A step of stream s leaves every other stream's part of it alone.
LEMMA ElsewhereKeepsStale ==
    ASSUME StaleInv, NEW s \in Streams, Elsewhere(s), StaleLocal(s)',
           \A r \in Streams \ {s} : ka'[r] = ka[r] /\ cause'[r] = cause[r]
    PROVE  StaleInv'
<1> SUFFICES ASSUME NEW r \in Streams \ {s} PROVE StaleLocal(r)'
    BY DEF StaleInv
<1>1. StaleLocal(r)
  BY DEF StaleInv
<1>2. QED
  BY <1>1 DEF Elsewhere, StaleLocal

\* CloseNow kills nothing.
LEMMA CloseNowKillsNone ==
    ASSUME TypeOK, NEW s \in Streams, NEW g, CloseNow(s, g)
    PROVE  \A h \in Gens : link'[s][h] = "killed" => link[s][h] = "killed"
BY DEF TypeOK, LinkType, CloseNow

\* At first no keepalive runs.
LEMMA InitStaleInv == Init => StaleInv
BY DEF Init, StaleInv, StaleLocal

\* Every step keeps it: a keepalive ends its context before it kills, and HelloOK installs a connection
\* that no keepalive has had.
LEMMA StepStaleInv == TypeOK /\ ConnInv /\ StaleInv /\ [Next]_vars => StaleInv'
<1> SUFFICES ASSUME TypeOK, ConnInv, StaleInv, [Next]_vars PROVE StaleInv'
    OBVIOUS
<1> USE ConnAssumption
<1>1. ASSUME NEW s \in Streams, Program(s) PROVE StaleInv'
  <2>1. StaleLocal(s)
    BY DEF StaleInv
  <2>2. Elsewhere(s) /\ UNCHANGED <<ka, cause>>
    BY <1>1 DEF Program, Open, OpenRefused, CallNext, CancelCtx, CallClose, WriteBegins, WriteEnds,
                CloseNow, Elsewhere, TypeOK, SockType, ReadType, CloseType, LinkType, sockVars,
                readVars, closeVars, linkVars
  <2>3. UNCHANGED <<conn, closed, rconn>> /\ (rpc'[s] = rpc[s] \/ rpc'[s] \in {"dial", "next"})
    BY <1>1 DEF Program, Open, OpenRefused, CallNext, CancelCtx, CallClose, WriteBegins, WriteEnds,
                TypeOK, ReadType, sockVars, readVars
  <2>4. \A h \in Gens : link'[s][h] = "killed" => link[s][h] = "killed"
    BY <1>1, CloseNowKillsNone
       DEF Program, Open, OpenRefused, CallNext, CancelCtx, CallClose, WriteBegins, WriteEnds, linkVars
  <2>5. conn[s] \in Gens \cup {NoConn}
    BY DEF TypeOK, SockType
  <2>6. StaleLocal(s)'
    BY <2>1, <2>2, <2>3, <2>4, <2>5 DEF StaleLocal
  <2>7. QED
    BY <2>2, <2>6, ElsewhereKeepsStale
<1>2. ASSUME NEW s \in Streams, Reader(s) PROVE StaleInv'
  <2>1. StaleLocal(s) /\ ConnLocal(s) /\ conn[s] \in Gens \cup {NoConn} /\ rconn[s] \in Gens \cup {NoConn}
    BY DEF StaleInv, ConnInv, TypeOK, SockType, ReadType
  <2>2. Elsewhere(s) /\ \A r \in Streams \ {s} : ka'[r] = ka[r] /\ cause'[r] = cause[r]
    <3> USE DEF Elsewhere, CloseNow, Return, AttemptFails, TypeOK, SockType, ReadType, CloseType,
                LinkType, sockVars, closeVars, linkVars
    <3>1. CASE Look(s) \/ WaitEnds(s) \/ RefusalReturns(s) \/ ReadFrame(s) \/ DialFails(s)
      BY <3>1 DEF Look, WaitEnds, RefusalReturns, ReadFrame, DialFails
    <3>2. CASE DialOK(s) \/ ConnectLock(s) \/ HelloOK(s) \/ HelloFails(s)
      BY <3>2 DEF DialOK, ConnectLock, HelloOK, HelloFails
    <3>3. CASE ReadRefusal(s)
      BY <3>3 DEF ReadRefusal
    <3>4. CASE ReadFails(s) \/ ForgetConn(s)
      BY <3>4 DEF ReadFails, ForgetConn, EndAlive
    <3>5. CASE DropConn(s)
      BY <3>5 DEF DropConn
    <3>6. QED
      BY <1>2, <3>1, <3>2, <3>3, <3>4, <3>5 DEF Reader
  <2>3. StaleLocal(s)'
    <3>1. CASE DialOK(s)
      BY <2>1, <3>1 DEF DialOK, Free, StaleLocal, sockVars, TypeOK, ReadType, LinkType
    <3>2. CASE HelloOK(s)
      <4>1. /\ rpc[s] = "hello" /\ rpc'[s] = "app" /\ conn'[s] = rconn[s] /\ link' = link
            /\ s \in Pinged => cause'[s][rconn[s]] = "live" /\ ka'[s][rconn[s]] = "tick"
            /\ s \notin Pinged => UNCHANGED <<cause, ka>>
        BY <2>1, <3>2 DEF HelloOK, Return, StaleLocal, TypeOK, SockType, ReadType, LinkType
      <4>2. QED
        BY <2>1, <4>1 DEF StaleLocal
    <3>3. CASE ForgetConn(s)
      <4>1. rpc'[s] = "drop" /\ conn'[s] = NoConn /\ UNCHANGED <<ka, link>>
        BY <3>3 DEF ForgetConn, TypeOK, SockType, ReadType
      <4>2. QED
        BY <2>1, <4>1 DEF StaleLocal
    <3>4. CASE Look(s)
      BY <2>1, <3>4 DEF Look, Return, StaleLocal, sockVars, linkVars, TypeOK, ReadType
    <3>5. CASE ConnectLock(s) \/ HelloFails(s) \/ ReadFails(s) \/ DropConn(s)
      <4>1. UNCHANGED <<conn, closed, ka, cause>>
        BY <3>5 DEF ConnectLock, HelloFails, ReadFails, DropConn, sockVars
      <4>2. \A h \in Gens : link'[s][h] = "killed" => link[s][h] = "killed"
        BY <3>5, CloseNowKillsNone DEF ConnectLock, HelloFails, ReadFails, DropConn
      <4>3. \/ rpc'[s] \in {"app", "new"}
            \/ rpc[s] = "lock" /\ rpc'[s] = "hello" /\ rconn' = rconn
            \/ rpc[s] = "read" /\ rpc'[s] = "failed" /\ rconn' = rconn
        BY <3>5 DEF ConnectLock, HelloFails, ReadFails, DropConn, Return, AttemptFails, TypeOK, ReadType
      <4>4. QED
        BY <2>1, <4>1, <4>2, <4>3 DEF StaleLocal
    <3>6. CASE WaitEnds(s) \/ DialFails(s) \/ ReadFrame(s) \/ ReadRefusal(s) \/ RefusalReturns(s)
      <4>1. UNCHANGED <<conn, closed, ka, cause, link>>
        BY <3>6 DEF WaitEnds, DialFails, ReadFrame, ReadRefusal, RefusalReturns, sockVars, linkVars
      <4>2. rpc'[s] \in {"app", "new", "dial", "refused"}
        BY <3>6 DEF WaitEnds, DialFails, ReadFrame, ReadRefusal, RefusalReturns, Return, AttemptFails,
                       TypeOK, ReadType
      <4>3. QED
        BY <2>1, <4>1, <4>2 DEF StaleLocal
    <3>7. QED
      BY <1>2, <3>1, <3>2, <3>3, <3>4, <3>5, <3>6 DEF Reader
  <2>4. QED
    BY <2>2, <2>3, ElsewhereKeepsStale
<1>3. ASSUME NEW s \in Streams, NEW t \in Closers, Closer(s, t) PROVE StaleInv'
  <2>1. StaleLocal(s) /\ conn[s] \in Gens \cup {NoConn}
    BY DEF StaleInv, TypeOK, SockType
  <2>2. Elsewhere(s) /\ \A r \in Streams \ {s} : ka'[r] = ka[r] /\ cause'[r] = cause[r]
    BY <1>3 DEF Closer, CloseLock, CloseRelease, CloseDrop, CloseNow, EndAlive, Elsewhere, TypeOK, SockType,
                CloseType, LinkType, sockVars, readVars, linkVars
  <2>3. /\ UNCHANGED <<rpc, rconn, ka>>
        /\ \A h \in Gens : link'[s][h] = "killed" => link[s][h] = "killed"
    BY <1>3, CloseNowKillsNone DEF Closer, CloseLock, CloseRelease, CloseDrop, readVars, linkVars
  <2>4. \/ UNCHANGED <<conn, closed, cause>>
        \/ conn'[s] = NoConn /\ closed'[s]
    BY <1>3 DEF Closer, CloseLock, CloseRelease, CloseDrop, TypeOK, SockType, sockVars, linkVars
  <2>5. StaleLocal(s)'
    BY <2>1, <2>3, <2>4 DEF StaleLocal
  <2>6. QED
    BY <2>2, <2>5, ElsewhereKeepsStale
<1>4. ASSUME NEW s \in Streams, NEW g \in Gens, KeepaliveOf(s, g) \/ Network(s, g)
      PROVE  StaleInv'
  <2>1. StaleLocal(s) /\ ConnLocal(s) /\ conn[s] \in Gens \cup {NoConn}
    BY DEF StaleInv, ConnInv, TypeOK, SockType
  <2>2. /\ UNCHANGED <<sockVars, readVars, closeVars>>
        /\ \A r \in Streams \ {s} : link'[r] = link[r] /\ ka'[r] = ka[r] /\ cause'[r] = cause[r]
    BY <1>4 DEF KeepaliveOf, KeepaliveTick, KeepaliveQuit, PingAnswered, PingFails, PingBreaks, PingTimesOut,
                KeepaliveStop, KeepaliveKill, Network, GoSilent, Break, TypeOK, LinkType
  <2>3. Elsewhere(s)
    BY <2>2 DEF Elsewhere, sockVars, readVars, closeVars
  <2>4. /\ \A h \in Gens : link'[s][h] = "killed" => link[s][h] = "killed" \/ (h = g /\ ka[s][g] = "kill")
        /\ \A h \in Gens : ka[s][h] = "off" => ka'[s][h] = "off"
        /\ \A h \in Gens :
              ka'[s][h] = "kill" => ka[s][h] = "kill" \/ (h = g /\ ka[s][g] = "stop" /\ cause'[s][g] # "live")
        /\ \A h \in Gens : cause'[s][h] = cause[s][h] \/ (cause[s][h] = "live" /\ cause'[s][h] = "stale")
    BY <1>4 DEF KeepaliveOf, KeepaliveTick, KeepaliveQuit, PingAnswered, PingFails, PingBreaks, PingTimesOut,
                KeepaliveStop, KeepaliveKill, Network, GoSilent, Break, TypeOK, LinkType
  <2>5. StaleLocal(s)'
    BY <2>1, <2>2, <2>4 DEF StaleLocal, sockVars, readVars, TypeOK, LinkType
  <2>6. QED
    BY <2>2, <2>3, <2>5, ElsewhereKeepsStale
<1>5. CASE UNCHANGED vars
  BY <1>5 DEF vars, StaleInv, StaleLocal, sockVars, readVars, linkVars
<1>6. QED
  BY <1>1, <1>2, <1>3, <1>4, <1>5 DEF Next

\* A read whose connection its keepalive closed reports ErrConnectionStale unless the stream was closed,
\* and no read reports it for another connection's ping.
THEOREM StalenessIsTold == Spec => StaleIsReported
<1> DEFINE Reported(s) == ForgetConn(s) /\ ~closed[s] =>
               /\ link[s][rconn[s]] = "killed" => verdict'[s] = "stale"
               /\ verdict'[s] = "stale" => cause[s][rconn[s]] = "stale"
<1>1. ASSUME TypeOK, ConnInv, StaleInv, NEW s \in Streams, ForgetConn(s), ~closed[s]
      PROVE  /\ link[s][rconn[s]] = "killed" => verdict'[s] = "stale"
             /\ verdict'[s] = "stale" => cause[s][rconn[s]] = "stale"
  <2>1. StaleLocal(s) /\ ConnLocal(s)
    BY <1>1 DEF StaleInv, ConnInv
  <2>2. conn[s] = rconn[s] /\ conn[s] # NoConn
    BY <1>1, <2>1 DEF StaleLocal, ForgetConn
  <2>3. link[s][rconn[s]] = "killed" => Stale(s)
    BY <2>1, <2>2 DEF StaleLocal, ConnLocal, Stale
  <2>4. Stale(s) => cause[s][rconn[s]] = "stale"
    BY <2>1, <2>2 DEF ConnLocal, Stale
  <2>5. verdict'[s] = CASE closed[s] -> "closed" [] ~closed[s] /\ Stale(s) -> "stale" [] OTHER -> "disconnected"
    BY <1>1 DEF ForgetConn, TypeOK, ReadType
  <2>6. verdict'[s] = "stale" <=> Stale(s)
    BY <1>1, <2>5
  <2>7. QED
    BY <2>3, <2>4, <2>6
<1>2. TypeOK /\ ConnInv /\ StaleInv => [\A s \in Streams : Reported(s)]_vars
  BY <1>1
<1>3. QED
  BY ConnectionInvariants, InitStaleInv, StepStaleInv, <1>2, PTL DEF Spec, StaleIsReported

-----------------------------------------------------------------------------
(* BackoffEscalates.  First what doubling n times gives.                   *)

LEMMA DoubledStep ==
    /\ Doubled[0] = MinDelay
    /\ \A n \in Nat : Doubled[n + 1] = 2 * Doubled[n] /\ Doubled[n] \in Nat
<1>1. MinDelay \in Nat /\ 2 \in Nat
  BY BoundAssumption
<1>2. \E h : h = [n \in Nat |-> IF n = 0 THEN MinDelay ELSE 2 * h[n - 1]]
  BY <1>1, GeometricExists, Zenon
<1>3. Doubled = [n \in Nat |-> IF n = 0 THEN MinDelay ELSE 2 * Doubled[n - 1]]
  BY <1>2, Zenon DEF Doubled
<1>4. QED
  BY <1>1, <1>3, GeometricSteps, ZenonT(60)

\* A doubling never falls below the least delay.
LEMMA DoubledType == \A n \in Nat : Doubled[n] \in Nat /\ MinDelay <= Doubled[n]
<1> DEFINE S == {n \in Nat : Doubled[n] \in Nat /\ MinDelay <= Doubled[n]}
<1>1. 0 \in S
  BY DoubledStep, BoundAssumption
<1>2. ASSUME NEW n \in Nat, n \in S PROVE n + 1 \in S
  BY <1>2, DoubledStep, BoundAssumption
<1> HIDE DEF S
<1>3. Nat \subseteq S
  BY <1>1, <1>2, EveryNumber
<1>4. QED
  BY <1>3 DEF S

\* What the code computes from the last delay is what the count calls for, however the count goes on:
\* from none, by one more, or at its bound, where the delay has reached the greatest.
Matches(w, d) == IF w = 0 THEN d = 0 ELSE d = Backoff(w)

LEMMA NextDelayMatches ==
    ASSUME NEW w \in 0..MaxWaits, NEW d \in Nat, Matches(w, d)
    PROVE  LET v == IF w < MaxWaits THEN w + 1 ELSE w
           IN  v \in 1..MaxWaits /\ Matches(v, NextDelay(d))
<1>1. CASE w = 0
  BY <1>1, DoubledStep, BoundAssumption DEF Matches, Backoff, NextDelay, AtMost
<1>2. CASE w # 0 /\ w < MaxWaits
  <2>1. w - 1 \in Nat /\ (w - 1) + 1 = w /\ w \in Nat
    BY <1>2, BoundAssumption
  <2>2. Doubled[w] = 2 * Doubled[w - 1] /\ Doubled[w - 1] \in Nat /\ MinDelay <= Doubled[w - 1]
    BY <2>1, DoubledStep, DoubledType
  <2>3. d = AtMost(Doubled[w - 1], MaxDelay)
    BY <1>2 DEF Matches, Backoff
  <2>4. NextDelay(d) = AtMost(Doubled[w], MaxDelay)
    BY <2>2, <2>3, BoundAssumption DEF NextDelay, AtMost
  <2>5. (w + 1) - 1 = w /\ w + 1 # 0 /\ w + 1 \in 1..MaxWaits
    BY <1>2, BoundAssumption
  <2>6. QED
    BY <1>2, <2>4, <2>5 DEF Matches, Backoff
<1>3. CASE w = MaxWaits
  <2>1. MaxWaits # 0 /\ MaxWaits - 1 \in Nat /\ MaxWaits \in 1..MaxWaits
    BY BoundAssumption
  <2>2. Doubled[MaxWaits - 1] \in Nat /\ MaxDelay <= Doubled[MaxWaits - 1]
    BY <2>1, DoubledType, WaitsAssumption
  <2>3. Backoff(MaxWaits) = MaxDelay
    BY <2>2, BoundAssumption DEF Backoff, AtMost
  <2>4. d = MaxDelay
    BY <1>3, <2>1, <2>3 DEF Matches
  <2>5. NextDelay(MaxDelay) = MaxDelay
    BY BoundAssumption DEF NextDelay, AtMost
  <2>6. QED
    BY <1>3, <2>1, <2>3, <2>4, <2>5 DEF Matches
<1>4. QED
  BY <1>1, <1>2, <1>3, BoundAssumption

\* BackoffEscalates alone is not inductive: a frame makes the count start anew, but
\* the delay only when its connection is dropped.  Until then the connection is there,
\* or the stream is closed, or the reader is about to drop it; and a reset that
\* delivered calls for goes with a count of none, which needs the reset of delivered
\* on every connect.
BackLocal(s) ==
    /\ rpc[s] \in {"new", "wait", "dial", "lock", "hello"} => Matches(waits[s], delay[s])
    /\ ~delivered[s] => Matches(waits[s], delay[s])
    /\ rpc[s] # "drop" /\ ~closed[s] /\ conn[s] = NoConn => Matches(waits[s], delay[s])
    /\ delivered[s] /\ (conn[s] # NoConn \/ rpc[s] \in {"read", "failed", "drop"}) => waits[s] = 0
    /\ rpc[s] \in {"read", "failed", "refused"} => closed[s] \/ conn[s] # NoConn
    /\ rpc[s] = "wait" => waits[s] > 0

BackInv == \A s \in Streams : BackLocal(s)

BackElsewhere(s) ==
    \A r \in Streams \ {s} :
        /\ conn'[r] = conn[r] /\ closed'[r] = closed[r] /\ rpc'[r] = rpc[r]
        /\ delay'[r] = delay[r] /\ delivered'[r] = delivered[r] /\ waits'[r] = waits[r]

\* It is enough to look at the stream that moved.
LEMMA ElsewhereKeepsBack ==
    ASSUME BackInv, NEW s \in Streams, BackElsewhere(s), BackLocal(s)'
    PROVE  BackInv'
<1> SUFFICES ASSUME NEW r \in Streams \ {s} PROVE BackLocal(r)'
    BY DEF BackInv
<1>1. BackLocal(r)
  BY DEF BackInv
<1>2. QED
  BY <1>1 DEF BackElsewhere, BackLocal

LEMMA InitBackInv == Init => BackInv
BY DEF Init, BackInv, BackLocal, Matches

\* Every step keeps the invariant: Look counts and doubles together, a read frame and
\* a refusal start the count anew, DropConn resets the delay, and the rest move the
\* reader between places where it says the same.
LEMMA StepBackInv == TypeOK /\ ConnInv /\ BackInv /\ [Next]_vars => BackInv'
<1> SUFFICES ASSUME TypeOK, ConnInv, BackInv, [Next]_vars PROVE BackInv'
    OBVIOUS
<1>1. ASSUME NEW s \in Streams, Program(s) PROVE BackInv'
  <2>1. BackLocal(s) /\ ConnLocal(s)
    BY DEF BackInv, ConnInv
  <2>2. BackElsewhere(s) /\ BackLocal(s)'
    <3> USE <2>1 DEF BackElsewhere, BackLocal, TypeOK, ReadType, sockVars, backVars, readVars
    <3>1. CASE Open(s)
      BY <3>1 DEF Open
    <3>2. CASE OpenRefused(s)
      BY <3>2 DEF OpenRefused
    <3>3. CASE CallNext(s)
      BY <3>3 DEF CallNext
    <3>4. CASE CancelCtx(s)
      BY <3>4 DEF CancelCtx
    <3>5. CASE CallClose(s)
      BY <3>5 DEF CallClose
    <3>6. CASE WriteBegins(s)
      BY <3>6 DEF WriteBegins
    <3>7. CASE WriteEnds(s)
      BY <3>7 DEF WriteEnds
    <3>8. QED
      BY <1>1, <3>1, <3>2, <3>3, <3>4, <3>5, <3>6, <3>7 DEF Program
  <2>3. QED
    BY <2>2, ElsewhereKeepsBack
<1>2. ASSUME NEW s \in Streams, Reader(s) PROVE BackInv'
  <2>1. BackLocal(s) /\ ConnLocal(s)
    BY DEF BackInv, ConnInv
  <2>2. waits[s] \in 0..MaxWaits /\ delay[s] \in Nat
    BY BoundAssumption DEF TypeOK, BackType
  <2>3. BackElsewhere(s) /\ BackLocal(s)'
    <3> USE <2>1 DEF BackElsewhere, BackLocal, TypeOK, ReadType, SockType, BackType, sockVars,
                     backVars, Return, AttemptFails
    <3>1. CASE Look(s)
      <4>1. CASE closed[s]
        BY <3>1, <4>1 DEF Look
      <4>2. CASE ~closed[s] /\ conn[s] # NoConn
        BY <3>1, <4>2 DEF Look
      <4>3. CASE ~closed[s] /\ conn[s] = NoConn
        <5> DEFINE w == IF waits[s] < MaxWaits THEN waits[s] + 1 ELSE waits[s]
        <5>1. /\ rpc' = [rpc EXCEPT ![s] = "wait"]
              /\ delay'[s] = NextDelay(delay[s]) /\ waits'[s] = w
              /\ \A r \in Streams \ {s} : delay'[r] = delay[r] /\ waits'[r] = waits[r]
              /\ UNCHANGED <<delivered, conn, closed>>
          BY <3>1, <4>3 DEF Look
        <5>2. Matches(waits[s], delay[s])
          BY <3>1, <4>3 DEF Look
        <5>3. w \in 1..MaxWaits /\ Matches(w, NextDelay(delay[s]))
          BY <2>2, <5>2, NextDelayMatches
        <5>4. Matches(waits'[s], delay'[s]) /\ waits'[s] > 0
          BY <5>1, <5>3
        <5>5. QED
          BY <4>3, <5>1, <5>4
      <4>4. QED
        BY <4>1, <4>2, <4>3
    <3>2. CASE WaitEnds(s)
      BY <3>2 DEF WaitEnds
    <3>3. CASE DialOK(s)
      BY <3>3 DEF DialOK
    <3>4. CASE DialFails(s)
      BY <3>4 DEF DialFails
    <3>5. CASE ConnectLock(s)
      BY <3>5 DEF ConnectLock
    <3>6. CASE HelloOK(s)
      BY <3>6 DEF HelloOK
    <3>7. CASE HelloFails(s)
      BY <3>7 DEF HelloFails
    <3>8. CASE ReadFrame(s)
      BY <3>8 DEF ReadFrame
    <3>9. CASE ReadRefusal(s)
      BY <3>9 DEF ReadRefusal
    <3>10. CASE RefusalReturns(s)
      BY <3>10 DEF RefusalReturns
    <3>11. CASE ReadFails(s)
      BY <3>11 DEF ReadFails
    <3>12. CASE ForgetConn(s)
      BY <3>12 DEF ForgetConn
    <3>13. CASE DropConn(s)
      BY <3>13 DEF DropConn, Matches, ConnLocal, Unconnected
    <3>14. QED
      BY <1>2, <3>1, <3>2, <3>3, <3>4, <3>5, <3>6, <3>7, <3>8, <3>9, <3>10, <3>11, <3>12, <3>13
         DEF Reader
  <2>4. QED
    BY <2>3, ElsewhereKeepsBack
<1>3. ASSUME NEW s \in Streams, NEW t \in Closers, Closer(s, t) PROVE BackInv'
  <2>1. BackLocal(s)
    BY DEF BackInv
  <2>2. BackElsewhere(s) /\ BackLocal(s)'
    <3> USE <2>1 DEF BackElsewhere, BackLocal, TypeOK, SockType, sockVars, backVars, readVars
    <3>1. CASE CloseLock(s, t)
      BY <3>1 DEF CloseLock
    <3>2. CASE CloseRelease(s, t)
      BY <3>2 DEF CloseRelease
    <3>3. CASE CloseDrop(s, t)
      BY <3>3 DEF CloseDrop
    <3>4. QED
      BY <1>3, <3>1, <3>2, <3>3 DEF Closer
  <2>3. QED
    BY <2>2, ElsewhereKeepsBack
<1>4. ASSUME NEW s \in Streams, NEW g \in Gens, KeepaliveOf(s, g) \/ Network(s, g)
      PROVE  BackInv'
  <2>1. UNCHANGED <<sockVars, backVars, readVars>>
    BY <1>4 DEF KeepaliveOf, KeepaliveTick, KeepaliveQuit, PingAnswered, PingFails, PingTimesOut,
                KeepaliveStop, KeepaliveKill, Network, GoSilent, Break
  <2>2. QED
    BY <2>1 DEF BackInv, BackLocal, sockVars, backVars, readVars
<1>5. CASE UNCHANGED vars
  BY <1>5 DEF vars, BackInv, BackLocal, sockVars, backVars, readVars
<1>6. QED
  BY <1>1, <1>2, <1>3, <1>4, <1>5 DEF Next

\* Every delay the loop sleeps for is the one the number of attempts since a connection
\* last proved useful calls for, for every pair of bounds, although socket keeps no
\* count (socket.go: wait, read, connect).
THEOREM BackoffFollowsCount == Spec => []BackoffEscalates
<1>1. BackInv => BackoffEscalates
  <2> SUFFICES ASSUME BackInv, NEW s \in Streams, rpc[s] = "wait"
               PROVE  waits[s] > 0 /\ delay[s] = Backoff(waits[s])
      BY DEF BackoffEscalates
  <2>1. waits[s] > 0 /\ waits[s] # 0 /\ Matches(waits[s], delay[s])
    BY DEF BackInv, BackLocal
  <2>2. QED
    BY <2>1 DEF Matches
<1>2. QED
  BY InitTypeOK, StepTypeOK, InitConnInv, StepConnInv, InitBackInv, StepBackInv, <1>1, PTL DEF Spec

-----------------------------------------------------------------------------
(***************************************************************************)
(* Socket implements StreamContract: every step of every goroutine is, for *)
(* the caller of Next, a step of the contract or nothing at all.           *)
(***************************************************************************)

(* The caller's phase, read off the program                                *)

\* A stream with a connection, or whose reader has yet to report its end, is up;
\* one whose reader looks for a connection is new or down; an ended one is closed.
PhaseLocal(s) ==
    /\ rpc[s] \in {"read", "failed", "drop", "refused"} => phase[s] = "up"
    /\ rpc[s] \in {"dial", "lock", "hello"} => phase[s] \in {"new", "down"}
    /\ rpc[s] = "wait" => phase[s] = "down"
    /\ rpc[s] \in {"lock", "hello"} => rconn[s] # NoConn
    /\ rpc[s] = "read" /\ ~closed[s] => conn[s] # NoConn
    /\ rpc[s] \in {"app", "next"} =>
          /\ conn[s] # NoConn => phase[s] = "up"
          /\ conn[s] = NoConn /\ ~closed[s] => phase[s] = "down"
    /\ phase[s] = "ended" => closed[s]
    /\ rpc[s] = "refused" => closed[s] \/ cpc[s]["reader"] = "lock"
    /\ rpc[s] = "drop" => verdict[s] # "none" /\ (verdict[s] = "closed" => closed[s])

PhaseInv == \A s \in Streams : PhaseLocal(s)

\* A step of stream s tells every other caller nothing and leaves its reader alone.
NotTold(s) ==
    \A r \in Streams \ {s} :
        /\ conn'[r] = conn[r] /\ closed'[r] = closed[r]
        /\ rpc'[r] = rpc[r] /\ rconn'[r] = rconn[r] /\ verdict'[r] = verdict[r]
        /\ phase'[r] = phase[r] /\ cpc'[r] = cpc[r]

\* So the invariant need only be shown of the stream that moved.
LEMMA NotToldKeepsPhases ==
    ASSUME PhaseInv, NEW s \in Streams, NotTold(s), PhaseLocal(s)'
    PROVE  PhaseInv'
<1> SUFFICES ASSUME NEW r \in Streams \ {s} PROVE PhaseLocal(r)'
    BY DEF PhaseInv
<1>1. PhaseLocal(r)
  BY DEF PhaseInv
<1>2. QED
  BY <1>1 DEF NotTold, PhaseLocal

\* At first every stream is new.
LEMMA InitPhaseInv == Init => PhaseInv
BY DEF Init, PhaseInv, PhaseLocal

\* The reader always has a verdict when it forgets a connection, and finds the
\* stream closed only if it is.
LEMMA ForgottenVerdict ==
    ASSUME TypeOK, NEW s \in Streams, ForgetConn(s)
    PROVE  /\ verdict'[s] \in {"closed", "stale", "disconnected"}
           /\ verdict'[s] = "closed" => closed[s]
           /\ \A r \in Streams \ {s} : verdict'[r] = verdict[r]
<1>1. CASE closed[s]
  <2>1. verdict' = [verdict EXCEPT ![s] = "closed"]
    BY <1>1, Zenon DEF ForgetConn
  <2>2. QED
    BY <1>1, <2>1 DEF TypeOK, ReadType
<1>2. CASE ~closed[s] /\ Stale(s)
  <2>1. verdict' = [verdict EXCEPT ![s] = "stale"]
    BY <1>2, Zenon DEF ForgetConn
  <2>2. QED
    BY <2>1 DEF TypeOK, ReadType
<1>3. CASE ~closed[s] /\ ~Stale(s)
  <2>1. verdict' = [verdict EXCEPT ![s] = "disconnected"]
    BY <1>3, Zenon DEF ForgetConn
  <2>2. QED
    BY <2>1 DEF TypeOK, ReadType
<1>4. QED
  BY <1>1, <1>2, <1>3

\* Every step keeps the invariant.
LEMMA StepPhaseInv ==
    TypeOK /\ SlotInv /\ ConnInv /\ PhaseInv /\ [Next]_vars => PhaseInv'
<1> SUFFICES ASSUME TypeOK, SlotInv, ConnInv, PhaseInv, [Next]_vars PROVE PhaseInv'
    OBVIOUS
<1>1. ASSUME NEW s \in Streams, Program(s) PROVE PhaseInv'
  <2>1. SlotLocal(s) /\ ConnLocal(s) /\ PhaseLocal(s)
    BY DEF SlotInv, ConnInv, PhaseInv
  <2>2. NotTold(s)
    BY <1>1 DEF Program, Open, OpenRefused, CallNext, CancelCtx, CallClose, WriteBegins, WriteEnds,
                NotTold, TypeOK, ReadType, CloseType, sockVars, readVars, closeVars
  <2>3. PhaseLocal(s)'
    <3> USE <2>1 DEF PhaseLocal, TypeOK, ReadType, sockVars, readVars, closeVars
    <3>1. CASE Open(s)
      BY <3>1 DEF Open, SlotLocal
    <3>2. CASE OpenRefused(s) \/ CancelCtx(s) \/ WriteBegins(s) \/ WriteEnds(s)
      BY <3>2 DEF OpenRefused, CancelCtx, WriteBegins, WriteEnds
    <3>3. CASE CallNext(s)
      BY <3>3 DEF CallNext
    <3>4. CASE CallClose(s)
      BY <3>4 DEF CallClose, CloseType, Closers
    <3>5. QED
      BY <1>1, <3>1, <3>2, <3>3, <3>4 DEF Program
  <2>4. QED
    BY <2>2, <2>3, NotToldKeepsPhases
<1>2. ASSUME NEW s \in Streams, Reader(s) PROVE PhaseInv'
  <2>1. SlotLocal(s) /\ ConnLocal(s) /\ PhaseLocal(s)
    BY DEF SlotInv, ConnInv, PhaseInv
  <2>2. NotTold(s)
    <3> USE DEF NotTold, Return, AttemptFails, TypeOK, SockType, ReadType, CloseType, sockVars,
                closeVars
    <3>1. CASE Look(s) \/ WaitEnds(s) \/ RefusalReturns(s) \/ ReadFrame(s) \/ DialFails(s)
      BY <3>1 DEF Look, WaitEnds, RefusalReturns, ReadFrame, DialFails
    <3>2. CASE DialOK(s) \/ ConnectLock(s) \/ HelloOK(s) \/ HelloFails(s)
      BY <3>2 DEF DialOK, ConnectLock, HelloOK, HelloFails
    <3>3. CASE ReadRefusal(s)
      BY <3>3 DEF ReadRefusal
    <3>4. CASE ReadFails(s)
      BY <3>4 DEF ReadFails
    <3>5. CASE ForgetConn(s)
      <4>1. \A r \in Streams \ {s} : verdict'[r] = verdict[r]
        BY <3>5, ForgottenVerdict
      <4>2. QED
        BY <3>5, <4>1 DEF ForgetConn
    <3>6. CASE DropConn(s)
      BY <3>6 DEF DropConn
    <3>7. QED
      BY <1>2, <3>1, <3>2, <3>3, <3>4, <3>5, <3>6 DEF Reader
  <2>3. PhaseLocal(s)'
    <3> USE <2>1 DEF PhaseLocal, Return, TypeOK, SockType, ReadType, sockVars, closeVars
    <3>1. CASE Look(s)
      BY <3>1 DEF Look, ConnLocal
    <3>2. CASE WaitEnds(s)
      BY <3>2 DEF WaitEnds, ConnLocal, Unconnected
    <3>3. CASE DialOK(s)
      BY <3>3, ConnAssumption DEF DialOK
    <3>4. CASE DialFails(s)
      BY <3>4 DEF DialFails, AttemptFails, ConnLocal, Unconnected
    <3>5. CASE ConnectLock(s)
      BY <3>5 DEF ConnectLock, ConnLocal, Unconnected
    <3>6. CASE HelloOK(s)
      BY <3>6 DEF HelloOK, ConnLocal
    <3>7. CASE HelloFails(s)
      BY <3>7 DEF HelloFails, AttemptFails, ConnLocal, Unconnected
    <3>8. CASE ReadFrame(s)
      BY <3>8 DEF ReadFrame
    <3>9. CASE ReadRefusal(s)
      BY <3>9 DEF ReadRefusal, CloseType, Closers
    <3>10. CASE RefusalReturns(s)
      BY <3>10 DEF RefusalReturns, ConnLocal
    <3>11. CASE ReadFails(s)
      BY <3>11 DEF ReadFails
    <3>12. CASE ForgetConn(s)
      <4>1. verdict'[s] # "none" /\ (verdict'[s] = "closed" => closed[s])
        BY <3>12, ForgottenVerdict
      <4>2. QED
        BY <3>12, <4>1 DEF ForgetConn
    <3>13. CASE DropConn(s)
      BY <3>13 DEF DropConn, ConnLocal, Unconnected
    <3>14. QED
      BY <1>2, <3>1, <3>2, <3>3, <3>4, <3>5, <3>6, <3>7, <3>8, <3>9, <3>10, <3>11, <3>12, <3>13
         DEF Reader
  <2>4. QED
    BY <2>2, <2>3, NotToldKeepsPhases
<1>3. ASSUME NEW s \in Streams, NEW t \in Closers, Closer(s, t) PROVE PhaseInv'
  <2>1. SlotLocal(s) /\ PhaseLocal(s)
    BY DEF SlotInv, PhaseInv
  <2>2. NotTold(s)
    BY <1>3 DEF Closer, CloseLock, CloseRelease, CloseDrop, NotTold, TypeOK, SockType, CloseType,
                sockVars, readVars
  <2>3. PhaseLocal(s)'
    BY <1>3, <2>1 DEF Closer, CloseLock, CloseRelease, CloseDrop, PhaseLocal, Closers, TypeOK,
                SockType, CloseType, sockVars, readVars
  <2>4. QED
    BY <2>2, <2>3, NotToldKeepsPhases
<1>4. ASSUME NEW s \in Streams, NEW g \in Gens, KeepaliveOf(s, g) \/ Network(s, g)
      PROVE  PhaseInv'
  <2>1. UNCHANGED <<sockVars, readVars, closeVars>>
    BY <1>4 DEF KeepaliveOf, KeepaliveTick, KeepaliveQuit, PingAnswered, PingFails, PingTimesOut,
                KeepaliveStop, KeepaliveKill, Network, GoSilent, Break
  <2>2. QED
    BY <2>1 DEF PhaseInv, PhaseLocal, sockVars, readVars, closeVars
<1>5. CASE UNCHANGED vars
  BY <1>5 DEF vars, PhaseInv, PhaseLocal, sockVars, readVars, closeVars
<1>6. QED
  BY <1>1, <1>2, <1>3, <1>4, <1>5 DEF Next

-----------------------------------------------------------------------------
(* The steps of the contract                                               *)

\* A step that takes no token, gives none back and returns nothing is a stutter.
SeenByNobody == UNCHANGED <<rpc, closed, cpc, phase, result>>

\* What the callers are told in one step of the reader of s.
Told(s, r, p) ==
    /\ result' = [result EXCEPT ![s] = r]
    /\ phase' = [phase EXCEPT ![s] = p]

\* The set of holders changes only when a stream opens, fails to or is released.
LEMMA SameHolders ==
    ASSUME UNCHANGED <<closed, cpc>>,
           \A s \in Streams : rpc'[s] = "new" <=> rpc[s] = "new"
    PROVE  Holders' = Holders
BY DEF Holders

\* The contract counts as the program does.
LEMMA SameCount == ASSUME NEW S PROVE Contract!Cardinality(S) = Cardinality(S)
BY Zenon DEF Contract!Cardinality, Cardinality, Contract!IsFiniteSet, IsFiniteSet

\* The initial state is the contract's: nothing held, nothing told.
LEMMA InitImplements == Init => Contract!Init
BY DEF Init, Contract!Init, Holders

\* A failed attempt is a failed open, which gives the slot back, or for an open
\* stream another report that it is down.
LEMMA FailedAttemptImplements ==
    ASSUME TypeOK, SlotInv, ConnInv, PhaseInv, NEW s \in Streams, rpc[s] \in {"dial", "hello"},
           AttemptFails(s), UNCHANGED <<closed, cpc>>
    PROVE  Contract!Next
<1>1. SlotLocal(s) /\ PhaseLocal(s)
  BY DEF SlotInv, PhaseInv
<1>2. CASE phase[s] = "new"
  <2>1. s \in Holders
    BY <1>1, <1>2 DEF SlotLocal, Holders
  <2>2. Holders' = Holders \ {s}
    BY <1>2 DEF AttemptFails, Holders, TypeOK, ReadType
  <2>3. Told(s, "openfailed", "new")
    BY <1>2 DEF AttemptFails, Told, TypeOK, ReadType
  <2>4. Contract!OpenFails(s)
    BY <1>2, <2>1, <2>2, <2>3 DEF Told, Contract!OpenFails, Contract!Returns
  <2>5. QED
    BY <2>4 DEF Contract!Next
<1>3. CASE phase[s] # "new"
  <2>1. phase[s] = "down"
    BY <1>1, <1>3 DEF PhaseLocal
  <2>2. rpc' = [rpc EXCEPT ![s] = "app"]
    BY <1>3 DEF AttemptFails, Return
  <2>3. Holders' = Holders
    BY <2>2, SameHolders DEF TypeOK, ReadType
  <2>4. PICK r \in {"disconnected", "ctx"} : Told(s, r, "down")
    BY <1>3, <2>1 DEF AttemptFails, Return, Told
  <2>5. Contract!Drop(s, r)
    BY <2>1, <2>3, <2>4 DEF Told, Contract!Drop, Contract!Returns
  <2>6. QED
    BY <2>5 DEF Contract!Next
<1>4. QED
  BY <1>2, <1>3

\* Every step of the program is a step of the contract or a stutter.
LEMMA StepImplements ==
    TypeOK /\ SlotInv /\ ConnInv /\ PhaseInv /\ [Next]_vars => [Contract!Next]_(Contract!vars)
<1> SUFFICES ASSUME TypeOK, SlotInv, ConnInv, PhaseInv, [Next]_vars
             PROVE  Contract!Next \/ UNCHANGED <<Holders, phase, result>>
    BY DEF Contract!vars
<1>1. ASSUME NEW s \in Streams, Program(s)
      PROVE  Contract!Next \/ UNCHANGED <<Holders, phase, result>>
  <2>1. SlotLocal(s)
    BY DEF SlotInv
  <2>2. CASE Open(s)
    <3>1. s \notin Holders /\ Holders' = Holders \cup {s}
      BY <2>1, <2>2 DEF Open, Holders, SlotLocal, sockVars, closeVars, TypeOK, ReadType
    <3>2. Cardinality(Holders) < MaxConnections
      BY <2>2 DEF Open, SlotInv, SlotPerStream
    <3>3. phase[s] = "new" /\ Told(s, "none", phase[s])
      BY <2>1, <2>2 DEF Open, SlotLocal, Told, TypeOK, ReadType
    <3>4. Contract!Take(s)
      BY <2>2, <3>1, <3>2, <3>3, SameCount DEF Open, Told, Contract!Take
    <3>5. QED
      BY <3>4 DEF Contract!Next
  <2>3. CASE OpenRefused(s)
    <3>1. Holders' = Holders
      BY <2>3, SameHolders DEF OpenRefused, sockVars, closeVars
    <3>2. Told(s, "openfailed", "new")
      BY <2>1, <2>3 DEF OpenRefused, SlotLocal, Told, TypeOK, ReadType
    <3>3. Cardinality(Holders) = MaxConnections
      BY <2>3 DEF OpenRefused, SlotInv, SlotPerStream
    <3>4. phase[s] = "new"
      BY <2>1, <2>3 DEF OpenRefused, SlotLocal
    <3>5. Contract!Refuse(s)
      BY <3>1, <3>2, <3>3, <3>4, SameCount DEF Told, Contract!Refuse, Contract!Returns
    <3>6. QED
      BY <3>5 DEF Contract!Next
  <2>4. CASE CallNext(s)
    <3>1. phase[s] # "new"
      BY <2>1, <2>4 DEF CallNext, SlotLocal
    <3>2. Holders' = Holders
      BY <2>4, SameHolders DEF CallNext, sockVars, closeVars, TypeOK, ReadType
    <3>3. Contract!Call(s)
      BY <2>4, <3>1, <3>2 DEF CallNext, Contract!Call
    <3>4. QED
      BY <3>3 DEF Contract!Next
  <2>5. CASE CallClose(s)
    <3>1. \A r \in Streams : \A t \in Closers : cpc'[r][t] = "release" <=> cpc[r][t] = "release"
      BY <2>5 DEF CallClose, TypeOK, CloseType
    <3>2. Holders' = Holders
      BY <2>5, <3>1 DEF CallClose, Holders, sockVars, readVars
    <3>3. QED
      BY <2>5, <3>2 DEF CallClose, readVars
  <2>6. CASE CancelCtx(s) \/ WriteBegins(s) \/ WriteEnds(s)
    <3>1. SeenByNobody
      BY <2>6 DEF CancelCtx, WriteBegins, WriteEnds, SeenByNobody, sockVars, readVars, closeVars
    <3>2. QED
      BY <3>1 DEF SeenByNobody, Holders
  <2>7. QED
    BY <1>1, <2>2, <2>3, <2>4, <2>5, <2>6 DEF Program
<1>2. ASSUME NEW s \in Streams, Reader(s)
      PROVE  Contract!Next \/ UNCHANGED <<Holders, phase, result>>
  <2>1. SlotLocal(s) /\ ConnLocal(s) /\ PhaseLocal(s)
    BY DEF SlotInv, ConnInv, PhaseInv
  <2>2. CASE DialFails(s)
    BY <2>2, FailedAttemptImplements DEF DialFails, sockVars, closeVars
  <2>3. CASE HelloFails(s)
    BY <2>3, FailedAttemptImplements DEF HelloFails, closeVars
  <2>4. CASE ~DialFails(s) /\ ~HelloFails(s)
    <3>1. Holders' = Holders
      <4>1. \A r \in Streams : rpc'[r] = "new" <=> rpc[r] = "new"
        BY <1>2, <2>4
           DEF Reader, Look, WaitEnds, DialOK, ConnectLock, HelloOK, ReadFrame, ReadRefusal,
               RefusalReturns, ReadFails, ForgetConn, DropConn, Return, TypeOK, ReadType
      <4>2. UNCHANGED closed
        BY <1>2, <2>4
           DEF Reader, Look, WaitEnds, DialOK, ConnectLock, HelloOK, ReadFrame, ReadRefusal,
               RefusalReturns, ReadFails, ForgetConn, DropConn, sockVars
      <4>3. \A r \in Streams : \A t \in Closers : cpc'[r][t] = "release" <=> cpc[r][t] = "release"
        <5>1. CASE ReadRefusal(s)
          BY <2>1, <5>1 DEF ReadRefusal, SlotLocal, TypeOK, CloseType
        <5>2. CASE ~ReadRefusal(s)
          BY <1>2, <2>4, <5>2
             DEF Reader, Look, WaitEnds, DialOK, ConnectLock, HelloOK, ReadFrame,
                 RefusalReturns, ReadFails, ForgetConn, DropConn, closeVars
        <5>3. QED
          BY <5>1, <5>2
      <4>4. QED
        BY <4>1, <4>2, <4>3 DEF Holders
    <3> USE <3>1 DEF Contract!Next, Contract!Returns, Return, PhaseLocal
    <3>2. CASE Look(s)
      <4>1. CASE closed[s]
        <5>1. Contract!Ends(s)
          BY <2>1, <3>2, <4>1 DEF Look, SlotLocal, Contract!Ends
        <5>2. QED
          BY <5>1
      <4>2. CASE ~closed[s]
        BY <3>2, <4>2 DEF Look
      <4>3. QED
        BY <4>1, <4>2
    <3>3. CASE WaitEnds(s)
      <4>1. phase[s] = "down"
        BY <2>1, <3>3 DEF WaitEnds
      <4>2. Contract!Ends(s) \/ Contract!Drop(s, "ctx") \/ UNCHANGED <<phase, result>>
        BY <3>3, <4>1 DEF WaitEnds, Contract!Ends, Contract!Drop
      <4>3. QED
        BY <4>2
    <3>4. CASE ConnectLock(s)
      <4>1. Contract!Ends(s) \/ UNCHANGED <<phase, result>>
        BY <2>1, <3>4 DEF ConnectLock, SlotLocal, Contract!Ends
      <4>2. QED
        BY <4>1
    <3>5. CASE HelloOK(s)
      <4>1. s \in Holders
        BY <2>1, <3>5 DEF HelloOK, ConnLocal, Holders
      <4>2. Contract!Opens(s) \/ Contract!Reconnects(s)
        BY <2>1, <3>5, <4>1 DEF HelloOK, Contract!Opens, Contract!Reconnects
      <4>3. QED
        BY <4>2
    <3>6. CASE ReadFrame(s)
      <4>1. Contract!Frame(s)
        BY <2>1, <3>6 DEF ReadFrame, Contract!Frame
      <4>2. QED
        BY <4>1
    <3>7. CASE RefusalReturns(s)
      <4>1. Contract!Refused(s)
        BY <2>1, <3>7 DEF RefusalReturns, Contract!Refused
      <4>2. QED
        BY <4>1
    <3>8. CASE DropConn(s)
      <4>1. phase[s] = "up" /\ verdict[s] \in {"closed", "stale", "disconnected"}
        BY <2>1, <3>8 DEF DropConn, TypeOK, ReadType
      <4>2. \/ Contract!Ends(s) \/ Contract!GoesStale(s)
            \/ Contract!Drop(s, "disconnected") \/ Contract!Drop(s, "ctx")
        BY <3>8, <4>1 DEF DropConn, Contract!Ends, Contract!GoesStale, Contract!Drop
      <4>3. QED
        BY <4>2
    <3>9. CASE DialOK(s) \/ ReadRefusal(s) \/ ReadFails(s) \/ ForgetConn(s)
      BY <3>9 DEF DialOK, ReadRefusal, ReadFails, ForgetConn
    <3>10. QED
      BY <1>2, <2>4, <3>2, <3>3, <3>4, <3>5, <3>6, <3>7, <3>8, <3>9 DEF Reader
  <2>5. QED
    BY <2>2, <2>3, <2>4
<1>3. ASSUME NEW s \in Streams, NEW t \in Closers, Closer(s, t)
      PROVE  Contract!Next \/ UNCHANGED <<Holders, phase, result>>
  <2>1. SlotLocal(s)
    BY DEF SlotInv
  <2>2. CASE CloseRelease(s, t)
    <3>1. phase[s] # "new" /\ closed[s] /\ s \in Holders
      BY <2>1, <2>2 DEF CloseRelease, SlotLocal, Closing, Holders
    <3>2. Holders' = Holders \ {s}
      BY <2>1, <2>2, <3>1
         DEF CloseRelease, SlotLocal, Closing, Holders, TypeOK, CloseType, sockVars, readVars
    <3>3. Contract!GiveBack(s)
      BY <2>2, <3>1, <3>2 DEF CloseRelease, readVars, Contract!GiveBack
    <3>4. QED
      BY <3>3 DEF Contract!Next
  <2>3. CASE CloseLock(s, t)
    <3>1. UNCHANGED <<rpc, phase, result>>
      BY <2>3 DEF CloseLock, readVars
    <3>2. Holders' = Holders
      BY <2>1, <2>3, <3>1, SMTT(30) DEF CloseLock, SlotLocal, Closing, Holders, sockVars, TypeOK, SockType,
                              CloseType
    <3>3. QED
      BY <3>1, <3>2
  <2>4. CASE CloseDrop(s, t)
    <3>1. UNCHANGED <<rpc, closed, phase, result>>
      BY <2>4 DEF CloseDrop, sockVars, readVars
    <3>2. Holders' = Holders
      BY <2>4, <3>1 DEF CloseDrop, Holders, TypeOK, CloseType
    <3>3. QED
      BY <3>1, <3>2
  <2>5. QED
    BY <1>3, <2>2, <2>3, <2>4 DEF Closer
<1>4. ASSUME NEW s \in Streams, NEW g \in Gens, KeepaliveOf(s, g) \/ Network(s, g)
      PROVE  UNCHANGED <<Holders, phase, result>>
  <2>1. SeenByNobody
    BY <1>4 DEF KeepaliveOf, KeepaliveTick, KeepaliveQuit, PingAnswered, PingFails, PingTimesOut,
                KeepaliveStop, KeepaliveKill, Network, GoSilent, Break, SeenByNobody, sockVars,
                readVars, closeVars
  <2>2. QED
    BY <2>1 DEF SeenByNobody, Holders
<1>5. CASE UNCHANGED vars
  BY <1>5 DEF vars, Holders, sockVars, readVars, closeVars
<1>6. QED
  BY <1>1, <1>2, <1>3, <1>4, <1>5 DEF Next

\* Every call of openSocket, Next and Close keeps the contract: whatever the
\* goroutines and the network do, callers see slots taken and given back once and
\* results in the documented order.
THEOREM SocketImplementsContract == Spec => ContractHolds
<1>1. Spec => [](TypeOK /\ SlotInv /\ ConnInv /\ PhaseInv)
  BY InitTypeOK, StepTypeOK, InitSlotInv, StepSlotInv, InitConnInv, StepConnInv, InitPhaseInv,
     StepPhaseInv, PTL DEF Spec
<1>2. QED
  BY <1>1, InitImplements, StepImplements, PTL DEF Spec, ContractHolds, Contract!Spec
==============================================================================
