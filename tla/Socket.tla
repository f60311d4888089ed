------------------------------- MODULE Socket -------------------------------
(***************************************************************************)
(* The reconnect loop both streams share (socket.go): every open           *)
(* MarketStream and Subscription of the process, the reader that calls     *)
(* Next, the goroutines that call Close and that write under mu, and one   *)
(* keepalive goroutine per connection.  The streams meet only in           *)
(* connSlots, the process-wide semaphore.                                  *)
(*                                                                         *)
(* A critical section of mu that makes no blocking call is one step.  mu   *)
(* is held across steps only while something is written to the connection: *)
(* the hello of connect and the frames of Subscription.send.               *)
(***************************************************************************)
EXTENDS Integers, FiniteSets

CONSTANTS
    Streams,         \* the streams the program ever opens
    Subscriptions,   \* those that are account sockets; the rest are MarketStreams
    Pinged,          \* the account sockets whose pingEvery is not zero
    Gens,            \* names for the connections of one stream, reused when free
    NoConn,          \* the nil connection
    MaxConnections,  \* capacity of connSlots
    MinDelay, MaxDelay,  \* backoff bounds
    MaxWaits         \* bound of the history variable waits

ASSUME StreamAssumption ==
    /\ IsFiniteSet(Streams)
    /\ Subscriptions \subseteq Streams
    /\ Pinged \subseteq Subscriptions
ASSUME ConnAssumption == NoConn \notin Gens
ASSUME BoundAssumption ==
    /\ MaxConnections \in Nat \ {0}
    /\ MinDelay \in Nat \ {0}
    /\ MaxDelay \in Nat /\ MinDelay <= MaxDelay
    /\ MaxWaits \in Nat \ {0}

\* The backoffs in a row are counted until the delay has reached MaxDelay.
Doubled[n \in Nat] == IF n = 0 THEN MinDelay ELSE 2 * Doubled[n - 1]
ASSUME WaitsAssumption == MaxDelay <= Doubled[MaxWaits - 1]

VARIABLES
    connSlots,  \* tokens in the channel connSlots
    freed,      \* freed[s]: the sync.Once of release has run
    mu,         \* mu[s]: what holds s.mu across steps, or "free"
    conn,       \* s.conn
    closed,     \* s.closed; s.done is closed in the same critical section
    alive,      \* the connection whose context s.alive is
    delay,      \* s.delay
    delivered,  \* s.delivered
    rpc,        \* where the reader is
    rconn,      \* the reader's local conn
    verdict,    \* what the reader's failed read will report
    ctxDone,    \* the ctx of the call in progress is done
    phase,      \* what the calls that returned have told the caller of Next
    result,     \* what the last call returned
    waits,      \* history: backoffs since a connection last proved useful
    cpc,        \* cpc[s][t]: where t's call of Close is
    cconn,      \* cconn[s][t]: the connection that call took from s.conn
    link,       \* link[s][g]: the state of connection g of s
    cause,      \* cause[s][g]: "live", or the cause g's alive context ended with
    ka          \* ka[s][g]: where the keepalive goroutine of g is

slotVars  == <<connSlots, freed>>
sockVars  == <<mu, conn, closed, alive>>
backVars  == <<delay, delivered, waits>>
readVars  == <<rpc, rconn, verdict, ctxDone, phase, result>>
closeVars == <<cpc, cconn>>
linkVars  == <<link, cause, ka>>
vars == <<slotVars, sockVars, backVars, readVars, closeVars, linkVars>>

Closers == {"app", "reader"}  \* Close from anywhere; MarketStream.Next on a refusal

ReaderAt == {"new", "app", "next", "wait", "dial", "lock", "hello",
             "read", "failed", "drop", "refused"}
Results  == {"none", "openfailed", "opened", "frame", "reconnected", "disconnected",
             "stale", "ctx", "closed", "refused"}

Init ==
    /\ connSlots = 0
    /\ freed     = [s \in Streams |-> FALSE]
    /\ mu        = [s \in Streams |-> "free"]
    /\ conn      = [s \in Streams |-> NoConn]
    /\ closed    = [s \in Streams |-> FALSE]
    /\ alive     = [s \in Streams |-> NoConn]
    /\ delay     = [s \in Streams |-> 0]
    /\ delivered = [s \in Streams |-> FALSE]
    /\ rpc       = [s \in Streams |-> "new"]
    /\ rconn     = [s \in Streams |-> NoConn]
    /\ verdict   = [s \in Streams |-> "none"]
    /\ ctxDone   = [s \in Streams |-> FALSE]
    /\ phase     = [s \in Streams |-> "new"]
    /\ result    = [s \in Streams |-> "none"]
    /\ waits     = [s \in Streams |-> 0]
    /\ cpc       = [s \in Streams |-> [t \in Closers |-> "idle"]]
    /\ cconn     = [s \in Streams |-> [t \in Closers |-> NoConn]]
    /\ link      = [s \in Streams |-> [g \in Gens |-> "closed"]]
    /\ cause     = [s \in Streams |-> [g \in Gens |-> "canceled"]]
    /\ ka        = [s \in Streams |-> [g \in Gens |-> "off"]]

-----------------------------------------------------------------------------
(* Pieces of several handlers                                              *)

\* release: the sync.Once around one receive from connSlots, which would block
\* on an empty channel.
Release(s) ==
    \/ freed[s] /\ UNCHANGED slotVars
    \/ /\ ~freed[s] /\ connSlots > 0
       /\ connSlots' = connSlots - 1
       /\ freed' = [freed EXCEPT ![s] = TRUE]

\* Mutant: any ping of the stream that ever timed out counts.
StaleOfAnyPing(s) == \E g \in Gens : cause[s][g] = "stale"

\* endAlive reports whether the keepalive killed the connection it stops.
Stale(s) == alive[s] # NoConn /\ cause[s][alive[s]] = "stale"

\* Mutant: the context is forgotten without being cancelled.
EndAliveForgets(s) == alive' = [alive EXCEPT ![s] = NoConn] /\ UNCHANGED cause

\* endAlive: cancel the context unless it has ended, and forget it.
EndAlive(s) ==
    /\ cause' = IF alive[s] # NoConn /\ cause[s][alive[s]] = "live"
                THEN [cause EXCEPT ![s][alive[s]] = "canceled"] ELSE cause
    /\ alive' = [alive EXCEPT ![s] = NoConn]

\* Mutant: a connection that already failed is not closed.
CloseNowIfOpen(s, g) ==
    link' = IF link[s][g] = "open" THEN [link EXCEPT ![s][g] = "closed"] ELSE link

\* conn.CloseNow, a no-op on a connection that is closed already
CloseNow(s, g) ==
    link' = IF link[s][g] = "killed" THEN link ELSE [link EXCEPT ![s][g] = "closed"]

\* wait: the backoff that follows d, doubled and kept within its bounds
AtMost(d, bound) == IF d < bound THEN d ELSE bound
NextDelayUncapped(d) == IF 2 * d > MinDelay THEN 2 * d ELSE MinDelay  \* mutant: no maxDelay
NextDelayNoFloor(d) == AtMost(2 * d, MaxDelay)                         \* mutant: no minDelay
NextDelay(d) == AtMost(IF 2 * d > MinDelay THEN 2 * d ELSE MinDelay, MaxDelay)

\* A call of Next returns r, and the caller is told phase p.
Return(s, r, p) ==
    /\ rpc'    = [rpc EXCEPT ![s] = "app"]
    /\ result' = [result EXCEPT ![s] = r]
    /\ phase'  = [phase EXCEPT ![s] = p]

\* Mutant: openSocket returns the error without freeing the slot.
AttemptFailsLeaks(s) ==
    /\ IF phase[s] = "new"
       THEN /\ rpc' = [rpc EXCEPT ![s] = "new"]
            /\ result' = [result EXCEPT ![s] = "openfailed"]
            /\ UNCHANGED phase
       ELSE Return(s, IF ctxDone[s] THEN "ctx" ELSE "disconnected", phase[s])
    /\ UNCHANGED slotVars

\* The error connect or wait returned: openSocket frees the slot and returns it,
\* read turns it into a context error or a Disconnected.
AttemptFails(s) ==
    \/ /\ phase[s] = "new"
       /\ Release(s)
       /\ rpc' = [rpc EXCEPT ![s] = "new"]
       /\ result' = [result EXCEPT ![s] = "openfailed"]
       /\ UNCHANGED phase
    \/ /\ phase[s] # "new"
       /\ Return(s, IF ctxDone[s] THEN "ctx" ELSE "disconnected", phase[s])
       /\ UNCHANGED slotVars

\* A name no connection, thread or keepalive goroutine of s is using
Free(s, g) ==
    /\ link[s][g] \in {"closed", "killed"}
    /\ ka[s][g] = "off"
    /\ conn[s] # g /\ rconn[s] # g
    /\ \A t \in Closers : cconn[s][t] # g

-----------------------------------------------------------------------------
(* openSocket and the reader: the goroutine that calls Next                *)

\* openSocket takes a token or fails at once with ErrTooManyConnections; a
\* failed open returned no stream, so another try starts from a new socket.
Open(s) ==
    /\ rpc[s] = "new"
    /\ connSlots < MaxConnections
    /\ connSlots' = connSlots + 1
    /\ freed'  = [freed EXCEPT ![s] = FALSE]
    /\ rpc'    = [rpc EXCEPT ![s] = "dial"]
    /\ result' = [result EXCEPT ![s] = "none"]
    /\ ctxDone' = [ctxDone EXCEPT ![s] = FALSE]
    /\ UNCHANGED <<sockVars, backVars, rconn, verdict, phase, closeVars, linkVars>>

\* ErrTooManyConnections: no token, no connection, no state
OpenRefused(s) ==
    /\ rpc[s] = "new"
    /\ connSlots = MaxConnections
    /\ result' = [result EXCEPT ![s] = "openfailed"]
    /\ UNCHANGED <<slotVars, sockVars, backVars, rpc, rconn, verdict, ctxDone, phase,
                   closeVars, linkVars>>

CallNext(s) ==
    /\ rpc[s] = "app"
    /\ rpc'     = [rpc EXCEPT ![s] = "next"]
    /\ ctxDone' = [ctxDone EXCEPT ![s] = FALSE]
    /\ result'  = [result EXCEPT ![s] = "none"]
    /\ UNCHANGED <<slotVars, sockVars, backVars, rconn, verdict, phase, closeVars, linkVars>>

\* The ctx of the call in progress is cancelled or its deadline passes.
CancelCtx(s) ==
    /\ rpc[s] \notin {"new", "app"}
    /\ ~ctxDone[s]
    /\ ctxDone' = [ctxDone EXCEPT ![s] = TRUE]
    /\ UNCHANGED <<slotVars, sockVars, backVars, rpc, rconn, verdict, phase, result,
                   closeVars, linkVars>>

\* read: look at conn and closed under mu; without a connection, wait's first
\* line doubles the delay within its bounds.
Look(s) ==
    /\ rpc[s] = "next" /\ mu[s] = "free"
    /\ \/ /\ closed[s]
          /\ Return(s, "closed", "ended")
          /\ UNCHANGED <<rconn, backVars>>
       \/ /\ ~closed[s] /\ conn[s] # NoConn
          /\ rconn' = [rconn EXCEPT ![s] = conn[s]]
          /\ rpc'   = [rpc EXCEPT ![s] = "read"]
          /\ UNCHANGED <<phase, result, backVars>>
       \/ /\ ~closed[s] /\ conn[s] = NoConn
          /\ rpc'   = [rpc EXCEPT ![s] = "wait"]
          /\ delay' = [delay EXCEPT ![s] = NextDelay(@)]
          /\ waits' = [waits EXCEPT ![s] = IF @ < MaxWaits THEN @ + 1 ELSE @]
          /\ UNCHANGED <<rconn, phase, result, delivered>>
    /\ UNCHANGED <<slotVars, sockVars, verdict, ctxDone, closeVars, linkVars>>

\* wait: the timer, the ctx or Close ends the sleep, in whatever order they come.
WaitEnds(s) ==
    /\ rpc[s] = "wait"
    /\ \/ /\ rpc' = [rpc EXCEPT ![s] = "dial"]
          /\ UNCHANGED <<phase, result>>
       \/ ctxDone[s] /\ Return(s, "ctx", phase[s])
       \/ closed[s] /\ Return(s, "closed", "ended")
    /\ UNCHANGED <<slotVars, sockVars, backVars, rconn, verdict, ctxDone, closeVars, linkVars>>

\* connect: dial, without mu
DialOK(s) ==
    /\ rpc[s] = "dial"
    /\ \E g \in Gens :
          /\ Free(s, g)
          /\ link'  = [link EXCEPT ![s][g] = "open"]
          /\ rconn' = [rconn EXCEPT ![s] = g]
    /\ rpc' = [rpc EXCEPT ![s] = "lock"]
    /\ UNCHANGED <<slotVars, sockVars, backVars, verdict, ctxDone, phase, result, closeVars,
                   cause, ka>>

DialFails(s) ==
    /\ rpc[s] = "dial"
    /\ AttemptFails(s)
    /\ UNCHANGED <<sockVars, backVars, rconn, verdict, ctxDone, closeVars, linkVars>>

\* Mutant: connect does not look at closed once it has dialled.
ConnectLockUnchecked(s) ==
    /\ rpc[s] = "lock" /\ mu[s] = "free"
    /\ mu'  = [mu EXCEPT ![s] = "hello"]
    /\ rpc' = [rpc EXCEPT ![s] = "hello"]
    /\ UNCHANGED <<slotVars, conn, closed, alive, backVars, rconn, verdict, ctxDone, phase,
                   result, closeVars, linkVars>>

\* connect takes mu.  A stream closed during the dial gives the connection up;
\* otherwise mu stays held while hello writes.
ConnectLock(s) ==
    /\ rpc[s] = "lock" /\ mu[s] = "free"
    /\ \/ /\ closed[s]
          /\ CloseNow(s, rconn[s])
          /\ rconn' = [rconn EXCEPT ![s] = NoConn]
          /\ Return(s, "closed", "ended")
          /\ UNCHANGED mu
       \/ /\ ~closed[s]
          /\ mu'  = [mu EXCEPT ![s] = "hello"]
          /\ rpc' = [rpc EXCEPT ![s] = "hello"]
          /\ UNCHANGED <<link, rconn, phase, result>>
    /\ UNCHANGED <<slotVars, conn, closed, alive, backVars, verdict, ctxDone, closeVars,
                   cause, ka>>

\* hello has written its frames: the connection becomes the stream's, with a
\* keepalive of its own if the stream is pinged.
HelloOK(s) ==
    /\ rpc[s] = "hello"
    /\ mu'        = [mu EXCEPT ![s] = "free"]
    /\ conn'      = [conn EXCEPT ![s] = rconn[s]]
    /\ delivered' = [delivered EXCEPT ![s] = FALSE]
    /\ \/ /\ s \in Pinged
          /\ alive' = [alive EXCEPT ![s] = rconn[s]]
          /\ cause' = [cause EXCEPT ![s][rconn[s]] = "live"]
          /\ ka'    = [ka EXCEPT ![s][rconn[s]] = "tick"]
       \/ s \notin Pinged /\ UNCHANGED <<alive, cause, ka>>
    /\ rconn' = [rconn EXCEPT ![s] = NoConn]
    /\ Return(s, IF phase[s] = "new" THEN "opened" ELSE "reconnected", "up")
    /\ UNCHANGED <<slotVars, closed, delay, waits, verdict, ctxDone, closeVars, link>>

\* Mutant: the connection of a failed hello is left open.
HelloFailsLeavesOpen(s) ==
    /\ rpc[s] = "hello"
    /\ mu' = [mu EXCEPT ![s] = "free"]
    /\ rconn' = [rconn EXCEPT ![s] = NoConn]
    /\ AttemptFails(s)
    /\ UNCHANGED <<conn, closed, alive, backVars, verdict, ctxDone, closeVars, linkVars>>

\* hello's write failed, or the frames could not be built.
HelloFails(s) ==
    /\ rpc[s] = "hello"
    /\ mu' = [mu EXCEPT ![s] = "free"]
    /\ CloseNow(s, rconn[s])
    /\ rconn' = [rconn EXCEPT ![s] = NoConn]
    /\ AttemptFails(s)
    /\ UNCHANGED <<conn, closed, alive, backVars, verdict, ctxDone, closeVars, cause, ka>>

\* conn.Read returns a data frame.
ReadFrame(s) ==
    /\ rpc[s] = "read"
    /\ link[s][rconn[s]] = "open"
    /\ delivered' = [delivered EXCEPT ![s] = TRUE]
    /\ waits'     = [waits EXCEPT ![s] = 0]
    /\ rconn'     = [rconn EXCEPT ![s] = NoConn]
    /\ Return(s, "frame", "up")
    /\ UNCHANGED <<slotVars, sockVars, delay, verdict, ctxDone, closeVars, linkVars>>

\* MarketStream.Next: an error frame refuses the subscription, and the reader
\* closes the stream itself before it returns the error.
ReadRefusal(s) ==
    /\ rpc[s] = "read" /\ s \notin Subscriptions
    /\ link[s][rconn[s]] = "open"
    /\ delivered' = [delivered EXCEPT ![s] = TRUE]
    /\ waits'     = [waits EXCEPT ![s] = 0]
    /\ rconn'     = [rconn EXCEPT ![s] = NoConn]
    /\ rpc'       = [rpc EXCEPT ![s] = "refused"]
    /\ cpc'       = [cpc EXCEPT ![s]["reader"] = "lock"]
    /\ UNCHANGED <<slotVars, sockVars, delay, verdict, ctxDone, phase, result, cconn, linkVars>>

RefusalReturns(s) ==
    /\ rpc[s] = "refused" /\ cpc[s]["reader"] = "idle"
    /\ Return(s, "refused", "ended")
    /\ UNCHANGED <<slotVars, sockVars, backVars, rconn, verdict, ctxDone, closeVars, linkVars>>

\* conn.Read fails: the connection broke or was closed by another goroutine, or
\* ctx is done, which makes the library close it.
ReadFails(s) ==
    /\ rpc[s] = "read"
    /\ \/ link[s][rconn[s]] \in {"broken", "closed", "killed"} /\ UNCHANGED link
       \/ ctxDone[s] /\ CloseNow(s, rconn[s])
    /\ rpc' = [rpc EXCEPT ![s] = "failed"]
    /\ UNCHANGED <<slotVars, sockVars, backVars, rconn, verdict, ctxDone, phase, result,
                   closeVars, cause, ka>>

\* read forgets the connection and stops its keepalive under mu.
ForgetConn(s) ==
    /\ rpc[s] = "failed" /\ mu[s] = "free"
    /\ conn'    = [conn EXCEPT ![s] = NoConn]
    /\ verdict' = [verdict EXCEPT ![s] = CASE closed[s] -> "closed"
                                           [] ~closed[s] /\ Stale(s) -> "stale"
                                           [] OTHER -> "disconnected"]
    /\ EndAlive(s)
    /\ rpc' = [rpc EXCEPT ![s] = "drop"]
    /\ UNCHANGED <<slotVars, mu, closed, backVars, rconn, ctxDone, phase, result, closeVars,
                   link, ka>>

\* read closes the connection, resets the backoff if it delivered something or
\* stayed up for healthyAfter, and returns.
DropConn(s) ==
    /\ rpc[s] = "drop"
    /\ CloseNow(s, rconn[s])
    /\ rconn' = [rconn EXCEPT ![s] = NoConn]
    /\ \/ /\ delivered[s]
          /\ delay' = [delay EXCEPT ![s] = 0]
          /\ UNCHANGED waits
       \/ /\ delay' = [delay EXCEPT ![s] = 0]
          /\ waits' = [waits EXCEPT ![s] = 0]
       \/ ~delivered[s] /\ UNCHANGED <<delay, waits>>
    /\ verdict' = [verdict EXCEPT ![s] = "none"]
    /\ IF verdict[s] = "closed"
       THEN Return(s, "closed", "ended")
       ELSE Return(s, IF ctxDone[s] THEN "ctx" ELSE verdict[s], "down")
    /\ UNCHANGED <<slotVars, sockVars, delivered, ctxDone, closeVars, cause, ka>>

-----------------------------------------------------------------------------
(* Close, from any goroutine                                               *)

CallClose(s) ==
    /\ phase[s] # "new"
    /\ cpc[s]["app"] = "idle"
    /\ cpc' = [cpc EXCEPT ![s]["app"] = "lock"]
    /\ UNCHANGED <<slotVars, sockVars, backVars, readVars, cconn, linkVars>>

CloseLock(s, t) ==
    /\ cpc[s][t] = "lock" /\ mu[s] = "free"
    /\ \/ /\ closed[s]
          /\ cpc' = [cpc EXCEPT ![s][t] = "idle"]
          /\ UNCHANGED <<sockVars, cconn, cause>>
       \/ /\ ~closed[s]
          /\ cpc'    = [cpc EXCEPT ![s][t] = "release"]
          /\ closed' = [closed EXCEPT ![s] = TRUE]
          /\ cconn'  = [cconn EXCEPT ![s][t] = conn[s]]
          /\ conn'   = [conn EXCEPT ![s] = NoConn]
          /\ EndAlive(s)
          /\ UNCHANGED mu
    /\ UNCHANGED <<slotVars, backVars, readVars, link, ka>>

CloseRelease(s, t) ==
    /\ cpc[s][t] = "release"
    /\ Release(s)
    /\ cpc' = [cpc EXCEPT ![s][t] = "drop"]
    /\ UNCHANGED <<sockVars, backVars, readVars, cconn, linkVars>>

CloseDrop(s, t) ==
    /\ cpc[s][t] = "drop"
    /\ IF cconn[s][t] # NoConn THEN CloseNow(s, cconn[s][t]) ELSE UNCHANGED link
    /\ cpc'   = [cpc EXCEPT ![s][t] = "idle"]
    /\ cconn' = [cconn EXCEPT ![s][t] = NoConn]
    /\ UNCHANGED <<slotVars, sockVars, backVars, readVars, cause, ka>>

-----------------------------------------------------------------------------
(* Subscription.send: a frame written under mu by another goroutine        *)

WriteBegins(s) ==
    /\ s \in Subscriptions
    /\ mu[s] = "free" /\ ~closed[s] /\ conn[s] # NoConn
    /\ mu' = [mu EXCEPT ![s] = "write"]
    /\ UNCHANGED <<slotVars, conn, closed, alive, backVars, readVars, closeVars, linkVars>>

\* The write returns.  Its own ctx may expire inside it, which makes the library
\* close the connection.
WriteEnds(s) ==
    /\ mu[s] = "write"
    /\ mu' = [mu EXCEPT ![s] = "free"]
    /\ \/ UNCHANGED link
       \/ CloseNow(s, conn[s])
    /\ UNCHANGED <<slotVars, conn, closed, alive, backVars, readVars, closeVars, cause, ka>>

-----------------------------------------------------------------------------
(* keepalive: one goroutine per connection, never under mu                 *)

KeepaliveTick(s, g) ==
    /\ ka[s][g] = "tick"
    /\ ka' = [ka EXCEPT ![s][g] = "ping"]
    /\ UNCHANGED <<slotVars, sockVars, backVars, readVars, closeVars, link, cause>>

KeepaliveQuit(s, g) ==
    /\ ka[s][g] = "tick" /\ cause[s][g] # "live"
    /\ ka' = [ka EXCEPT ![s][g] = "off"]
    /\ UNCHANGED <<slotVars, sockVars, backVars, readVars, closeVars, link, cause>>

\* conn.Ping returns nil: the peer answered, and Next was there to read the pong.
PingAnswered(s, g) ==
    /\ ka[s][g] = "ping"
    /\ link[s][g] = "open" /\ rpc[s] = "read" /\ rconn[s] = g
    /\ ka' = [ka EXCEPT ![s][g] = "tick"]
    /\ UNCHANGED <<slotVars, sockVars, backVars, readVars, closeVars, link, cause>>

\* The connection a ping failed on for another reason than its deadline: it may
\* look open until then, and is broken afterwards unless alive has ended.
PingBreaks(s, g) ==
    \/ /\ cause[s][g] # "live" \/ link[s][g] \in {"broken", "closed", "killed"}
       /\ UNCHANGED link
    \/ /\ link[s][g] \in {"open", "silent"}
       /\ link' = [link EXCEPT ![s][g] = "broken"]

\* Mutant: a failed ping is tried again at the next tick.
PingFailsGoesOn(s, g) ==
    /\ ka[s][g] = "ping"
    /\ PingBreaks(s, g)
    /\ ka' = [ka EXCEPT ![s][g] = "tick"]
    /\ UNCHANGED <<slotVars, sockVars, backVars, readVars, closeVars, cause>>

\* conn.Ping fails for another reason than its deadline, whatever it is.
PingFails(s, g) ==
    /\ ka[s][g] = "ping"
    /\ PingBreaks(s, g)
    /\ ka' = [ka EXCEPT ![s][g] = "off"]
    /\ UNCHANGED <<slotVars, sockVars, backVars, readVars, closeVars, cause>>

PingTimesOut(s, g) ==
    /\ ka[s][g] = "ping" /\ cause[s][g] = "live"
    /\ ka' = [ka EXCEPT ![s][g] = "stop"]
    /\ UNCHANGED <<slotVars, sockVars, backVars, readVars, closeVars, link, cause>>

\* stop(ErrConnectionStale): the first cause a context ends with stays.
KeepaliveStop(s, g) ==
    /\ ka[s][g] = "stop"
    /\ ka'    = [ka EXCEPT ![s][g] = "kill"]
    /\ cause' = [cause EXCEPT ![s][g] = IF @ = "live" THEN "stale" ELSE @]
    /\ UNCHANGED <<slotVars, sockVars, backVars, readVars, closeVars, link>>

\* Mutant: the keepalive takes mu to close.
KeepaliveKillLocked(s, g) ==
    /\ ka[s][g] = "kill" /\ mu[s] = "free"
    /\ ka'   = [ka EXCEPT ![s][g] = "off"]
    /\ link' = IF link[s][g] = "closed" THEN link ELSE [link EXCEPT ![s][g] = "killed"]
    /\ UNCHANGED <<slotVars, sockVars, backVars, readVars, closeVars, cause>>

\* conn.CloseNow of the connection the goroutine was started with
KeepaliveKill(s, g) ==
    /\ ka[s][g] = "kill"
    /\ ka'   = [ka EXCEPT ![s][g] = "off"]
    /\ link' = IF link[s][g] = "closed" THEN link ELSE [link EXCEPT ![s][g] = "killed"]
    /\ UNCHANGED <<slotVars, sockVars, backVars, readVars, closeVars, cause>>

-----------------------------------------------------------------------------
(* The network: a connection goes silent (half-open), or breaks visibly    *)

GoSilent(s, g) ==
    /\ link[s][g] = "open"
    /\ link' = [link EXCEPT ![s][g] = "silent"]
    /\ UNCHANGED <<slotVars, sockVars, backVars, readVars, closeVars, cause, ka>>

Break(s, g) ==
    /\ link[s][g] \in {"open", "silent"}
    /\ link' = [link EXCEPT ![s][g] = "broken"]
    /\ UNCHANGED <<slotVars, sockVars, backVars, readVars, closeVars, cause, ka>>

-----------------------------------------------------------------------------
Reader(s) ==
    \/ Look(s) \/ WaitEnds(s) \/ DialOK(s) \/ DialFails(s) \/ ConnectLock(s)
    \/ HelloOK(s) \/ HelloFails(s) \/ ReadFrame(s) \/ ReadRefusal(s) \/ RefusalReturns(s)
    \/ ReadFails(s) \/ ForgetConn(s) \/ DropConn(s)

Closer(s, t) == CloseLock(s, t) \/ CloseRelease(s, t) \/ CloseDrop(s, t)

KeepaliveOf(s, g) ==
    \/ KeepaliveTick(s, g) \/ KeepaliveQuit(s, g) \/ PingAnswered(s, g) \/ PingFails(s, g)
    \/ PingTimesOut(s, g) \/ KeepaliveStop(s, g) \/ KeepaliveKill(s, g)

Program(s) ==
    \/ Open(s) \/ OpenRefused(s) \/ CallNext(s) \/ CancelCtx(s) \/ CallClose(s)
    \/ WriteBegins(s) \/ WriteEnds(s)

Network(s, g) == GoSilent(s, g) \/ Break(s, g)

Next ==
    \E s \in Streams :
        \/ Program(s) \/ Reader(s)
        \/ \E t \in Closers : Closer(s, t)
        \/ \E g \in Gens : KeepaliveOf(s, g) \/ Network(s, g)

Spec == Init /\ [][Next]_vars

\* hello writes to a connection that went silent: no timeout but that of Next's
\* own ctx, and no keepalive yet.
HelloBlocked(s) == rpc[s] = "hello" /\ link[s][rconn[s]] = "silent" /\ ~ctxDone[s]

\* A goroutine inside a call goes on.  sync.Mutex is starvation free, so what
\* waits for mu gets it although writers keep taking it.  A dial ends by the HTTP
\* client's timeout.  A blocked read, and a write on a connection that went
\* silent, end only when the connection does; a blocked hello also with its ctx.
ReaderFairness(s) ==
    /\ WF_vars(~HelloBlocked(s) /\ Reader(s))
    /\ SF_vars(Look(s)) /\ SF_vars(ConnectLock(s)) /\ SF_vars(ForgetConn(s))
CloserFairness(s, t) ==
    /\ SF_vars(CloseLock(s, t)) /\ WF_vars(CloseRelease(s, t)) /\ WF_vars(CloseDrop(s, t))
WriterFairness(s) ==
    WF_vars(conn[s] # NoConn /\ link[s][conn[s]] # "silent" /\ WriteEnds(s))

Fairness ==
    \A s \in Streams :
        /\ ReaderFairness(s)
        /\ WriterFairness(s)
        /\ \A t \in Closers : CloserFairness(s, t)
        /\ \A g \in Gens : WF_vars(KeepaliveOf(s, g))

FairSpec == Spec /\ Fairness

-----------------------------------------------------------------------------
(* Properties                                                              *)

SlotType ==
    /\ connSlots \in 0..MaxConnections
    /\ freed     \in [Streams -> BOOLEAN]
SockType ==
    /\ mu        \in [Streams -> {"free", "hello", "write"}]
    /\ conn      \in [Streams -> Gens \cup {NoConn}]
    /\ closed    \in [Streams -> BOOLEAN]
    /\ alive     \in [Streams -> Gens \cup {NoConn}]
BackType ==
    /\ delay     \in [Streams -> 0..MaxDelay]
    /\ delivered \in [Streams -> BOOLEAN]
    /\ waits     \in [Streams -> 0..MaxWaits]
ReadType ==
    /\ rpc       \in [Streams -> ReaderAt]
    /\ rconn     \in [Streams -> Gens \cup {NoConn}]
    /\ verdict   \in [Streams -> {"none", "closed", "stale", "disconnected"}]
    /\ ctxDone   \in [Streams -> BOOLEAN]
    /\ phase     \in [Streams -> {"new", "up", "down", "ended"}]
    /\ result    \in [Streams -> Results]
CloseType ==
    /\ cpc       \in [Streams -> [Closers -> {"idle", "lock", "release", "drop"}]]
    /\ cconn     \in [Streams -> [Closers -> Gens \cup {NoConn}]]
LinkType ==
    /\ link      \in [Streams -> [Gens -> {"open", "silent", "broken", "closed", "killed"}]]
    /\ cause     \in [Streams -> [Gens -> {"live", "canceled", "stale"}]]
    /\ ka        \in [Streams -> [Gens -> {"off", "tick", "ping", "stop", "kill"}]]

\* Every variable keeps its type; in particular the channel connSlots never
\* exceeds its capacity and a backoff never leaves its bounds.
TypeOK == SlotType /\ SockType /\ BackType /\ ReadType /\ CloseType /\ LinkType

\* The streams that should hold a token: opening or open, and not yet through the
\* release of a Close.
Closing(s, t) == cpc[s][t] \in {"release", "drop"}
Holders ==
    {s \in Streams : /\ rpc[s] # "new"
                     /\ closed[s] => \E t \in Closers : cpc[s][t] = "release"}

\* socket.go:21-23: connSlots holds exactly one token per open stream, from open
\* until Close, whichever of openSocket, the reader and Close gives it back: a
\* failed open leaks none, and two Closes (one of them the reader's, on a refusal)
\* never give one back twice.
SlotPerStream == connSlots = Cardinality(Holders)

OpenLink(s, g) == link[s][g] \in {"open", "silent", "broken"}

\* A stream never has two connections open: the reader dials only after it
\* closed the last one, and a Close that raced it leaves nothing to dial for.
OneConnection ==
    \A s \in Streams : \A g, h \in Gens : OpenLink(s, g) /\ OpenLink(s, h) => g = h

\* No connection is left open that nobody will close: it is the stream's current
\* one, or a goroutine that is going to close or install it holds it.
NoLeakedConnection ==
    \A s \in Streams : \A g \in Gens :
        OpenLink(s, g) =>
            \/ conn[s] = g
            \/ rconn[s] = g /\ rpc[s] \in {"lock", "hello", "failed", "drop"}
            \/ \E t \in Closers : cconn[s][t] = g /\ Closing(s, t)

\* socket.go:86: alive ends with the current conn.  Only the connection the stream
\* uses now has a live keepalive, a closed stream has none, and s.alive is never
\* the context of another connection than s.conn.
KeepaliveFollowsConn ==
    \A s \in Streams :
        /\ alive[s] = IF s \in Pinged THEN conn[s] ELSE NoConn
        /\ closed[s] => conn[s] = NoConn
        /\ \A g \in Gens : cause[s][g] = "live" => alive[s] = g

\* socket.go:32-35: a read that fails because the keepalive closed the connection
\* is reported as ErrConnectionStale unless the stream was closed, and no read
\* is reported so for any other connection's ping.
StaleIsReported ==
    [][\A s \in Streams :
         ForgetConn(s) /\ ~closed[s] =>
             /\ link[s][rconn[s]] = "killed" => verdict'[s] = "stale"
             /\ verdict'[s] = "stale" => cause[s][rconn[s]] = "stale"]_vars

\* socket.go:229-243 and 217-219: the delay before an attempt is the one a count
\* of the attempts since a connection last proved useful calls for, although the
\* code keeps no count: it relies on resetting delivered on every connect.
Backoff(n) == AtMost(Doubled[n - 1], MaxDelay)
BackoffEscalates ==
    \A s \in Streams : rpc[s] = "wait" => waits[s] > 0 /\ delay[s] = Backoff(waits[s])

\* socket.go:14-19: maxConnections alone does not bound the connections the process
\* holds; what does is the tokens taken, and the streams whose Close or whose
\* interrupted dial has yet to close its connection.
Winding(s) ==
    /\ closed[s]
    /\ \/ \E t \in Closers : cpc[s][t] = "drop" /\ cconn[s][t] # NoConn
       \/ rpc[s] \in {"lock", "failed", "drop"}
ConnectionsAccounted ==
    Cardinality({p \in Streams \X Gens : OpenLink(p[1], p[2])})
        <= connSlots + Cardinality({s \in Streams \ Holders : Winding(s)})

\* Close of a pinged stream returns, even while a write holds mu on a connection
\* that went silent: the keepalive, which never takes mu, closes that connection.
\* The one thing it can wait for without end is a hello of Next (socket.go:129),
\* held up on a silent connection that nothing pings yet, under a ctx that does
\* not end.
CloseReturns ==
    \A s \in Pinged, t \in Closers :
        []<>~HelloBlocked(s) => (cpc[s][t] = "lock" ~> cpc[s][t] = "idle")

\* Once Close ran, the call of Next in progress returns, from a read on a silent
\* connection and from a backoff alike.
CloseWakesNext ==
    \A s \in Streams : closed[s] /\ rpc[s] # "app" ~> rpc[s] = "app"

\* ws.go:126-132: a half-open connection does not stay in use: the keepalive
\* closes it if nothing else does.
SilenceEnds ==
    \A s \in Pinged : \A g \in Gens :
        conn[s] = g /\ link[s][g] = "silent" ~> link[s][g] # "silent"

\* socket.go:141-142: the keepalive goroutine of a connection that is no longer
\* the current one ends.
KeepaliveEnds ==
    \A s \in Streams : \A g \in Gens :
        alive[s] # g ~> ka[s][g] = "off" \/ alive[s] = g

-----------------------------------------------------------------------------
(* Every stream's calls of Next keep the contract of StreamContract.       *)

Contract == INSTANCE StreamContract WITH holders <- Holders
ContractHolds == Contract!Spec
=============================================================================
