---------------------------- MODULE Subscription ----------------------------
(***************************************************************************)
(* The account socket's protocol (ws.go): channels, their cursors, resume   *)
(* after a reconnect, and resynchronisation after out_of_sync.  The module  *)
(* holds one Subscription, the application that reads it and subscribes     *)
(* from other goroutines, both directions of its connection, and the        *)
(* server, which is external and modelled from how ws.go uses it.           *)
(*                                                                          *)
(* The connection itself is abstracted to nil, open or broken; Socket has   *)
(* its locks, keepalive and backoff.  A critical section of mu is one step. *)
(***************************************************************************)
EXTENDS Integers, Sequences, FiniteSets, SequencesExt

CONSTANTS
    Channels,      \* the (channel, market) pairs
    NameOf,        \* NameOf[ch]: the channel's wire name, without its market
    MayRefuse,     \* the server may answer a subscribe with an error frame
    RereadAtOnce,  \* the application re-reads over REST at OutOfSync, not at the ack
    Redundant,     \* the application may subscribe to what it has subscribed to
    MaxSeq, MaxQueue, MaxDrops, MaxCalls  \* bounds of the model

ASSUME SubscriptionAssumption ==
    /\ IsFiniteSet(Channels)
    /\ {MayRefuse, RereadAtOnce, Redundant} \subseteq BOOLEAN
    /\ {MaxSeq, MaxQueue, MaxDrops, MaxCalls} \subseteq Nat

VARIABLES
    head, oldest,        \* server: last seq published, oldest seq still held
    live,                \* server: channels this connection is subscribed to
    toServer, toClient,  \* the frames in flight on the connection
    conn,                \* "nil", "open" or "broken"
    closed,
    subs, cursors,       \* Subscription.subs and .cursors
    inHand,              \* the frame read and not yet decoded
    pending,             \* Subscription.pending: OutOfSync events, by their channel
    view,                \* history: the seq up to which the application is current
    drops, calls         \* bounded counters of drops and of calls

serverVars == <<head, oldest, live>>
wireVars   == <<toServer, toClient, conn>>
clientVars == <<closed, subs, cursors>>
readVars   == <<inHand, pending>>
countVars  == <<drops, calls>>
vars == <<serverVars, wireVars, clientVars, readVars, view, countVars>>

None    == -1                \* no cursor, no view: below every seq
NoFrame == [op |-> "none"]

\* The frames of both directions.  scope is the set of channels an out_of_sync
\* names: one, or every market of a name.
SubscribeFrameLive(ch)      == [op |-> "subscribe", ch |-> ch, since |-> None]  \* mutant
SubscribeFrameInclusive(ch) ==  \* mutant: since names the first event wanted
    [op |-> "subscribe", ch |-> ch,
     since |-> IF cursors[ch] = 0 THEN 0 ELSE IF cursors[ch] = None THEN None ELSE cursors[ch] - 1]
SubscribeFrame(ch)   == [op |-> "subscribe", ch |-> ch, since |-> cursors[ch]]
UnsubscribeFrame(ch) == [op |-> "unsubscribe", ch |-> ch]
AckFrame(ch, seq)    == [op |-> "subscribed", ch |-> ch, seq |-> seq]
ByeFrame(ch)         == [op |-> "unsubscribed", ch |-> ch]
EventFrame(ch, seq)  == [op |-> "event", ch |-> ch, seq |-> seq]
LostFrame(scope)     == [op |-> "out_of_sync", scope |-> scope]
ErrorFrame           == [op |-> "error"]

\* hello's frames, in the random order of a Go map
Hellos == {[i \in DOMAIN order |-> SubscribeFrame(order[i])] : order \in SetToSeqs(subs)}

\* Client.Subscribe has returned: the first connection carries the subscribes.
Init ==
    /\ head    = [ch \in Channels |-> 0]
    /\ oldest  = [ch \in Channels |-> 1]
    /\ live    = {}
    /\ subs    \in SUBSET Channels
    /\ cursors = [ch \in Channels |-> None]
    /\ conn    = "open"
    /\ toServer \in Hellos
    /\ toClient = <<>>
    /\ closed  = FALSE
    /\ inHand  = NoFrame
    /\ pending = <<>>
    /\ view    = [ch \in Channels |-> None]
    /\ drops = 0 /\ calls = 0

-----------------------------------------------------------------------------
(* Next: the reader                                                        *)

\* Next reads a frame only when nothing is pending.
Idle == inHand = NoFrame /\ pending = <<>>

ReadFrame ==
    /\ Idle /\ ~closed /\ conn = "open" /\ toClient # <<>>
    /\ inHand'   = Head(toClient)
    /\ toClient' = Tail(toClient)
    /\ UNCHANGED <<serverVars, toServer, conn, clientVars, pending, view, countVars>>

\* The connection is gone: nothing in flight arrives, and the server forgets it.
LoseWires == toServer' = <<>> /\ toClient' = <<>> /\ live' = {}

Breaks ==
    /\ drops < MaxDrops
    /\ conn' = "broken"
    /\ LoseWires
    /\ drops' = drops + 1

ReadFails ==
    /\ Idle /\ ~closed /\ conn = "broken"
    /\ conn' = "nil"
    /\ UNCHANGED <<head, oldest, live, toServer, toClient, clientVars, inHand, pending,
                   view, countVars>>

\* Cancelling the ctx of Next closes the connection.
CtxDone ==
    /\ Idle /\ ~closed /\ conn = "open" /\ drops < MaxDrops
    /\ conn' = "nil"
    /\ LoseWires
    /\ drops' = drops + 1
    /\ UNCHANGED <<head, oldest, clientVars, inHand, pending, view, calls>>

\* Reconnecting subscribes every channel again, from its cursor if it has one.
Reconnect ==
    /\ Idle /\ ~closed /\ conn = "nil"
    /\ conn' = "open"
    /\ toServer' \in Hellos
    /\ toClient' = <<>>
    /\ UNCHANGED <<serverVars, clientVars, inHand, pending, view, countVars>>

\* What the application is current up to once it has dealt with an OutOfSync: what
\* REST says now, or nothing until the new subscription is acknowledged.
Reread(ch) == IF RereadAtOnce THEN head[ch] ELSE None

\* Next returns what an earlier frame left, before it looks at anything else.
PopPending ==
    /\ inHand = NoFrame /\ pending # <<>>
    /\ pending' = Tail(pending)
    /\ view'    = [view EXCEPT ![Head(pending)] = Reread(Head(pending))]
    /\ UNCHANGED <<serverVars, wireVars, clientVars, inHand, countVars>>

\* Mutant: the cursor is the next seq wanted.
AdvanceToNext(ch, seq) ==
    cursors' = IF ch \in subs /\ seq >= cursors[ch]
               THEN [cursors EXCEPT ![ch] = seq + 1] ELSE cursors

\* advance: the cursor is the highest seq seen of a channel that is subscribed.
Advance(ch, seq) ==
    cursors' = IF ch \in subs /\ seq > cursors[ch] THEN [cursors EXCEPT ![ch] = seq] ELSE cursors

\* An application that is not current with ch becomes so at the ack: it reads the
\* state over REST now, and counts on every later event.
DecodeSubscribed ==
    /\ inHand.op = "subscribed"
    /\ LET ch == inHand.ch IN
          /\ Advance(ch, inHand.seq)
          /\ view' = IF ch \in subs /\ view[ch] = None
                     THEN [view EXCEPT ![ch] = inHand.seq] ELSE view
    /\ inHand' = NoFrame
    /\ UNCHANGED <<serverVars, wireVars, closed, subs, pending, countVars>>

DecodeEvent ==
    /\ inHand.op = "event"
    /\ LET ch == inHand.ch IN
          /\ Advance(ch, inHand.seq)
          /\ view' = IF view[ch] # None /\ inHand.seq > view[ch]
                     THEN [view EXCEPT ![ch] = inHand.seq] ELSE view
    /\ inHand' = NoFrame
    /\ UNCHANGED <<serverVars, wireVars, closed, subs, pending, countVars>>

DecodeUnsubscribed ==
    /\ inHand.op = "unsubscribed"
    /\ view'   = [view EXCEPT ![inHand.ch] = None]
    /\ inHand' = NoFrame
    /\ UNCHANGED <<serverVars, wireVars, clientVars, pending, countVars>>

\* ServerError: the connection stays up and nothing is tracked.
DecodeError ==
    /\ inHand.op = "error"
    /\ inHand' = NoFrame
    /\ UNCHANGED <<serverVars, wireVars, clientVars, pending, view, countVars>>

\* What becomes of frames written to the connection: they go out, or the write
\* fails, which leaves the connection broken.
Write(frames) ==
    \/ conn \in {"nil", "broken"} /\ UNCHANGED <<wireVars, live, drops>>
    \/ /\ conn = "open"
       /\ toServer' = toServer \o frames
       /\ UNCHANGED <<toClient, conn, live, drops>>
    \/ conn = "open" /\ Breaks

\* resync: every subscription the frame names loses its cursor and is subscribed
\* again from the live edge, if there is a connection; the results of the writes
\* are ignored.  Next returns the first OutOfSync and keeps the others, or reads on.
Fresh(ch) == [op |-> "subscribe", ch |-> ch, since |-> None]

HitIfNamed(frame) ==  \* mutant: a frame that names no market hits nothing
    IF Cardinality(frame.scope) = 1 THEN frame.scope \cap subs ELSE {}
\* the subscriptions an out_of_sync hits
Hit(frame) == frame.scope \cap subs

DecodeOutOfSync ==
    /\ inHand.op = "out_of_sync"
    /\ LET hit == Hit(inHand) IN
          /\ cursors' = [ch \in Channels |-> IF ch \in hit THEN None ELSE cursors[ch]]
          /\ \E order \in SetToSeqs(hit) :
                /\ Write([i \in DOMAIN order |-> Fresh(order[i])])
                /\ \/ hit = {} /\ UNCHANGED <<pending, view>>
                   \/ /\ hit # {}
                      /\ pending' = Tail(order)
                      /\ view' = [view EXCEPT ![Head(order)] = Reread(Head(order))]
    /\ inHand' = NoFrame
    /\ UNCHANGED <<head, oldest, closed, subs, calls>>

-----------------------------------------------------------------------------
(* Subscribe, Unsubscribe and Close, from other goroutines                 *)

\* send adds ch whether or not the write then fails, and writes only when there
\* is a connection.
Subscribe(ch) ==
    /\ ~closed /\ calls < MaxCalls
    /\ ch \notin subs \/ Redundant
    /\ subs'  = subs \cup {ch}
    /\ Write(<<SubscribeFrame(ch)>>)
    /\ calls' = calls + 1
    /\ UNCHANGED <<head, oldest, closed, cursors, readVars, view>>

\* The application forgets its view of what it unsubscribes from.
Unsubscribe(ch) ==
    /\ ~closed /\ calls < MaxCalls
    /\ subs'    = subs \ {ch}
    /\ cursors' = [cursors EXCEPT ![ch] = None]
    /\ view'    = [view EXCEPT ![ch] = None]
    /\ Write(<<UnsubscribeFrame(ch)>>)
    /\ calls' = calls + 1
    /\ UNCHANGED <<head, oldest, closed, readVars>>

Close ==
    /\ ~closed /\ calls < MaxCalls
    /\ closed' = TRUE
    /\ conn'   = "nil"
    /\ LoseWires
    /\ calls' = calls + 1
    /\ UNCHANGED <<head, oldest, subs, cursors, readVars, view, drops>>

-----------------------------------------------------------------------------
(* The network and the server (external)                                   *)

Drop ==
    /\ conn = "open" /\ Breaks
    /\ UNCHANGED <<head, oldest, clientVars, readVars, view, calls>>

Publish(ch) ==
    /\ head[ch] < MaxSeq /\ Len(toClient) < MaxQueue
    /\ head' = [head EXCEPT ![ch] = @ + 1]
    /\ toClient' = IF ch \in live THEN Append(toClient, EventFrame(ch, head'[ch])) ELSE toClient
    /\ UNCHANGED <<oldest, live, toServer, conn, clientVars, readVars, view, countVars>>

\* The server forgets the oldest seq it holds.
Trim(ch) ==
    /\ oldest[ch] <= head[ch]
    /\ oldest' = [oldest EXCEPT ![ch] = @ + 1]
    /\ UNCHANGED <<head, live, wireVars, clientVars, readVars, view, countVars>>

\* A subscribe joins at the live edge, after the events since its since if it has
\* one and the server still holds them all; otherwise it is not kept.  The ack
\* follows the replay: decode takes seq_at_join as a cursor at once, which a server
\* that acknowledged first would make wrong.
ServerSubscribes ==
    /\ toServer # <<>> /\ Head(toServer).op = "subscribe"
    /\ LET ch == Head(toServer).ch
           since == Head(toServer).since
           from == IF since = None THEN head[ch] ELSE since
           replay == [i \in 1..(head[ch] - from) |-> EventFrame(ch, from + i)]
       IN \/ /\ oldest[ch] <= from + 1
             /\ toClient' = toClient \o Append(replay, AckFrame(ch, head[ch]))
             /\ live' = live \cup {ch}
          \/ /\ oldest[ch] > from + 1
             /\ toClient' = Append(toClient, LostFrame({ch}))
             /\ live' = live \ {ch}
          \/ /\ MayRefuse
             /\ toClient' = Append(toClient, ErrorFrame)
             /\ UNCHANGED live
    /\ toServer' = Tail(toServer)
    /\ UNCHANGED <<head, oldest, conn, clientVars, readVars, view, countVars>>

ServerUnsubscribes ==
    /\ toServer # <<>> /\ Head(toServer).op = "unsubscribe"
    /\ live' = live \ {Head(toServer).ch}
    /\ toClient' = Append(toClient, ByeFrame(Head(toServer).ch))
    /\ toServer' = Tail(toServer)
    /\ UNCHANGED <<head, oldest, conn, clientVars, readVars, view, countVars>>

\* The connection fell behind the broadcast of a name: the server ends every
\* subscription of that name and names no market.
FallBehind(name) ==
    LET scope == {ch \in Channels : NameOf[ch] = name} IN
    /\ scope \cap live # {} /\ drops < MaxDrops
    /\ live' = live \ scope
    /\ toClient' = Append(toClient, LostFrame(scope))
    /\ drops' = drops + 1
    /\ UNCHANGED <<head, oldest, toServer, conn, clientVars, readVars, view, calls>>

-----------------------------------------------------------------------------
Decode ==
    \/ DecodeSubscribed \/ DecodeEvent \/ DecodeUnsubscribed \/ DecodeError \/ DecodeOutOfSync

Reader == ReadFrame \/ Decode \/ PopPending \/ ReadFails \/ Reconnect

Server == ServerSubscribes \/ ServerUnsubscribes

Next ==
    \/ Reader \/ CtxDone \/ Close \/ Drop \/ Server
    \/ \E ch \in Channels : Subscribe(ch) \/ Unsubscribe(ch) \/ Publish(ch) \/ Trim(ch)
    \/ \E name \in {NameOf[ch] : ch \in Channels} : FallBehind(name)

Spec == Init /\ [][Next]_vars

\* The application keeps calling Next, and the server reads what it is sent.
Fairness == WF_vars(Reader) /\ WF_vars(Server)
FairSpec == Spec /\ Fairness

-----------------------------------------------------------------------------
(* Properties                                                              *)

Seqs == 0..MaxSeq

TypeOK ==
    /\ head    \in [Channels -> Seqs]
    /\ oldest  \in [Channels -> 1..(MaxSeq + 1)]
    /\ live    \subseteq Channels
    /\ conn    \in {"nil", "open", "broken"}
    /\ closed  \in BOOLEAN
    /\ subs    \subseteq Channels
    /\ cursors \in [Channels -> Seqs \cup {None}]
    /\ inHand.op \in {"none", "subscribed", "unsubscribed", "event", "out_of_sync", "error"}
    /\ view    \in [Channels -> Seqs \cup {None}]
    /\ drops \in 0..MaxDrops /\ calls \in 0..MaxCalls

\* ws.go:114-121: an application that was current with a channel is given every
\* later event, across drops, reconnects and calls of Subscribe, until OutOfSync
\* tells it that it is not: no event is skipped in silence.
NoSilentGap ==
    [][DecodeEvent /\ view[inHand.ch] # None => inHand.seq <= view[inHand.ch] + 1]_vars

\* ws.go:114-117: a cursor never runs ahead of what the application was given, or
\* the next reconnect would resume behind events it never saw.
CursorNotAhead ==
    \A ch \in subs : view[ch] # None => cursors[ch] <= view[ch]

\* ws.go:154-155: Seq increases per (channel, market): an application that is
\* current is given no event twice, across reconnects and resynchronisations too.
SeqIncreases ==
    [][DecodeEvent /\ view[inHand.ch] # None => view[inHand.ch] < inHand.seq]_vars

\* ws.go:117-119 and 383: a channel that stays subscribed is served again once the
\* connection stops dropping, after a drop and after an out_of_sync.
ChannelServed ==
    \A ch \in Channels :
        <>[](ch \in subs /\ ~closed) => []<>(ch \in live)
=============================================================================
