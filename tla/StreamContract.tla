--------------------------- MODULE StreamContract ---------------------------
(***************************************************************************)
(* What the callers of openSocket, Next and Close are promised, without    *)
(* connections, locks or goroutines: which streams hold one of the         *)
(* process's slots, and in which order the results of Next may come.       *)
(***************************************************************************)
EXTENDS Integers, FiniteSets

CONSTANTS Streams, MaxConnections

VARIABLES
    holders,  \* the streams that hold a slot
    phase,    \* "new", "up" (connected), "down" (told of a drop), "ended"
    result    \* what the last call returned

vars == <<holders, phase, result>>

Init ==
    /\ holders = {}
    /\ phase  = [s \in Streams |-> "new"]
    /\ result = [s \in Streams |-> "none"]

\* A call of Next on s returns r, which moves the caller to phase p.
Returns(s, r, p) ==
    /\ result' = [result EXCEPT ![s] = r]
    /\ phase'  = [phase EXCEPT ![s] = p]

Take(s) ==
    /\ phase[s] = "new" /\ s \notin holders
    /\ Cardinality(holders) < MaxConnections
    /\ holders' = holders \cup {s}
    /\ result' = [result EXCEPT ![s] = "none"]
    /\ UNCHANGED phase

Refuse(s) ==
    /\ phase[s] = "new" /\ Cardinality(holders) = MaxConnections
    /\ Returns(s, "openfailed", "new")
    /\ UNCHANGED holders

OpenFails(s) ==
    /\ phase[s] = "new" /\ s \in holders
    /\ holders' = holders \ {s}
    /\ Returns(s, "openfailed", "new")

Opens(s) ==
    /\ phase[s] = "new" /\ s \in holders
    /\ Returns(s, "opened", "up")
    /\ UNCHANGED holders

\* Close gives the slot of an open stream back, once.
GiveBack(s) ==
    /\ phase[s] # "new" /\ s \in holders
    /\ holders' = holders \ {s}
    /\ UNCHANGED <<phase, result>>

Call(s) ==
    /\ phase[s] # "new"
    /\ result' = [result EXCEPT ![s] = "none"]
    /\ UNCHANGED <<holders, phase>>

Frame(s) == phase[s] = "up" /\ Returns(s, "frame", "up") /\ UNCHANGED holders

Drop(s, r) ==
    /\ phase[s] \in {"up", "down"} /\ r \in {"disconnected", "ctx"}
    /\ Returns(s, r, "down")
    /\ UNCHANGED holders

\* Only a connection that was up can be found stale.
GoesStale(s) == phase[s] = "up" /\ Returns(s, "stale", "down") /\ UNCHANGED holders

\* A stream comes back only after its caller was told it was down, and only while
\* it holds its slot.
Reconnects(s) ==
    /\ phase[s] = "down" /\ s \in holders
    /\ Returns(s, "reconnected", "up")
    /\ UNCHANGED holders

\* ErrStreamClosed is for good: nothing but itself follows it.
Ends(s) ==
    /\ phase[s] # "new"
    /\ Returns(s, "closed", "ended")
    /\ UNCHANGED holders

\* The server refused the subscription.  The slot may be free only later, when
\* another Close came first and is still at work.
Refused(s) ==
    /\ phase[s] = "up"
    /\ Returns(s, "refused", "ended")
    /\ UNCHANGED holders

Next ==
    \E s \in Streams :
        \/ Take(s) \/ Refuse(s) \/ OpenFails(s) \/ Opens(s) \/ GiveBack(s) \/ Call(s)
        \/ Frame(s) \/ GoesStale(s) \/ Reconnects(s) \/ Ends(s) \/ Refused(s)
        \/ \E r \in {"disconnected", "ctx"} : Drop(s, r)

Spec == Init /\ [][Next]_vars
=============================================================================
