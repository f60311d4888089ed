--------------------------------- MODULE Rest ---------------------------------
(***************************************************************************)
(* The REST side of the client: calls made by concurrent goroutines on one  *)
(* Client (internal/transport/transport.go), the credential that signs them *)
(* (a wallet session, session.go; an agent key, internal/signing/agent.go;  *)
(* or none), the owner lookup of an API key (auth.go), and a server behind  *)
(* a network that loses and delays.  The waits for a budget are taken as    *)
(* waits of any length: module RateLimit has the buckets.                   *)
(*                                                                          *)
(* A tick is half of sessionMargin, as long as the HTTP client's timeout.   *)
(***************************************************************************)
EXTENDS Operations

CONSTANTS
    Calls,          \* the calls made, each by a goroutine of its own
    None,
    Ops,            \* the credentials a client may be built with, each with the operations called on it
    MaxRetries,     \* maxRetries
    TTL,            \* sessionTTL, in ticks
    Margin,         \* sessionMargin, in ticks
    Timeout,        \* the HTTP client's timeout, in ticks
    MaxRestarts,    \* bound of the restarts
    MaxNow          \* bound of the clock

ASSUME RestAssumption ==
    /\ DOMAIN Ops \subseteq {"none", "hmac", "session", "wallet", "agent"}
    /\ \A k \in DOMAIN Ops : Ops[k] \subseteq AllOps
    /\ {MaxRetries, TTL, Margin, Timeout, MaxRestarts, MaxNow} \subseteq Nat
    /\ MaxNow > 0 /\ Timeout < Margin /\ Margin < TTL /\ 2 * Timeout < TTL
    /\ None \notin Calls

VARIABLES
    cred,       \* the credential of the client
    refuse,     \* Transport.Refuse is set: a Mainnet client
    now,        \* the process's clock; also the agent's milliseconds
    call,       \* the calls, see CallType
    mu,         \* bearer.mu: the call that signs in, or None
    session,    \* bearer.session: when it lapses here and at the server, or None
    ownerMu,    \* the mutex of ownerFromServer
    owner,      \* its memo: TRUE once resolved
    last,       \* Agent.last
    issued,     \* history: the highest nonce issued, over all restarts
    past,       \* history: the highest nonce issued by processes that are gone
    wire,       \* requests on their way to the server
    replies,    \* answers on their way back
    accepted,   \* server: the last nonce accepted from the agent
    applied,    \* server: how often each call's change was carried out
    restarts

process == <<mu, session, ownerMu, owner, last>>
server == <<accepted, applied>>
vars == <<cred, refuse, now, call, process, issued, past, wire, replies, server, restarts>>

-----------------------------------------------------------------------------
(* Answers, and what the transport makes of them. *)

\* A 429's code in one of the envelopes decodeError accepts, or the text of an edge.
RateLimited == "RATE_LIMIT_EXCEEDED"
Cap == "A_CAP"
Envelope(code, form, inner) == [json |-> TRUE, code |-> code, form |-> form, inner |-> inner]
Text == [json |-> FALSE, code |-> "", form |-> "none", inner |-> ""]
Standard(c) == Envelope(c, "none", "")
Legacy(c) == Envelope("", "string", c)
Bridge(c) == Envelope("", "object", c)
Both(c) == Envelope(c, "string", c)

\* APIError.Code: code wins over error, which is the code itself or an object that has it.
decodeErrorStandard(body) == IF body.json THEN body.code ELSE ""
decodeError(body) ==
    IF ~body.json THEN ""
    ELSE IF body.code # "" THEN body.code
    ELSE IF body.form = "none" THEN "" ELSE body.inner

Reply(status, body, means) == [status |-> status, body |-> body, means |-> means]
Refusals == {Reply(s, Standard("X"), "refused") : s \in {426, 501}}
Outages == {Reply(s, Text, "outage") : s \in {429, 503}}
Budgets == {Reply(429, f, "budget") : f \in {Standard(RateLimited), Legacy(RateLimited)}}
Caps == {Reply(429, f, "cap") : f \in {Standard(Cap), Legacy(Cap), Bridge(Cap), Both(Cap)}}
Unauthorized(why) == Reply(401, Text, why)
Served == Reply(200, Text, "served")
\* A 2xx whose JSON is malformed, and one whose JSON is cut short.
Undecodable == {Reply(200, Text, m) : m \in {"malformed", "cut"}}

\* The owner lookup's answer without a valid address, which ownerFromServer turns into an error.
Blank == Reply(200, Text, "blank")

NoError == [kind |-> "none", status |-> 0, code |-> ""]
ErrorOf(kind) == [NoError EXCEPT !.kind = kind]

OutcomeByCode(reply) ==
    IF decodeError(reply.body) = "" THEN NoError
    ELSE [kind |-> "api", status |-> reply.status, code |-> decodeError(reply.body)]
\* do, from the response on.
Outcome(reply) ==
    IF reply.status # 200
    THEN [kind |-> IF reply.status = 426 THEN "version" ELSE "api", status |-> reply.status, code |-> decodeError(reply.body)]
    ELSE IF reply.means = "malformed" THEN ErrorOf("decode")
    ELSE IF reply.means = "cut" THEN ErrorOf("unexpected EOF") ELSE NoError

\* A VersionError wraps its APIError, so its status counts; of the decode failures only the two
\* error types of encoding/json are final, and so are errors raised here.  ctx is looked at by Retries.
retryable(err) ==
    /\ err.kind \notin {"none", "local", "decode"}
    /\ err.kind \in {"api", "version"} =>
           IF err.status = 429 THEN err.code \in {"", RateLimited}
           ELSE err.status >= 500 /\ err.status \notin {501, 505}

\* How an attempt ended, as far as the rest of the call tells: its error is kept as whether it is transient.
Local == "local"
Transient == "transient"
Verdict(reply) ==
    IF reply.means # "blank" /\ Outcome(reply) = NoError THEN "none"
    ELSE IF retryable(Outcome(reply)) THEN Transient ELSE "final"

-----------------------------------------------------------------------------
Pcs == {"idle", "owner", "pace", "agent", "nonce", "lock", "signIn", "login", "wire", "wait", "backoff", "done"}
Fresh == [pc |-> "idle", op |-> FetchStatus, ctx |-> FALSE, attempt |-> 0, sent |-> 0, logins |-> 0,
          at |-> 0, ts |-> 0, nonce |-> 0, lapses |-> 0, end |-> "none", rival |-> FALSE, outrun |-> FALSE, heard |-> {}]

\* The session the bearer is built with: WithSession's own, fresh at t; WithWallet's bearer gets one
\* when a request needs it.
Given(t) == IF cred = "session" THEN [here |-> t + TTL, there |-> t + TTL] ELSE None

Init ==
    /\ cred \in DOMAIN Ops /\ refuse \in BOOLEAN
    /\ now = 1 /\ last = 0 /\ issued = 0 /\ past = 0 /\ restarts = 0
    /\ call = [c \in Calls |-> Fresh]
    /\ mu = None /\ ownerMu = None /\ owner = FALSE
    /\ session = Given(now)
    /\ wire = {} /\ replies = {}
    /\ accepted = 0 /\ applied = [c \in Calls |-> 0]

Active(c) == call[c].pc \notin {"idle", "done"}
Writing(c) == Active(c) /\ Mutates(call[c].op)
NonceChecked(op) == cred = "agent" /\ Mutates(op) /\ op.on = "t"

\* Where a request that needs no pacing goes next: to its signer, or straight to the wire.
Signing(op) ==
    IF op.on = "pub" \/ cred \in {"none", "hmac"} THEN "wire"
    ELSE IF cred = "agent" THEN "agent" ELSE "lock"

\* The head of do: a class with no bucket does not wait.
Do(op) == IF costOf(op.verb, op.path, 0).class = "cancel" THEN Signing(op) ELSE "pace"

RetriesAny(c, end) == call[c].attempt < MaxRetries /\ ~call[c].ctx /\ end = Transient
Retries(c, end) ==
    /\ call[c].op.by # "Send" /\ call[c].attempt < MaxRetries
    /\ ~call[c].ctx /\ end = Transient

\* What is left of a call that has returned.
Ended(rec, end) == [Fresh EXCEPT !.pc = "done", !.op = rec.op, !.end = end, !.rival = rec.rival,
                                 !.outrun = rec.outrun, !.heard = rec.heard, !.sent = IF Mutates(rec.op) THEN rec.sent ELSE 0]

\* The tail of Send, of Get's loop, and of the owner lookup around Get.
Heard(c, end, what) ==
    LET rec == [call[c] EXCEPT !.heard = @ \cup what]
    IN  IF Retries(c, end)
        THEN /\ call' = [call EXCEPT ![c] = [rec EXCEPT !.pc = "backoff", !.at = 0, !.nonce = 0, !.lapses = 0]]
             /\ UNCHANGED <<ownerMu, owner>>
        ELSE /\ call' = [call EXCEPT ![c] = Ended(rec, end)]
             /\ ownerMu' = IF ownerMu = c THEN None ELSE ownerMu
             /\ owner' = (owner \/ (ownerMu = c /\ end = "none"))
Attempted(c, end) == Heard(c, end, {})

\* Get or Send is called; an API key's AccountAddress takes its lock first.
Start(c, op) ==
    /\ call[c].pc = "idle"
    /\ call' = [d \in Calls |->
           IF d = c THEN [Fresh EXCEPT !.op = op,
                              !.pc = IF op = DepositTarget THEN "owner" ELSE IF refuse THEN "done" ELSE Do(op),
                              !.end = IF refuse /\ op # DepositTarget THEN "refused" ELSE "none",
                              !.rival = \E e \in Calls : Writing(e)]
           ELSE [call[d] EXCEPT !.rival = @ \/ (Writing(d) /\ Mutates(op))]]
    /\ UNCHANGED <<cred, refuse, now, process, issued, past, wire, replies, server, restarts>>

OwnerUnlocked(c) ==
    /\ call[c].pc = "owner"
    /\ IF owner \/ refuse
       THEN /\ call' = [call EXCEPT ![c].pc = "done", ![c].end = IF owner THEN "none" ELSE "refused"]
            /\ UNCHANGED ownerMu
       ELSE call' = [call EXCEPT ![c].pc = Do(DepositTarget)] /\ ownerMu' = c
    /\ UNCHANGED <<cred, refuse, now, mu, session, owner, last, issued, past, wire, replies, server, restarts>>
\* ownerFromServer has its mutex: the memo answers, or Get is called under it.
OwnerLocked(c) ==
    /\ call[c].pc = "owner" /\ ownerMu = None
    /\ IF owner \/ refuse
       THEN /\ call' = [call EXCEPT ![c].pc = "done", ![c].end = IF owner THEN "none" ELSE "refused"]
            /\ UNCHANGED ownerMu
       ELSE call' = [call EXCEPT ![c].pc = Do(DepositTarget)] /\ ownerMu' = c
    /\ UNCHANGED <<cred, refuse, now, mu, session, owner, last, issued, past, wire, replies, server, restarts>>

\* The budget's wait is over, or ctx ended it.
Paced(c) ==
    /\ call[c].pc = "pace"
    /\ call' = [call EXCEPT ![c].pc = Signing(call[c].op)]
    /\ UNCHANGED <<cred, refuse, now, process, issued, past, wire, replies, server, restarts>>

PaceAborted(c) ==
    /\ call[c].pc = "pace" /\ call[c].ctx
    /\ Attempted(c, Local)
    /\ UNCHANGED <<cred, refuse, now, mu, session, last, issued, past, wire, replies, server, restarts>>

\* Agent.Sign refuses a route that moves funds, else reads the clock, then issues a nonce in its lock.
AgentSigns(c) ==
    /\ call[c].pc = "agent"
    /\ IF MovesFunds(call[c].op.verb, call[c].op.path)
       THEN Attempted(c, Local)
       ELSE call' = [call EXCEPT ![c].pc = "nonce", ![c].ts = now] /\ UNCHANGED <<ownerMu, owner>>
    /\ UNCHANGED <<cred, refuse, now, mu, session, last, issued, past, wire, replies, server, restarts>>

NextNonceClock(ts) == ts
NextNonceCounter(ts) == last + 1
NextNonce(ts) == IF last + 1 > ts THEN last + 1 ELSE ts

\* A process that is gone issued nonces ahead of the clock, or the clock was set back since: neither
\* this reading of it nor any nonce of this process has come up to what was issued then.
Outrun(ts) == ts <= past /\ last < past

AgentIssues(c) ==
    /\ call[c].pc = "nonce"
    /\ last' = NextNonce(call[c].ts)
    /\ issued' = IF last' > issued THEN last' ELSE issued
    /\ call' = [call EXCEPT ![c].pc = "wire", ![c].nonce = last', ![c].ts = 0,
                            ![c].outrun = @ \/ Outrun(call[c].ts)]
    /\ UNCHANGED <<cred, refuse, now, mu, session, ownerMu, owner, past, wire, replies, server, restarts>>

\* bearer.current's test of the session.
UsableToTheEnd == session # None /\ now < session.here
Usable == session # None /\ now + Margin < session.here

\* bearer.current has the lock: the session serves, or there is no refresh, or this call signs in.
\* Login notes the time first, then waits for the login budget.
Locked(c) ==
    /\ call[c].pc = "lock" /\ mu = None
    /\ \/ /\ Usable
          /\ call' = [call EXCEPT ![c].pc = "wire", ![c].lapses = session.there]
          /\ UNCHANGED <<mu, ownerMu, owner>>
       \/ ~Usable /\ cred = "session" /\ Attempted(c, Local) /\ UNCHANGED mu
       \/ /\ ~Usable /\ cred # "session"
          /\ call' = [call EXCEPT ![c].pc = "signIn", ![c].ts = now]
          /\ mu' = c /\ UNCHANGED <<ownerMu, owner>>
    /\ UNCHANGED <<cred, refuse, now, session, last, issued, past, wire, replies, server, restarts>>

Request(c, what) == [c |-> c, n |-> call[c].sent + call[c].logins + 1, what |-> what,
                     lapses |-> call[c].lapses, nonce |-> call[c].nonce]
Waits(r) == /\ call[r.c].pc = IF r.what = "login" THEN "login" ELSE "wait"
            /\ call[r.c].sent + call[r.c].logins = r.n

LoginSent(c) ==
    /\ call[c].pc = "signIn" /\ ~call[c].ctx
    /\ wire' = wire \cup {Request(c, "login")}
    /\ call' = [call EXCEPT ![c].pc = "login", ![c].logins = @ + 1, ![c].at = now]
    /\ UNCHANGED <<cred, refuse, now, process, issued, past, replies, server, restarts>>

\* What may still reach the server of a call that no longer waits; a read or a sign-in does nothing there.
Abandoned(c) == {r \in wire : r.c # c \/ (r.what = "op" /\ Mutates(call[c].op))}

LoginLostHolds(c) ==
    /\ call[c].pc = "login" \/ (call[c].pc = "signIn" /\ call[c].ctx)
    /\ Attempted(c, Local)
    /\ replies' = {r \in replies : r.c # c} /\ wire' = Abandoned(c)
    /\ UNCHANGED <<cred, refuse, now, mu, session, last, issued, past, server, restarts>>
\* The sign-in ends without a session: its ctx, the network, the timeout.
LoginLost(c) ==
    /\ call[c].pc = "login" \/ (call[c].pc = "signIn" /\ call[c].ctx)
    /\ Attempted(c, Local)
    /\ mu' = None
    /\ replies' = {r \in replies : r.c # c} /\ wire' = Abandoned(c)
    /\ UNCHANGED <<cred, refuse, now, session, last, issued, past, server, restarts>>

\* The session's life is counted from before the sign-in was sent.
Expiry(c) == call[c].ts + TTL

LoginAnswered(c, r) ==
    /\ call[c].pc = "login" /\ r \in replies /\ r.c = c
    /\ replies' = replies \ {r}
    /\ mu' = None
    /\ IF r.end = "none"
       THEN /\ session' = [here |-> Expiry(c), there |-> r.lapses]
            /\ call' = [call EXCEPT ![c].pc = "wire", ![c].lapses = r.lapses, ![c].ts = 0]
            /\ UNCHANGED <<ownerMu, owner>>
       ELSE Attempted(c, Local) /\ UNCHANGED session
    /\ UNCHANGED <<cred, refuse, now, last, issued, past, wire, server, restarts>>

\* http.Client.Do: nothing is sent once ctx has ended.
Sent(c) ==
    /\ call[c].pc = "wire"
    /\ IF call[c].ctx
       THEN Attempted(c, Transient) /\ UNCHANGED wire
       ELSE /\ wire' = wire \cup {Request(c, "op")}
            /\ call' = [call EXCEPT ![c].pc = "wait", ![c].sent = @ + 1, ![c].at = now]
            /\ UNCHANGED <<ownerMu, owner>>
    /\ UNCHANGED <<cred, refuse, now, mu, session, last, issued, past, replies, server, restarts>>

Answered(c, r) ==
    /\ call[c].pc = "wait" /\ r \in replies /\ r.c = c
    /\ replies' = replies \ {r}
    /\ Heard(c, r.end, r.tells)
    /\ UNCHANGED <<cred, refuse, now, mu, session, last, issued, past, wire, server, restarts>>

\* No answer: the network, the timeout, ctx.  The request may still arrive.
Lost(c) ==
    /\ call[c].pc = "wait"
    /\ Attempted(c, Transient)
    /\ replies' = {r \in replies : r.c # c} /\ wire' = Abandoned(c)
    /\ UNCHANGED <<cred, refuse, now, mu, session, last, issued, past, server, restarts>>

\* Get's wait between two attempts, jittered or a 429's retry-after; and the next attempt.
BackedOff(c) ==
    /\ call[c].pc = "backoff"
    /\ IF call[c].ctx THEN Attempted(c, Local)
       ELSE /\ call' = [call EXCEPT ![c].pc = Do(call[c].op), ![c].attempt = @ + 1]
            /\ UNCHANGED <<ownerMu, owner>>
    /\ UNCHANGED <<cred, refuse, now, mu, session, last, issued, past, wire, replies, server, restarts>>

CtxEnds(c) ==
    /\ Active(c) /\ ~call[c].ctx
    /\ call' = [call EXCEPT ![c].ctx = TRUE]
    /\ UNCHANGED <<cred, refuse, now, process, issued, past, wire, replies, server, restarts>>

-----------------------------------------------------------------------------
(* The server and the network. *)

\* What the server decided for good, kept as history.
Tells(reply) == (IF reply.means \in {"cap", "refused", "malformed"} THEN {"final"} ELSE {}) \cup ({reply.means} \cap {"stale"})

\* An answer is kept only while its call still waits for it, as what the call will make of it.
Deliver(r, reply, lapses) ==
    replies' = IF Waits(r) THEN replies \cup {[c |-> r.c, end |-> Verdict(reply), tells |-> Tells(reply), lapses |-> lapses]}
               ELSE replies

ServeLogin(r) ==
    /\ r \in wire /\ r.what = "login"
    /\ wire' = wire \ {r}
    /\ \E reply \in {Served, Unauthorized("refused")} \cup Outages : Deliver(r, reply, now + TTL)
    /\ UNCHANGED <<cred, refuse, now, call, process, issued, past, server, restarts>>

\* A lapsed session, or a write's nonce not above the last accepted: an opaque 401.
Rejects(r) ==
    IF cred \in {"session", "wallet"} /\ call[r.c].op.on = "t" /\ r.lapses <= now THEN "lapsed"
    ELSE IF NonceChecked(call[r.c].op) /\ r.nonce <= accepted THEN "stale" ELSE "no"

\* The engine acts on a write it answers 2xx, and may have acted on one it answers 5xx.
Serve(r) ==
    /\ r \in wire /\ r.what = "op"
    /\ wire' = wire \ {r}
    /\ IF Rejects(r) # "no"
       THEN Deliver(r, Unauthorized(Rejects(r)), 0) /\ UNCHANGED server
       ELSE /\ accepted' = IF NonceChecked(call[r.c].op) THEN r.nonce ELSE accepted
            /\ \E reply \in {Served} \cup Undecodable \cup Outages \cup Budgets \cup Caps \cup Refusals
                          \cup (IF call[r.c].op = DepositTarget THEN {Blank} ELSE {}) :
                  /\ Deliver(r, reply, 0)
                  /\ \E acts \in IF reply.status = 200 THEN {TRUE}
                                 ELSE IF reply.status = 503 THEN BOOLEAN ELSE {FALSE} :
                        applied' = IF acts /\ Mutates(call[r.c].op) THEN [applied EXCEPT ![r.c] = @ + 1] ELSE applied
    /\ UNCHANGED <<cred, refuse, now, call, process, issued, past, restarts>>

\* The process restarts, at any moment, and builds its client again: Agent.last is gone, the calls with
\* it, and meanwhile the clock may have been set back.
Restart ==
    /\ cred = "agent" /\ restarts < MaxRestarts
    /\ restarts' = restarts + 1
    /\ call' = [c \in Calls |-> IF Active(c) THEN Ended(call[c], Transient) ELSE call[c]]
    /\ mu' = None /\ ownerMu' = None /\ session' = None /\ owner' = FALSE /\ last' = 0
    /\ replies' = {}
    /\ past' = issued /\ now' \in {now - 1, now} \cap Nat
    /\ UNCHANGED <<cred, refuse, issued, wire, server>>

\* Signing and sending are one instant, and no call outwaits the HTTP client's timeout.
Tick ==
    /\ now < MaxNow /\ cred \in {"session", "wallet", "agent"}   \* the others do not look at the clock
    /\ \A c \in Calls : /\ call[c].pc # "wire"
                        /\ call[c].pc \in {"wait", "login"} => now < call[c].at + Timeout
    /\ now' = now + 1
    /\ UNCHANGED <<cred, refuse, call, process, issued, past, wire, replies, server, restarts>>

CallStep(c) ==
    \/ \E op \in Ops[cred] : Start(c, op)
    \/ OwnerLocked(c) \/ Paced(c) \/ PaceAborted(c)
    \/ AgentSigns(c) \/ AgentIssues(c)
    \/ Locked(c) \/ LoginSent(c) \/ LoginLost(c) \/ \E r \in replies : LoginAnswered(c, r)
    \/ Sent(c) \/ Lost(c) \/ \E r \in replies : Answered(c, r)
    \/ BackedOff(c) \/ CtxEnds(c)

Next ==
    \/ \E c \in Calls : CallStep(c)
    \/ \E r \in wire : ServeLogin(r) \/ Serve(r)
    \/ Restart \/ Tick

Spec == Init /\ [][Next]_vars

-----------------------------------------------------------------------------
(* Properties. *)

\* The variables have their types, and each lock is held by a call that is inside it.
TypeOK ==
    /\ cred \in DOMAIN Ops /\ now \in 0..MaxNow /\ last \in Nat
    /\ \A c \in Calls : call[c].pc \in Pcs /\ call[c].attempt \in 0..MaxRetries
    /\ \A c \in Calls : mu = c <=> call[c].pc \in {"signIn", "login"}
    /\ \A c \in Calls : ownerMu = c <=> (call[c].op = DepositTarget /\ Active(c) /\ call[c].pc # "owner")

\* "It is sent exactly once and never retried, like every method that changes state" (orders.go;
\* transport.go, Send): whatever is lost, refused or answered late, a call that changes state puts one
\* request on the wire and is carried out at most once; a read is sent at most 1 + maxRetries times.
OnceAtMost ==
    \A c \in Calls : /\ call[c].sent <= IF Mutates(call[c].op) THEN 1 ELSE MaxRetries + 1
                     /\ applied[c] <= 1

\* "the other 429 codes are caps, not budgets that refill" (retryable): the call that is told so is
\* over, in whichever envelope the server put the code (decodeError), as is one refused or told to
\* upgrade.
FinalIsFinal == \A c \in Calls : "final" \in call[c].heard => call[c].pc = "done"

\* "so it never presents an expired session" (client.go, WithWallet; session.go, sessionMargin): a
\* session on its way to the server, with a call that still waits for the answer, has not lapsed.
NeverLapsed ==
    \A r \in wire : (r.what = "op" /\ Waits(r) /\ call[r.c].op.on = "t" /\ cred \in {"session", "wallet"})
                        => now < r.lapses

\* "a counter floored at the clock stays increasing across restarts" (agent.go, Sign), as far as it
\* does: a nonce is above every nonce issued before it, by this process or an earlier one, unless the
\* earlier one was ahead of every clock reading this process has issued from.
NonceIncreases ==
    [][\A c \in Calls : call[c].pc = "nonce" /\ call'[c].pc = "wire" =>
           call'[c].nonce > issued \/ Outrun(call[c].ts)]_vars

\* What a caller of a write may conclude: no error, the change was made; an error raised here, the
\* request never left (localError: "a refusal made before any bytes left the process").
CallerKnows ==
    \A c \in Calls : (call[c].pc = "done" /\ Mutates(call[c].op)) =>
        /\ call[c].end = "none" => applied[c] = 1
        /\ call[c].end \in {Local, "refused"} => call[c].sent = 0 /\ applied[c] = 0

\* "Keep one write in flight per agent key" (agents.go, Agent): a write that no other write
\* overlapped is never refused for its nonce, unless an earlier process was ahead of the clock.
RefusedOnlyOverlapped ==
    \A c \in Calls : "stale" \in call[c].heard => call[c].rival \/ call[c].outrun

\* auth.go, ownerFromServer: "Concurrent callers share one request", and once it is answered nobody
\* asks again.
OneLookup ==
    Cardinality({c \in Calls : call[c].op = DepositTarget /\ call[c].pc \in {"pace", "wire", "wait", "backoff"}})
        <= IF owner THEN 0 ELSE 1
===============================================================================
