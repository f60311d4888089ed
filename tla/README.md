# A verification of the Nexus Exchange Go SDK

TLA+ modules for `nexus-exchange-go`: its sockets and the account protocol on
them, its rate limiter, its REST transport with credentials, its iterators, the
quoting bot, the conformance lane and the release gate; the TLC configurations
that check them on small instances; and theorems about them with TLAPS proofs.
`PROJECT.json` is the index: components, runs, the source lines each definition
translates, mutants, findings, hazards, theorems.

    tlc -workers 2 -config MCSocketOne.cfg MCSocket     # one run
    tlapm SocketProofs.tla                              # the proofs of one module

## 1. Inventory

| component | state | operations | interacts with | module |
|---|---|---|---|---|
| reconnect loop (`socket.go`) | per stream: `mu`, `conn`, `closed`, `alive`, `delay`, `delivered`; per process: `connSlots` | `openSocket`, `connect`, `read`, `wait`, `close`, `keepalive` | both streams embed it; every stream of the process meets in `connSlots` | `Socket`, `StreamContract` |
| account socket (`ws.go`) | `subs`, `cursors` (under `socket.mu`), `pending` | `Client.Subscribe`, `Subscribe`, `Unsubscribe`, `Next`, `Close`, `decode`, `advance`, `resync` | the socket for its connection, the server for replay | `Subscription` |
| market socket (`stream.go`) | the subscribe message | `MarketStream`, `Next`, `Close` | the socket; closes itself from the reader when refused | `Socket`, `Bot` |
| rate limiter (`internal/transport/ratelimit.go`) | per bucket: `limit`, `level`, `at`, `until` | `reserve`, `wait`, `set`, `block`, `observe` | every REST request reserves before it is signed and observes its response | `RateLimit` |
| costs (`weights.gen.go`, `ratelimit.go`) | none | `costOf`, `lookup`, `matchTemplate` | the limiter | `Operations` |
| transport (`internal/transport/transport.go`) | none of its own | `Get` (retries), `Send` (once), `GetPage`, `do`, `decodeError`, `retryable` | limiter, signer, HTTP | `Rest` |
| sessions (`session.go`) | `bearer.session` under a lock | `Login`, `bearer.current`, `Sign` | signs every attempt; signs in through the transport | `Rest` |
| agent signing (`internal/signing/agent.go`) | `last` nonce | `Sign`, `MovesFunds` | called by `do` from concurrent requests | `Rest` |
| owner lookup (`auth.go`) | a memo under a mutex | `ownerFromServer` | `Get` under its own lock | `Rest` |
| operations (`orders.go`, `account.go`, `market.go`, ...) | none | one request each | the transport | `Operations` |
| iterators (`pagination.go`, `market.go`) | a cursor, a window | `paginate`, `listPage`, `FetchOHLCVHistory` | `Get`, the caller's loop | `Reads` |
| rounding (`rounding.go`, decimals) | none | `RoundPrice`, `RoundSize`, arithmetic | orders, the bot | `Decimals` |
| quoting bot (`examples/bot`) | ids of resting orders | `requote`, `cancelResting`, `shutdown`, two readers | both sockets, REST, cancel-on-disconnect | `Bot` |
| conformance lane (`internal/conformance`) | the recorder, the report | `Run`, `take`, `classify`, `ParseSpec`, `Check` | every read of the SDK, the pinned spec | `Checker`, `Conformance` |
| release gate (`scripts/release_gate`, workflows) | main, tags, the release PR | lister, verdict, merge | CI, release-please | `Surface`, `Release` |
| other examples, generated models | none | | | not modelled |

What is hard, and where:

* **Sockets.** The reader, any number of callers of `Close`, writers that hold
  `mu` while they write, and one keepalive goroutine per connection, old ones
  included, meet on one struct. Right means: one token per open stream, no
  connection leaked or doubled, the right reason reported, `Close` returning
  (unless a hello is held up for ever) and always waking `Next`, no goroutine left
  behind.
* **Account protocol.** Cursors, acks, replay and `out_of_sync` travel through a
  connection that may drop between any two frames, while the application
  subscribes and unsubscribes. Right means: an application that was current is
  never skipped an event in silence, nor given one twice.
* **Rate limiter.** Reservations, timers, cancellations and reports of concurrent
  requests in every order. Right means: never more sent than was reported and
  refilled, and a 429's retry-after honoured.
* **REST.** Concurrent calls meet in the session's lock, the nonce counter and
  the owner's memo; requests and answers are lost and late. Right means: a write
  goes out once, a caller can rely on what an error says, no session is
  presented expired, nonces only grow, also over a restart unless the old process
  was ahead of the clock.
* **Iterators.** A server that repeats a cursor or ignores a bound. Right means:
  the list in order and whole, and an end.
* **Bot.** Lost answers, cancelled contexts, a crash with orders resting. Right
  means: what rests is in the bot's list or known to be unknown, a clean stop
  leaves nothing, a crash nothing for ever.
* **Conformance lane.** A row judged on another row's exchange, an answer that
  says nothing counted as a pass. Right means: neither, and no false alarm.
* **Release gate.** Only neighbouring releases are compared, by evidence that
  may be missing. Right means: no `^` range takes a release that breaks it.

The hazards in `PROJECT.json` list these at their lines with the properties that
cover each, or why none does.

## 2. Modules

### Socket, StreamContract and their proofs

`Socket` is `socket.go` with the parts of `ws.go` and `stream.go` that touch the
socket's state. Its variables are the struct's fields (per stream), `connSlots`,
a program counter per goroutine (`rpc` the caller of `Next`, `cpc` the callers of
`Close`, `ka` the keepalives), and the state of each connection. A critical
section of `mu` without a blocking call is one action; `mu` is held across actions
only where code blocks under it (hello, `send`).

| code | actions |
|---|---|
| `openSocket` | `Open`, `OpenRefused`, then the connect below; `AttemptFails` gives the token back |
| `connect` | `DialOK`, `DialFails`, `ConnectLock`, `HelloOK`, `HelloFails` |
| `read` | `CallNext`, `Look`, `ReadFrame`, `ReadFails`, `ForgetConn`, `DropConn` |
| `wait` | `WaitEnds` (its first line is in `Look`) |
| `MarketStream.Next` | `ReadRefusal`, `RefusalReturns`, around a `Close` by the reader |
| `close` | `CallClose`, `CloseLock`, `CloseRelease`, `CloseDrop` |
| `Subscription.send` | `WriteBegins`, `WriteEnds` |
| `keepalive` | `KeepaliveTick`, `KeepaliveQuit`, `PingAnswered`, `PingFails`, `PingTimesOut`, `KeepaliveStop`, `KeepaliveKill` |
| ctx, network (external) | `CancelCtx`, `GoSilent`, `Break` |

Close has two callers: `"app"`, which stands for every application goroutine (a call
that finds the stream closed returns at once, so more of them add nothing), and
`"reader"`, a refused `MarketStream.Next`. Connections are named from `Gens`; a name
is used again when nothing refers to it, so `Gens` bounds how many connections
of a stream overlap, not how many there are. A ping may fail for any reason
(`PingFails`); one that fails other than by its deadline leaves the connection broken
(`PingBreaks`, the WebSocket library's behaviour). `healthyAfter` is a choice: whether a
connection stayed up for five seconds is not decided by anything modelled.

`StreamContract` is what callers are promised, with no lock, connection or
goroutine: who holds a slot, and in which order results may come (`Reconnected`
only after `Disconnected` or a cancelled call, and only while the slot is held;
"stale" only from a connection that was up; `ErrStreamClosed` for good). `Socket`
implements it (`ContractHolds`, with `holders <- Holders`).

### Subscription

The protocol on top, with the connection reduced to nil, open or broken, the two
directions as queues, and the server as an external component: it publishes
(`Publish`), forgets history (`Trim`), replays or refuses (`ServerSubscribes`),
and ends what is too slow (`FallBehind`, which names no market). `view` is the
application: the seq up to which it is current, or none. An application becomes
current at the ack that follows a fresh subscribe or an `OutOfSync`, since that is
when a REST read can no longer miss anything. `NoSilentGap`, `CursorNotAhead` and
`SeqIncreases` relate what it was given to what the client tracks.

Premises about code outside the repository:

* a write that fails leaves the connection broken (the comment at `ws.go:382`
  relies on it; it is the WebSocket library's behaviour);
* the server acknowledges a subscribe after the replay. `decode` makes
  `seq_at_join` the cursor at once (`ws.go:341-342`), which is only right in that
  order: with the ack first, a drop in the middle of the replay loses its rest.
  Nothing in the repository states the order;
* an application subscribes to a channel only when it is not subscribed
  (`Redundant = FALSE`) where `SeqIncreases` is checked: what the server does with
  a second subscribe is not stated. The liveness run allows it;
* an application re-reads over REST only once the ack after an `OutOfSync` is in
  (`RereadAtOnce = FALSE`). The comment at `ws.go:118` lets it re-read at the
  `OutOfSync`; with `RereadAtOnce = TRUE` what is published between the read and
  the join at the live edge is in neither, and `NoSilentGap` fails.

### RateLimit

The buckets and the requests of `ratelimit.go` as `Transport.do` uses them:
`Call` (the clock is read), `Reserve`, `TimerFires`, `CtxEnds`, `Answered` (the
response is in and the clock is read), `Observe` (`set` and `block` through
`Described`, with that reading), and `Tick`. Time passes between a reading and its
lock only with `SlowLock`. Time is in ticks and tokens in
parts of a token, `Second` of each, so a budget of `limit` tokens a second refills
`limit` parts a tick and integers suffice; a wait is rounded up to a tick. What a
response reports is any of `Limits` and any remaining, since other processes
share the budgets. The history variable `credit` is the reference: reported and
refilled since, less sent. What waits is a set with one element per part reserved
(`Reserved`), so that sums are cardinalities.

### Operations, Rest

`Operations` is the table of the SDK's methods as requests (verb, path, the
transport call, with or without the credential) and the generated table of costs
with `costOf`. `Rest` is what happens to calls in flight.

| code | definitions |
|---|---|
| `Transport.do` up to the send | `Start`, `Do`, `Paced`, `PaceAborted`, `Signing`, `Sent` |
| `Agent.Sign` | `AgentSigns` (the clock), `AgentIssues` (the lock) |
| `bearer.current`, `Login` | `Locked`, `LoginSent`, `LoginAnswered`, `LoginLost` |
| `do` from the response on | `Answered`, `Lost`, `Outcome`, `decodeError` |
| `Get`'s loop, `Send` | `Heard`, `Retries`, `retryable`, `BackedOff` |
| `ownerFromServer` | `OwnerLocked`, and `Heard` for its return |
| server, network, ctx, process (external) | `Serve`, `ServeLogin`, `CtxEnds`, `Restart`, `Tick` |

Each call is a goroutine with a program counter. Waits for a budget are waits of
any length, so module `RateLimit`'s delays are among them. A request stays on the
wire when its call has given up, and may be carried out later. The server is the
comments' server: it refuses a lapsed session and a nonce not above the last it
accepted, and with a 503 it may or may not have acted. `Restart` may come at any
moment, also while the nonce counter is ahead of the clock, and may find the clock set
back by a tick; `past` is the highest nonce of the processes that are gone, and
`Outrun` says that neither the clock reading nor the counter of this one has come up to it. `Verdict` says what an
answer means to the call; it is computed from the answer's status and envelope by
`decodeError` and `retryable`. A tick is half of `sessionMargin`, which is as long
as the HTTP client's timeout.

### Decimals, Bot

`Decimals` has decimals as an integer and a number of digits, kept as the code
keeps them (`Ten[k]` is ten to the `k`th), and `RoundPrice`, `RoundSize` and the arithmetic the bot uses.
`Passive` is the reference: on the grid, on the passive side, less than a tick away.

`Bot` is `examples/bot/main.go`: `main` is the goroutine of `run` with the quoter's
state, `feed` is `readBooks` with its channel of capacity one, `sub` the account
socket. The exchange accepts orders, cancels, lists, and runs cancel-on-disconnect
with its grace window. A request the bot gave up on stays in `wire`. `Crash` may come
at any point. The two sockets are reduced to open, broken and closed: what they do
inside is `Socket`'s and `Subscription`'s subject. `readBooks` takes any frame of the stream by
its type: a book goes into the channel in place of an older one, other types and what does not decode
are passed over, and a refusal ends the reader while the quoter's loop waits on.

### Reads

One walk of either iterator against data that is fixed while it runs: every chain
of pages in both shapes (an array with `X-Next-Cursor`, an envelope with
`next_cursor`), with empty pages and a cursor in the place the shape does not use;
and every set of candles with a server that honours `endTime` or not. The caller may
break at any item, and any request may fail. `Descending` enumerates a set of times by rank, newest
first: the server's responses read backwards, and the window a walk is held to.

### Checker, Conformance

`Checker` is `check.go`: `Check` and its helpers as functions from schemas and values to
findings, paths and wording left out, and `Fits`, the reference: what it means for a value
to be what a schema declares. `Conformance` is `Run`, one action per step: the row is looked
up, called (through any number of exchanges, `MaxWire` bounds them), and judged from what the
recorder kept. What the checker finds in each answer (`Checked`), which answers fit (`Fitting`)
and which are empty (`Blank`) are constants of it, and `CheckerAssumption` says what it needs of them: an error is a breach,
without an error the answer fits or a warning says what was not looked at, and only an empty
one has no items. `MCConformance` computes all three with `Checker` on `MCCases`, bodies that
fit, break or leave open schemas with references, `allOf`, nullable branches, maps, tuples,
recursion and a cycle of references, and TLC evaluates the assumption on every one. So the
checker is held to its reference, and the lane's properties are about the lane. Its
specification is `LaneSpec`, so that one module can speak of it and of `Release`.

### Surface, Release

`Surface` is the lister of the public API (`scripts/release_gate/surface`) as a
function from a module's declarations to lines. `Release` is
`release_verdict.py` with its evidence (registry, pin, surface, manifest, grading;
each may be missing or fail) and the workflows around it: pull requests move `main`,
release-please proposes, the gate runs, a person merges on green, the merge is tagged.
`Release` knows of listings only that they are computed from the API (`Lines`,
`Usable`); `MCRelease` computes both with `Surface`, and its ASSUMEs hold the lister
to its purpose: on every two of 64 modules, if every line of the one is in the other,
so is everything a consumer can use.

## 3. Runs

| run | checks | instance and why it is enough |
|---|---|---|
| `socket_one` | `TypeOK`, `OneConnection`, `NoLeakedConnection`, `KeepaliveFollowsConn`, `BackoffEscalates`, `StaleIsReported`, `ContractHolds` | one pinged account socket with two overlapping connections: a dropped one whose keepalive is still in a ping, and its successor. A third adds no new pair. Delays 1 to 4: floor, doubling and cap all occur |
| `socket_two` | `SlotPerStream`, `ConnectionsAccounted`, `ContractHolds` | two streams of both kinds and one token, so opens are refused, fail, and succeed after another's Close |
| `socket_live` | `CloseReturns`, `CloseWakesNext`, `SilenceEnds`, `KeepaliveEnds` | one stream, one connection name, fair; behaviours with a hello held up for ever are in it, and excepted by `CloseReturns` alone |
| `subscription` | `TypeOK`, `CursorNotAhead`, `NoSilentGap`, `SeqIncreases` | two markets of one name, two events each, two drops, two calls: unsubscribe then subscribe around a drop, a resync cut short by a drop |
| `subscription_live` | `ChannelServed` | the same two markets, fair, redundant subscribes allowed, a server that refuses nothing |
| `ratelimit` | `TypeOK`, `Paced`, `BlockHonoured` | two callers of a bucket, one heavier than the limit, an order writer whose reports are unlabelled, a cancel; limits 1 and 2, three ticks |
| `ratelimit_slowlock` | `Paced` is violated | finding: `reserve` moves the bucket's clock back |
| `rest` | `TypeOK`, `OnceAtMost`, `FinalIsFinal`, `NeverLapsed`, `CallerKnows`, `RefusedOnlyOverlapped`, `OneLookup`, `NonceIncreases` | two calls at once for each credential: every pair of steps of two goroutines; one retry, so a second attempt meets the first one's request; a session that lapses within the run; one restart, at any moment, with the clock as it was or a tick back |
| `bot` | `TypeOK`, `Accounted`, `GridSafe`, `NothingLeft` | two requotes: the second meets what the first left; a book with no positive bid quote and one with both; 741 prices at four ticks |
| `reads` | `Whole`, `WalkEnds` | two cursors and the first: chains of up to three pages, self-loops and a cycle of two; up to five candles, limits 1 to 3 |
| `conformance` | `Honest`, `NoFalseAlarm` | two rows, so that a row can be judged by its neighbour's exchange; two requests a call: sign-in or retry, then the answer; 55 answers, on each of which TLC evaluates `CheckerAssumption` |
| `release` | `CaretSafe`, `AdviceFits` | three releases: two neighbours compared each, the pair of the first and the last not; versions below and above 1.0 and a prerelease |

`CHECK_DEADLOCK FALSE` is used where the system stops: `Subscription` closed or its
counters spent, `RateLimit` and `Rest` at the end of their clock with every call
returned, the bot, the walk and the lane when they end, `Release` at its last
release. `Socket` is checked for deadlock everywhere. The bounds `MaxWaits`, `MaxSeq`,
`MaxQueue`, `MaxDrops`, `MaxCalls`, `MaxNow`, `MaxRestarts`, `MaxRounds`, `MaxPages`,
`MaxWire` and `MaxReleases` exist for TLC; the code has none of them.

### Fairness

The safety runs use `Init /\ [][Next]_vars`. Liveness is claimed under:

* `Socket`: weak fairness of every goroutine inside a call (reader, closers,
  keepalives), since the Go scheduler runs what can run; strong fairness of what
  waits for `mu`, since `sync.Mutex` is starvation free while writers keep taking it.
  A dial ends, well or badly, by the HTTP client's timeout (the default client has
  one; with `WithHTTPClient` and a client without, only its ctx is left). Nothing is
  assumed of the application, of a read on a silent connection, or of a write on one;
  those end only when something closes the connection. Nor of a hello on one: it runs
  with the ctx of `Next` alone, and the connection's keepalive has yet to start
  (`socket.go:129-136`), so `CloseReturns` is claimed of behaviours in which no hello
  is held up for ever (`HelloBlocked`). `SilenceEnds` and
  the others are therefore claimed of pinged streams: on one without pings a silent
  connection really does stay.
* `Subscription`: the application keeps calling `Next`, and the server reads what it
  is sent. Drops are bounded (`MaxDrops`), so the claim is about what follows the last.
* `Reads`: the caller's loop goes on.
* `Bot`: its goroutines go on, requests are answered or lost, and the exchange keeps
  the promise of an active cancel-on-disconnect (`GraceFires`).

`RateLimit`, `Rest`, `Conformance` and `Release` are checked for safety only. That a REST call
always returns was tried and left: the fair state graph of two calls does not fit.

### Finding

`reserve` (`ratelimit.go:219`) sets `at` to the time its caller read before it took
the lock, also when that is older than `at`: the time in between is refilled
again, and more is sent than was reported and refilled. In `RateLimit` the constant
`SlowLock` says whether a goroutine may be delayed between the two; the run
`ratelimit_slowlock` allows it and finds `Paced` violated, the run `ratelimit` does not.

### Where the code does less than its text says

Met while modelling. Each is a premise or a named exception of a property above,
and none has a run of its own.

* `socket.go:14-19`: connections exceed `maxConnections` for the length of a Close, which
  gives its token back before it closes the connection. `ConnectionsAccounted` counts them.
* `socket.go:129`: hello holds `mu` with only the ctx of `Next`. On a connection that
  went silent right after the dial, under a ctx that does not end, `Close` waits behind it
  for ever. `CloseReturns` names the exception.
* `ws.go:118`: the re-read at an `OutOfSync` (see Subscription above), and `OutOfSync`
  events that were pending are handed out after `Close`.
* `ratelimit.go:235`: a request that already waits does not see a later 429; and a block
  lets what waited for it go on top of a full bucket. `BlockHonoured` is about reservations
  made after the report.
* `transport.go:275` says decode failures are not transient; a truncated body and
  trailing JSON are retried like a lost connection. `Rest` follows the code.
* `orders.go:161` says a cancel is never delayed; with a session it waits for another
  call's sign-in (`session.go:101`), and that wait does not look at `ctx` (`client.go:20`).
* `agent.go:73-74` says that a counter floored at the clock stays increasing across
  restarts. It does not if the old process ran ahead of the clock in a burst (more than one
  signature a millisecond) and the new one signs before the clock has passed that, or if the
  clock was set back. Then the server refuses the new process's writes, lone ones included,
  until it is. `NonceIncreases` and `RefusedOnlyOverlapped` except exactly this (`Outrun`);
  the run reaches it, and without the exception both fail.
* `ratelimit.go:193-205`: `set` and `block` take the lock one after the other; `Observe`
  takes both at once. `ratelimit.go:223` cuts a wait to nanoseconds, `Deficit` rounds it up to
  a tick, so a send that is early by less than a nanosecond's refill is not seen.
* `pagination.go:80`: a server whose cursors cycle over two pages or more is walked for
  ever; only an immediate repetition is noticed. And `listPage` decodes each attempt of `Get`
  into the same page, so `next` of an attempt that failed half way can survive.
* `examples/bot/main.go:12-15` says that shutdown cancels and verifies before the
  sockets close; the context that ends the run also ends both sockets. And the bot keeps
  quoting while its account socket is down past the grace window (`uncovered`). An "ok"
  result whose order has no id, or does not decode (`main.go:191-199`), is only logged and
  would be in neither of the bot's lists: `Bot` takes it as given that an "ok" carries its
  id. `Offset` is a natural number, the `-offset` flag any integer: `GridSafe` speaks of an
  offset that is not negative.
* `internal/conformance/check.go`: `allOf` takes the type of its first part, siblings of
  `oneOf` and `anyOf` are not looked at, `oneOf` accepts more than one match, a null under a
  schema without a type is an error, and extra keys under `additionalProperties: false` pass
  (17-18). `Fits` is stated up to these. One template also routes
  `/orders/history` to the row of a single order.
* Release: between a tag and its GitHub release the registry's latest is the version before;
  `Gate` sees the newest tag at once. `Usable` is about lines that disappear: an added
  line that breaks a consumer (`release_verdict.py:35-36`) is not looked at. `UpToDate` (a release PR merges only when its verdict is about what `main` holds) is
  branch protection the repository does not show; without it `CaretSafe` fails. An
  unrecognised release branch is reported, not gated; releases without `public-api.txt` are
  not compared; a tag pushed by hand skips the gate; the lister does not see promoted
  methods, struct tags, unexported fields, or types reachable only through a field or a
  result.

## 4. Proofs

Each theorem holds for every value of the constants within the ASSUMEs of its module.
The provers are given named facts only; every proof module is checked from nothing.
A leaf that takes a prover more than a moment names it and its time (`SMTT(30)`, `ZenonT(60)`), so that
a slow or busy machine proves it too; on one that is neither, a leaf needs a few seconds.

| module | theorems | builds on |
|---|---|---|
| `SocketProofs` | `SocketTypeCorrect`, `SlotsMatchStreams`, `KeepaliveFollows`, `NoConnectionLeaks`, `AtMostOneConnection`, `ConnectionsBounded`, `StalenessIsTold`, `SocketImplementsContract`, `BackoffFollowsCount` | `Socket`, `Numbers` |
| `SubscriptionProofs` | `SubTypeCorrect`, `CursorsStayBehind`, `NothingIsSkipped`, `NothingIsRepeated` | `Subscription` |
| `RestProofs` | `RestTypeCorrect`, `LookupsAreShared`, `NoncesOnlyGrow`, `WritesAreSentOnce`, `DecisionsAreFinal`, `CallersMayConclude`, `SessionsArriveAlive`, `LoneWritesAreInOrder` | `Rest` |
| `ReadsProofs` | `WalksAreWhole`, `WalksAreBounded` | `Reads`, `Numbers` |
| `RateLimitProofs` | `RateLimitTypeCorrect`, `RetryAfterHonoured`, `NeverMoreThanReported` | `RateLimit` |
| `BotProofs` | `BotTypeCorrect`, `OrdersAccounted`, `RoundPricePassive`, `RoundSizeDown`, `QuotesOnGrid` | `Bot`, `Decimals`, `Numbers` |
| `GateProofs` | `ReleaseTypeCorrect`, `ReleasesKeepTheirCaret`, `GateAdviceFits`, `LaneIsHonest`, `LaneRaisesNoFalseAlarm` | `Release`, `Conformance` |
| `Numbers` | lemmas: induction, recursive functions, products and quotients | |

### Socket

Any finite set of streams, any connection names and bounds (names exclude the nil
connection; capacity and delays are positive and ordered; `MaxWaits`, where the model's
count of waits saturates, is large enough for the backoff to have reached its cap).

* `SocketTypeCorrect`: `TypeOK` is inductive. One step per action, on lemmas about the
  pieces handlers share (`NextDelayType`: a delay stays within its bounds;
  `ReleaseType`, `CloseNowType`, `EndAliveType`).
* `SlotsMatchStreams`: `connSlots` equals the number of streams that are opening or open. It
  is not inductive: nothing in it says that only one call of Close can be in
  `release`, nor that `freed` is unset while the token is held. `SlotInv` adds, per
  stream (`SlotLocal`), that a stream that is not closed has not been freed and has no
  Close under way; that at most one of the callers is past the lock; that a closed
  stream is freed unless that caller has yet to release; and that a stream not yet
  opened is not closed. Most actions move no token (`QuietKeepsSlots`); `Open`,
  `AttemptFails`, `CloseLock` and `CloseRelease` have cases of their own, each with a
  lemma on the cardinality of `Holders`.
* `KeepaliveFollows`: `ConnInv` adds why a new keepalive never meets an old one: `conn`
  is nil wherever the reader is on its way to a connection, and Close cannot run
  during the hello because `mu` is held.
* `NoConnectionLeaks`, `AtMostOneConnection`: `LinkInv` says who holds each open
  connection, that what the reader reads is the stream's connection unless that was
  forgotten, and that a Close that took a connection away found the reader between
  connections or on that very one and keeps it from dialling. With `SlotInv` any two
  ways to hold a connection hold the same.
* `ConnectionsBounded`: with these, mapping an open connection to its stream is
  injective, and its stream either holds a token or is being wound up.
* `StalenessIsTold`: `StaleInv` says that a connection in use is killed by its own
  keepalive only, which ended the context with the cause "stale" first; nobody else
  can have ended it, since the context is ended where the connection is forgotten.
* `SocketImplementsContract`: `PhaseInv` reads the caller's phase off the program (up
  while there is a connection or a report of its end is due, down or new while the
  reader looks for one, ended only when closed), so that each return is allowed where
  it happens; `SlotInv` gives the steps that take and give back a slot. Every other step
  is a stutter.
* `BackoffFollowsCount`: the code keeps a delay and a flag, the property speaks of a count. Only
  what the reader is about to do ties them together, so `BackInv` says it for each place of
  the reader: between a connection's first message and the next wait the flag stands for "the count
  is zero again", elsewhere the delay is that of the count. `NextDelayMatches` is the arithmetic:
  doubling and cutting `n` times is cutting the `n`th doubling. `Doubled` is a recursive
  function, which `Numbers` shows to exist.

### Subscription

Any channels, drops, trims, refusals and queue lengths, for an application that
re-reads at the ack and subscribes to nothing twice. `SubInv` relates, channel by channel,
what the application has to what is on its way to it: the frame in hand, then the
frames in flight (`Places`).

* `HeldInv`: the cursor equals what a current application has, and is gone while an
  `OutOfSync` for it is pending.
* `ChainInv`: the first frame with a seq continues what the application has, and each
  next one continues the one before: no gap and no repetition anywhere in the queue.
* `GrowInv`: seqs in flight never fall, and are between the cursor and the head.
* `EdgeInv`: while the server publishes a channel, the last frame is at the head; when
  it does not, the last frame has said so.
* `AskInv`: a subscribe that resumes is its channel's first on the connection and asks
  for exactly what comes next; one that starts at the live edge leaves no gap, since the
  application is not current or is told first.

None of these holds alone: `ChainInv` over `ServerSubscribes` needs `AskInv`, which needs
`EdgeInv` when the connection drops and `HeldInv` when hello writes the cursor. Lemmas say
what happens to all of them when a frame is added, taken, passed over or told of
(`ReadKeeps`, `TakenKeeps`, `PassedKeeps`, `ToldKeeps`, `AskKeeps`); then there is one
lemma per action.

### REST

Any calls, credentials, retries, clock and timeouts, with a margin above the timeout
and a session longer than two of them.

* `BaseInv` (types, `CallInv`: where each call is and what it holds; `LockInv`: each lock
  is held by the call whose program counter says so) gives `RestTypeCorrect` and
  `LookupsAreShared`. `StepForms` sorts every step into those that end an attempt and
  those that go on, which the later parts use instead of the list of actions.
* `NonceInv`: the highest nonce issued is the counter's or `past`, and not below either. So a
  nonce that does not exceed everything issued comes from a reading and a counter that are
  both below `past`, which is the exception: `NoncesOnlyGrow`.
* `SentInv` gives `WritesAreSentOnce`: `WayInv`, a call has at most one request or
  answer under way, and which says where the call is; `CountInv`, a write goes out once
  and is then over, a read once per attempt. `OutcomeInv`, which says of answers under
  way what they will mean to the call, gives `CallersMayConclude` and
  `DecisionsAreFinal`.
* `LapseInv`: no time passes from the lock's test, or the sign-in's answer, to the
  wire, and what is left of the session then covers the client's timeout, by the
  margin in the first case and by the session's length in the second:
  `SessionsArriveAlive`.
* `OrderInv`: a write that is alone from its nonce to its answer has a nonce above
  everything issued before, and what is left over on the wire is older:
  `LoneWritesAreInOrder`. The exception is remembered with the write that met it (`outrun`),
  and nothing is assumed of the clock.

### RateLimit

Any requests, buckets, weights, limits and clock.

* `RateLimitTypeCorrect`: no bucket holds more than a second of tokens, and none has a clock
  that is ahead.
* `RetryAfterHonoured`: `until` is the latest block, and a reservation's wake is not before it. It
  holds of late timers and slow locks as well.
* `NeverMoreThanReported` (`Paced`, under `~SlowLock`): `PacedInv` relates the reference
  `credit` to what the code has. `Backed`: the credit covers the level and, with it, every
  request that has reserved and waits. `Covered` looks ahead: at every later time, the level by then
  and the reservations that still wait then are no deficit, which is why the level of a request
  whose timer fires is already refilled. `Fresh` says that nobody
  reads the clock in one tick and gets the lock in a later one, which is what `SlowLock` denies
  and where the finding's run breaks it. What waits is the cardinality of a set (each
  request stands for as many elements as its weight), so the library's theorems on finite sets
  carry the sums.

### Bot

Any market, books, offset and number of requotes. `GridAssumption` is what a market
is: ticks are positive decimals, and the books' prices are multiples of the price tick. The bound
on requotes is positive. `OrdersAccounted` says that the list, the failures the bot was told of
and the exchange agree at every point between two calls, although a batch the bot gave up on
may be served at any later time. It is not inductive, and `BotInv` adds:

* `ApartInv`: the ids of a batch on its way are those of no other batch, and of nothing
  that rests, is listed, is about to be cancelled or was answered for. So an order that
  was cancelled or filled does not come back, and forgetting it forgets nothing else.
* `FreshInv`: the batch a requote is about to send has such ids.
* `PlacesInv`: where each order is, by the place of the main goroutine. A batch on its way is
  the request in progress or was told of as failed; while `cancelResting` runs, what rests is
  still in its todo list or unknown, and an answered cancel's order is gone; while a batch is
  out, nothing else of the bot rests.
* `EndInv`: once the read-back is answered, whatever rests was in the answer or came late, so
  an empty answer makes the exit clean.

`ThinsKeeps` covers every step that only takes orders or requests away (served cancels, fills,
the grace window, a lost request); `ServeBatchKeeps` is the one step that adds an order.

`QuotesOnGrid` needs no history: `GridInv` says that the books on their way to the quoter are
the market's, that the one it quotes from has both sides, and that each quote in a batch was computed from its touch (`QuotedFrom`), so what remains is
arithmetic (`QuoteSafe`): `Offset` whole ticks away from a touch on the grid is on the grid
(`TicksStay`, `WholeExact`), also after the number has gone through its shortest text and back
(`FloatStringExact`, `TrimCuts`: dropping trailing zeros changes no value).

### Decimals

`RoundPricePassive` and `RoundSizeDown` hold of every positive tick with any number of
digits and every price or size, negative ones included; the runs evaluate 741 prices at four ticks.
`roundToIncrement` brings both to a common scale, cuts the quotient towards zero and adds one
where the side asks for it: `RoundedIs` names the number of whole steps, `WholeSteps` says on which side of
the price it lies and by less than one step, and `GapScaled` and `AlongScaled` bring that back
from the common scale. The arithmetic is nonlinear; `Numbers` has the products and quotients it needs
as lemmas, each applied to named integers.

### Reads

Any cursors, page sizes, finite set of candle times and limits. `ReadsAssumption` says that a page's
size is natural, that a response holds at least one candle, and that no candle starts 1 ms after 0 (a
candle starts at a multiple of its length; the next `EndTime` would be zero, which means now).
`WalksAreWhole` has an invariant per iterator.

* `PagesInv`: between requests the cursor is the one after as many pages as were asked for, and what
  was yielded is those pages' items; inside a page, what was yielded and what is left of it are. The
  cursors a faithful client meets are a recursive function, as are the items up to a page
  (`CursorsStep`, `ItemsStep`, by `RecursionExists`).
* `CandlesInv`: what was yielded falls and misses nothing of the window above what it holds. Between
  requests it is exactly the window after the cursor (`Asking`); inside a response, exactly the window
  after what is left of it, which rises and has no gap (`Yielding`). The step that needs an
  argument is a response (`AnswerIs`): whatever the server does with `endTime`, an answer whose last bar
  passes the check is the newest of what is before the cursor, since every candle above its first has
  a smaller rank. `FallingIsPrefix` turns the invariant into the property: such a sequence is the
  start of its set's enumeration, by counting (`DescendingIs`: each rank is one element's).

`WalksAreBounded` is the safety core of the `WalkEnds` that TLC checks: a walk of candles makes at most
one request more than its window has candles, and a walk of pages at most `n` when the chain of cursors
ends or stands still at its `n`-th. Both invariants lie beside those above. Before a request every
response of candles has yielded one item at least (`Earned`): an answer is never yielded empty, and one
that starts before `StartTime` ends the walk. Before a request for a page the chain has not stopped
(`Fresh`), since `paginate` compares the next cursor with the one it sent. Nothing is assumed of a
server that ignores `endTime`. A cycle of two cursors or more has no such `n`, and there the theorem
says nothing, as the code promises nothing; that a walk does end also takes the caller's loop, which
is fairness, so it is checked by the run and not proved.

### Release

`ReleasesKeepTheirCaret`: the gate compares neighbours only. The invariant says that
versions increase, that every release after the first carries its listing, and what a
passing verdict says of the content it was about; what joins them is that a caret range is convex, so that
every release between two that it holds is in it too, and what a consumer
uses survives each step. It assumes `UpToDate` and, of the listings, that where every line of
one is in another, so is what a consumer can use; `MCRelease` has TLC evaluate that for
the lister.

`GateAdviceFits` follows from the types alone, with or without `UpToDate`: `PassIff` says which
versions pass on given evidence, and `SmallestBump` that the smallest bump of the needed kind is
below every other version of that kind or a larger one, at 0.x as at 1.x.

### Conformance

`LaneIsHonest` and `LaneRaisesNoFalseAlarm` hold for any rows of the SDK's operations, any
entries of the spec, any number of requests a call sends, and any answers on which the checker
is right (`CheckerAssumption`, evaluated by TLC on `MCCases`). `Honest` alone is not inductive: it speaks
of rows that were judged. `LaneInv` adds what holds while a row is in progress: the recorder
has the last exchange of this row, or nothing when nothing was sent yet, and between two rows it
has nothing (`Recorded`); the row was allowed to be called, and its last exchange is the answer
to something its call may send, a case of the row's schema when it has a body (`Allowed`). TLC
finds `LaneInv` true on the run's instance.

What is left is that a pass is about the row's own request. `OnlyOwnRoutes`: of a call's own
request, the same with an empty id and the sign-in of its session, only the first is one for its
operation. An empty segment matches no parameter, and the sign-in would need a POST whose path
has one in its place; `Table` reads off every operation of the SDK that none has.

### Numbers

The library's induction theorems take an operator as a parameter, which no installed prover can
instantiate. `EveryNumber` says it for sets instead (a set of naturals with 0 and with the
successor of each of its members holds them all), from the well-foundedness of `<`. From it,
`RecursionExists`: a function with a given value at 0 and a given step exists. That is how the
recursive functions of the models (`Doubled`, `Ten`, `CursorsOf`, `ItemsIn`) get their defining
equation.

### Only model-checked

Liveness (fairness and ENABLED are beyond the prover): `WalkEnds`, `ChannelServed`, `NothingLeft`
and the four of `socket_live`. Every safety property of the runs has a theorem.

`Checker` and the lister in `Surface` recur over schemas, values and declarations as RECURSIVE
operators, which the provers cannot take. Both are held to their reference definitions on
bounded inputs, by assumptions of `Conformance` and `Release` that TLC evaluates and the proofs use. For all
schemas the checker's would not hold: the exceptions in section 3 are cases it gets wrong.

## 5. Not modelled

* The other examples: straight-line demonstrations.
* Wire formats, URLs, headers, error texts, redaction, cryptography, and the generated
  models: no state, and vectors in the repository test them.
* The generators, oasdiff's grading, the release summary and the smoke test: the gate
  is modelled from their outcome.
* The random part of backoffs and retry delays: it changes how long a step takes, which
  the models leave open.
* Rate limiter and transport in one module: `Rest` takes waits of any length, which
  includes the limiter's, but a reservation spent on a request whose sign-in was slow is in
  neither (a hazard without a property, as is a refused subscribe, which the SDK
  by design does not retry).
