---------------------------------- MODULE Bot ----------------------------------
(***************************************************************************)
(* The quoting bot, examples/bot/main.go: its main goroutine, the reader    *)
(* that hands it books, the reader of the account socket, and the exchange  *)
(* behind a network that loses answers and delays requests.                 *)
(*                                                                          *)
(* A request the bot gave up on may still reach the exchange, until the     *)
(* grace window of cancel-on-disconnect is over.                            *)
(***************************************************************************)
EXTENDS Decimals, FiniteSets

CONSTANTS
    Tick,           \* the market's tick_size
    Offset,         \* -offset
    Books,          \* the books the market stream sends: [bid, ask], None for an empty side
    Ticks, Prices,  \* tick sizes and prices the rounding is tried on
    MaxRounds       \* bound of the requotes

ASSUME BotAssumption == MaxRounds \in Nat \ {0} /\ Offset \in Nat
\* A tick_size is positive, and the exchange's books are on the grid.
ASSUME GridAssumption ==
    /\ \A t \in {Tick} \cup Ticks : IsDecimal(t) /\ t.n > 0
    /\ \A p \in Prices : IsDecimal(p)
    /\ \A b \in Books : \A x \in {b.bid, b.ask} \ {None} : IsDecimal(x) /\ OnGrid(x, Tick)

VARIABLES
    ctx,            \* ctx is done: a signal, or -duration
    main,           \* run: its place, the quoter's resting, the request in progress, see Init
    feed,           \* readBooks, and the channel of capacity one
    sub,            \* the account socket
    wire,           \* requests that may reach the exchange
    orders,         \* exchange: the resting orders of the account
    cod,            \* exchange: cancel-on-disconnect, see Init
    unknown,        \* history: orders whose cancel failed, or whose CreateOrders did
    uncovered,      \* history: orders accepted after the grace window of an account socket still down
    late            \* history: orders of a CreateOrders the bot had given up on when it was served

exchange == <<orders, cod>>
history == <<unknown, uncovered, late>>
vars == <<ctx, main, feed, sub, wire, exchange, history>>

Elsewhere == <<0, "in another market">>      \* an order of the account in another market
Ours == orders \ {Elsewhere}
NoBook == [bid |-> None, ask |-> None]
NoRequest == [kind |-> "none", id |-> <<>>, quotes |-> {}]
NoAnswer == [is |-> "none", ids |-> {}]
Ask(kind, id, quotes) == [kind |-> kind, id |-> id, quotes |-> quotes]

Init ==
    /\ ctx = FALSE
    /\ main = [pc |-> "newQuoter", resting |-> <<>>, todo |-> <<>>, book |-> NoBook, round |-> 0,
               req |-> NoRequest, answer |-> NoAnswer, exit |-> "none"]
    /\ feed = [pc |-> "off", latest |-> NoBook, books |-> {}]
    /\ sub = "none" /\ wire = {}
    /\ orders = {Elsewhere}
    /\ cod \in [enabled : {FALSE}, active : BOOLEAN, fired : {FALSE}]
    /\ unknown = {} /\ uncovered = {} /\ late = {}

Alive == main.pc # "dead"

\* run goes on, or it returns: its deferred Closes close the sockets and the process ends.
Goes(pc) == main' = [main EXCEPT !.pc = pc, !.req = NoRequest, !.answer = NoAnswer] /\ UNCHANGED <<feed, sub>>
Returns(how) ==
    /\ main' = [main EXCEPT !.pc = "dead", !.exit = how, !.todo = <<>>, !.book = NoBook, !.req = NoRequest, !.answer = NoAnswer]
    /\ sub' = IF sub = "none" THEN sub ELSE "closed"
    /\ feed' = [feed EXCEPT !.pc = "off", !.latest = NoBook, !.books = {}]

\* A request goes out, unless its context is done: then it fails as if its answer was lost.
Sends(r) == /\ main.req = NoRequest
            /\ main' = [main EXCEPT !.req = r] /\ wire' = wire \cup {r} /\ UNCHANGED <<feed, sub>>
Answered == main.answer # NoAnswer
\* An error: the answer is lost (the network, a timeout, ctx), or it is a refusal, which changes
\* nothing at the exchange, as if the request was.
Fails(bounded) == ~Answered /\ (main.req # NoRequest \/ (bounded /\ ctx))

-----------------------------------------------------------------------------
(* run, up to its loop: the quoter, the account socket, the safety net, the market stream. *)

MarketStream ==
    /\ main.pc = "marketStream" /\ ~ctx /\ main' = [main EXCEPT !.pc = "loop"]
    /\ feed' = [feed EXCEPT !.pc = "next"] /\ UNCHANGED sub

Setup ==
    /\ \/ main.pc = "newQuoter" /\ Goes("subscribe")
       \/ main.pc = "subscribe" /\ ~ctx /\ sub' = "open" /\ main' = [main EXCEPT !.pc = "cod"] /\ UNCHANGED feed
       \/ MarketStream
       \/ main.pc \in {"newQuoter", "subscribe", "marketStream"} /\ Returns("failed")
    /\ UNCHANGED <<ctx, wire, exchange, history>>

SetCancelOnDisconnect ==
    /\ main.pc = "cod" /\ ~ctx /\ Sends(Ask("cod", <<>>, {}))
    /\ UNCHANGED <<ctx, exchange, history>>

\* An inactive exchange-side switch is only warned about.
CodDoneIgnored ==
    /\ main.pc = "cod" /\ (Answered \/ Fails(TRUE)) /\ Goes("marketStream")
    /\ UNCHANGED <<ctx, wire, exchange, history>>
CodDone ==
    /\ main.pc = "cod"
    /\ \/ main.answer.is = "ok" /\ Goes("marketStream")
       \/ Fails(TRUE) /\ Returns("failed")
    /\ UNCHANGED <<ctx, wire, exchange, history>>

(* readBooks and logAccount: each ends with ctx, and ctx ends the socket it reads. *)

\* A frame of the market-data socket: its type, and the book it carries, if any.
FrameTypes == {"BookUpdate", "Trade", "MarketHalted", "MarketResumed", "gap", "error", "unknown"}
Frames == {[type |-> "BookUpdate", book |-> {b}] : b \in Books} \cup [type : FrameTypes, book : {{}}]

\* What readBooks tells apart: a book, an error frame, after which Next closes the stream for good,
\* and the rest; a BookUpdate without its book is unrecognized.
decodeStream(f) ==
    [refused |-> f.type = "error", book |-> IF f.type = "BookUpdate" THEN f.book ELSE {}]

ReadFrameUndrained(f) ==
    /\ feed.pc = "next" /\ ~ctx
    /\ LET ev == decodeStream(f) IN
       \/ \E b \in ev.book : feed' = [feed EXCEPT !.pc = "send", !.latest = b]
       \/ ev.refused /\ feed' = [feed EXCEPT !.pc = "off"]
    /\ UNCHANGED <<ctx, main, sub, wire, exchange, history>>
\* Any other event is passed over; and after an error nobody reads books any more, while the loop
\* goes on waiting for one.
ReadFrame(f) ==
    /\ feed.pc = "next" /\ ~ctx
    /\ LET ev == decodeStream(f) IN
       \/ \E b \in ev.book : feed' = [feed EXCEPT !.pc = "send", !.latest = b, !.books = {}]
       \/ ev.refused /\ feed' = [feed EXCEPT !.pc = "off"]
    /\ UNCHANGED <<ctx, main, sub, wire, exchange, history>>

\* The channel was drained, and nobody else sends on it: this never waits.
SendBook ==
    /\ feed.pc = "send" /\ feed.books = {}
    /\ feed' = [pc |-> "next", latest |-> NoBook, books |-> {feed.latest}]
    /\ UNCHANGED <<ctx, main, sub, wire, exchange, history>>

ReadersEnd ==
    /\ ctx /\ Alive /\ (sub \in {"open", "broken"} \/ feed.pc = "next")
    /\ sub' = IF sub = "none" THEN sub ELSE "closed"
    /\ feed' = [feed EXCEPT !.pc = IF @ = "next" THEN "off" ELSE @]
    /\ UNCHANGED <<ctx, main, wire, exchange, history>>

\* The account socket breaks, and logAccount's Next opens it again.
SocketBreaks == /\ sub = "open" /\ Alive /\ sub' = "broken"
                /\ UNCHANGED <<ctx, main, feed, wire, exchange, history>>
SocketReturns == /\ sub = "broken" /\ Alive /\ ~ctx /\ sub' = "open" /\ cod' = [cod EXCEPT !.fired = FALSE] /\ uncovered' = {}
                 /\ UNCHANGED <<ctx, main, feed, wire, orders, unknown, late>>

-----------------------------------------------------------------------------
(* The loop, and requote. *)

\* The select takes either case when both are ready.
LoopDone ==
    /\ main.pc = "loop" /\ ctx /\ Goes("cancelAll")
    /\ UNCHANGED <<ctx, wire, exchange, history>>

\* A book that comes within -every of the last requote, or has an empty side, is dropped.
TakeBook ==
    /\ main.pc = "loop"
    /\ \E b \in feed.books :
          /\ feed' = [feed EXCEPT !.books = {}]
          /\ \/ UNCHANGED main
             \/ /\ main.round < MaxRounds /\ None \notin {b.bid, b.ask}
                /\ main' = [main EXCEPT !.pc = "cancelResting", !.todo = main.resting, !.book = b, !.round = @ + 1]
    /\ UNCHANGED <<ctx, sub, wire, exchange, history>>

CancelOrder ==
    /\ main.pc = "cancelResting" /\ main.todo # <<>> /\ ~ctx
    /\ Sends(Ask("cancel", main.todo[1], {}))
    /\ UNCHANGED <<ctx, exchange, history>>

\* A 404 is as good as a cancel; any other error is only logged.
CancelDone ==
    /\ main.pc = "cancelResting" /\ main.todo # <<>>
    /\ \/ main.answer.is \in {"ok", "not found"} /\ UNCHANGED unknown
       \/ Fails(TRUE) /\ unknown' = unknown \cup ({main.todo[1]} \cap orders)
    /\ main' = [main EXCEPT !.todo = Tail(@), !.req = NoRequest, !.answer = NoAnswer]
    /\ UNCHANGED <<ctx, feed, sub, wire, exchange, uncovered, late>>

\* quote, for both sides of the book.
Quotes ==
    {[id |-> <<main.round, s>>, side |-> s, best |-> IF s = Buy THEN main.book.bid ELSE main.book.ask,
      price |-> quote(Tick, Offset, s, IF s = Buy THEN main.book.bid ELSE main.book.ask)] : s \in {Buy, Sell}}

CreateOrders ==
    /\ main.pc = "cancelResting" /\ main.todo = <<>> /\ ~ctx
    /\ LET r == Ask("create", <<main.round>>, {q \in Quotes : q.price # None})
       IN  main' = [main EXCEPT !.pc = "create", !.resting = <<>>, !.req = r, !.book = NoBook] /\ wire' = wire \cup {r}
    /\ UNCHANGED <<ctx, feed, sub, exchange, history>>

CreateCancelled ==
    /\ main.pc = "cancelResting" /\ main.todo = <<>> /\ ctx
    /\ main' = [main EXCEPT !.pc = "loop", !.resting = <<>>, !.book = NoBook]
    /\ UNCHANGED <<ctx, feed, sub, wire, exchange, history>>

\* The ids of the results that are "ok" are the resting quotes; an error is only logged.
Placed(ids) == IF ids = {} THEN <<>>
               ELSE IF Cardinality(ids) = 1 THEN <<CHOOSE i \in ids : TRUE>>
               ELSE <<<<main.round, Buy>>, <<main.round, Sell>>>>
CreateDone ==
    /\ main.pc = "create" /\ (Answered \/ Fails(TRUE))
    /\ LET ids == {q.id : q \in main.req.quotes}
           ok == IF main.answer.is = "ok" THEN main.answer.ids ELSE {}
       IN  /\ main' = [main EXCEPT !.pc = "loop", !.resting = Placed(ok), !.req = NoRequest, !.answer = NoAnswer]
           /\ unknown' = IF Answered THEN unknown ELSE unknown \cup ids
    /\ UNCHANGED <<ctx, feed, sub, wire, exchange, uncovered, late>>

-----------------------------------------------------------------------------
(* shutdown, on a context of its own. *)

CancelAllOrders ==
    /\ main.pc = "cancelAll" /\ Sends(Ask("cancelAll", <<>>, {}))
    /\ UNCHANGED <<ctx, exchange, history>>

CancelAllDone ==
    /\ main.pc = "cancelAll"
    /\ \/ main.answer.is = "ok" /\ Goes("readBack")
       \/ Fails(FALSE) /\ Returns("failed")
    /\ UNCHANGED <<ctx, wire, exchange, history>>

FetchOpenOrders ==
    /\ main.pc = "readBack" /\ Sends(Ask("open", <<>>, {}))
    /\ UNCHANGED <<ctx, exchange, history>>

Left == main.answer.ids \ {Elsewhere}
ReadBackDoneUnread ==
    /\ main.pc = "readBack"
    /\ \/ main.answer.is = "ok" /\ Returns("clean")
       \/ Fails(FALSE) /\ Returns("failed")
    /\ UNCHANGED <<ctx, wire, exchange, history>>
ReadBackDone ==
    /\ main.pc = "readBack"
    /\ \/ main.answer.is = "ok" /\ Returns(IF Left = {} THEN "clean" ELSE "failed")
       \/ Fails(FALSE) /\ Returns("failed")
    /\ UNCHANGED <<ctx, wire, exchange, history>>

-----------------------------------------------------------------------------
(* The exchange, the network, and the ends. *)

\* An answer is for the request in progress; one the bot gave up on is answered to nobody.
Answers(r, is, ids) == main' = IF main.req = r THEN [main EXCEPT !.answer = [is |-> is, ids |-> ids]] ELSE main

\* Orders that are gone leave the histories too.
Remove(ids) == /\ orders' = orders \ ids /\ unknown' = unknown \ ids
               /\ uncovered' = uncovered \ ids /\ late' = late \ ids

\* Post-only orders of a batch are accepted or rejected each; "a short cancel list proves nothing".
Serve(r) ==
    /\ wire' = wire \ {r}
    /\ \/ r.kind = "cod" /\ Answers(r, "ok", {}) /\ cod' = [cod EXCEPT !.enabled = TRUE] /\ UNCHANGED <<orders, history>>
       \/ /\ r.kind = "cancel" /\ Answers(r, IF r.id \in orders THEN "ok" ELSE "not found", {})
          /\ Remove({r.id}) /\ UNCHANGED cod
       \/ /\ r.kind = "create"
          /\ \E ids \in SUBSET {q.id : q \in r.quotes} :
                /\ Answers(r, "ok", ids) /\ orders' = orders \cup ids
                /\ late' = IF main.req = r THEN late ELSE late \cup ids
                /\ uncovered' = IF cod.fired THEN uncovered \cup ids ELSE uncovered
          /\ UNCHANGED <<cod, unknown>>
       \/ /\ r.kind = "cancelAll" /\ Answers(r, "ok", {})
          /\ \E gone \in SUBSET Ours : Remove(gone)
          /\ UNCHANGED cod
       \/ r.kind = "open" /\ Answers(r, "ok", orders) /\ UNCHANGED <<exchange, history>>
    /\ UNCHANGED <<ctx, feed, sub>>

Drop(r) == wire' = wire \ {r} /\ UNCHANGED <<ctx, main, feed, sub, exchange, history>>

Fill(o) == Remove({o}) /\ UNCHANGED <<ctx, main, feed, sub, wire, cod>>

\* The account's last socket dropped and did not return: every order of the account is cancelled,
\* once.  A create that is still on its way arrives before.
GraceFires ==
    /\ cod.enabled /\ cod.active /\ ~cod.fired /\ sub \in {"broken", "closed"}
    /\ \A r \in wire : r.kind # "create"
    /\ Remove(orders) /\ cod' = [cod EXCEPT !.fired = TRUE]
    /\ UNCHANGED <<ctx, main, feed, sub, wire>>

CtxEnds == Alive /\ ~ctx /\ ctx' = TRUE /\ UNCHANGED <<main, feed, sub, wire, exchange, history>>
Crash == Alive /\ Returns("crash") /\ UNCHANGED <<ctx, wire, exchange, history>>

Run ==
    \/ Setup \/ SetCancelOnDisconnect \/ CodDone \/ LoopDone \/ CancelOrder \/ CancelDone
    \/ CreateOrders \/ CreateCancelled \/ CreateDone \/ CancelAllOrders \/ CancelAllDone
    \/ FetchOpenOrders \/ ReadBackDone
Readers == SendBook \/ ReadersEnd \/ SocketReturns
Network == \E r \in wire : Serve(r) \/ Drop(r)
Next ==
    \/ Run \/ TakeBook \/ Readers \/ Network \/ GraceFires
    \/ \E f \in Frames : ReadFrame(f)
    \/ SocketBreaks \/ CtxEnds \/ Crash
    \/ \E o \in Ours : Fill(o)

\* Goroutines that can run do; a request is answered, lost or timed out; the exchange keeps the
\* promise of an active cancel-on-disconnect.
Fairness == WF_vars(Run) /\ WF_vars(Readers) /\ WF_vars(Network) /\ WF_vars(GraceFires)
Spec == Init /\ [][Next]_vars /\ Fairness

-----------------------------------------------------------------------------
(* Properties. *)

\* The types; and readBooks never waits to send a book, so it keeps reading (readBooks: "dropping
\* stale ones"), and the quoter keeps at most two ids.
TypeOK ==
    /\ ctx \in BOOLEAN
    /\ main.round \in 0..MaxRounds /\ Len(main.resting) <= 2
    /\ feed.pc = "send" => feed.books = {}
    /\ sub \in {"none", "open", "broken", "closed"}

\* What the bot may believe: every order it has resting is in its list, unless it was told of a
\* failure that makes it unknown (requote, cancelResting); and "cancels its resting orders over REST
\* and checks that none remain" (main.go:12-13): after a clean exit only a batch it had given up on,
\* and that reached the exchange after the check, can rest.
Accounted ==
    /\ (Alive /\ main.pc # "create")
           => Ours \subseteq {main.resting[i] : i \in 1..Len(main.resting)} \cup unknown
    /\ main.exit = "clean" => Ours \subseteq late

\* "Cancel-on-disconnect is the backstop for a crash" (main.go:14): with the switch on, once the bot
\* is stopped or dead nothing of it rests for ever, but what it placed while its account socket was
\* down for longer than the grace window.
NothingLeft == []((ctx \/ ~Alive) /\ cod.active => <>[](Ours \subseteq uncovered))

\* "best is on the tick grid and so is the offset, so the quote is too" (quote): what is sent is
\* positive, on the grid, outside the touch it was computed from, and RoundPrice would not change it.
\* And RoundPrice, on any price and tick: on the grid, on the passive side, less than a tick away.
GridSafe ==
    /\ \A r \in wire : \A q \in r.quotes :
          /\ OnGrid(q.price, Tick) /\ q.price.n > 0
          /\ SameValue(Rat(RoundPrice(Tick, q.price, q.side)), Rat(q.price))
          /\ IF q.side = Buy THEN Leq(Rat(q.price), Rat(q.best)) ELSE Leq(Rat(q.best), Rat(q.price))
    /\ main.pc = "newQuoter" =>
          \A t \in Ticks, p \in Prices, s \in {Buy, Sell} : Passive(RoundPrice(t, p, s), t, p, s)
===============================================================================
