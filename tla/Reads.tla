--------------------------------- MODULE Reads ---------------------------------
(***************************************************************************)
(* The two iterators of the SDK that make many requests: paginate           *)
(* (pagination.go), which follows a server's cursors, and FetchOHLCVHistory *)
(* (market.go), which walks candles back in time.  Each runs against a      *)
(* server whose data is fixed for the walk, with a caller that may break at *)
(* any item, and requests that may fail.                                    *)
(***************************************************************************)
EXTENDS Integers, Sequences, SequencesExt, FiniteSets

CONSTANTS
    Cursors,        \* the cursors a server hands out
    Sizes,          \* how many items a page may have
    Times,          \* when candles may start, in ms
    Limits,         \* how many candles one response holds
    MaxPages        \* bound of the requests: a cycle of cursors never ends

First == ""
\* A candle starts at a multiple of its length.  One that started 1 ms after 0 would make the next
\* EndTime zero, which means now.
ASSUME ReadsAssumption ==
    /\ First \notin Cursors /\ MaxPages > Cardinality(Cursors) + 1
    /\ Sizes \subseteq Nat /\ Limits \subseteq Nat \ {0}
    /\ Times \subseteq Nat \ {1} /\ IsFiniteSet(Times)

VARIABLES
    walk,       \* the iterator and its parameters
    served,     \* the server's data
    pc,         \* "ask", "yield" or "done"
    cursor,     \* the cursor, or the EndTime, of the next request
    page,       \* the response being yielded
    asked,      \* how many requests were answered
    out,        \* what was yielded
    why         \* how the walk ended: at its end, by an error, by the caller

vars == <<walk, served, pc, cursor, page, asked, out, why>>

Shapes == {"array", "envelope"}
\* A page, its next cursor where its shape has it, and what the other place holds.
Pages == [size : Sizes, next : Cursors \cup {First}, shape : Shapes, other : {First} \cup Cursors]
ItemsOf(c, p) == [i \in 1..p.size |-> <<c, i>>]

Init ==
    /\ pc = "ask" /\ page = <<>> /\ asked = 0 /\ out = <<>> /\ why = "none"
    /\ \/ /\ walk = [of |-> "pages", start |-> 0, end |-> 0, limit |-> 0]
          /\ served \in [Cursors \cup {First} -> Pages] /\ cursor = First
       \/ /\ walk \in [of : {"candles"}, start : Times \cup {0}, end : Times \cup {0}, limit : Limits]
          /\ served \in [times : SUBSET Times, honours : BOOLEAN, malformed : BOOLEAN] /\ cursor = walk.end

Ends(how) == pc' = "done" /\ why' = how /\ page' = <<>>
Yields(items) == pc' = "yield" /\ page' = items /\ UNCHANGED why

-----------------------------------------------------------------------------
(* paginate. *)

\* listPage: an envelope's next_cursor, an array's X-Next-Cursor header.
HeaderOf(p) == IF p.shape = "array" THEN p.next ELSE p.other
BodyOf(p) == IF p.shape = "envelope" THEN p.next ELSE First
NextCursorEither(p) == IF HeaderOf(p) # First THEN HeaderOf(p) ELSE BodyOf(p)
NextCursor(p) == IF p.shape = "envelope" THEN BodyOf(p) ELSE HeaderOf(p)

AskPage ==
    /\ pc = "ask" /\ walk.of = "pages" /\ asked < MaxPages
    /\ \/ Yields(ItemsOf(cursor, served[cursor])) /\ asked' = asked + 1
       \/ Ends("error") /\ UNCHANGED asked
    /\ UNCHANGED <<walk, served, cursor, out>>

\* After the page: the end, a server that returned the cursor it was sent, or the next page.
PageDoneUnchecked ==
    /\ pc = "yield" /\ walk.of = "pages" /\ page = <<>>
    /\ LET next == NextCursor(served[cursor])
       IN  IF next = First THEN Ends("end") /\ UNCHANGED cursor
           ELSE pc' = "ask" /\ cursor' = next /\ UNCHANGED <<page, why>>
    /\ UNCHANGED <<walk, served, asked, out>>
PageDone ==
    /\ pc = "yield" /\ walk.of = "pages" /\ page = <<>>
    /\ LET next == NextCursor(served[cursor])
       IN  \/ next = First /\ Ends("end") /\ UNCHANGED cursor
           \/ next # First /\ next = cursor /\ Ends("error") /\ UNCHANGED cursor
           \/ next \notin {First, cursor} /\ pc' = "ask" /\ cursor' = next /\ UNCHANGED <<page, why>>
    /\ UNCHANGED <<walk, served, asked, out>>

-----------------------------------------------------------------------------
(* FetchOHLCVHistory. *)

\* The newest of a set of times is its first, and a set in that order.
Rank(ts, t) == Cardinality({u \in ts : u >= t})
Descending(ts) == [i \in 1..Cardinality(ts) |-> CHOOSE t \in ts : Rank(ts, t) = i]

\* The server: the latest limit candles up to endTime, or up to now without one, ascending.
Until(end) == {t \in served.times : end = 0 \/ t <= end}
Latest(ts, n) == {t \in ts : Rank(ts, t) <= n}
Candles(end) ==
    LET ts == IF served.honours THEN Until(end) ELSE served.times
    IN  Reverse(Descending(Latest(ts, walk.limit)))

\* One candle without its six fields fails the response.
Decodes == ~served.malformed
AskCandles ==
    /\ pc = "ask" /\ walk.of = "candles"
    /\ LET bars == Candles(cursor)
       IN  \/ /\ bars = <<>> /\ Ends("end")
           \/ /\ bars # <<>> /\ Decodes
              /\ IF cursor # 0 /\ Last(bars) > cursor THEN Ends("error") ELSE Yields(bars)
           \/ Ends("error")
    /\ asked' = asked + 1
    /\ UNCHANGED <<walk, served, cursor, out>>

\* The response is yielded newest first, down to StartTime; the next one ends before its oldest.
NextEndAt(oldest) == oldest
NextEnd(oldest) == oldest - 1

-----------------------------------------------------------------------------
(* Both: an item is yielded, and the caller goes on or breaks. *)

Item == IF walk.of = "pages" THEN Head(page) ELSE Last(page)
Yield ==
    /\ pc = "yield" /\ page # <<>>
    /\ IF walk.of = "candles" /\ Item < walk.start
       THEN Ends("end") /\ UNCHANGED <<out, cursor>>
       ELSE /\ out' = Append(out, Item)
            /\ \/ Ends("break") /\ UNCHANGED cursor
               \/ /\ walk.of = "pages" /\ page' = Tail(page) /\ UNCHANGED <<pc, why, cursor>>
               \/ /\ walk.of = "candles" /\ Len(page) > 1 /\ page' = Front(page) /\ UNCHANGED <<pc, why, cursor>>
               \/ /\ walk.of = "candles" /\ Len(page) = 1
                  /\ IF Item <= 0 THEN Ends("end") /\ UNCHANGED cursor
                     ELSE pc' = "ask" /\ page' = <<>> /\ cursor' = NextEnd(Item) /\ UNCHANGED why
    /\ UNCHANGED <<walk, served, asked>>

Step == AskPage \/ PageDone \/ AskCandles \/ Yield
Next == Step
Spec == Init /\ [][Next]_vars /\ WF_vars(Step)

-----------------------------------------------------------------------------
(* What a walk promises. *)

\* The cursors in the order a faithful client meets them, and the items of the first n pages.
CursorsOf(pages) ==
    LET at[n \in Nat] == IF n = 0 THEN First ELSE pages[at[n - 1]].next IN at
ItemsIn(pages) ==
    LET upTo[n \in Nat] ==
            IF n = 0 THEN <<>>
            ELSE LET c == CursorsOf(pages)[n - 1] IN upTo[n - 1] \o ItemsOf(c, pages[c])
    IN  upTo
CursorAt(n) == CursorsOf(served)[n]
ItemsUpTo(n) == ItemsIn(served)[n]

\* The candles of the window.
InWindow == {t \in Until(walk.end) : t >= walk.start}

\* "yielding every item of every page in order" (paginate), "newest first ... It stops when the server
\* has no older bars, when it passes p.StartTime" (FetchOHLCVHistory): what was yielded is the start of
\* the server's list, and all of it when the walk ended by itself, whatever the shape of a page, its
\* size, the limit, or a server that ignores endTime.
Whole ==
    /\ walk.of = "pages" =>
          /\ IsPrefix(out, ItemsUpTo(asked))
          /\ why = "end" => out = ItemsUpTo(asked) /\ CursorAt(asked) = First
    /\ walk.of = "candles" =>
          /\ IsPrefix(out, Descending(InWindow))
          /\ why = "end" => out = Descending(InWindow)

\* The cursors do not come back to one that was sent before the last.
NoCycle ==
    \E n \in 1..Cardinality(Cursors) + 1 :
        CursorAt(n) = First \/ CursorAt(n) = CursorAt(n - 1)

\* A walk whose caller keeps on reading ends: always for candles, also when the server ignores endTime
\* ("the walk detects that"), and for pages unless the cursors go around in a cycle of two or more,
\* of which paginate detects only "the cursor it was sent".
WalkEnds == (walk.of = "candles" \/ NoCycle) ~> pc = "done"
===============================================================================
