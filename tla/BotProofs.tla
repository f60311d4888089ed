------------------------------- MODULE BotProofs -------------------------------
(***************************************************************************)
(* Theorems about the quoting bot, for any market, books and number of      *)
(* requotes: what rests is in its list or known to be unknown, and a clean  *)
(* stop leaves nothing but a batch it had given up on; every price it asks  *)
(* for is on the grid.  And about Decimals: the roundings of the SDK, for   *)
(* every tick and price.                                                    *)
(*                                                                          *)
(* What makes the first true is that no two batches share an id, so a batch *)
(* that is served late adds nothing the bot believes to have cancelled, and *)
(* nothing it has cancelled comes back.                                     *)
(***************************************************************************)
EXTENDS Bot, Numbers, SequenceTheorems, FiniteSetTheorems, TLAPS

-----------------------------------------------------------------------------
(* Shapes.                                                                  *)

Ids == Nat \X {Buy, Sell}
RoundOf(id) == id[1]
Elems(s) == {s[i] : i \in 1..Len(s)}
IdsOf(r) == {q.id : q \in r.quotes}

Pcs == {"newQuoter", "subscribe", "cod", "marketStream", "loop", "cancelResting", "create", "cancelAll", "readBack", "dead"}
AnswerType == [is : {"none", "ok", "not found"}, ids : SUBSET (Ids \cup {Elsewhere})]
Shape ==
    /\ main \in [pc : Pcs, resting : Seq(Ids), todo : Seq(Ids), book : {main.book}, round : 0..MaxRounds, req : {main.req},
                 answer : AnswerType, exit : {"none", "failed", "clean", "crash"}]
    /\ Len(main.resting) <= 2
    /\ feed \in [pc : {"off", "next", "send"}, latest : {feed.latest}, books : {feed.books}]
    /\ feed.pc = "send" => feed.books = {}
    /\ ctx \in BOOLEAN /\ sub \in {"none", "open", "broken", "closed"}
    /\ orders \subseteq Ids \cup {Elsewhere}

\* A request is of the kind its place in the code sends, a batch of quotes has ids of one round.
Formed(r) ==
    /\ r.kind \in {"cod", "cancel", "create", "cancelAll", "open"}
    /\ r.kind = "cancel" => r.id \in Ids
    /\ r.kind = "create" => /\ RoundOf(r.id) \in 1..main.round
                            /\ IdsOf(r) \subseteq {<<RoundOf(r.id), Buy>>, <<RoundOf(r.id), Sell>>}
KindAt(kind, pc) ==
    \/ kind = "cod" /\ pc = "cod"
    \/ kind = "cancel" /\ pc = "cancelResting"
    \/ kind = "create" /\ pc = "create"
    \/ kind = "cancelAll" /\ pc = "cancelAll"
    \/ kind = "open" /\ pc = "readBack"
RequestInv ==
    /\ \A r \in wire : Formed(r)
    /\ main.req # NoRequest => KindAt(main.req.kind, main.pc)
    /\ main.req = NoRequest => main.answer = NoAnswer
    /\ main.pc = "cancelResting" /\ main.todo = <<>> => main.req = NoRequest

-----------------------------------------------------------------------------
(* The invariant.                                                           *)

Creates == {r \in wire : r.kind = "create"}

\* The orders that were accepted or answered for, whatever became of them since.
Named == orders \cup Elems(main.resting) \cup Elems(main.todo) \cup {r.id : r \in {q \in wire : q.kind = "cancel"}}
         \cup (IF main.pc = "create" THEN main.answer.ids ELSE {})

\* A batch on its way shares no id with another, nor with what was accepted or answered for.
ApartInv ==
    /\ \A r, q \in Creates : RoundOf(r.id) = RoundOf(q.id) => r = q
    /\ \A r \in Creates : \A o \in Named : RoundOf(o) # RoundOf(r.id)

\* The batch a requote is about to send has a round of its own.
FreshInv ==
    /\ \A o \in Named : RoundOf(o) <= main.round
    /\ main.pc = "cancelResting" =>
          /\ main.round > 0
          /\ \A r \in Creates : RoundOf(r.id) < main.round
          /\ \A o \in Named : RoundOf(o) < main.round

\* Where the bot's orders are, by its place.
PlacesInv ==
    Alive =>
        /\ \A r \in Creates : r = main.req \/ IdsOf(r) \subseteq unknown
        /\ main.pc = "create" =>
              /\ Ours \subseteq unknown \cup main.answer.ids
              /\ main.answer.ids \subseteq IdsOf(main.req)
              /\ main.req # NoRequest /\ IdsOf(main.req) \subseteq {<<main.round, Buy>>, <<main.round, Sell>>}
              /\ main.answer = NoAnswer \/ (main.answer.is = "ok" /\ main.req \notin wire)
        /\ main.pc = "cancelResting" =>
              /\ Ours \subseteq Elems(main.todo) \cup unknown
              /\ Elems(main.todo) \subseteq Elems(main.resting)
              /\ main.answer.is \in {"ok", "not found"} => main.todo[1] \notin orders
              /\ main.req # NoRequest => main.req.id = main.todo[1]
        /\ main.pc # "create" => Ours \subseteq Elems(main.resting) \cup unknown

\* What a clean exit is based on.
EndInv ==
    /\ main.pc = "readBack" /\ main.answer.is = "ok" => Ours \subseteq main.answer.ids \cup late
    /\ main.exit = "clean" => ~Alive /\ Ours \subseteq late

BotInv == Shape /\ RequestInv /\ ApartInv /\ FreshInv /\ PlacesInv /\ EndInv

-----------------------------------------------------------------------------
(* Facts about ids and lists.                                               *)

LEMMA Rounds ==
    /\ \A o \in Ids \cup {Elsewhere} : RoundOf(o) \in Nat
    /\ \A n \in Nat : /\ <<n, Buy>> \in Ids /\ RoundOf(<<n, Buy>>) = n
                      /\ <<n, Sell>> \in Ids /\ RoundOf(<<n, Sell>>) = n
<1>1. \A o \in Ids : RoundOf(o) \in Nat
  BY DEF Ids, RoundOf
<1>2. RoundOf(Elsewhere) \in Nat
  BY DEF Elsewhere, RoundOf
<1>3. ASSUME NEW n \in Nat PROVE <<n, Buy>> \in Ids /\ <<n, Sell>> \in Ids
  BY DEF Ids
<1>4. ASSUME NEW n \in Nat PROVE RoundOf(<<n, Buy>>) = n /\ RoundOf(<<n, Sell>>) = n
  BY DEF RoundOf
<1> QED
  BY <1>1, <1>2, <1>3, <1>4

LEMMA BatchRounds ==
    ASSUME NEW r, RoundOf(r.id) \in Nat, IdsOf(r) \subseteq {<<RoundOf(r.id), Buy>>, <<RoundOf(r.id), Sell>>}
    PROVE  \A o \in IdsOf(r) : o \in Ids /\ RoundOf(o) = RoundOf(r.id)
<1> DEFINE n == RoundOf(r.id)
<1>1. /\ <<n, Buy>> \in Ids /\ RoundOf(<<n, Buy>>) = n
      /\ <<n, Sell>> \in Ids /\ RoundOf(<<n, Sell>>) = n
  BY Rounds
<1>2. \A o \in IdsOf(r) : o = <<n, Buy>> \/ o = <<n, Sell>>
  OBVIOUS
<1> QED
  BY <1>1, <1>2

LEMMA NoElems == Elems(<<>>) = {}
BY DEF Elems

LEMMA HeadAndTail ==
    ASSUME NEW s \in Seq(Ids), s # <<>>
    PROVE  Elems(s) = {s[1]} \cup Elems(Tail(s)) /\ Tail(s) \in Seq(Ids) /\ s[1] \in Ids
<1>1. Len(s) \in Nat \ {0} /\ Tail(s) \in Seq(Ids) /\ Len(Tail(s)) = Len(s) - 1
  OBVIOUS
<1>2. \A i \in 1..Len(Tail(s)) : Tail(s)[i] = s[i + 1]
  OBVIOUS
<1>3. \A i \in 1..Len(s) : i = 1 \/ (i - 1 \in 1..Len(Tail(s)) /\ s[i] = Tail(s)[i - 1])
  BY <1>1, <1>2
<1>4. Elems(s) \subseteq {s[1]} \cup Elems(Tail(s))
  BY <1>3 DEF Elems
<1>5. Elems(Tail(s)) \subseteq Elems(s)
  <2>1. \A i \in 1..Len(Tail(s)) : i + 1 \in 1..Len(s) /\ Tail(s)[i] = s[i + 1]
    BY <1>1, <1>2
  <2> QED
    BY <2>1 DEF Elems
<1>6. s[1] \in Elems(s) /\ s[1] \in Ids
  BY <1>1 DEF Elems
<1> QED
  BY <1>1, <1>4, <1>5, <1>6

LEMMA ElemsAreIds == \A s \in Seq(Ids) : Elems(s) \subseteq Ids
BY DEF Elems

\* Placed lists the ids it is given.
LEMMA PlacedLists ==
    ASSUME main.round \in Nat, NEW ids, ids \subseteq {<<main.round, Buy>>, <<main.round, Sell>>}
    PROVE  Placed(ids) \in Seq(Ids) /\ Len(Placed(ids)) <= 2 /\ Elems(Placed(ids)) = ids
<1> DEFINE b == <<main.round, Buy>>
           a == <<main.round, Sell>>
<1>1. b \in Ids /\ a \in Ids
  BY Rounds
<1> HIDE DEF a, b
<1>2. ids \subseteq {b, a}
  BY DEF a, b
<1>3. IsFiniteSet({b, a}) /\ IsFiniteSet(ids)
  <2>1. IsFiniteSet({b}) /\ IsFiniteSet({b} \cup {a})
    BY FS_Singleton, FS_AddElement
  <2>2. {b, a} = {b} \cup {a}
    OBVIOUS
  <2> QED
    BY <1>2, <2>1, <2>2, FS_Subset
<1>4. CASE ids = {}
  BY <1>4, NoElems DEF Placed
<1>5. CASE ids # {} /\ Cardinality(ids) = 1
  <2>1. PICK o : ids = {o}
    BY <1>3, <1>5, FS_Singleton
  <2>2. Placed(ids) = <<o>> /\ o \in Ids
    <3>1. (CHOOSE i \in ids : TRUE) \in ids
      BY <2>1
    <3> QED
      BY <1>1, <1>2, <1>5, <2>1, <3>1 DEF Placed
  <2>3. Len(<<o>>) = 1 /\ <<o>>[1] = o /\ 1..1 = {1} /\ <<o>> \in Seq(Ids)
    BY <2>2
  <2>4. Elems(<<o>>) = {o}
    BY <2>3 DEF Elems
  <2>5. Len(<<o>>) <= 2
    BY <2>3
  <2> QED
    BY <2>1, <2>2, <2>3, <2>4, <2>5, Zenon
<1>6. CASE ids # {} /\ Cardinality(ids) # 1
  <2>1. \A o : ids # {o}
    BY <1>6, FS_Singleton
  <2>2. ids = {b, a}
    BY <1>2, <1>6, <2>1
  <2>3. Placed(ids) = <<b, a>>
    BY <1>6 DEF Placed, a, b
  <2>4. Elems(<<b, a>>) = {b, a} /\ Len(<<b, a>>) = 2 /\ <<b, a>> \in Seq(Ids)
    <3>1. Len(<<b, a>>) = 2 /\ <<b, a>>[1] = b /\ <<b, a>>[2] = a /\ 1..2 = {1, 2}
      OBVIOUS
    <3>2. Elems(<<b, a>>) = {<<b, a>>[i] : i \in {1, 2}}
      BY <3>1 DEF Elems
    <3> QED
      BY <1>1, <3>1, <3>2
  <2> QED
    <3>1. Len(<<b, a>>) <= 2
      BY <2>4
    <3> QED
      BY <2>2, <2>3, <2>4, <3>1, Zenon
<1> QED
  BY <1>4, <1>5, <1>6

-----------------------------------------------------------------------------
(* What steps of one kind keep.                                             *)

LEMMA NamedRounds ==
    ASSUME Shape, RequestInv
    PROVE  /\ \A o \in Named : o \in Ids \cup {Elsewhere} /\ RoundOf(o) \in Nat
           /\ \A r \in Creates : RoundOf(r.id) \in Nat /\ \A o \in IdsOf(r) : o \in Ids /\ RoundOf(o) = RoundOf(r.id)
<1>1. Elems(main.resting) \subseteq Ids /\ Elems(main.todo) \subseteq Ids
  BY ElemsAreIds DEF Shape
<1>2. \A r \in wire : r.kind = "cancel" => r.id \in Ids
  BY DEF RequestInv, Formed
<1>3. main.answer.ids \subseteq Ids \cup {Elsewhere} /\ orders \subseteq Ids \cup {Elsewhere}
  BY DEF Shape, AnswerType
<1>4. \A o \in Named : o \in Ids \cup {Elsewhere}
  BY <1>1, <1>2, <1>3 DEF Named
<1>5. ASSUME NEW r \in Creates
      PROVE  RoundOf(r.id) \in Nat /\ \A o \in IdsOf(r) : o \in Ids /\ RoundOf(o) = RoundOf(r.id)
  <2>1. RoundOf(r.id) \in 1..main.round /\ IdsOf(r) \subseteq {<<RoundOf(r.id), Buy>>, <<RoundOf(r.id), Sell>>}
    BY <1>5 DEF Creates, RequestInv, Formed
  <2>2. RoundOf(r.id) \in Nat
    BY <2>1 DEF Shape
  <2> QED
    BY <2>1, <2>2, BatchRounds
<1> QED
  BY <1>4, <1>5, Rounds

\* No id of a batch on its way is named.
LEMMA BatchesAreNew ==
    ASSUME Shape, RequestInv, ApartInv, NEW r \in Creates
    PROVE  IdsOf(r) \cap Named = {}
BY NamedRounds DEF ApartInv

\* A batch is asked for at one place.
LEMMA NoBatchAsked == ASSUME RequestInv, main.pc # "create" PROVE \A r \in Creates : r # main.req
<1>1. CASE main.req = NoRequest
  BY <1>1 DEF Creates, NoRequest
<1>2. CASE main.req # NoRequest
  <2>1. main.req.kind # "create"
    BY <1>2 DEF RequestInv, KindAt
  <2> QED
    BY <2>1 DEF Creates
<1> QED
  BY <1>1, <1>2

\* Nothing new is on its way or named.
LEMMA ApartKeeps ==
    ASSUME Shape, RequestInv, ApartInv, FreshInv, Creates' \subseteq Creates, Named' \subseteq Named,
           main'.round = main.round, main'.pc = "cancelResting" => main.pc = "cancelResting"
    PROVE  ApartInv' /\ FreshInv'
<1>1. ApartInv'
  BY DEF ApartInv
<1>2. FreshInv'
  BY DEF FreshInv
<1> QED
  BY <1>1, <1>2

\* Steps of the readers, the sockets and ctx.
LEMMA AsideKeeps ==
    ASSUME BotInv, Shape', UNCHANGED <<main, wire, orders, unknown, late>>
    PROVE  BotInv'
BY DEF BotInv, RequestInv, Formed, ApartInv, FreshInv, PlacesInv, EndInv, Alive, Ours, Creates, Named

\* run goes on to its next call.
LEMMA CalmKeeps ==
    ASSUME BotInv, Shape', UNCHANGED <<wire, orders, unknown, late>>,
           main'.resting = main.resting, main'.todo = main.todo, main'.round = main.round, main'.exit = main.exit,
           main'.req = NoRequest, main'.answer = NoAnswer,
           main.pc \notin {"create", "dead"}, main'.pc \notin {"create", "cancelResting", "dead"}
    PROVE  BotInv'
<1>0. Shape /\ RequestInv /\ ApartInv /\ FreshInv /\ PlacesInv /\ EndInv
  BY DEF BotInv
<1>1. RequestInv'
  BY <1>0 DEF RequestInv, Formed
<1>2. Creates' = Creates /\ Named' \subseteq Named
  BY DEF Creates, Named
<1>3. ApartInv' /\ FreshInv'
  BY <1>0, <1>2, ApartKeeps
<1>4. PlacesInv'
  <2>1. \A r \in Creates : r # main.req
    BY <1>0 DEF Creates, RequestInv, KindAt, NoRequest
  <2> QED
    BY <1>0, <1>2, <2>1 DEF PlacesInv, Alive, Ours
<1>5. EndInv'
  BY <1>0 DEF EndInv, NoAnswer, Alive, Ours
<1> QED
  BY <1>1, <1>3, <1>4, <1>5 DEF BotInv

\* run returns, or the process dies.
LEMMA ReturnsKeeps ==
    ASSUME BotInv, NEW how \in {"failed", "clean", "crash"}, Returns(how), how = "clean" => Ours \subseteq late,
           UNCHANGED <<ctx, wire, exchange, history>>
    PROVE  BotInv'
<1>0. Shape /\ RequestInv /\ ApartInv /\ FreshInv
  BY DEF BotInv
<1>1. Shape'
  <2>1. main' \in [pc : Pcs, resting : Seq(Ids), todo : Seq(Ids), book : {main'.book}, round : 0..MaxRounds,
                   req : {main'.req}, answer : AnswerType, exit : {"none", "failed", "clean", "crash"}]
    <3>1. NoAnswer \in AnswerType /\ <<>> \in Seq(Ids) /\ "dead" \in Pcs
      BY DEF NoAnswer, AnswerType, Pcs
    <3>2. main' = [main EXCEPT !.pc = "dead", !.exit = how, !.todo = <<>>, !.book = NoBook, !.req = NoRequest,
                               !.answer = NoAnswer]
      BY DEF Returns
    <3> QED
      BY <1>0, <3>1, <3>2 DEF Shape
  <2>2. feed' \in [pc : {"off", "next", "send"}, latest : {feed'.latest}, books : {feed'.books}] /\ feed'.pc = "off"
    BY <1>0 DEF Returns, Shape
  <2>3. main'.resting = main.resting
    BY <1>0 DEF Returns, Shape
  <2> QED
    BY <1>0, <2>1, <2>2, <2>3 DEF Returns, Shape, exchange
<1>2. /\ main'.pc = "dead" /\ main'.resting = main.resting /\ main'.todo = <<>> /\ main'.round = main.round
      /\ main'.req = NoRequest /\ main'.answer = NoAnswer /\ main'.exit = how
      /\ UNCHANGED <<wire, orders, unknown, late>>
  BY <1>0 DEF Returns, Shape, exchange, history
<1>3. RequestInv'
  BY <1>0, <1>2 DEF RequestInv, Formed
<1>4. Creates' = Creates /\ Named' \subseteq Named
  BY <1>2, NoElems DEF Creates, Named
<1>5. ApartInv' /\ FreshInv'
  BY <1>0, <1>2, <1>4, ApartKeeps
<1>6. PlacesInv' /\ EndInv'
  BY <1>2 DEF PlacesInv, EndInv, Alive, Ours
<1> QED
  BY <1>1, <1>3, <1>5, <1>6 DEF BotInv

\* A call that is not a batch goes out.
LEMMA SendsKeeps ==
    ASSUME BotInv, NEW r, Sends(r), Formed(r), r.kind # "create", KindAt(r.kind, main.pc), r # NoRequest,
           r.kind = "cancel" => main.todo # <<>> /\ r.id = main.todo[1],
           UNCHANGED <<ctx, exchange, history>>
    PROVE  BotInv'
<1>0. Shape /\ RequestInv /\ ApartInv /\ FreshInv /\ PlacesInv /\ EndInv
  BY DEF BotInv
<1>1. /\ main.req = NoRequest /\ main.answer = NoAnswer /\ wire' = wire \cup {r}
      /\ UNCHANGED <<ctx, feed, sub, orders, unknown, late>>
      /\ main' = [main EXCEPT !.req = r]
  BY <1>0 DEF Sends, RequestInv, exchange, history
<1>2. /\ main'.pc = main.pc /\ main'.resting = main.resting /\ main'.todo = main.todo /\ main'.round = main.round
      /\ main'.req = r /\ main'.answer = main.answer /\ main'.exit = main.exit
  BY <1>0, <1>1 DEF Shape
<1>3. Shape'
  BY <1>0, <1>1 DEF Shape
<1>4. main.pc # "create"
  BY DEF KindAt
<1>5. RequestInv'
  BY <1>0, <1>1, <1>2 DEF RequestInv, Formed, KindAt
<1>6. Creates' = Creates
  BY <1>1 DEF Creates
<1>7. Named' \subseteq Named
  <2>1. r.kind = "cancel" => r.id \in Elems(main.todo)
    BY <1>0, HeadAndTail DEF Shape
  <2> QED
    BY <1>1, <1>2, <2>1 DEF Named
<1>8. ApartInv' /\ FreshInv'
  BY <1>0, <1>2, <1>6, <1>7, ApartKeeps
<1>9. PlacesInv'
  <2>1. \A q \in Creates : q # main.req /\ q # r
    BY <1>1 DEF Creates, NoRequest
  <2>2. main.pc = "cancelResting" => r.id = main.todo[1]
    BY DEF KindAt
  <2>3. Alive' => Alive /\ \A q \in Creates' : IdsOf(q) \subseteq unknown'
    BY <1>0, <1>1, <1>2, <1>6, <2>1 DEF PlacesInv, Alive
  <2>4. /\ Ours' = Ours /\ unknown' = unknown /\ orders' = orders /\ main'.pc # "create"
        /\ main'.pc = main.pc /\ main'.todo = main.todo /\ main'.resting = main.resting
        /\ main'.answer = main.answer
    BY <1>1, <1>2, <1>4 DEF Ours
  <2>5. main'.pc = "cancelResting" => main'.req.id = main'.todo[1]
    BY <1>2, <2>2
  <2> QED
    BY <1>0, <2>3, <2>4, <2>5 DEF PlacesInv
<1>10. EndInv'
  BY <1>0, <1>1, <1>2 DEF EndInv, Alive, Ours
<1> QED
  BY <1>3, <1>5, <1>8, <1>9, <1>10 DEF BotInv

\* Orders and answers go: an order is cancelled or filled, a request is lost, or one that is not a batch is
\* answered.  Only what was named before can go, so no batch on its way is forgotten.
LEMMA ThinsKeeps ==
    ASSUME BotInv, Shape', NEW G, G \subseteq Named, wire' \subseteq wire, orders' = orders \ G,
           unknown' = unknown \ G, late' = late \ G,
           main'.pc = main.pc, main'.resting = main.resting, main'.todo = main.todo, main'.round = main.round,
           main'.req = main.req, main'.exit = main.exit,
           \/ main'.answer = main.answer
           \/ /\ main.req # NoRequest /\ main.pc # "create"
              /\ main.pc = "readBack" => Ours' \subseteq main'.answer.ids
              /\ main.pc = "cancelResting" => main.todo[1] \in G
    PROVE  BotInv'
<1>0. Shape /\ RequestInv /\ ApartInv /\ FreshInv /\ PlacesInv /\ EndInv
  BY DEF BotInv
<1>1. RequestInv'
  BY <1>0 DEF RequestInv, Formed
<1>2. Creates' \subseteq Creates
  BY DEF Creates
<1>3. Named' \subseteq Named
  BY DEF Named
<1>4. ApartInv' /\ FreshInv'
  BY <1>0, <1>2, <1>3, ApartKeeps
<1>5. Ours' = Ours \ G
  BY DEF Ours
<1>6. PlacesInv'
  <2> SUFFICES ASSUME Alive PROVE PlacesInv'
      BY DEF PlacesInv, Alive
  <2>1. ASSUME NEW r \in Creates' PROVE r = main'.req \/ IdsOf(r) \subseteq unknown'
    <3>1. r \in Creates /\ IdsOf(r) \cap G = {}
      BY <1>0, <1>2, BatchesAreNew
    <3>2. r = main.req \/ IdsOf(r) \subseteq unknown
      BY <1>0, <3>1 DEF PlacesInv
    <3> QED
      BY <3>1, <3>2
  <2>2. CASE main.pc = "create"
    <3>1. main'.answer = main.answer
      BY <2>2
    <3>2. Ours' \subseteq unknown' \cup main'.answer.ids
      BY <1>0, <1>5, <2>2, <3>1 DEF PlacesInv
    <3> QED
      BY <1>0, <2>1, <2>2, <3>1, <3>2 DEF PlacesInv
  <2>3. CASE main.pc = "cancelResting"
    <3>1. Ours' \subseteq Elems(main'.todo) \cup unknown' /\ Ours' \subseteq Elems(main'.resting) \cup unknown'
      BY <1>0, <1>5, <2>3 DEF PlacesInv
    <3>2. main'.answer.is \in {"ok", "not found"} => main'.todo[1] \notin orders'
      BY <1>0, <2>3 DEF PlacesInv
    <3>3. /\ Elems(main'.todo) \subseteq Elems(main'.resting)
          /\ main'.req # NoRequest => main'.req.id = main'.todo[1]
      BY <1>0, <2>3 DEF PlacesInv
    <3> QED
      BY <2>1, <2>3, <3>1, <3>2, <3>3 DEF PlacesInv
  <2>4. CASE main.pc \notin {"create", "cancelResting"}
    <3>1. Ours' \subseteq Elems(main'.resting) \cup unknown'
      BY <1>0, <1>5, <2>4 DEF PlacesInv
    <3> QED
      BY <2>1, <2>4, <3>1 DEF PlacesInv
  <2> QED
    BY <2>2, <2>3, <2>4
<1>7. EndInv'
  BY <1>0, <1>5 DEF EndInv, Alive
<1> QED
  BY <1>1, <1>4, <1>6, <1>7 DEF BotInv

-----------------------------------------------------------------------------
(* The steps of a requote.                                                  *)

LEMMA CancelDoneKeeps == ASSUME BotInv, CancelDone PROVE BotInv'
<1>0. Shape /\ RequestInv /\ ApartInv /\ FreshInv /\ PlacesInv /\ EndInv
  BY DEF BotInv
<1>1. /\ main.pc = "cancelResting" /\ main.todo # <<>>
      /\ main' = [main EXCEPT !.todo = Tail(@), !.req = NoRequest, !.answer = NoAnswer]
      /\ UNCHANGED <<ctx, feed, sub, wire, orders, late>>
      /\ \/ main.answer.is \in {"ok", "not found"} /\ unknown' = unknown
         \/ unknown' = unknown \cup ({main.todo[1]} \cap orders)
  BY DEF CancelDone, exchange
<1>2. Tail(main.todo) \in Seq(Ids) /\ Elems(main.todo) = {main.todo[1]} \cup Elems(Tail(main.todo))
  BY <1>0, <1>1, HeadAndTail DEF Shape
<1>3. NoAnswer \in AnswerType
  BY DEF NoAnswer, AnswerType
<1>4. /\ main'.pc = "cancelResting" /\ main'.resting = main.resting /\ main'.todo = Tail(main.todo)
      /\ main'.round = main.round /\ main'.req = NoRequest /\ main'.answer = NoAnswer /\ main'.exit = main.exit
  BY <1>0, <1>1 DEF Shape
<1>5. Shape'
  BY <1>0, <1>1, <1>2, <1>3 DEF Shape
<1>6. RequestInv'
  BY <1>0, <1>1, <1>4 DEF RequestInv, Formed
<1>7. Creates' = Creates /\ Named' \subseteq Named
  BY <1>1, <1>2, <1>4 DEF Creates, Named
<1>8. ApartInv' /\ FreshInv'
  BY <1>0, <1>1, <1>4, <1>7, ApartKeeps
<1>9. PlacesInv'
  <2>1. Alive /\ Ours' = Ours /\ (main.todo[1] \notin orders \/ main.todo[1] \in unknown')
    BY <1>0, <1>1 DEF PlacesInv, Alive, Ours
  <2>2. Ours' \subseteq Elems(main'.todo) \cup unknown'
    <3>1. Ours' \subseteq orders /\ Ours' = Ours /\ unknown \subseteq unknown'
      BY <1>1 DEF Ours
    <3>2. Ours \subseteq {main.todo[1]} \cup Elems(main'.todo) \cup unknown
      BY <1>0, <1>1, <1>2, <1>4 DEF PlacesInv, Alive
    <3> QED
      BY <2>1, <3>1, <3>2
  <2>3. Elems(main'.todo) \subseteq Elems(main'.resting)
    BY <1>0, <1>1, <1>2, <1>4 DEF PlacesInv, Alive
  <2>4. \A r \in Creates' : r = main'.req \/ IdsOf(r) \subseteq unknown'
    <3>1. \A r \in Creates : r # main.req
      BY <1>0, <1>1, NoBatchAsked
    <3> QED
      BY <1>0, <1>1, <1>7, <3>1 DEF PlacesInv, Alive
  <2>5. main'.answer.is = "none"
    BY <1>4 DEF NoAnswer
  <2> QED
    BY <1>4, <2>2, <2>3, <2>4, <2>5 DEF PlacesInv
<1>10. EndInv'
  BY <1>0, <1>1, <1>4 DEF EndInv, Alive, Ours
<1> QED
  BY <1>5, <1>6, <1>8, <1>9, <1>10 DEF BotInv

\* A book is dropped, or a requote begins.
LEMMA TakeBookKeeps == ASSUME BotInv, TakeBook PROVE BotInv'
<1>0. Shape /\ RequestInv /\ ApartInv /\ FreshInv /\ PlacesInv /\ EndInv
  BY DEF BotInv
<1>1. /\ main.pc = "loop" /\ feed' = [feed EXCEPT !.books = {}]
      /\ UNCHANGED <<ctx, sub, wire, orders, unknown, late>>
  BY DEF TakeBook, exchange, history
<1>2. CASE main' = main
  <2>1. Shape'
    BY <1>0, <1>1, <1>2 DEF Shape
  <2> QED
    BY <1>1, <1>2, <2>1, AsideKeeps
<1>3. CASE main' # main
  <2>1. PICK b \in feed.books : /\ main.round < MaxRounds
           /\ main' = [main EXCEPT !.pc = "cancelResting", !.todo = main.resting, !.book = b, !.round = @ + 1]
    BY <1>3 DEF TakeBook
  <2>2. main.round \in Nat /\ main.round + 1 \in 0..MaxRounds
    BY <1>0, <2>1, BotAssumption DEF Shape
  <2>3. "cancelResting" \in Pcs
    BY DEF Pcs
  <2>4. /\ main'.pc = "cancelResting" /\ main'.resting = main.resting /\ main'.todo = main.resting
        /\ main'.round = main.round + 1 /\ main'.req = main.req /\ main'.answer = main.answer
        /\ main'.exit = main.exit
    BY <1>0, <2>1 DEF Shape
  <2>5. Shape'
    BY <1>0, <1>1, <2>1, <2>2, <2>3 DEF Shape
  <2>6. main.req = NoRequest /\ main.answer = NoAnswer
    BY <1>0, <1>1 DEF RequestInv, KindAt
  <2>7. RequestInv'
    BY <1>0, <1>1, <2>2, <2>4, <2>6 DEF RequestInv, Formed
  <2>8. Creates' = Creates /\ Named' = Named \ (Elems(main.todo) \ Named')
    BY <1>1, <2>4 DEF Creates, Named
  <2>9. \A r \in Creates : RoundOf(r.id) \in 1..main.round
    BY <1>0 DEF Creates, RequestInv, Formed
  <2>10. \A o \in Named : RoundOf(o) \in Nat
    BY <1>0, NamedRounds
  <2>11. ApartInv' /\ FreshInv'
    <3>1. Named' \subseteq Named
      BY <2>8
    <3>2. ApartInv'
      BY <1>0, <2>8, <3>1 DEF ApartInv
    <3>3. \A o \in Named' : RoundOf(o) < main'.round
      BY <1>0, <2>2, <2>4, <2>10, <3>1 DEF FreshInv
    <3>4. \A r \in Creates' : RoundOf(r.id) < main'.round
      BY <2>2, <2>4, <2>8, <2>9
    <3>5. \A o \in Named' : RoundOf(o) <= main'.round
      BY <2>2, <2>4, <2>10, <3>1, <3>3
    <3> QED
      BY <2>2, <2>4, <3>2, <3>3, <3>4, <3>5 DEF FreshInv
  <2>12. PlacesInv'
    <3>1. \A r \in Creates : r # main.req
      BY <2>6 DEF Creates, NoRequest
    <3>2. main'.answer.is = "none"
      BY <2>4, <2>6 DEF NoAnswer
    <3> QED
      BY <1>0, <1>1, <2>4, <2>6, <2>8, <3>1, <3>2 DEF PlacesInv, Alive, Ours
  <2>13. EndInv'
    BY <1>0, <1>1, <2>4 DEF EndInv, Alive, Ours
  <2> QED
    BY <2>5, <2>7, <2>11, <2>12, <2>13 DEF BotInv
<1> QED
  BY <1>2, <1>3

\* The batch goes out with a round of its own.
LEMMA BatchSentKeeps ==
    ASSUME BotInv, NEW r, r.kind = "create", RoundOf(r.id) = main.round,
           IdsOf(r) \subseteq {<<main.round, Buy>>, <<main.round, Sell>>},
           main.pc = "cancelResting", main.todo = <<>>,
           main' = [main EXCEPT !.pc = "create", !.resting = <<>>, !.req = r, !.book = NoBook],
           wire' = wire \cup {r}, UNCHANGED <<ctx, feed, sub, orders, unknown, late>>
    PROVE  BotInv'
<1>0. Shape /\ RequestInv /\ ApartInv /\ FreshInv /\ PlacesInv /\ EndInv
  BY DEF BotInv
<1>1. /\ main.pc = "cancelResting" /\ main.todo = <<>>
      /\ main' = [main EXCEPT !.pc = "create", !.resting = <<>>, !.req = r, !.book = NoBook]
      /\ wire' = wire \cup {r} /\ UNCHANGED <<ctx, feed, sub, orders, unknown, late>>
  OBVIOUS
<1>2. r.kind = "create" /\ RoundOf(r.id) = main.round
  OBVIOUS
<1>3. IdsOf(r) \subseteq {<<main.round, Buy>>, <<main.round, Sell>>}
  OBVIOUS
<1>4. main.round \in Nat /\ main.round > 0 /\ main.round \in 1..main.round
  BY <1>0, <1>1 DEF FreshInv, Shape
<1>5. "create" \in Pcs /\ <<>> \in Seq(Ids) /\ Len(<<>>) = 0
  BY DEF Pcs
<1>6. /\ main'.pc = "create" /\ main'.resting = <<>> /\ main'.todo = <<>> /\ main'.round = main.round
      /\ main'.req = r /\ main'.answer = main.answer /\ main'.exit = main.exit
  BY <1>0, <1>1 DEF Shape
<1>7. main.req = NoRequest /\ main.answer = NoAnswer
  BY <1>0, <1>1 DEF RequestInv
<1>8. Shape'
  <2>1. main' \in [pc : Pcs, resting : Seq(Ids), todo : Seq(Ids), book : {main'.book}, round : 0..MaxRounds,
                   req : {main'.req}, answer : AnswerType, exit : {"none", "failed", "clean", "crash"}]
    BY <1>0, <1>1, <1>5 DEF Shape
  <2> QED
    BY <1>0, <1>1, <1>5, <1>6, <2>1 DEF Shape
<1>9. r # NoRequest
  BY <1>2 DEF NoRequest
<1>10. RequestInv'
  <2>1. Formed(r) /\ \A q \in wire : Formed(q)
    BY <1>0, <1>2, <1>3, <1>4 DEF RequestInv, Formed
  <2>2. \A q \in wire' : Formed(q)'
    BY <1>1, <1>6, <2>1 DEF Formed
  <2> QED
    BY <1>2, <1>6, <1>9, <2>2 DEF RequestInv, KindAt
<1>11. Creates' = Creates \cup {r}
  BY <1>1, <1>2 DEF Creates
<1>12. Named' \subseteq Named
  BY <1>1, <1>2, <1>6, <1>7, NoElems DEF Named, NoAnswer
<1>13. ApartInv' /\ FreshInv'
  <2>1. \A q \in Creates : RoundOf(q.id) < main.round /\ RoundOf(q.id) \in Nat
    BY <1>0, <1>1, NamedRounds DEF FreshInv
  <2>2. \A o \in Named : RoundOf(o) < main.round /\ RoundOf(o) \in Nat
    BY <1>0, <1>1, NamedRounds DEF FreshInv
  <2>3. ApartInv'
    BY <1>0, <1>2, <1>4, <1>11, <1>12, <2>1, <2>2 DEF ApartInv
  <2>4. FreshInv'
    BY <1>0, <1>6, <1>12 DEF FreshInv
  <2> QED
    BY <2>3, <2>4
<1>14. PlacesInv'
  <2>1. \A q \in Creates' : q = main'.req \/ IdsOf(q) \subseteq unknown'
    BY <1>0, <1>1, <1>6, <1>11, NoBatchAsked DEF PlacesInv, Alive
  <2>2. Ours' \subseteq unknown' \cup main'.answer.ids
    BY <1>0, <1>1, NoElems DEF PlacesInv, Alive, Ours
  <2>3. main'.answer = NoAnswer /\ main'.answer.ids \subseteq IdsOf(main'.req)
    BY <1>6, <1>7 DEF NoAnswer
  <2>4. main'.req # NoRequest /\ IdsOf(main'.req) \subseteq {<<main'.round, Buy>>, <<main'.round, Sell>>}
    BY <1>3, <1>6, <1>9
  <2> QED
    BY <1>6, <2>1, <2>2, <2>3, <2>4 DEF PlacesInv
<1>15. EndInv'
  BY <1>0, <1>1, <1>6 DEF EndInv, Alive, Ours
<1> QED
  BY <1>8, <1>10, <1>13, <1>14, <1>15 DEF BotInv

LEMMA CreateOrdersKeeps == ASSUME BotInv, CreateOrders PROVE BotInv'
<1> DEFINE r == Ask("create", <<main.round>>, {q \in Quotes : q.price # None})
<1>1. /\ main.pc = "cancelResting" /\ main.todo = <<>>
      /\ main' = [main EXCEPT !.pc = "create", !.resting = <<>>, !.req = r, !.book = NoBook]
      /\ wire' = wire \cup {r} /\ UNCHANGED <<ctx, feed, sub, orders, unknown, late>>
  BY DEF CreateOrders, exchange, history
<1>2. r.kind = "create" /\ RoundOf(r.id) = main.round
  BY DEF Ask, RoundOf
<1>3. IdsOf(r) \subseteq {<<main.round, Buy>>, <<main.round, Sell>>}
  <2>1. \A q \in Quotes : q.id \in {<<main.round, Buy>>, <<main.round, Sell>>}
    BY DEF Quotes
  <2>2. r.quotes \subseteq Quotes
    BY DEF Ask
  <2> QED
    BY <2>1, <2>2 DEF IdsOf
<1> HIDE DEF r
<1> QED
  BY <1>1, <1>2, <1>3, BatchSentKeeps

\* With ctx done no batch goes out, and the list is emptied all the same.
LEMMA CreateCancelledKeeps == ASSUME BotInv, CreateCancelled PROVE BotInv'
<1>0. Shape /\ RequestInv /\ ApartInv /\ FreshInv /\ PlacesInv /\ EndInv
  BY DEF BotInv
<1>1. /\ main.pc = "cancelResting" /\ main.todo = <<>>
      /\ main' = [main EXCEPT !.pc = "loop", !.resting = <<>>, !.book = NoBook]
      /\ UNCHANGED <<ctx, feed, sub, wire, orders, unknown, late>>
  BY DEF CreateCancelled, exchange, history
<1>2. "loop" \in Pcs /\ <<>> \in Seq(Ids) /\ Len(<<>>) = 0
  BY DEF Pcs
<1>3. main.req = NoRequest /\ main.answer = NoAnswer
  BY <1>0, <1>1 DEF RequestInv
<1>4. /\ main'.pc = "loop" /\ main'.resting = <<>> /\ main'.todo = <<>> /\ main'.round = main.round
      /\ main'.req = NoRequest /\ main'.answer = NoAnswer /\ main'.exit = main.exit
  BY <1>0, <1>1, <1>3 DEF Shape
<1>5. Shape'
  <2>1. main' \in [pc : Pcs, resting : Seq(Ids), todo : Seq(Ids), book : {main'.book}, round : 0..MaxRounds,
                   req : {main'.req}, answer : AnswerType, exit : {"none", "failed", "clean", "crash"}]
    BY <1>0, <1>1, <1>2 DEF Shape
  <2> QED
    BY <1>0, <1>1, <1>2, <1>4, <2>1 DEF Shape
<1>6. RequestInv'
  BY <1>0, <1>1, <1>4 DEF RequestInv, Formed
<1>7. Creates' = Creates /\ Named' \subseteq Named
  BY <1>1, <1>4, NoElems DEF Creates, Named
<1>8. ApartInv' /\ FreshInv'
  BY <1>0, <1>4, <1>7, ApartKeeps
<1>9. PlacesInv'
  <2>1. \A r \in Creates' : IdsOf(r) \subseteq unknown'
    BY <1>0, <1>1, <1>7, NoBatchAsked DEF PlacesInv, Alive
  <2>2. Ours' \subseteq unknown'
    BY <1>0, <1>1, NoElems DEF PlacesInv, Alive, Ours
  <2> QED
    BY <1>4, <2>1, <2>2 DEF PlacesInv
<1>10. EndInv'
  BY <1>0, <1>1, <1>4 DEF EndInv, Alive, Ours
<1> QED
  BY <1>5, <1>6, <1>8, <1>9, <1>10 DEF BotInv

\* The answer to the batch makes the list; without one its ids are unknown.
LEMMA CreateDoneKeeps == ASSUME BotInv, CreateDone PROVE BotInv'
<1>0. Shape /\ RequestInv /\ ApartInv /\ FreshInv /\ PlacesInv /\ EndInv
  BY DEF BotInv
<1> DEFINE ok == IF main.answer.is = "ok" THEN main.answer.ids ELSE {}
<1>1. /\ main.pc = "create"
      /\ main' = [main EXCEPT !.pc = "loop", !.resting = Placed(ok), !.req = NoRequest, !.answer = NoAnswer]
      /\ unknown' = IF Answered THEN unknown ELSE unknown \cup IdsOf(main.req)
      /\ UNCHANGED <<ctx, feed, sub, wire, orders, late>>
  BY DEF CreateDone, exchange, IdsOf
<1>2. /\ Ours \subseteq unknown \cup main.answer.ids
      /\ main.answer.ids \subseteq IdsOf(main.req)
      /\ IdsOf(main.req) \subseteq {<<main.round, Buy>>, <<main.round, Sell>>}
      /\ main.answer = NoAnswer \/ (main.answer.is = "ok" /\ main.req \notin wire)
      /\ \A r \in Creates : r = main.req \/ IdsOf(r) \subseteq unknown
  BY <1>0, <1>1 DEF PlacesInv, Alive
<1>3. ok \subseteq main.answer.ids
  OBVIOUS
<1>4. Placed(ok) \in Seq(Ids) /\ Len(Placed(ok)) <= 2 /\ Elems(Placed(ok)) = ok
  BY <1>0, <1>2, <1>3, PlacedLists DEF Shape
<1>5. NoAnswer \in AnswerType /\ "loop" \in Pcs
  BY DEF NoAnswer, AnswerType, Pcs
<1>6. Ours \subseteq unknown' \cup ok
  <2>1. CASE Answered
    <3>1. ok = main.answer.ids /\ unknown' = unknown
      BY <1>1, <1>2, <2>1 DEF Answered
    <3> QED
      BY <1>2, <3>1
  <2>2. CASE ~Answered
    <3>1. main.answer.ids = {} /\ unknown \subseteq unknown'
      BY <1>1, <2>2 DEF Answered, NoAnswer
    <3> QED
      BY <1>2, <3>1
  <2> QED
    BY <2>1, <2>2
<1>7. \A r \in Creates : IdsOf(r) \subseteq unknown'
  <2>1. CASE Answered
    <3>1. \A r \in Creates : r # main.req
      BY <1>2, <2>1 DEF Answered, Creates
    <3> QED
      BY <1>1, <1>2, <2>1, <3>1
  <2>2. CASE ~Answered
    BY <1>1, <1>2, <2>2
  <2> QED
    BY <2>1, <2>2
<1> HIDE DEF ok
<1>8. /\ main'.pc = "loop" /\ main'.resting = Placed(ok) /\ main'.todo = main.todo /\ main'.round = main.round
      /\ main'.req = NoRequest /\ main'.answer = NoAnswer /\ main'.exit = main.exit
  BY <1>0, <1>1 DEF Shape
<1>9. Shape'
  BY <1>0, <1>1, <1>4, <1>5 DEF Shape
<1>10. RequestInv'
  BY <1>0, <1>1, <1>8 DEF RequestInv, Formed
<1>11. Creates' = Creates
  BY <1>1 DEF Creates
<1>12. Named' \subseteq Named
  BY <1>1, <1>3, <1>4, <1>8 DEF Named
<1>13. ApartInv' /\ FreshInv'
  BY <1>0, <1>8, <1>11, <1>12, ApartKeeps
<1>14. PlacesInv'
  <2>1. Ours' \subseteq Elems(main'.resting) \cup unknown'
    BY <1>1, <1>4, <1>6, <1>8 DEF Ours
  <2> QED
    BY <1>7, <1>8, <1>11, <2>1 DEF PlacesInv
<1>15. EndInv'
  BY <1>0, <1>1, <1>8 DEF EndInv, Alive, Ours
<1> QED
  BY <1>9, <1>10, <1>13, <1>14, <1>15 DEF BotInv

-----------------------------------------------------------------------------
(* The steps of the exchange and the network.                               *)

\* An answer changes nothing but the answer of the request in progress.
LEMMA AnswersShape ==
    ASSUME Shape, NEW r, NEW a \in {"ok", "not found"}, NEW g, g \subseteq Ids \cup {Elsewhere},
           Answers(r, a, g), orders' \subseteq Ids \cup {Elsewhere}, UNCHANGED <<ctx, feed, sub>>
    PROVE  /\ Shape'
           /\ main'.pc = main.pc /\ main'.resting = main.resting /\ main'.todo = main.todo /\ main'.round = main.round
           /\ main'.req = main.req /\ main'.exit = main.exit
           /\ main.req # r => main'.answer = main.answer
           /\ main.req = r => main'.answer.is = a /\ main'.answer.ids = g
<1>1. [is |-> a, ids |-> g] \in AnswerType
  BY DEF AnswerType
<1>2. CASE main.req # r
  <2>1. main' = main
    BY <1>2 DEF Answers
  <2> QED
    BY <1>2, <2>1 DEF Shape
<1>3. CASE main.req = r
  <2>1. main' = [main EXCEPT !.answer = [is |-> a, ids |-> g]]
    BY <1>3 DEF Answers
  <2>2. main' \in [pc : Pcs, resting : Seq(Ids), todo : Seq(Ids), book : {main'.book}, round : 0..MaxRounds,
                   req : {main'.req}, answer : AnswerType, exit : {"none", "failed", "clean", "crash"}]
    BY <1>1, <2>1 DEF Shape
  <2>3. /\ main'.pc = main.pc /\ main'.resting = main.resting /\ main'.todo = main.todo
        /\ main'.round = main.round /\ main'.req = main.req /\ main'.exit = main.exit
        /\ main'.answer = [is |-> a, ids |-> g]
    BY <2>1 DEF Shape
  <2>4. Shape'
    BY <2>2, <2>3 DEF Shape
  <2>5. main'.answer = [is |-> a, ids |-> g]
    BY <2>3
  <2>6. /\ [is |-> a, ids |-> g].is = a
        /\ [is |-> a, ids |-> g].ids = g
    OBVIOUS
  <2> QED
    BY <1>3, <2>3, <2>4, <2>5, <2>6
<1> QED
  BY <1>2, <1>3

\* What is not a batch can only take orders away.
LEMMA ServeOtherKeeps ==
    ASSUME BotInv, NEW r \in wire, r.kind # "create", Serve(r)
    PROVE  BotInv'
<1>0. Shape /\ RequestInv /\ ApartInv /\ FreshInv /\ PlacesInv /\ EndInv
  BY DEF BotInv
<1>1. wire' = wire \ {r} /\ UNCHANGED <<ctx, feed, sub>> /\ wire' \subseteq wire
  BY DEF Serve
<1>2. orders \subseteq Ids \cup {Elsewhere} /\ {} \subseteq Ids \cup {Elsewhere} /\ orders \subseteq Named
  BY <1>0 DEF Shape, Named
<1>3. main.req = r => main.req # NoRequest /\ KindAt(r.kind, main.pc)
  <2>1. r # NoRequest
    BY <1>0 DEF RequestInv, Formed, NoRequest
  <2> QED
    BY <1>0, <2>1 DEF RequestInv
<1>4. CASE r.kind = "cod"
  <2>1. Answers(r, "ok", {}) /\ UNCHANGED <<orders, unknown, late>>
    BY <1>4 DEF Serve, history
  <2>2. PICK G : G \subseteq Named /\ orders' = orders \ G /\ unknown' = unknown \ G /\ late' = late \ G
    <3>1. /\ {} \subseteq Named
          /\ orders' = orders \ {} /\ unknown' = unknown \ {} /\ late' = late \ {}
      BY <2>1
    <3> QED
      BY <3>1
  <2>3. main.req = r => main.pc = "cod"
    BY <1>3, <1>4 DEF KindAt
  <2> QED
    BY <1>0, <1>1, <1>2, <1>3, <2>1, <2>2, <2>3, AnswersShape, ThinsKeeps
<1>5. CASE r.kind = "cancel"
  <2>1. PICK is \in {"ok", "not found"} : Answers(r, is, {})
    BY <1>5 DEF Serve
  <2>2. PICK G : /\ G \subseteq Named /\ r.id \in G
                 /\ orders' = orders \ G /\ unknown' = unknown \ G /\ late' = late \ G
    <3>1. {r.id} \subseteq Named
      BY <1>5 DEF Named
    <3>2. orders' = orders \ {r.id} /\ unknown' = unknown \ {r.id} /\ late' = late \ {r.id}
      BY <1>5 DEF Serve, Remove
    <3> QED
      BY <3>1, <3>2
  <2>3. main.req = r => main.pc = "cancelResting" /\ main.todo[1] \in G
    BY <1>0, <1>3, <1>5, <2>2 DEF KindAt, PlacesInv, Alive
  <2>5. orders' \subseteq Ids \cup {Elsewhere}
    BY <1>2, <2>2
  <2> QED
    BY <1>0, <1>1, <1>2, <1>3, <2>1, <2>2, <2>3, <2>5, AnswersShape, ThinsKeeps
<1>6. CASE r.kind = "cancelAll"
  <2>1. PICK gone \in SUBSET Ours : Remove(gone)
    BY <1>6 DEF Serve
  <2>2. orders' = orders \ gone /\ unknown' = unknown \ gone /\ late' = late \ gone
    BY <2>1 DEF Remove
  <2>3. main.req = r => main.pc = "cancelAll"
    BY <1>3, <1>6 DEF KindAt
  <2>4. gone \subseteq Named /\ Answers(r, "ok", {})
    BY <1>2, <1>6 DEF Ours, Serve
  <2>5. orders' \subseteq Ids \cup {Elsewhere}
    BY <1>2, <2>2
  <2> QED
    BY <1>0, <1>1, <1>2, <1>3, <2>2, <2>3, <2>4, <2>5, AnswersShape, ThinsKeeps
<1>7. CASE r.kind = "open"
  <2>1. Answers(r, "ok", orders) /\ UNCHANGED <<orders, unknown, late>>
    BY <1>7 DEF Serve, exchange, history
  <2>2. PICK G : G \subseteq Named /\ orders' = orders \ G /\ unknown' = unknown \ G /\ late' = late \ G
    <3>1. /\ {} \subseteq Named
          /\ orders' = orders \ {} /\ unknown' = unknown \ {} /\ late' = late \ {}
      BY <2>1
    <3> QED
      BY <3>1
  <2>3. main.req = r => main.pc = "readBack"
    BY <1>3, <1>7 DEF KindAt
  <2>4. Ours' \subseteq orders
    BY <2>1 DEF Ours
  <2>5. main.req = r => Ours' \subseteq main'.answer.ids
    BY <1>0, <1>1, <1>2, <2>1, <2>4, AnswersShape
  <2> QED
    BY <1>0, <1>1, <1>2, <1>3, <2>1, <2>2, <2>3, <2>5, AnswersShape, ThinsKeeps
<1> QED
  BY <1>0, <1>4, <1>5, <1>6, <1>7 DEF RequestInv, Formed

\* A batch is served: for the bot it is the answer, or it had given up on it.
LEMMA ServeBatchKeeps ==
    ASSUME BotInv, NEW r \in wire, r.kind = "create", Serve(r)
    PROVE  BotInv'
<1>0. Shape /\ RequestInv /\ ApartInv /\ FreshInv /\ PlacesInv /\ EndInv
  BY DEF BotInv
<1>1. PICK ids \in SUBSET IdsOf(r) : /\ Answers(r, "ok", ids) /\ orders' = orders \cup ids
                                    /\ late' = IF main.req = r THEN late ELSE late \cup ids
  BY DEF Serve, IdsOf
<1>2. wire' = wire \ {r} /\ UNCHANGED <<ctx, feed, sub, unknown>>
  BY DEF Serve
<1>3. r \in Creates /\ r # NoRequest
  BY DEF Creates, NoRequest
<1>4. RoundOf(r.id) \in Nat /\ \A o \in ids : o \in Ids /\ RoundOf(o) = RoundOf(r.id)
  BY <1>0, <1>3, NamedRounds
<1>5. orders' \subseteq Ids \cup {Elsewhere} /\ ids \subseteq Ids \cup {Elsewhere}
  BY <1>0, <1>1, <1>4 DEF Shape
<1>6. /\ Shape'
      /\ main'.pc = main.pc /\ main'.resting = main.resting /\ main'.todo = main.todo /\ main'.round = main.round
      /\ main'.req = main.req /\ main'.exit = main.exit
      /\ main.req # r => main'.answer = main.answer
      /\ main.req = r => main'.answer.is = "ok" /\ main'.answer.ids = ids
  BY <1>0, <1>1, <1>2, <1>5, AnswersShape
<1>7. main.req = r => main.pc = "create"
  BY <1>0, <1>3 DEF RequestInv, KindAt
<1>8. RequestInv'
  BY <1>0, <1>2, <1>3, <1>6 DEF RequestInv, Formed
<1>9. Creates' = Creates \ {r}
  BY <1>2 DEF Creates
<1>10. Named' \subseteq Named \cup ids
  BY <1>1, <1>2, <1>6 DEF Named
<1>11. ApartInv' /\ FreshInv'
  <2>1. \A q \in Creates' : RoundOf(q.id) # RoundOf(r.id)
    BY <1>0, <1>3, <1>9 DEF ApartInv
  <2>2. ApartInv'
    BY <1>0, <1>4, <1>9, <1>10, <2>1 DEF ApartInv
  <2>3. RoundOf(r.id) <= main.round /\ (main.pc = "cancelResting" => RoundOf(r.id) < main.round)
    BY <1>0, <1>3 DEF FreshInv, RequestInv, Formed, Shape
  <2>4. FreshInv'
    BY <1>0, <1>4, <1>6, <1>9, <1>10, <2>3 DEF FreshInv
  <2> QED
    BY <2>2, <2>4
<1>12. CASE main.req = r
  <2>1. PlacesInv'
    <3>1. \A q \in Creates' : IdsOf(q) \subseteq unknown'
      BY <1>0, <1>2, <1>7, <1>9, <1>12 DEF PlacesInv, Alive
    <3>2. Ours \subseteq unknown
      <4>1. main.answer = NoAnswer /\ Ours \subseteq unknown \cup main.answer.ids
        BY <1>0, <1>7, <1>12 DEF PlacesInv, Alive
      <4>2. NoAnswer.ids = {}
        BY DEF NoAnswer
      <4> QED
        BY <4>1, <4>2
    <3>3. Ours' \subseteq unknown' \cup main'.answer.ids
      BY <1>1, <1>2, <1>6, <1>12, <3>2 DEF Ours
    <3>4. IdsOf(main.req) \subseteq {<<main.round, Buy>>, <<main.round, Sell>>}
      BY <1>0, <1>7, <1>12 DEF PlacesInv, Alive
    <3> QED
      BY <1>1, <1>2, <1>3, <1>6, <1>7, <1>12, <3>1, <3>3, <3>4 DEF PlacesInv
  <2>2. EndInv'
    BY <1>0, <1>6, <1>7, <1>12 DEF EndInv, Alive
  <2> QED
    BY <1>6, <1>8, <1>11, <2>1, <2>2 DEF BotInv
<1>13. CASE main.req # r
  <2>1. Ours' \subseteq Ours \cup ids /\ late' = late \cup ids /\ main'.answer = main.answer
    BY <1>1, <1>6, <1>13 DEF Ours
  <2>2. PlacesInv'
    <3> SUFFICES ASSUME Alive PROVE PlacesInv'
        BY <1>6 DEF PlacesInv, Alive
    <3>1. ids \subseteq unknown
      BY <1>0, <1>1, <1>3, <1>13 DEF PlacesInv
    <3>2. \A q \in Creates' : q = main'.req \/ IdsOf(q) \subseteq unknown'
      BY <1>0, <1>2, <1>6, <1>9 DEF PlacesInv
    <3>3. main.pc = "cancelResting" /\ main.answer.is \in {"ok", "not found"} => main.todo[1] \notin orders'
      <4> SUFFICES ASSUME main.pc = "cancelResting", main.answer.is \in {"ok", "not found"}
                   PROVE  main.todo[1] \notin orders'
          OBVIOUS
      <4>1. main.todo # <<>>
        <5>1. main.answer = NoAnswer => main.answer.is = "none"
          BY DEF NoAnswer
        <5>2. main.answer # NoAnswer
          BY <5>1
        <5> QED
          BY <1>0, <5>2 DEF RequestInv
      <4>2. main.todo[1] \in Named
        BY <1>0, <4>1, HeadAndTail, ZenonT(60) DEF Shape, Named
      <4>3. main.todo[1] \notin ids
        BY <1>0, <1>3, <1>4, <4>2 DEF ApartInv
      <4>4. main.todo[1] \notin orders
        BY <1>0 DEF PlacesInv
      <4> QED
        BY <1>1, <4>3, <4>4
    <3>4. CASE main.pc = "create"
      BY <1>0, <1>2, <1>6, <2>1, <3>1, <3>2, <3>4 DEF PlacesInv
    <3>5. CASE main.pc = "cancelResting"
      <4>1. Ours' \subseteq Elems(main'.todo) \cup unknown' /\ Ours' \subseteq Elems(main'.resting) \cup unknown'
        BY <1>0, <1>2, <1>6, <2>1, <3>1, <3>5 DEF PlacesInv
      <4>2. /\ Elems(main'.todo) \subseteq Elems(main'.resting)
            /\ main'.req # NoRequest => main'.req.id = main'.todo[1]
        BY <1>0, <1>6, <3>5 DEF PlacesInv
      <4> QED
        BY <1>6, <2>1, <3>2, <3>3, <3>5, <4>1, <4>2 DEF PlacesInv
    <3>6. CASE main.pc \notin {"create", "cancelResting"}
      <4>1. Ours' \subseteq Elems(main'.resting) \cup unknown'
        BY <1>0, <1>2, <1>6, <2>1, <3>1, <3>6 DEF PlacesInv
      <4> QED
        BY <1>6, <3>2, <3>6, <4>1 DEF PlacesInv
    <3> QED
      BY <3>4, <3>5, <3>6
  <2>3. EndInv'
    BY <1>0, <1>6, <2>1 DEF EndInv, Alive
  <2> QED
    BY <1>6, <1>8, <1>11, <2>2, <2>3 DEF BotInv
<1> QED
  BY <1>12, <1>13

LEMMA NetworkKeeps == ASSUME BotInv, NEW r \in wire, Serve(r) \/ Drop(r) PROVE BotInv'
<1>1. CASE Serve(r)
  BY <1>1, ServeBatchKeeps, ServeOtherKeeps
<1>2. CASE Drop(r)
  <2>1. wire' \subseteq wire /\ UNCHANGED <<ctx, main, feed, sub, orders, unknown, late>>
    BY <1>2 DEF Drop, exchange, history
  <2>2. PICK G : G \subseteq Named /\ orders' = orders \ G /\ unknown' = unknown \ G /\ late' = late \ G
    <3>1. /\ {} \subseteq Named
          /\ orders' = orders \ {} /\ unknown' = unknown \ {} /\ late' = late \ {}
      BY <2>1
    <3> QED
      BY <3>1
  <2>3. Shape'
    BY <2>1 DEF BotInv, Shape
  <2> QED
    BY <2>1, <2>2, <2>3, ThinsKeeps
<1> QED
  BY <1>1, <1>2

\* Orders are filled, or the exchange cancels them all.
LEMMA RemoveKeeps ==
    ASSUME BotInv, NEW G, G \subseteq orders, Remove(G), UNCHANGED <<ctx, main, feed, sub, wire>>
    PROVE  BotInv'
<1>1. orders' = orders \ G /\ unknown' = unknown \ G /\ late' = late \ G /\ wire' \subseteq wire /\ main' = main
  BY DEF Remove
<1>2. G \subseteq Named
  BY DEF Named
<1>3. Shape'
  BY <1>1 DEF BotInv, Shape
<1> QED
  BY <1>1, <1>2, <1>3, ThinsKeeps

-----------------------------------------------------------------------------
(* The steps of run that only go on or end, and those of the readers.       *)

LEMMA GoesKeeps ==
    ASSUME BotInv, NEW pc \in {"subscribe", "cod", "marketStream", "loop", "cancelAll", "readBack"},
           main' = [main EXCEPT !.pc = pc, !.req = NoRequest, !.answer = NoAnswer],
           main.pc \notin {"create", "dead"},
           feed' \in [pc : {"off", "next", "send"}, latest : {feed'.latest}, books : {feed'.books}],
           feed'.pc = "send" => feed'.books = {},
           ctx' \in BOOLEAN, sub' \in {"none", "open", "broken", "closed"},
           UNCHANGED <<wire, orders, unknown, late>>
    PROVE  BotInv'
<1>0. Shape
  BY DEF BotInv
<1>1. NoAnswer \in AnswerType /\ pc \in Pcs
  BY DEF NoAnswer, AnswerType, Pcs
<1>2. main' \in [pc : Pcs, resting : Seq(Ids), todo : Seq(Ids), book : {main'.book}, round : 0..MaxRounds,
                 req : {main'.req}, answer : AnswerType, exit : {"none", "failed", "clean", "crash"}]
  BY <1>0, <1>1 DEF Shape
<1>3. /\ main'.pc = pc /\ main'.resting = main.resting /\ main'.todo = main.todo /\ main'.round = main.round
      /\ main'.req = NoRequest /\ main'.answer = NoAnswer /\ main'.exit = main.exit
  BY <1>0 DEF Shape
<1>4. Shape'
  BY <1>0, <1>2, <1>3 DEF Shape
<1> QED
  BY <1>3, <1>4, CalmKeeps

\* Every call of run that is not part of a requote.
LEMMA RunKeeps ==
    ASSUME BotInv, Setup \/ SetCancelOnDisconnect \/ CodDone \/ LoopDone \/ CancelOrder
                   \/ CancelAllOrders \/ CancelAllDone \/ FetchOpenOrders \/ ReadBackDone
    PROVE  BotInv'
<1>0. Shape /\ PlacesInv /\ EndInv
  BY DEF BotInv
<1>1. /\ feed \in [pc : {"off", "next", "send"}, latest : {feed.latest}, books : {feed.books}]
      /\ feed.pc = "send" => feed.books = {}
      /\ ctx \in BOOLEAN /\ sub \in {"none", "open", "broken", "closed"}
  BY <1>0 DEF Shape
<1>2. ASSUME NEW pc \in {"subscribe", "marketStream", "cancelAll", "readBack"}, Goes(pc), main.pc \notin {"create", "dead"},
             UNCHANGED <<ctx, wire, exchange, history>>
      PROVE  BotInv'
  BY <1>1, <1>2, GoesKeeps DEF Goes, exchange, history
<1>3. ASSUME Returns("failed"), UNCHANGED <<ctx, wire, exchange, history>> PROVE BotInv'
  BY <1>3, ReturnsKeeps
<1>4. CASE Setup
  <2>1. CASE main.pc = "subscribe" /\ ~ctx /\ sub' = "open" /\ main' = [main EXCEPT !.pc = "cod"] /\ UNCHANGED feed
    <3>1. main.req = NoRequest /\ main.answer = NoAnswer
      BY <2>1 DEF BotInv, RequestInv, KindAt
    <3>2. main' = [main EXCEPT !.pc = "cod", !.req = NoRequest, !.answer = NoAnswer]
      BY <1>0, <2>1, <3>1 DEF Shape
    <3>3. UNCHANGED <<ctx, feed, wire, orders, unknown, late>>
      BY <1>4, <2>1 DEF Setup, exchange, history
    <3>4. main.pc \notin {"create", "dead"} /\ sub' \in {"none", "open", "broken", "closed"}
      BY <2>1
    <3> QED
      BY <1>1, <3>2, <3>3, <3>4, GoesKeeps
  <2>2. CASE /\ main.pc = "marketStream" /\ ~ctx /\ main' = [main EXCEPT !.pc = "loop"]
             /\ feed' = [feed EXCEPT !.pc = "next"] /\ UNCHANGED sub
    <3>1. main.req = NoRequest /\ main.answer = NoAnswer
      BY <2>2 DEF BotInv, RequestInv, KindAt
    <3>2. main' = [main EXCEPT !.pc = "loop", !.req = NoRequest, !.answer = NoAnswer]
      BY <1>0, <2>2, <3>1 DEF Shape
    <3>3. UNCHANGED <<ctx, sub, wire, orders, unknown, late>>
      BY <1>4, <2>2 DEF Setup, exchange, history
    <3>4. feed' \in [pc : {"off", "next", "send"}, latest : {feed'.latest}, books : {feed'.books}] /\ feed'.pc = "next"
      BY <1>1, <2>2
    <3>5. main.pc \notin {"create", "dead"}
      BY <2>2
    <3> QED
      BY <1>1, <3>2, <3>3, <3>4, <3>5, GoesKeeps
  <2>3. CASE main.pc = "newQuoter" /\ Goes("subscribe")
    BY <1>2, <1>4, <2>3 DEF Setup
  <2>4. CASE Returns("failed")
    BY <1>3, <1>4, <2>4 DEF Setup
  <2> QED
    BY <1>4, <2>1, <2>2, <2>3, <2>4 DEF Setup, MarketStream
<1>5. CASE SetCancelOnDisconnect
  <2>1. LET r == Ask("cod", <<>>, {}) IN Formed(r) /\ r.kind = "cod" /\ r # NoRequest
    BY DEF Ask, Formed, NoRequest
  <2> QED
    BY <1>5, <2>1, SendsKeeps DEF SetCancelOnDisconnect, KindAt
<1>6. CASE CodDone
  BY <1>2, <1>3, <1>6 DEF CodDone
<1>7. CASE LoopDone
  BY <1>2, <1>7 DEF LoopDone
<1>8. CASE CancelOrder
  <2>1. main.todo \in Seq(Ids) /\ main.todo # <<>> /\ main.todo[1] \in Ids
    BY <1>0, <1>8, HeadAndTail DEF Shape, CancelOrder
  <2>2. LET r == Ask("cancel", main.todo[1], {})
        IN  Formed(r) /\ r.kind = "cancel" /\ r.id = main.todo[1] /\ r # NoRequest
    BY <2>1 DEF Ask, Formed, NoRequest
  <2> QED
    BY <1>8, <2>1, <2>2, SendsKeeps DEF CancelOrder, KindAt
<1>9. CASE CancelAllOrders
  <2>1. LET r == Ask("cancelAll", <<>>, {}) IN Formed(r) /\ r.kind = "cancelAll" /\ r # NoRequest
    BY DEF Ask, Formed, NoRequest
  <2> QED
    BY <1>9, <2>1, SendsKeeps DEF CancelAllOrders, KindAt
<1>10. CASE CancelAllDone
  BY <1>2, <1>3, <1>10 DEF CancelAllDone
<1>11. CASE FetchOpenOrders
  <2>1. LET r == Ask("open", <<>>, {}) IN Formed(r) /\ r.kind = "open" /\ r # NoRequest
    BY DEF Ask, Formed, NoRequest
  <2> QED
    BY <1>11, <2>1, SendsKeeps DEF FetchOpenOrders, KindAt
<1>12. CASE ReadBackDone
  <2>1. CASE main.answer.is = "ok" /\ Returns(IF Left = {} THEN "clean" ELSE "failed")
    <3>1. PICK how \in {"failed", "clean", "crash"} : Returns(how) /\ (how = "clean" => Left = {})
      BY <2>1
    <3>2. Left = {} => Ours \subseteq late
      BY <1>0, <1>12, <2>1 DEF EndInv, Left, Ours, ReadBackDone
    <3> QED
      BY <1>12, <3>1, <3>2, ReturnsKeeps DEF ReadBackDone
  <2> QED
    BY <1>3, <1>12, <2>1 DEF ReadBackDone
<1> QED
  BY <1>4, <1>5, <1>6, <1>7, <1>8, <1>9, <1>10, <1>11, <1>12

LEMMA ReadersKeep ==
    ASSUME BotInv, Readers \/ SocketBreaks \/ CtxEnds \/ (\E f \in Frames : ReadFrame(f))
    PROVE  BotInv'
<1>0. Shape
  BY DEF BotInv
<1>1. CASE SendBook
  <2>1. Shape' /\ UNCHANGED <<main, wire, orders, unknown, late>>
    BY <1>0, <1>1 DEF SendBook, Shape, exchange, history
  <2> QED
    BY <2>1, AsideKeeps
<1>2. CASE ReadersEnd
  <2>1. UNCHANGED <<ctx, main, wire, orders, unknown, late>> /\ sub' \in {sub, "closed"}
    BY <1>2 DEF ReadersEnd, exchange, history
  <2>2. feed' \in [pc : {"off", "next", "send"}, latest : {feed'.latest}, books : {feed'.books}]
        /\ feed'.pc \in {feed.pc, "off"} /\ feed'.books = feed.books
    BY <1>0, <1>2 DEF ReadersEnd, Shape
  <2>3. Shape'
    BY <1>0, <2>1, <2>2 DEF Shape
  <2> QED
    BY <2>1, <2>3, AsideKeeps
<1>3. CASE SocketReturns
  <2>1. Shape' /\ UNCHANGED <<main, wire, orders, unknown, late>>
    BY <1>0, <1>3 DEF SocketReturns, Shape
  <2> QED
    BY <2>1, AsideKeeps
<1>4. CASE SocketBreaks
  <2>1. Shape' /\ UNCHANGED <<main, wire, orders, unknown, late>>
    BY <1>0, <1>4 DEF SocketBreaks, Shape, exchange, history
  <2> QED
    BY <2>1, AsideKeeps
<1>5. CASE CtxEnds
  <2>1. Shape' /\ UNCHANGED <<main, wire, orders, unknown, late>>
    BY <1>0, <1>5 DEF CtxEnds, Shape, exchange, history
  <2> QED
    BY <2>1, AsideKeeps
<1>6. ASSUME NEW f \in Frames, ReadFrame(f) PROVE BotInv'
  <2>1. UNCHANGED <<ctx, sub, main, wire, orders, unknown, late>>
    BY <1>6 DEF ReadFrame, exchange, history
  <2>2. \/ \E b : feed' = [feed EXCEPT !.pc = "send", !.latest = b, !.books = {}]
        \/ feed' = [feed EXCEPT !.pc = "off"]
    BY <1>6 DEF ReadFrame
  <2>3. /\ feed' \in [pc : {"off", "next", "send"}, latest : {feed'.latest}, books : {feed'.books}]
        /\ feed'.pc = "send" => feed'.books = {}
    BY <1>0, <2>2 DEF Shape
  <2>4. Shape'
    BY <1>0, <2>1, <2>3 DEF Shape
  <2> QED
    BY <2>1, <2>4, AsideKeeps
<1> QED
  BY <1>1, <1>2, <1>3, <1>4, <1>5, <1>6 DEF Readers

-----------------------------------------------------------------------------
(* The theorems.                                                            *)

LEMMA BotInit == Init => BotInv
<1> SUFFICES ASSUME Init PROVE BotInv
    OBVIOUS
<1>1. /\ main.pc = "newQuoter" /\ main.resting = <<>> /\ main.todo = <<>> /\ main.round = 0 /\ main.req = NoRequest
      /\ main.answer = NoAnswer /\ main.exit = "none" /\ wire = {} /\ orders = {Elsewhere} /\ unknown = {} /\ late = {}
  BY DEF Init
<1>2. NoAnswer \in AnswerType /\ <<>> \in Seq(Ids) /\ Len(<<>>) = 0 /\ 0 \in 0..MaxRounds /\ "newQuoter" \in Pcs
  BY BotAssumption DEF NoAnswer, AnswerType, Pcs
<1>3. Shape
  <2>1. main \in [pc : Pcs, resting : Seq(Ids), todo : Seq(Ids), book : {main.book}, round : 0..MaxRounds, req : {main.req},
                  answer : AnswerType, exit : {"none", "failed", "clean", "crash"}]
    BY <1>2 DEF Init
  <2>2. feed \in [pc : {"off", "next", "send"}, latest : {feed.latest}, books : {feed.books}] /\ feed.pc = "off"
    BY DEF Init
  <2>3. ctx \in BOOLEAN /\ sub \in {"none", "open", "broken", "closed"} /\ orders \subseteq Ids \cup {Elsewhere}
    BY <1>1 DEF Init
  <2> QED
    BY <1>1, <1>2, <2>1, <2>2, <2>3 DEF Shape
<1>4. RequestInv
  BY <1>1 DEF RequestInv
<1>5. Creates = {} /\ Named = {Elsewhere}
  BY <1>1, NoElems DEF Creates, Named
<1>6. RoundOf(Elsewhere) = 0
  BY DEF RoundOf, Elsewhere
<1>7. ApartInv /\ FreshInv
  BY <1>1, <1>5, <1>6 DEF ApartInv, FreshInv
<1>8. Ours = {}
  BY <1>1 DEF Ours
<1>9. PlacesInv /\ EndInv
  BY <1>1, <1>5, <1>8 DEF PlacesInv, EndInv, NoAnswer
<1> QED
  BY <1>3, <1>4, <1>7, <1>9 DEF BotInv

LEMMA BotStep == BotInv /\ [Next]_vars => BotInv'
<1> SUFFICES ASSUME BotInv, [Next]_vars PROVE BotInv'
    OBVIOUS
<1>1. CASE UNCHANGED vars
  <2>1. UNCHANGED <<ctx, main, feed, sub, wire, orders, unknown, late>>
    BY <1>1 DEF vars, exchange, history
  <2>2. Shape'
    BY <2>1 DEF BotInv, Shape
  <2> QED
    BY <2>1, <2>2, AsideKeeps
<1>2. CASE Run
  BY <1>2, RunKeeps, CancelDoneKeeps, CreateOrdersKeeps, CreateCancelledKeeps, CreateDoneKeeps DEF Run
<1>3. CASE TakeBook
  BY <1>3, TakeBookKeeps
<1>4. CASE Network
  BY <1>4, NetworkKeeps DEF Network
<1>5. CASE GraceFires
  BY <1>5, RemoveKeeps DEF GraceFires
<1>6. CASE Crash
  BY <1>6, ReturnsKeeps DEF Crash
<1>7. ASSUME NEW o \in Ours, Fill(o) PROVE BotInv'
  <2>1. {o} \subseteq orders
    BY DEF Ours
  <2> QED
    BY <1>7, <2>1, RemoveKeeps DEF Fill
<1>8. CASE Readers \/ SocketBreaks \/ CtxEnds \/ (\E f \in Frames : ReadFrame(f))
  BY <1>8, ReadersKeep
<1> QED
  BY <1>1, <1>2, <1>3, <1>4, <1>5, <1>6, <1>7, <1>8 DEF Next

LEMMA BotInvariant == Spec => []BotInv
BY BotInit, BotStep, PTL DEF Spec

\* The quoter keeps at most two ids, and readBooks finds the channel empty when it sends a book,
\* so that it never waits (run, readBooks).
THEOREM BotTypeCorrect == Spec => []TypeOK
<1>1. BotInv => TypeOK
  BY DEF BotInv, Shape, TypeOK
<1> QED
  BY <1>1, BotInvariant, PTL

\* While the bot runs, every order of it that rests is in the quoter's list, or the bot was told of
\* a failure that makes it unknown; and after a clean stop only a batch it had given up on rests
\* (requote, cancelResting, shutdown).
THEOREM OrdersAccounted == Spec => []Accounted
<1>1. BotInv => Accounted
  BY DEF BotInv, PlacesInv, EndInv, Accounted, Elems
<1> QED
  BY <1>1, BotInvariant, PTL
-----------------------------------------------------------------------------
(* Decimals: rounding to a grid and quoting on it, for every tick, price    *)
(* and offset.                                                              *)

LEMMA TenStep ==
    /\ Ten[0] = 1
    /\ \A k \in Nat : Ten[k + 1] = 10 * Ten[k] /\ Ten[k] \in Nat
<1>1. 1 \in Nat /\ 10 \in Nat
  OBVIOUS
<1>2. \E h : h = [k \in Nat |-> IF k = 0 THEN 1 ELSE 10 * h[k - 1]]
  BY <1>1, GeometricExists, Zenon
<1>3. Ten = [k \in Nat |-> IF k = 0 THEN 1 ELSE 10 * Ten[k - 1]]
  BY <1>2, Zenon DEF Ten
<1>4. QED
  BY <1>1, <1>3, GeometricSteps, Zenon

LEMMA TenPositive == \A k \in Nat : Ten[k] \in Int /\ Ten[k] > 0
<1> DEFINE S == {k \in Nat : Ten[k] > 0}
<1>1. 0 \in S
  BY TenStep
<1>2. ASSUME NEW k \in Nat, k \in S PROVE k + 1 \in S
  BY <1>2, TenStep
<1> HIDE DEF S
<1>3. Nat \subseteq S
  BY <1>1, <1>2, EveryNumber
<1>4. QED
  BY <1>3, TenStep DEF S

LEMMA TenSum == ASSUME NEW j \in Nat PROVE \A k \in Nat : Ten[j + k] = Ten[j] * Ten[k]
<1> DEFINE S == {k \in Nat : Ten[j + k] = Ten[j] * Ten[k]}
<1>1. 0 \in S
  BY TenStep, TenPositive
<1>2. ASSUME NEW k \in Nat, k \in S PROVE k + 1 \in S
  <2>1. Ten[j + k] = Ten[j] * Ten[k]
    BY <1>2
  <2>2. j + k \in Nat /\ j + (k + 1) = (j + k) + 1
    OBVIOUS
  <2>3. Ten[j + (k + 1)] = 10 * Ten[j + k] /\ Ten[k + 1] = 10 * Ten[k]
    BY <2>2, TenStep
  <2>4. \A a, b \in Int : 10 * (a * b) = a * (10 * b)
    OBVIOUS
  <2>5. 10 * (Ten[j] * Ten[k]) = Ten[j] * (10 * Ten[k])
    BY <2>4, TenPositive
  <2>6. Ten[j + (k + 1)] = Ten[j] * Ten[k + 1]
    BY <2>1, <2>3, <2>5
  <2>7. QED
    BY <2>6
<1> HIDE DEF S
<1>3. Nat \subseteq S
  BY <1>1, <1>2, EveryNumber
<1>4. QED
  BY <1>3 DEF S

LEMMA TenSplit ==
    ASSUME NEW d \in Nat, NEW k \in 0..d
    PROVE  /\ d - k \in Nat /\ Ten[d] = Ten[d - k] * Ten[k]
           /\ Ten[d] \in Int /\ Ten[d - k] \in Int /\ Ten[k] \in Int
           /\ Ten[d] > 0 /\ Ten[d - k] > 0 /\ Ten[k] > 0
<1>1. d - k \in Nat /\ (d - k) + k = d /\ k \in Nat
  OBVIOUS
<1>2. QED
  BY <1>1, TenSum, TenPositive

\* What divides exactly is printed exactly.
LEMMA FloatStringExact ==
    ASSUME NEW a \in Int, NEW c \in Int, c > 0, NEW k \in Nat
    PROVE  FloatString(<<a * c, Ten[k] * c>>, k) = Dec(a, k)
<1> DEFINE p == <<a * c, Ten[k] * c>>
           b == 2 * (Ten[k] * c)
<1>1. Ten[k] \in Int /\ Ten[k] > 0
  BY TenPositive
<1>2. Ten[k] * c \in Int /\ Ten[k] * c > 0 /\ b \in Int /\ b > 0 /\ Ten[k] * c < b
  BY <1>1, ProductPositive
<1>3. Abs(a) \in Int /\ Abs(a * c) = Abs(a) * c /\ Sign(a * c) = Sign(a)
  <2>1. a * c \in Int /\ (a > 0 <=> a * c > 0) /\ (a < 0 <=> a * c < 0)
    BY ProductSign
  <2>2. -(a * c) = (-a) * c
    OBVIOUS
  <2>3. QED
    BY <2>1, <2>2 DEF Abs, Sign
<1>4. 2 * (Abs(a) * c) * Ten[k] + Ten[k] * c = b * Abs(a) + Ten[k] * c
  <2>1. \A u, v, w \in Int : 2 * (u * v) * w = 2 * (w * v) * u
    OBVIOUS
  <2>2. QED
    BY <1>1, <1>3, <2>1
<1>5. (b * Abs(a) + Ten[k] * c) \div b = Abs(a)
  <2>1. Abs(a) \in Int /\ b \in Int /\ b > 0 /\ Ten[k] * c \in Int /\ 0 <= Ten[k] * c /\ Ten[k] * c < b
    BY <1>2, <1>3
  <2> HIDE DEF b
  <2>2. QED
    BY <2>1, QuotientIs
<1>6. Sign(a) * Abs(a) = a
  BY DEF Sign, Abs
<1>7. p[1] = a * c /\ p[2] = Ten[k] * c
  OBVIOUS
<1>8. FloatString(p, k) = Dec(Sign(a * c) * ((2 * Abs(a * c) * Ten[k] + Ten[k] * c) \div b), k)
  BY <1>7 DEF FloatString
<1>9. QED
  BY <1>3, <1>4, <1>5, <1>6, <1>8

\* Trimming cuts zeros, whatever is left of the value.
LEMMA TrimCuts ==
    ASSUME NEW a \in Int, NEW d \in Nat
    PROVE  \E k \in 0..d : \E m \in Int : Trim(Dec(a, d)) = Dec(m, d - k) /\ a = m * Ten[k]
<1> DEFINE Cut(j) == /\ a % Ten[j] = 0
                     /\ j = d \/ a % Ten[j + 1] # 0
           S == {j \in Nat : j <= d => a % Ten[j] = 0}
<1>1. \E j \in 0..d : Cut(j)
  <2>1. SUFFICES ASSUME \A j \in 0..d : ~Cut(j) PROVE FALSE
    OBVIOUS
  <2>2. 0 \in S
    BY TenStep
  <2>3. ASSUME NEW j \in Nat, j \in S PROVE j + 1 \in S
    BY <2>1, <2>3
  <2>4. Nat \subseteq S
    <3> HIDE DEF S
    <3>1. QED
      BY <2>2, <2>3, EveryNumber
  <2>5. a % Ten[d] = 0
    BY <2>4
  <2>6. QED
    BY <2>1, <2>5
<1> DEFINE k == CHOOSE j \in 0..d : Cut(j)
<1>2. k \in 0..d /\ Cut(k)
  BY <1>1
<1>3. Trim(Dec(a, d)) = Dec(a \div Ten[k], d - k)
  BY DEF Trim, Dec
<1> HIDE DEF k
<1>4. Ten[k] \in Int /\ Ten[k] > 0
  BY <1>2, TenPositive
<1>5. a \div Ten[k] \in Int /\ a = Ten[k] * (a \div Ten[k]) + (a % Ten[k])
  BY <1>4, Quotient
<1>6. a = (a \div Ten[k]) * Ten[k]
  BY <1>2, <1>4, <1>5
<1>7. QED
  BY <1>2, <1>3, <1>5, <1>6

\* Whole steps of by in q, toward zero or away from it: what is left, or added, is less than one.
Whole(q, by, away) ==
    LET n == Sign(q) * (Abs(q) \div by)
    IN  IF away /\ Abs(q) % by # 0 THEN n + Sign(q) ELSE n

LEMMA WholeSteps ==
    ASSUME NEW q \in Int, NEW by \in Int, by > 0, NEW away \in BOOLEAN
    PROVE  /\ Whole(q, by, away) \in Int
           /\ LET left == Sign(q) * (IF away THEN Whole(q, by, away) * by - q ELSE q - Whole(q, by, away) * by)
              IN  0 <= left /\ left < by
<1> DEFINE m == Abs(q) \div by
           r == Abs(q) % by
<1>1. Abs(q) \in Int
  BY DEF Abs
<1>2. m \in Int /\ r \in Int /\ 0 <= r /\ r < by /\ Abs(q) = by * m + r
  BY <1>1, Quotient
<1>3. Whole(q, by, away) = IF away /\ r # 0 THEN Sign(q) * m + Sign(q) ELSE Sign(q) * m
  BY DEF Whole
<1> HIDE DEF m, r
<1>4. by * m \in Int /\ m * by = by * m /\ (m + 1) * by = by * m + by /\ (-m) * by = -(by * m)
      /\ (-m - 1) * by = -(by * m) - by
  BY <1>2
<1>5. CASE q > 0
  <2>1. Sign(q) = 1 /\ q = by * m + r
    BY <1>2, <1>5 DEF Sign, Abs
  <2>2. Whole(q, by, away) = IF away /\ r # 0 THEN m + 1 ELSE m
    BY <1>2, <1>3, <2>1
  <2>3. QED
    BY <1>2, <1>4, <2>1, <2>2
<1>6. CASE q < 0
  <2>1. Sign(q) = -1 /\ q = -(by * m) - r
    BY <1>2, <1>4, <1>6 DEF Sign, Abs
  <2>2. Whole(q, by, away) = IF away /\ r # 0 THEN -m - 1 ELSE -m
    BY <1>2, <1>3, <2>1
  <2>3. QED
    BY <1>2, <1>4, <2>1, <2>2
<1>7. CASE q = 0
  <2>1. Sign(q) = 0 /\ Abs(q) = 0
    BY <1>7 DEF Sign, Abs
  <2>2. Whole(q, by, away) = 0
    BY <1>2, <1>3, <2>1
  <2>3. QED
    BY <1>7, <2>1, <2>2
<1>8. QED
  BY <1>5, <1>6, <1>7

\* What roundToIncrement returns: a whole number of steps of inc, with zeros cut.
LEMMA RoundedIs ==
    ASSUME NEW v, NEW inc, IsDecimal(v), IsDecimal(inc), inc.n > 0, NEW away \in BOOLEAN
    PROVE  LET q  == v.n * Ten[inc.d]
               by == Ten[v.d] * inc.n
           IN  \E k \in 0..inc.d : \E m \in Int :
                  /\ roundToIncrement(v, inc, away) = Dec(m, inc.d - k)
                  /\ m * Ten[k] = Whole(q, by, away) * inc.n
<1> DEFINE q == v.n * Ten[inc.d]
           by == Ten[v.d] * inc.n
           w == Whole(q, by, away)
<1>1. Ten[v.d] \in Int /\ Ten[v.d] > 0 /\ Ten[inc.d] \in Int /\ Ten[inc.d] > 0 /\ inc.n \in Int /\ v.n \in Int
  BY TenPositive DEF IsDecimal
<1>2. q \in Int /\ by \in Int /\ by > 0
  BY <1>1, ProductPositive
<1>3. w \in Int
  <2> HIDE DEF q, by
  <2>1. QED
    BY <1>2, WholeSteps
<1>4. Steps(v, Rat(inc), away) = w
  BY DEF Steps, Rat, Whole
<1>5. inc # None
  BY DEF None, IsDecimal
<1> HIDE DEF w
<1>6. Times(Rat(inc), w) = <<(w * inc.n) * 1, Ten[inc.d] * 1>>
  <2>1. inc.n * w = (w * inc.n) * 1 /\ Ten[inc.d] = Ten[inc.d] * 1
    BY <1>1, <1>3
  <2>2. Times(Rat(inc), w) = <<inc.n * w, Ten[inc.d]>>
    BY DEF Times, Rat
  <2>3. QED
    BY <2>1, <2>2
<1>7. w * inc.n \in Int /\ inc.d \in Nat
  BY <1>1, <1>3 DEF IsDecimal
<1>8. FloatString(Times(Rat(inc), w), inc.d) = Dec(w * inc.n, inc.d)
  BY <1>6, <1>7, FloatStringExact
<1>9. roundToIncrement(v, inc, away) = Trim(Dec(w * inc.n, inc.d))
  BY <1>1, <1>4, <1>5, <1>8 DEF roundToIncrement
<1>10. PICK k \in 0..inc.d : \E m \in Int :
           Trim(Dec(w * inc.n, inc.d)) = Dec(m, inc.d - k) /\ w * inc.n = m * Ten[k]
  BY <1>7, TrimCuts
<1>11. QED
  BY <1>9, <1>10 DEF w

\* The gap between a price p / P and m / X, in units of 1 / K.
LEMMA GapScaled ==
    ASSUME NEW m \in Int, NEW p \in Int, NEW P \in Int, NEW X \in Int, NEW K \in Int,
           NEW w \in Int, NEW t \in Int, m * K = w * t
    PROVE  /\ (m * P + (-p) * X) * K = w * (P * t) - p * (X * K)
           /\ (p * X + (-m) * P) * K = p * (X * K) - w * (P * t)
<1>1. (m * P) * K = (m * K) * P /\ (w * t) * P = w * (P * t) /\ (p * X) * K = p * (X * K)
  OBVIOUS
<1>2. (m * P) * K = w * (P * t)
  BY <1>1
<1>3. m * P \in Int /\ p * X \in Int /\ (-p) * X = -(p * X) /\ (-m) * P = -(m * P)
  OBVIOUS
<1>4. \A u, v \in Int : (u + (-v)) * K = u * K - v * K
  OBVIOUS
<1>5. (m * P + (-p) * X) * K = (m * P) * K - (p * X) * K
  BY <1>3, <1>4
<1>6. (p * X + (-m) * P) * K = (p * X) * K - (m * P) * K
  BY <1>3, <1>4
<1>7. QED
  BY <1>1, <1>2, <1>5, <1>6

LEMMA AlongScaled ==
    ASSUME NEW a \in Int, NEW X \in Int, NEW K \in Int, NEW by \in Int, X > 0, K > 0,
           0 <= a * K, a * K < by
    PROVE  a >= 0 /\ a * (X * K) < by * X
<1>1. a >= 0
  BY ProductSign
<1>2. a * K \in Int /\ (a * K) * X < by * X
  BY ProductOrder
<1>3. (a * K) * X = a * (X * K)
  OBVIOUS
<1>4. QED
  BY <1>1, <1>2, <1>3

\* RoundPrice returns a price on the grid, on the side that never rounds toward crossing the book and
\* less than a tick away, for every tick and every price, on the grid or off it, positive or not
\* (rounding.go: RoundPrice, roundToIncrement).
THEOREM RoundPricePassive ==
    ASSUME NEW tick, NEW price, IsDecimal(tick), IsDecimal(price), tick.n > 0, NEW side \in {Buy, Sell}
    PROVE  Passive(RoundPrice(tick, price, side), tick, price, side)
<1> DEFINE T == Ten[tick.d]
           P == Ten[price.d]
           p == price.n
           t == tick.n
           away == side = Sell
           q == p * T
           by == P * t
           w == Whole(q, by, away)
<1>1. T \in Int /\ T > 0 /\ P \in Int /\ P > 0 /\ p \in Int /\ t \in Int /\ t > 0
  BY TenPositive DEF IsDecimal
<1>2. q \in Int /\ by \in Int /\ by > 0 /\ away \in BOOLEAN
  BY <1>1, ProductPositive
<1>3. PICK k \in 0..tick.d, m \in Int :
          RoundPrice(tick, price, side) = Dec(m, tick.d - k) /\ m * Ten[k] = w * t
  BY RoundedIs DEF RoundPrice
<1> DEFINE X == Ten[tick.d - k]
           K == Ten[k]
           x == Dec(m, tick.d - k)
           left == IF away THEN w * by - q ELSE q - w * by
<1>4. T = X * K /\ X \in Int /\ X > 0 /\ K \in Int /\ K > 0
  BY TenSplit DEF IsDecimal
<1>5. x.n = m /\ x.d = tick.d - k
  BY DEF Dec
<1>6. w \in Int /\ 0 <= Sign(q) * left /\ Sign(q) * left < by
  <2> HIDE DEF q, by, away
  <2>1. QED
    BY <1>2, WholeSteps
<1>7. Sign(q) = Sign(p) /\ Sign(p) \in {-1, 0, 1}
  BY <1>1, ProductSign DEF Sign
<1> HIDE DEF w, left
<1>8. left \in Int /\ left = IF away THEN w * (P * t) - p * (X * K) ELSE p * (X * K) - w * (P * t)
  BY <1>1, <1>2, <1>4, <1>6 DEF left
<1> DEFINE gap == IF away THEN m * P + (-p) * X ELSE p * X + (-m) * P
           along == <<Sign(p) * gap, X * P>>
<1>9. gap \in Int /\ gap * K = left
  <2>1. m * K = w * t
    BY <1>3
  <2>2. /\ (m * P + (-p) * X) * K = w * (P * t) - p * (X * K)
        /\ (p * X + (-m) * P) * K = p * (X * K) - w * (P * t)
    <3>1. m \in Int /\ p \in Int /\ P \in Int /\ X \in Int /\ K \in Int /\ w \in Int /\ t \in Int
      BY <1>1, <1>4, <1>6
    <3> HIDE DEF p, P, X, K, t
    <3>2. QED
      BY <2>1, <3>1, GapScaled
  <2>3. gap \in Int
    BY <1>1, <1>4
  <2>4. QED
    BY <1>8, <2>2, <2>3
<1> HIDE DEF gap
<1>10. Sign(p) * gap \in Int /\ (Sign(p) * gap) * K = Sign(q) * left
  BY <1>4, <1>7, <1>9
<1>11. Sign(p) * gap >= 0 /\ (Sign(p) * gap) * (X * K) < by * X
  <2>1. 0 <= (Sign(p) * gap) * K /\ (Sign(p) * gap) * K < by
    BY <1>6, <1>10
  <2> HIDE DEF by
  <2>2. QED
    BY <1>2, <1>4, <1>10, <2>1, AlongScaled
<1>12. along[1] >= 0 /\ Leq(along, Rat(tick)) /\ ~SameValue(along, Rat(tick))
  <2>1. by * X = t * (X * P) /\ t * (X * P) \in Int
    BY <1>1, <1>4
  <2>2. along[1] = Sign(p) * gap /\ along[2] = X * P /\ Rat(tick)[1] = t /\ Rat(tick)[2] = X * K
    BY <1>4 DEF Rat
  <2>3. (Sign(p) * gap) * (X * K) \in Int
    BY <1>4, <1>10
  <2>4. along[1] >= 0 /\ along[1] * Rat(tick)[2] < Rat(tick)[1] * along[2]
    BY <1>11, <2>1, <2>2
  <2>5. QED
    BY <2>1, <2>2, <2>3, <2>4 DEF Leq, SameValue
<1>13. OnGrid(x, tick)
  <2>1. (m * K) * X = (X * t) * w + 0
    BY <1>1, <1>3, <1>4, <1>6
  <2>2. m * T = (m * K) * X
    BY <1>4
  <2>3. X * t \in Int /\ X * t > 0
    BY <1>1, <1>4, ProductPositive
  <2>4. ((X * t) * w + 0) % (X * t) = 0
    BY <1>6, <2>3, QuotientIs
  <2>5. QED
    BY <1>5, <2>1, <2>2, <2>4 DEF OnGrid
<1>14. along = LET g == Minus(Rat(IF side = Sell THEN x ELSE price), Rat(IF side = Sell THEN price ELSE x))
               IN  <<Sign(price.n) * g[1], g[2]>>
  <2>1. X * P = P * X
    BY <1>1, <1>4
  <2>2. QED
    BY <1>5, <2>1 DEF Minus, Plus, Rat, gap
<1>15. QED
  BY <1>3, <1>12, <1>13, <1>14 DEF Passive

\* RoundSize never rounds up into more risk than asked, and gives up less than a lot
\* (rounding.go: RoundSize).
THEOREM RoundSizeDown ==
    ASSUME NEW lot, NEW size, IsDecimal(lot), IsDecimal(size), lot.n > 0
    PROVE  Passive(RoundSize(lot, size), lot, size, Buy)
<1>1. RoundSize(lot, size) = RoundPrice(lot, size, Buy)
  BY DEF RoundSize, RoundPrice, Buy, Sell
<1>2. QED
  BY <1>1, RoundPricePassive

\* Whole steps of what is whole steps.
LEMMA WholeExact ==
    ASSUME NEW z \in Int, NEW by \in Int, by > 0, NEW away \in BOOLEAN
    PROVE  Whole(by * z, by, away) = z
<1> DEFINE q == by * z
<1>1. q \in Int /\ z * by = q
  OBVIOUS
<1>2. Abs(q) = by * Abs(z) + 0 /\ Abs(z) \in Int /\ Sign(q) = Sign(z)
  <2>1. (z > 0 <=> q > 0) /\ (z < 0 <=> q < 0)
    BY <1>1, ProductSign
  <2>2. by * (-z) = -q
    OBVIOUS
  <2>3. QED
    BY <1>1, <2>1, <2>2 DEF Abs, Sign
<1>3. Abs(q) \div by = Abs(z) /\ Abs(q) % by = 0
  <2>1. (by * Abs(z) + 0) \div by = Abs(z) /\ (by * Abs(z) + 0) % by = 0
    <3> HIDE DEF q
    <3>1. QED
      BY <1>2, QuotientIs
  <2>2. QED
    BY <1>2, <2>1
<1>4. Sign(z) * Abs(z) = z
  BY DEF Sign, Abs
<1>5. Whole(q, by, away) = z
  <2>1. Whole(q, by, away) = Sign(q) * Abs(z)
    BY <1>3 DEF Whole
  <2>2. QED
    BY <1>2, <1>4, <2>1
<1>6. QED
  BY <1>5

\* On the grid means a whole number of ticks.
LEMMA GridIs ==
    ASSUME NEW x, NEW tick, IsDecimal(x), IsDecimal(tick), tick.n > 0, OnGrid(x, tick)
    PROVE  \E z \in Int : x.n * Ten[tick.d] = (Ten[x.d] * tick.n) * z
<1> DEFINE a == x.n * Ten[tick.d]
           b == Ten[x.d] * tick.n
<1>1. a \in Int /\ b \in Int /\ b > 0
  BY TenPositive, ProductPositive DEF IsDecimal
<1>2. a % b = 0
  BY DEF OnGrid
<1> HIDE DEF a, b
<1>3. a \div b \in Int /\ a = b * (a \div b)
  BY <1>1, <1>2, Quotient
<1> USE DEF a, b
<1>4. QED
  BY <1>3

\* A price of whole ticks with the tick's decimals is on the grid, and RoundPrice keeps its value.
LEMMA TicksStay ==
    ASSUME NEW tick, IsDecimal(tick), tick.n > 0, NEW z \in Int, NEW side \in {Buy, Sell}
    PROVE  LET x == Dec(tick.n * z, tick.d)
           IN  OnGrid(x, tick) /\ SameValue(Rat(RoundPrice(tick, x, side)), Rat(x))
<1> DEFINE T == Ten[tick.d]
           t == tick.n
           x == Dec(t * z, tick.d)
<1>1. T \in Int /\ T > 0 /\ t \in Int /\ t > 0 /\ tick.d \in Nat
  BY TenPositive DEF IsDecimal
<1>2. x.n = t * z /\ x.d = tick.d /\ t * z \in Int
  BY <1>1 DEF Dec
<1>3. T * t \in Int /\ T * t > 0
  BY <1>1, ProductPositive
<1>4. (t * z) * T = (T * t) * z
  BY <1>1
<1>5. OnGrid(x, tick)
  <2>1. ((T * t) * z + 0) % (T * t) = 0
    BY <1>3, QuotientIs
  <2>2. (T * t) * z + 0 = (t * z) * T
    BY <1>3, <1>4
  <2>3. QED
    BY <1>2, <2>1, <2>2 DEF OnGrid
<1>6. IsDecimal(x)
  BY <1>1, <1>2 DEF IsDecimal
<1>7. PICK k \in 0..tick.d, m \in Int :
          /\ RoundPrice(tick, x, side) = Dec(m, tick.d - k)
          /\ m * Ten[k] = Whole((t * z) * T, T * t, side = Sell) * t
  <2>1. (side = Sell) \in BOOLEAN
    OBVIOUS
  <2>2. \E k \in 0..tick.d : \E m \in Int :
            /\ roundToIncrement(x, tick, side = Sell) = Dec(m, tick.d - k)
            /\ m * Ten[k] = Whole(x.n * Ten[tick.d], Ten[x.d] * tick.n, side = Sell) * tick.n
    BY <1>6, <2>1, RoundedIs
  <2>3. QED
    BY <1>2, <2>2 DEF RoundPrice
<1>8. Whole((t * z) * T, T * t, side = Sell) = z
  <2>1. (side = Sell) \in BOOLEAN
    OBVIOUS
  <2>2. Whole((T * t) * z, T * t, side = Sell) = z
    BY <1>3, <2>1, WholeExact
  <2>3. QED
    BY <1>4, <2>2
<1> DEFINE X == Ten[tick.d - k]
           K == Ten[k]
<1>9. T = X * K /\ X \in Int /\ K \in Int
  BY <1>1, TenSplit
<1>10. m * K = t * z
  BY <1>1, <1>7, <1>8
<1>11. m * (X * K) = (m * K) * X
  BY <1>9
<1>12. SameValue(<<m, X>>, <<t * z, T>>)
  BY <1>9, <1>10, <1>11 DEF SameValue
<1>13. Rat(RoundPrice(tick, x, side)) = <<m, X>> /\ Rat(x) = <<t * z, T>>
  BY <1>2, <1>7 DEF Rat, Dec
<1>14. QED
  BY <1>5, <1>12, <1>13

\* What the quoter asks for, off a best price on the grid: whole ticks, outside that price.
LEMMA QuoteSafe ==
    ASSUME NEW tick, NEW best, NEW offset \in Nat, NEW side \in {Buy, Sell},
           IsDecimal(tick), IsDecimal(best), tick.n > 0, OnGrid(best, tick),
           quote(tick, offset, side, best) # None
    PROVE  LET x == quote(tick, offset, side, best)
           IN  /\ OnGrid(x, tick) /\ x.n > 0
               /\ SameValue(Rat(RoundPrice(tick, x, side)), Rat(x))
               /\ IF side = Buy THEN Leq(Rat(x), Rat(best)) ELSE Leq(Rat(best), Rat(x))
<1> DEFINE T == Ten[tick.d]
           B == Ten[best.d]
           t == tick.n
           b == best.n
           x == quote(tick, offset, side, best)
<1>1. T \in Int /\ T > 0 /\ B \in Int /\ B > 0 /\ t \in Int /\ t > 0 /\ b \in Int /\ tick.d \in Nat
  BY TenPositive DEF IsDecimal
<1>2. PICK z \in Int : b * T = (B * t) * z
  BY GridIs
<1> DEFINE y == IF side = Buy THEN z - offset ELSE z + offset
           p == <<(t * y) * B, T * B>>
           off == t * offset
<1>3. y \in Int /\ t * y \in Int /\ off \in Int
  BY <1>1
<1>4. (IF side = Buy THEN Minus(Rat(best), Times(Rat(tick), offset)) ELSE Plus(Rat(best), Times(Rat(tick), offset))) = p
  <2>1. (B * t) * z - off * B = (t * (z - offset)) * B /\ (B * t) * z + off * B = (t * (z + offset)) * B
    BY <1>1
  <2>2. b * T + (-off) * B = (B * t) * z - off * B /\ b * T + off * B = (B * t) * z + off * B
    BY <1>1, <1>2, <1>3
  <2>3. B * T = T * B
    BY <1>1
  <2>4. Times(Rat(tick), offset) = <<off, T>> /\ Rat(best) = <<b, B>>
    BY DEF Times, Rat
  <2>5. Minus(Rat(best), Times(Rat(tick), offset)) = <<b * T + (-off) * B, B * T>>
    BY <2>4 DEF Minus, Plus
  <2>6. Plus(Rat(best), Times(Rat(tick), offset)) = <<b * T + off * B, B * T>>
    BY <2>4 DEF Plus
  <2>7. QED
    BY <2>1, <2>2, <2>3, <2>5, <2>6
<1>5. x = IF p[1] <= 0 THEN None ELSE FloatString(p, tick.d)
  BY <1>4 DEF quote
<1>6. x = FloatString(p, tick.d) /\ ~((t * y) * B <= 0)
  BY <1>5
<1>7. x = Dec(t * y, tick.d)
  <2>1. FloatString(<<(t * y) * B, T * B>>, tick.d) = Dec(t * y, tick.d)
    <3> HIDE DEF y
    <3>1. QED
      BY <1>1, <1>3, FloatStringExact
  <2>2. QED
    BY <1>6, <2>1
<1>8. t * y > 0
  <2> HIDE DEF y
  <2>1. QED
    BY <1>1, <1>3, <1>6, ProductSign
<1>9. OnGrid(x, tick) /\ SameValue(Rat(RoundPrice(tick, x, side)), Rat(x))
  <2> HIDE DEF y
  <2>1. QED
    BY <1>1, <1>3, <1>7, TicksStay
<1>10. IF side = Buy THEN Leq(Rat(x), Rat(best)) ELSE Leq(Rat(best), Rat(x))
  <2>1. Rat(x) = <<t * y, T>> /\ Rat(best) = <<b, B>>
    BY <1>7 DEF Rat, Dec
  <2>2. (t * y) * B = (B * t) * y /\ B * t \in Int /\ B * t > 0 /\ T * b = b * T
    BY <1>1, <1>3, ProductPositive
  <2>3. side = Buy => (B * t) * y <= (B * t) * z
    <3>1. y \in Int /\ (side = Buy => y <= z)
      OBVIOUS
    <3> HIDE DEF y
    <3>2. y * (B * t) = (B * t) * y /\ z * (B * t) = (B * t) * z
      BY <2>2, <3>1
    <3>3. QED
      BY <2>2, <3>1, <3>2, ProductOrder
  <2>4. side # Buy => (B * t) * z <= (B * t) * y
    <3>1. y \in Int /\ (side # Buy => z <= y)
      OBVIOUS
    <3> HIDE DEF y
    <3>2. y * (B * t) = (B * t) * y /\ z * (B * t) = (B * t) * z
      BY <2>2, <3>1
    <3>3. QED
      BY <2>2, <3>1, <3>2, ProductOrder
  <2>5. QED
    BY <1>2, <2>1, <2>2, <2>3, <2>4 DEF Leq
<1>11. x.n > 0
  BY <1>7, <1>8 DEF Dec
<1>12. QED
  BY <1>9, <1>10, <1>11

-----------------------------------------------------------------------------
(* GridSafe.  What is asked for was computed from a book, and the book the  *)
(* requote works on came whole from the stream.                             *)

QuotedFrom(q) ==
    /\ q.side \in {Buy, Sell}
    /\ IsDecimal(q.best) /\ OnGrid(q.best, Tick)
    /\ q.price = quote(Tick, Offset, q.side, q.best) /\ q.price # None

GridInv ==
    /\ feed.pc = "send" => feed.latest \in Books
    /\ feed.books \subseteq Books
    /\ main.pc = "cancelResting" => main.book \in Books /\ None \notin {main.book.bid, main.book.ask}
    /\ \A r \in wire : \A q \in r.quotes : QuotedFrom(q)

\* No action but CreateOrders asks for a quote, and none but TakeBook takes a book.
GridCalm ==
    /\ \A r \in wire' : r \in wire \/ r.quotes = {}
    /\ feed'.books \subseteq feed.books
    /\ feed'.pc = "send" => feed.pc = "send" /\ feed'.latest = feed.latest
    /\ main'.pc = "cancelResting" => main.pc = "cancelResting" /\ main'.book = main.book

LEMMA CalmKeepsGrid == ASSUME GridInv, GridCalm PROVE GridInv'
<1>1. ASSUME NEW r \in wire', NEW q \in r.quotes PROVE QuotedFrom(q)
  BY DEF GridInv, GridCalm
<1>2. (\A r \in wire : \A q \in r.quotes : QuotedFrom(q))'
  BY <1>1 DEF QuotedFrom
<1> QED
  BY <1>2 DEF GridInv, GridCalm

LEMMA SendsIsCalm ==
    ASSUME Shape, NEW kind, NEW id, Sends(Ask(kind, id, {}))
    PROVE  GridCalm
BY DEF Shape, Sends, Ask, GridCalm

LEMMA ReturnsIsCalm ==
    ASSUME Shape, NEW how, Returns(how), wire' = wire
    PROVE  GridCalm
BY DEF Shape, Returns, GridCalm

LEMMA GoesIsCalm ==
    ASSUME Shape, NEW pc, pc # "cancelResting", Goes(pc), wire' = wire
    PROVE  GridCalm
BY DEF Shape, Goes, GridCalm

\* What CreateOrders asks for.
LEMMA QuotesQuoted ==
    ASSUME main.book \in Books, None \notin {main.book.bid, main.book.ask},
           NEW q \in Quotes, q.price # None
    PROVE  QuotedFrom(q)
<1>1. PICK s \in {Buy, Sell} :
         q = [id |-> <<main.round, s>>, side |-> s, best |-> IF s = Buy THEN main.book.bid ELSE main.book.ask,
              price |-> quote(Tick, Offset, s, IF s = Buy THEN main.book.bid ELSE main.book.ask)]
  BY DEF Quotes
<1>2. /\ q.side = s /\ q.best \in {main.book.bid, main.book.ask} \ {None}
      /\ q.price = quote(Tick, Offset, q.side, q.best)
  BY <1>1
<1>3. IsDecimal(q.best) /\ OnGrid(q.best, Tick)
  BY <1>2, GridAssumption
<1> QED
  BY <1>2, <1>3 DEF QuotedFrom

LEMMA CreateOrdersGrid == ASSUME Shape, GridInv, CreateOrders PROVE GridInv'
<1> DEFINE r == Ask("create", <<main.round>>, {q \in Quotes : q.price # None})
<1>1. /\ main.pc = "cancelResting" /\ wire' = wire \cup {r} /\ feed' = feed
      /\ main' = [main EXCEPT !.pc = "create", !.resting = <<>>, !.req = r, !.book = NoBook]
  BY DEF CreateOrders
<1>2. \A q \in r.quotes : QuotedFrom(q)
  BY <1>1, QuotesQuoted DEF GridInv, Ask
<1> HIDE DEF r
<1>3. main'.pc = "create"
  BY <1>1 DEF Shape
<1>4. (\A u \in wire : \A q \in u.quotes : QuotedFrom(q))'
  BY <1>1, <1>2 DEF GridInv, QuotedFrom
<1> QED
  BY <1>1, <1>3, <1>4 DEF GridInv

LEMMA TakeBookGrid == ASSUME Shape, GridInv, TakeBook PROVE GridInv'
<1>1. PICK b \in feed.books :
         /\ feed' = [feed EXCEPT !.books = {}]
         /\ \/ UNCHANGED main
            \/ /\ None \notin {b.bid, b.ask}
               /\ main' = [main EXCEPT !.pc = "cancelResting", !.todo = main.resting, !.book = b, !.round = @ + 1]
  BY DEF TakeBook
<1>2. wire' = wire /\ b \in Books
  BY DEF TakeBook, GridInv
<1>3. feed'.books = {} /\ feed'.pc = feed.pc /\ feed'.latest = feed.latest
  BY <1>1 DEF Shape
<1>4. main'.pc = "cancelResting" =>
         main'.book \in Books /\ None \notin {main'.book.bid, main'.book.ask}
  <2>1. CASE UNCHANGED main
    BY <2>1 DEF GridInv
  <2>2. CASE /\ None \notin {b.bid, b.ask}
             /\ main' = [main EXCEPT !.pc = "cancelResting", !.todo = main.resting, !.book = b, !.round = @ + 1]
    <3>1. main'.book = b
      BY <2>2 DEF Shape
    <3> QED
      BY <1>2, <2>2, <3>1
  <2> QED
    BY <1>1, <2>1, <2>2
<1> QED
  BY <1>2, <1>3, <1>4 DEF GridInv, QuotedFrom

LEMMA ReadFrameGrid == ASSUME Shape, GridInv, NEW f \in Frames, ReadFrame(f) PROVE GridInv'
<1>1. UNCHANGED <<main, wire>>
  BY DEF ReadFrame
<1>2. \/ \E b \in Books : feed' = [feed EXCEPT !.pc = "send", !.latest = b, !.books = {}]
      \/ feed' = [feed EXCEPT !.pc = "off"]
  <2>1. \A b \in decodeStream(f).book : b \in Books
    <3>1. CASE f \in {[type |-> "BookUpdate", book |-> {b}] : b \in Books}
      BY <3>1 DEF decodeStream
    <3>2. CASE f \in [type : FrameTypes, book : {{}}]
      BY <3>2 DEF decodeStream
    <3> QED
      BY <3>1, <3>2 DEF Frames
  <2> QED
    BY <2>1 DEF ReadFrame
<1>3. (feed'.pc = "send" => feed'.latest \in Books) /\ feed'.books \subseteq Books
  BY <1>2 DEF Shape, GridInv
<1> QED
  BY <1>1, <1>3 DEF GridInv, QuotedFrom

LEMMA SendBookGrid == ASSUME Shape, GridInv, SendBook PROVE GridInv'
<1>1. UNCHANGED <<main, wire>> /\ feed'.pc = "next" /\ feed'.books = {feed.latest} /\ feed.latest \in Books
  BY DEF SendBook, GridInv
<1> QED
  BY <1>1 DEF GridInv, QuotedFrom

LEMMA GridStep == BotInv /\ GridInv /\ [Next]_vars => GridInv'
<1> SUFFICES ASSUME Shape, GridInv, [Next]_vars PROVE GridInv'
    BY DEF BotInv
<1>1. CASE UNCHANGED vars
  BY <1>1, CalmKeepsGrid DEF vars, GridCalm
<1>2. CASE Run
  <2>1. CASE Setup
    <3>1. CASE MarketStream
      BY <2>1, <3>1, CalmKeepsGrid DEF Setup, MarketStream, GridCalm, Shape
    <3>2. CASE main.pc = "subscribe" /\ ~ctx /\ sub' = "open" /\ main' = [main EXCEPT !.pc = "cod"] /\ UNCHANGED feed
      BY <2>1, <3>2, CalmKeepsGrid DEF Setup, GridCalm, Shape
    <3> QED
      BY <2>1, <3>1, <3>2, GoesIsCalm, ReturnsIsCalm, CalmKeepsGrid DEF Setup
  <2>2. CASE SetCancelOnDisconnect \/ CancelOrder \/ CancelAllOrders \/ FetchOpenOrders
    BY <2>2, SendsIsCalm, CalmKeepsGrid DEF SetCancelOnDisconnect, CancelOrder, CancelAllOrders, FetchOpenOrders
  <2>3. CASE CodDone \/ LoopDone \/ CancelAllDone \/ ReadBackDone
    BY <2>3, GoesIsCalm, ReturnsIsCalm, CalmKeepsGrid DEF CodDone, LoopDone, CancelAllDone, ReadBackDone
  <2>4. CASE CancelDone
    BY <2>4, CalmKeepsGrid DEF CancelDone, GridCalm, Shape
  <2>5. CASE CreateOrders
    BY <2>5, CreateOrdersGrid
  <2>6. CASE CreateCancelled
    BY <2>6, CalmKeepsGrid DEF CreateCancelled, GridCalm, Shape
  <2>7. CASE CreateDone
    BY <2>7, CalmKeepsGrid DEF CreateDone, GridCalm, Shape
  <2> QED
    BY <1>2, <2>1, <2>2, <2>3, <2>4, <2>5, <2>6, <2>7 DEF Run
<1>3. CASE TakeBook
  BY <1>3, TakeBookGrid
<1>4. CASE Readers
  <2>1. CASE SendBook
    BY <2>1, SendBookGrid
  <2>2. CASE ReadersEnd \/ SocketReturns
    BY <2>2, CalmKeepsGrid DEF ReadersEnd, SocketReturns, GridCalm, Shape
  <2> QED
    BY <1>4, <2>1, <2>2 DEF Readers
<1>5. CASE Network
  <2>1. PICK r \in wire : Serve(r) \/ Drop(r)
    BY <1>5 DEF Network
  <2>2. wire' = wire \ {r} /\ feed' = feed
    BY <2>1 DEF Serve, Drop
  <2>3. main'.pc = main.pc /\ main'.book = main.book
    BY <2>1 DEF Serve, Drop, Answers, Shape
  <2> QED
    BY <2>2, <2>3, CalmKeepsGrid DEF GridCalm
<1>6. CASE GraceFires \/ SocketBreaks \/ CtxEnds \/ (\E o \in Ours : Fill(o))
  BY <1>6, CalmKeepsGrid DEF GraceFires, SocketBreaks, CtxEnds, Fill, GridCalm
<1>7. CASE \E f \in Frames : ReadFrame(f)
  BY <1>7, ReadFrameGrid
<1>8. CASE Crash
  BY <1>8, ReturnsIsCalm, CalmKeepsGrid DEF Crash
<1> QED
  BY <1>1, <1>2, <1>3, <1>4, <1>5, <1>6, <1>7, <1>8 DEF Next

\* Every price the bot ever asks for is positive, on the grid and outside the touch it was computed
\* from, and RoundPrice would not change it; and RoundPrice itself is passive, for every tick, price
\* and side: no tick size, offset or number of decimals makes a rounding go wrong (quote,
\* roundToIncrement).
THEOREM QuotesOnGrid == Spec => []GridSafe
<1>1. Init => GridInv
  BY DEF Init, GridInv
<1>2. GridInv => GridSafe
  <2> SUFFICES ASSUME GridInv PROVE GridSafe
      OBVIOUS
  <2>1. ASSUME NEW r \in wire, NEW q \in r.quotes
        PROVE  /\ OnGrid(q.price, Tick) /\ q.price.n > 0
               /\ SameValue(Rat(RoundPrice(Tick, q.price, q.side)), Rat(q.price))
               /\ IF q.side = Buy THEN Leq(Rat(q.price), Rat(q.best)) ELSE Leq(Rat(q.best), Rat(q.price))
    <3>1. QuotedFrom(q)
      BY DEF GridInv
    <3>2. IsDecimal(Tick) /\ Tick.n > 0 /\ Offset \in Nat
      BY GridAssumption, BotAssumption
    <3> QED
      BY <3>1, <3>2, QuoteSafe DEF QuotedFrom
  <2>2. ASSUME NEW t \in Ticks, NEW p \in Prices, NEW s \in {Buy, Sell}
        PROVE  Passive(RoundPrice(t, p, s), t, p, s)
    <3>1. IsDecimal(t) /\ t.n > 0 /\ IsDecimal(p)
      BY GridAssumption
    <3> QED
      BY <3>1, RoundPricePassive
  <2> QED
    BY <2>1, <2>2 DEF GridSafe
<1> QED
  BY <1>1, <1>2, BotInvariant, GridStep, PTL DEF Spec
===============================================================================
