-------------------------- MODULE SubscriptionProofs --------------------------
(***************************************************************************)
(* Theorems about Subscription, for any channels, drops, trims, refusals    *)
(* and lengths of queues: the application re-reads over REST at the ack     *)
(* (RereadAtOnce = FALSE) and subscribes to nothing twice (Redundant =      *)
(* FALSE).                                                                  *)
(*                                                                          *)
(* Places are the frames between the server and the application in the      *)
(* order it is given them: 0 is the frame in hand, i > 0 the ith in flight. *)
(* A frame is of a channel if it carries a seq of it or ends it.            *)
(***************************************************************************)
EXTENDS Subscription, SequenceTheorems, FiniteSetTheorems, TLAPS

-----------------------------------------------------------------------------
(* Types.                                                                   *)

Acks == [op : {"subscribed"}, ch : Channels, seq : Nat]
Events == [op : {"event"}, ch : Channels, seq : Nat]
Byes == [op : {"unsubscribed"}, ch : Channels]
Losses == [op : {"out_of_sync"}, scope : SUBSET Channels]
Answers == Acks \cup Events \cup Byes \cup Losses \cup {ErrorFrame}
Asks == [op : {"subscribe"}, ch : Channels, since : Nat \cup {None}] \cup [op : {"unsubscribe"}, ch : Channels]

SubType ==
    /\ head \in [Channels -> Nat] /\ oldest \in [Channels -> Nat] /\ live \subseteq Channels
    /\ \A ch \in Channels : head[ch] <= MaxSeq /\ 1 <= oldest[ch] /\ oldest[ch] <= head[ch] + 1
    /\ toServer \in Seq(Asks) /\ toClient \in Seq(Answers)
    /\ conn \in {"nil", "open", "broken"} /\ closed \in BOOLEAN
    /\ subs \subseteq Channels /\ cursors \in [Channels -> Nat \cup {None}]
    /\ inHand \in Answers \cup {NoFrame} /\ pending \in Seq(Channels)
    /\ view \in [Channels -> Nat \cup {None}]
    /\ drops \in 0..MaxDrops /\ calls \in 0..MaxCalls

-----------------------------------------------------------------------------
(* What is on its way to the application, channel by channel.               *)

Places == 0..Len(toClient)
At(i) == IF i = 0 THEN inHand ELSE toClient[i]
Numbered(f, ch) == f.op \in {"subscribed", "event"} /\ f.ch = ch
Ending(f, ch) == \/ f.op = "unsubscribed" /\ f.ch = ch
                 \/ f.op = "out_of_sync" /\ ch \in f.scope
Of(f, ch) == Numbered(f, ch) \/ Ending(f, ch)

IsFirst(i, ch) == i \in Places /\ Of(At(i), ch) /\ \A k \in Places : k < i => ~Of(At(k), ch)
IsLast(i, ch) == i \in Places /\ Of(At(i), ch) /\ \A k \in Places : k > i => ~Of(At(k), ch)
Adjacent(i, j, ch) == /\ i \in Places /\ j \in Places /\ i < j /\ Of(At(i), ch) /\ Of(At(j), ch)
                      /\ \A k \in Places : i < k /\ k < j => ~Of(At(k), ch)
Silent(ch) == \A k \in Places : ~Of(At(k), ch)

\* The application is current with ch, and no OutOfSync that says otherwise waits for it.
IsPending(ch) == \E k \in 1..Len(pending) : pending[k] = ch
Current(ch) == view[ch] # None /\ ~IsPending(ch)

\* What a frame with a seq says after seq s has been said: the next event, or an ack of s.
Follows(f, s) == IF f.op = "event" THEN f.seq = s + 1 ELSE f.seq = s

\* What the client holds: nothing of what it is not subscribed to, and a cursor at what the application has.
HeldInv(ch) ==
    /\ ch \notin subs => cursors[ch] = None /\ view[ch] = None
    /\ Current(ch) => cursors[ch] = view[ch]
    /\ IsPending(ch) => cursors[ch] = None
    /\ cursors[ch] <= head[ch] /\ view[ch] <= head[ch]

\* What is on its way continues what the application has, without a gap and without a repetition.
ChainInv(ch) ==
    /\ \A i \in Places : IsFirst(i, ch) /\ Numbered(At(i), ch) /\ Current(ch) => Follows(At(i), view[ch])
    /\ \A i, j \in Places :
           Adjacent(i, j, ch) /\ Numbered(At(i), ch) /\ Numbered(At(j), ch) => Follows(At(j), At(i).seq)

\* Seqs on their way are at or above the cursor, and never fall.
GrowInv(ch) ==
    /\ \A i \in Places : Numbered(At(i), ch) => cursors[ch] <= At(i).seq /\ At(i).seq <= head[ch]
    /\ \A i, j \in Places : i < j /\ Numbered(At(i), ch) /\ Numbered(At(j), ch) => At(i).seq <= At(j).seq

\* While the server publishes to a connection, the last frame on its way is at the head; when it does not,
\* the last frame has said so.
EdgeInv(ch) == conn = "open" =>
    /\ \A i \in Places : IsLast(i, ch) =>
           IF ch \in live THEN Numbered(At(i), ch) /\ At(i).seq = head[ch] ELSE Ending(At(i), ch)
    /\ ch \in live /\ Silent(ch) /\ Current(ch) => view[ch] = head[ch]

\* A subscribe that resumes is the first of its channel on its connection, and asks for what comes next.  One
\* that begins at the live edge leaves no gap: the application is not current, or will be told so first.
Resumes(k, ch) == toServer[k].op = "subscribe" /\ toServer[k].ch = ch /\ toServer[k].since # None
Begins(k, ch) == toServer[k].op = "subscribe" /\ toServer[k].ch = ch /\ toServer[k].since = None
AskInv(ch) ==
    /\ \A k \in 1..Len(toServer) : Resumes(k, ch) =>
           /\ \A m \in 1..Len(toServer) : m < k => toServer[m].ch # ch
           /\ ch \notin live /\ \A i \in Places : ~Numbered(At(i), ch)
           /\ cursors[ch] <= toServer[k].since /\ toServer[k].since <= head[ch]
           /\ Current(ch) /\ Silent(ch) => view[ch] = toServer[k].since
    /\ \A k \in 1..Len(toServer) : Begins(k, ch) /\ ch \notin live => ~(Current(ch) /\ Silent(ch))

ReadInv == /\ inHand # NoFrame => pending = <<>>
           /\ conn # "open" => live = {} /\ toServer = <<>> /\ toClient = <<>>

ChannelInv(ch) == HeldInv(ch) /\ ChainInv(ch) /\ GrowInv(ch) /\ EdgeInv(ch) /\ AskInv(ch)
SubInv == ReadInv /\ \A ch \in Channels : ChannelInv(ch)

LEMMA Numbers ==
    ASSUME SubType
    PROVE  /\ Len(toClient) \in Nat /\ Len(toServer) \in Nat /\ Len(pending) \in Nat
           /\ \A i \in Places : At(i) \in Answers \cup {NoFrame}
           /\ \A f \in Answers \cup {NoFrame}, ch \in Channels : Numbered(f, ch) => f.seq \in Nat
<1>1. \A i \in Places : At(i) \in Answers \cup {NoFrame}
  BY DEF SubType, Places, At
<1>2. \A f \in Answers \cup {NoFrame}, ch \in Channels : Numbered(f, ch) => f.seq \in Nat
  BY DEF Numbered, Answers, Acks, Events, Byes, Losses, ErrorFrame, NoFrame
<1> QED
  BY <1>1, <1>2 DEF SubType

\* The places stay as they are, and the client knows no more.
LEMMA SameKeeps ==
    ASSUME SubType, NEW ch \in Channels, ChainInv(ch), GrowInv(ch), EdgeInv(ch),
           UNCHANGED <<inHand, toClient, live, conn, head>>, cursors'[ch] \in {cursors[ch], None},
           Current(ch)' => Current(ch) /\ view'[ch] = view[ch]
    PROVE  ChainInv(ch)' /\ GrowInv(ch)' /\ EdgeInv(ch)' /\ (Silent(ch)' <=> Silent(ch))
<1>1. /\ \A i : (IsFirst(i, ch)' <=> IsFirst(i, ch)) /\ (IsLast(i, ch)' <=> IsLast(i, ch))
      /\ \A i, j : Adjacent(i, j, ch)' <=> Adjacent(i, j, ch)
      /\ Places' = Places /\ (\A i : At(i)' = At(i)) /\ (Silent(ch)' <=> Silent(ch))
  BY DEF IsFirst, IsLast, Adjacent, Places, At, Silent
<1>2. \A i \in Places : Numbered(At(i), ch) => At(i).seq \in Nat
  BY Numbers
<1>3. cursors[ch] \in Nat \cup {-1} /\ cursors'[ch] \in {cursors[ch], -1}
  BY DEF SubType, None
<1>4. ChainInv(ch)'
  BY <1>1 DEF ChainInv
<1>5. GrowInv(ch)'
  BY <1>1, <1>2, <1>3 DEF GrowInv
<1>6. EdgeInv(ch)'
  BY <1>1 DEF EdgeInv
<1> QED
  BY <1>1, <1>4, <1>5, <1>6

\* The connection is gone: at most the frame in hand is left.
LEMMA BrokenKeeps ==
    ASSUME SubType, NEW ch \in Channels, ChainInv(ch), GrowInv(ch), HeldInv(ch)',
           toClient' = <<>>, toServer' = <<>>, inHand' \in {inHand, NoFrame}, conn' # "open", UNCHANGED head,
           cursors'[ch] \in {cursors[ch], None}, Current(ch)' => Current(ch) /\ view'[ch] = view[ch]
    PROVE  ChannelInv(ch)'
<1>1. Places' = {0} /\ 0 \in Places /\ At(0) = inHand /\ At(0)' = inHand' /\ ~Of(NoFrame, ch)
  BY Numbers DEF Places, At, Of, Numbered, Ending, NoFrame
<1>2. \A i \in Places : Numbered(At(i), ch) => At(i).seq \in Nat
  BY Numbers
<1>3. cursors[ch] \in Nat \cup {-1} /\ cursors'[ch] \in {cursors[ch], -1} /\ Places \subseteq Nat
  BY DEF SubType, None, Places
<1>4. ChainInv(ch)'
  <2>1. ASSUME IsFirst(0, ch)' PROVE IsFirst(0, ch) /\ inHand' = inHand
    BY <1>1, <1>3, <2>1 DEF IsFirst
  <2>2. \A i, j : ~Adjacent(i, j, ch)'
    BY <1>1 DEF Adjacent
  <2> QED
    BY <1>1, <2>1, <2>2 DEF ChainInv
<1>5. GrowInv(ch)'
  BY <1>1, <1>2, <1>3 DEF GrowInv, Of
<1>6. EdgeInv(ch)' /\ AskInv(ch)'
  BY DEF EdgeInv, AskInv
<1> QED
  BY <1>4, <1>5, <1>6 DEF ChannelInv

\* The next frame is taken from the connection: places shift by one.
LEMMA ReadKeeps ==
    ASSUME SubType, NEW ch \in Channels, ChainInv(ch), GrowInv(ch), EdgeInv(ch), inHand = NoFrame, toClient # <<>>,
           inHand' = Head(toClient), toClient' = Tail(toClient), UNCHANGED <<live, conn, head, cursors, view, pending>>
    PROVE  ChainInv(ch)' /\ GrowInv(ch)' /\ EdgeInv(ch)' /\ (Silent(ch)' <=> Silent(ch))
           /\ \A i \in Places' : Numbered(At(i), ch)' => \E j \in Places : Numbered(At(j), ch)
<1>1. Len(toClient) \in Nat /\ Len(toClient) >= 1 /\ Places' = 0..(Len(toClient) - 1)
  BY DEF SubType, Places
<1>2. /\ \A i \in Places' : i + 1 \in Places /\ At(i)' = At(i + 1)
      /\ \A j \in Places : j = 0 \/ (j - 1 \in Places' /\ j = (j - 1) + 1)
      /\ ~Of(At(0), ch) /\ 0 \in Places
  BY <1>1 DEF SubType, Places, At, Of, Numbered, Ending, NoFrame
<1>3. Current(ch)' <=> Current(ch)
  BY DEF Current, IsPending
<1>4. \A i, k \in Places' : i \in Int /\ k \in Int /\ (i < k <=> i + 1 < k + 1)
  BY <1>1
<1> HIDE DEF Places, At
<1>5. \A i \in Places' : (IsFirst(i, ch)' => IsFirst(i + 1, ch)) /\ (IsLast(i, ch)' => IsLast(i + 1, ch))
  BY <1>2, <1>4 DEF IsFirst, IsLast
<1>6. \A i, j \in Places' : Adjacent(i, j, ch)' => Adjacent(i + 1, j + 1, ch)
  BY <1>2, <1>4 DEF Adjacent
<1>7. ChainInv(ch)'
  BY <1>2, <1>3, <1>5, <1>6 DEF ChainInv
<1>8. GrowInv(ch)'
  BY <1>2, <1>4 DEF GrowInv
<1>9. Silent(ch)' <=> Silent(ch)
  BY <1>2 DEF Silent
<1>10. EdgeInv(ch)'
  BY <1>2, <1>3, <1>5, <1>9 DEF EdgeInv
<1> QED
  BY <1>2, <1>7, <1>8, <1>9, <1>10

\* The frame in hand is decoded: the application now has what it said, or has been told that it is not current.
LEMMA TakenKeeps ==
    ASSUME SubType, NEW ch \in Channels, ChainInv(ch), GrowInv(ch), EdgeInv(ch), inHand' = NoFrame,
           UNCHANGED <<toClient, live, conn, head>>,
           cursors'[ch] \in {cursors[ch], None} \/ (Numbered(inHand, ch) /\ cursors'[ch] = inHand.seq),
           Current(ch)' => IF Of(inHand, ch) THEN Numbered(inHand, ch) /\ view'[ch] = inHand.seq
                           ELSE Current(ch) /\ view'[ch] = view[ch]
    PROVE  /\ ChainInv(ch)' /\ GrowInv(ch)' /\ EdgeInv(ch)'
           /\ \A i \in Places' : Numbered(At(i), ch)' => Numbered(At(i), ch) /\ i \in Places
           /\ conn = "open" /\ Current(ch)' /\ Silent(ch)' /\ ch \notin live =>
                  Current(ch) /\ Silent(ch) /\ view'[ch] = view[ch]
<1>1. /\ Places' = Places /\ 0 \in Places /\ At(0) = inHand /\ At(0)' = NoFrame /\ ~Of(NoFrame, ch)
      /\ \A i \in Places : i # 0 => At(i)' = At(i) /\ 0 < i
      /\ Places \subseteq Nat
  BY Numbers DEF Places, At, Of, Numbered, Ending, NoFrame
<1>2. \A i \in Places : Numbered(At(i), ch) => At(i).seq \in Nat
  BY Numbers
<1>3. cursors[ch] \in Nat \cup {-1}
  BY DEF SubType, None
<1> HIDE DEF Places, At
<1>4. \A i \in Places : IsFirst(i, ch)' => i # 0 /\ IF Of(inHand, ch) THEN Adjacent(0, i, ch) ELSE IsFirst(i, ch)
  BY <1>1 DEF IsFirst, Adjacent
<1>5. \A i, j \in Places : Adjacent(i, j, ch)' => Adjacent(i, j, ch) /\ i # 0 /\ j # 0
  <2> SUFFICES ASSUME NEW i \in Places, NEW j \in Places, Adjacent(i, j, ch)'
               PROVE  Adjacent(i, j, ch) /\ i # 0 /\ j # 0
      OBVIOUS
  <2>1. i # 0 /\ j # 0 /\ i < j
    BY <1>1 DEF Adjacent
  <2>2. \A k \in Places : i < k => k # 0
    BY <1>1
  <2> QED
    BY <1>1, <2>1, <2>2 DEF Adjacent
<1>6. \A i \in Places : IsLast(i, ch)' => IsLast(i, ch) /\ i # 0
  BY <1>1 DEF IsLast
<1>7. Silent(ch)' => IF Of(inHand, ch) THEN IsLast(0, ch) ELSE Silent(ch)
  BY <1>1 DEF Silent, IsLast
<1>8. ChainInv(ch)'
  BY <1>1, <1>4, <1>5 DEF ChainInv
<1>9. GrowInv(ch)'
  <2>1. \A i \in Places : Numbered(At(i), ch)' => i # 0 /\ Numbered(At(i), ch)
    BY <1>1 DEF Of
  <2>2. \A i \in Places : Numbered(At(i), ch)' => cursors'[ch] <= At(i).seq
    <3>1. CASE cursors'[ch] \in {cursors[ch], -1}
      BY <1>2, <1>3, <2>1, <3>1 DEF GrowInv
    <3>2. CASE Numbered(inHand, ch) /\ cursors'[ch] = inHand.seq
      BY <1>1, <2>1, <3>2 DEF GrowInv
    <3> QED
      BY <3>1, <3>2 DEF None
  <2> QED
    BY <1>1, <2>1, <2>2 DEF GrowInv
<1>10. EdgeInv(ch)'
  <2>1. ch \in live /\ Silent(ch)' /\ Current(ch)' /\ conn = "open" => view'[ch] = head[ch]
    BY <1>1, <1>7 DEF EdgeInv
  <2> QED
    BY <1>1, <1>6, <2>1 DEF EdgeInv
<1>11. \A i \in Places' : Numbered(At(i), ch)' => Numbered(At(i), ch) /\ i \in Places
  BY <1>1 DEF Of
<1>12. conn = "open" /\ Current(ch)' /\ Silent(ch)' /\ ch \notin live =>
          Current(ch) /\ Silent(ch) /\ view'[ch] = view[ch]
  <2>1. Numbered(inHand, ch) => ~Ending(inHand, ch)
    BY DEF Numbered, Ending
  <2> QED
    BY <1>1, <1>7, <2>1 DEF EdgeInv
<1> QED
  BY <1>8, <1>9, <1>10, <1>11, <1>12

\* The server appends n frames.
Appends(n) == /\ inHand' = inHand /\ Len(toClient') = Len(toClient) + n
              /\ \A i \in 1..Len(toClient) : toClient'[i] = toClient[i]
NewPlaces(n) == (Len(toClient) + 1)..(Len(toClient) + n)
LEMMA AppendPlaces ==
    ASSUME SubType, NEW n \in Nat, Appends(n)
    PROVE  /\ Places' = Places \cup NewPlaces(n) /\ Places \subseteq Nat /\ NewPlaces(n) \subseteq Nat
           /\ \A i \in Places : At(i)' = At(i)
           /\ \A i \in Places, j \in NewPlaces(n) : i < j
BY DEF SubType, Appends, NewPlaces, Places, At

\* None of the new frames is of ch.
LEMMA PassedKeeps ==
    ASSUME SubType, NEW ch \in Channels, ChainInv(ch), GrowInv(ch), EdgeInv(ch), NEW n \in Nat, Appends(n),
           \A i \in NewPlaces(n) : ~Of(At(i), ch)', ch \in live' <=> ch \in live,
           head'[ch] = head[ch] \/ (ch \notin live /\ head'[ch] \in Nat /\ head'[ch] >= head[ch]),
           UNCHANGED <<conn, cursors, view, pending>>
    PROVE  ChainInv(ch)' /\ GrowInv(ch)' /\ EdgeInv(ch)' /\ (Silent(ch)' <=> Silent(ch))
           /\ \A i \in Places' : Numbered(At(i), ch)' => \E j \in Places : Numbered(At(j), ch)
<1>1. /\ Places' = Places \cup NewPlaces(n) /\ Places \subseteq Nat /\ NewPlaces(n) \subseteq Nat
      /\ \A i \in Places : At(i)' = At(i)
      /\ \A i \in Places, j \in NewPlaces(n) : i < j
  BY AppendPlaces
<1>2. \A i \in Places' : Of(At(i), ch)' => i \in Places /\ Of(At(i), ch)
  BY <1>1
<1>3. Current(ch)' <=> Current(ch)
  BY DEF Current, IsPending
<1>4. \A i \in Places : Numbered(At(i), ch) => At(i).seq \in Nat
  BY Numbers
<1> HIDE DEF Places, At
<1>5. \A i \in Places' : /\ IsFirst(i, ch)' => i \in Places /\ IsFirst(i, ch)
                         /\ IsLast(i, ch)' => i \in Places /\ IsLast(i, ch)
  BY <1>1, <1>2 DEF IsFirst, IsLast
<1>6. \A i, j \in Places' : Adjacent(i, j, ch)' => i \in Places /\ j \in Places /\ Adjacent(i, j, ch)
  BY <1>1, <1>2 DEF Adjacent
<1>7. ChainInv(ch)'
  BY <1>1, <1>3, <1>5, <1>6 DEF ChainInv
<1>8. head[ch] \in Nat /\ head'[ch] >= head[ch] /\ head'[ch] \in Nat
  BY DEF SubType
<1>9. \A i \in Places' : Numbered(At(i), ch)' => i \in Places /\ Numbered(At(i), ch) /\ At(i)' = At(i)
  BY <1>1, <1>2 DEF Of
<1>10. GrowInv(ch)'
  BY <1>4, <1>8, <1>9 DEF GrowInv
<1>11. Silent(ch)' <=> Silent(ch)
  BY <1>1, <1>2 DEF Silent
<1>12. EdgeInv(ch)'
  BY <1>1, <1>3, <1>5, <1>11 DEF EdgeInv
<1> QED
  BY <1>7, <1>9, <1>10, <1>11, <1>12

\* All of the new frames are of ch: they go on where what was on its way, or the application, ended.
LEMMA ToldKeeps ==
    ASSUME SubType, NEW ch \in Channels, ChainInv(ch), GrowInv(ch), EdgeInv(ch), NEW n \in Nat, n > 0, Appends(n),
           NEW start \in Nat, start = Len(toClient) + 1, NEW end \in Nat, end = Len(toClient) + n,
           UNCHANGED <<conn, cursors, view, pending>>, head'[ch] \in Nat, head'[ch] >= head[ch],
           \A i \in NewPlaces(n) : Of(At(i), ch)' /\ (Numbered(At(i), ch)' => At(i)'.seq \in Nat),
           \A i \in NewPlaces(n) : i + 1 \in NewPlaces(n) => Numbered(At(i), ch)' /\ Follows(At(i + 1)', At(i)'.seq),
           Numbered(At(start), ch)' =>
               /\ \A i \in Places : IsLast(i, ch) /\ Numbered(At(i), ch) => Follows(At(start)', At(i).seq)
               /\ Silent(ch) /\ Current(ch) => Follows(At(start)', view[ch]),
           \A i \in NewPlaces(n) : Numbered(At(i), ch)' =>
               /\ cursors[ch] <= At(i)'.seq /\ At(i)'.seq <= head'[ch]
               /\ \A j \in Places : Numbered(At(j), ch) => At(j).seq <= At(i)'.seq
               /\ \A j \in NewPlaces(n) : j < i /\ Numbered(At(j), ch)' => At(j)'.seq <= At(i)'.seq,
           conn = "open" => IF ch \in live' THEN Numbered(At(end), ch)' /\ At(end)'.seq = head'[ch]
                                            ELSE Ending(At(end), ch)'
    PROVE  ChainInv(ch)' /\ GrowInv(ch)' /\ EdgeInv(ch)' /\ ~Silent(ch)'
<1>1. /\ Places' = Places \cup NewPlaces(n) /\ Places \subseteq Nat /\ NewPlaces(n) \subseteq Nat
      /\ \A i \in Places : At(i)' = At(i)
      /\ \A i \in Places, j \in NewPlaces(n) : i < j
  BY AppendPlaces
<1>2. /\ start \in NewPlaces(n) /\ end \in NewPlaces(n)
      /\ \A i \in NewPlaces(n) : i # start => i - 1 \in NewPlaces(n) /\ i = (i - 1) + 1
      /\ \A i \in NewPlaces(n) : start <= i /\ i <= end
  BY SMTT(30) DEF NewPlaces, SubType
<1>3. Current(ch)' <=> Current(ch)
  BY DEF Current, IsPending
<1>4. \A i \in Places : Numbered(At(i), ch) => At(i).seq \in Nat
  BY Numbers
<1> HIDE DEF Places, At, NewPlaces
<1>a. \A i \in Places', j \in Places : i < j => i \in Places
  <2> SUFFICES ASSUME NEW i \in NewPlaces(n), NEW j \in Places, i < j PROVE FALSE
      BY <1>1
  <2>1. j < i /\ i \in Nat /\ j \in Nat
    BY <1>1
  <2> QED
    BY <2>1
<1>5. ~Silent(ch)'
  BY <1>1, <1>2 DEF Silent
<1>6. \A i \in Places' : IsFirst(i, ch)' => IF i \in Places THEN IsFirst(i, ch) ELSE i = start /\ Silent(ch)
  <2>1. \A i \in NewPlaces(n) : IsFirst(i, ch)' => i = start /\ Silent(ch)
    BY <1>1, <1>2 DEF IsFirst, Silent
  <2>2. \A i \in Places : IsFirst(i, ch)' => IsFirst(i, ch)
    BY <1>1 DEF IsFirst
  <2> QED
    BY <1>1, <2>1, <2>2
<1>7. \A i, j \in Places' : Adjacent(i, j, ch)' =>
          \/ i \in Places /\ j \in Places /\ Adjacent(i, j, ch)
          \/ i \in Places /\ IsLast(i, ch) /\ j = start
          \/ i \in NewPlaces(n) /\ i + 1 \in NewPlaces(n) /\ j = i + 1
  <2> SUFFICES ASSUME NEW i \in Places', NEW j \in Places', Adjacent(i, j, ch)'
               PROVE  \/ i \in Places /\ j \in Places /\ Adjacent(i, j, ch)
                      \/ i \in Places /\ IsLast(i, ch) /\ j = start
                      \/ i \in NewPlaces(n) /\ i + 1 \in NewPlaces(n) /\ j = i + 1
      OBVIOUS
  <2>1. /\ i < j /\ Of(At(i), ch)' /\ Of(At(j), ch)'
        /\ \A k \in Places' : i < k /\ k < j => ~Of(At(k), ch)'
    BY DEF Adjacent
  <2>2. CASE j \in Places
    <3>1. i \in Places
      BY <1>a, <2>1, <2>2
    <3> QED
      BY <1>1, <2>1, <2>2, <3>1 DEF Adjacent
  <2>3. CASE j \in NewPlaces(n) /\ i \in Places
    <3>1. j = start
      <4>1. ASSUME j # start PROVE FALSE
        <5>1. j - 1 \in NewPlaces(n) /\ j \in Nat
          BY <1>1, <1>2, <2>3, <4>1
        <5>2. i < j - 1 /\ j - 1 < j /\ j - 1 \in Places'
          BY <1>1, <2>3, <5>1
        <5> QED
          BY <1>1, <2>1, <5>1, <5>2
      <4> QED
        BY <4>1
    <3>2. IsLast(i, ch)
      BY <1>1, <1>2, <2>1, <2>3, <3>1 DEF IsLast
    <3> QED
      BY <2>3, <3>1, <3>2
  <2>4. CASE j \in NewPlaces(n) /\ i \in NewPlaces(n)
    <3>1. j # start
      BY <1>1, <1>2, <2>1, <2>4
    <3>2. j - 1 \in NewPlaces(n) /\ j = (j - 1) + 1
      BY <1>2, <2>4, <3>1
    <3>3. ASSUME i # j - 1 PROVE FALSE
      <4>1. i < j - 1 /\ j - 1 < j /\ j - 1 \in Places'
        BY <1>1, <2>1, <2>4, <3>2, <3>3
      <4> QED
        BY <2>1, <3>2, <4>1
    <3> QED
      BY <2>4, <3>2, <3>3
  <2> QED
    BY <1>1, <2>2, <2>3, <2>4
<1>8. ChainInv(ch)'
  <2>1. ASSUME NEW i \in Places', IsFirst(i, ch)', Numbered(At(i), ch)', Current(ch)' PROVE Follows(At(i), view[ch])'
    <3>1. CASE i \in Places
      BY <1>1, <1>3, <1>6, <2>1, <3>1 DEF ChainInv
    <3>2. CASE i \notin Places
      BY <1>3, <1>6, <2>1, <3>2
    <3> QED
      BY <3>1, <3>2
  <2>2. ASSUME NEW i \in Places', NEW j \in Places', Adjacent(i, j, ch)', Numbered(At(i), ch)', Numbered(At(j), ch)'
        PROVE  Follows(At(j), At(i).seq)'
    <3>1. CASE i \in Places /\ j \in Places /\ Adjacent(i, j, ch)
      BY <1>1, <2>2, <3>1 DEF ChainInv
    <3>2. CASE i \in Places /\ IsLast(i, ch) /\ j = start
      BY <1>1, <2>2, <3>2
    <3>3. CASE i \in NewPlaces(n) /\ i + 1 \in NewPlaces(n) /\ j = i + 1
      BY <3>3
    <3> QED
      BY <1>7, <2>2, <3>1, <3>2, <3>3
  <2> QED
    BY <2>1, <2>2 DEF ChainInv
<1>9. GrowInv(ch)'
  <2>1. head[ch] \in Nat
    BY DEF SubType
  <2>2. ASSUME NEW i \in Places', Numbered(At(i), ch)' PROVE cursors[ch] <= At(i)'.seq /\ At(i)'.seq <= head'[ch]
    <3>1. CASE i \in Places
      <4>1. Numbered(At(i), ch) /\ At(i)' = At(i) /\ At(i).seq \in Nat
        BY <1>1, <1>4, <2>2, <3>1
      <4>2. cursors[ch] <= At(i).seq /\ At(i).seq <= head[ch]
        BY <3>1, <4>1 DEF GrowInv
      <4> QED
        BY <2>1, <4>1, <4>2
    <3>2. CASE i \in NewPlaces(n)
      BY <2>2, <3>2
    <3> QED
      BY <1>1, <3>1, <3>2
  <2>3. ASSUME NEW i \in Places', NEW j \in Places', i < j, Numbered(At(i), ch)', Numbered(At(j), ch)'
        PROVE  At(i)'.seq <= At(j)'.seq
    <3>1. CASE j \in Places
      <4>1. i \in Places
        BY <1>a, <2>3, <3>1
      <4> QED
        BY <1>1, <2>3, <3>1, <4>1 DEF GrowInv
    <3>2. CASE j \in NewPlaces(n)
      BY <1>1, <2>3, <3>2
    <3> QED
      BY <1>1, <3>1, <3>2
  <2> QED
    BY <2>2, <2>3 DEF GrowInv
<1>10. EdgeInv(ch)'
  <2>1. ASSUME NEW i \in Places', IsLast(i, ch)' PROVE i = end
    <3>1. i \in NewPlaces(n)
      BY <1>1, <1>2, <2>1 DEF IsLast
    <3>2. ~(end > i)
      BY <1>1, <1>2, <2>1 DEF IsLast
    <3> QED
      BY <1>1, <1>2, <3>1, <3>2
  <2> QED
    BY <1>2, <1>5, <2>1 DEF EdgeInv
<1> QED
  BY <1>5, <1>8, <1>9, <1>10

\* A sequence of SetToSeqs has every element of the set once.
LEMMA Orders ==
    ASSUME NEW S \in SUBSET Channels, NEW order \in SetToSeqs(S)
    PROVE  /\ order \in Seq(S) /\ Len(order) \in Nat /\ DOMAIN order = 1..Len(order)
           /\ \A i, j \in 1..Len(order) : i # j => order[i] # order[j]
           /\ \A ch \in S : \E i \in 1..Len(order) : order[i] = ch
<1> DEFINE n == Cardinality(S)
<1>1. IsFiniteSet(S) /\ n \in Nat
  BY SubscriptionAssumption, FS_Subset, FS_CardinalityType DEF SubscriptionAssumption
<1>2. order \in [1..n -> S] /\ \A i, j \in 1..n : i # j => order[i] # order[j]
  BY DEF SetToSeqs
<1>3. Cardinality(1..n) = n
  BY <1>1, FS_Interval
<1> HIDE DEF n
<1>4. order \in Injection(1..n, S)
  BY <1>2 DEF Injection, IsInjective
<1>5. order \in Surjection(1..n, S)
  BY <1>1, <1>3, <1>4, FS_Injection DEF n
<1>6. order \in Seq(S) /\ Len(order) = n /\ DOMAIN order = 1..n
  BY <1>1, <1>2
<1>7. \A ch \in S : \E i \in 1..n : order[i] = ch
  BY <1>5 DEF Surjection
<1> QED
  BY <1>1, <1>2, <1>6, <1>7

\* The queue to the server loses its first s frames, and gains frames that ask for nothing of ch which AskInv
\* forbids.  Asked: the frame the server takes is of ch.
Asked(s, ch) == s = 1 /\ toServer[1].ch = ch
LEMMA AskKeeps ==
    ASSUME SubType, ReadInv, NEW ch \in Channels, AskInv(ch), NEW s \in {0, 1}, s <= Len(toServer),
           Len(toServer)' \in Nat, Len(toServer)' >= Len(toServer) - s, head'[ch] \in Nat, head'[ch] >= head[ch],
           \A k \in 1..Len(toServer)' :
               IF k + s <= Len(toServer) THEN toServer'[k] = toServer[k + s]
               ELSE ~Resumes(k, ch)' /\ (Begins(k, ch)' => ~(Current(ch) /\ Silent(ch))'),
           ch \in live' => ch \in live \/ Asked(s, ch),
           (\E i \in Places' : Numbered(At(i), ch)') =>
               (\E i \in Places : Numbered(At(i), ch)) \/ ch \in live \/ Asked(s, ch),
           cursors'[ch] \in {cursors[ch], None} \/ \E i \in Places : Numbered(At(i), ch),
           conn = "open" /\ ch \notin live' /\ Current(ch)' /\ Silent(ch)' =>
               ch \notin live /\ Current(ch) /\ Silent(ch) /\ view'[ch] = view[ch]
    PROVE  AskInv(ch)'
<1>1. Len(toServer) \in Nat /\ head[ch] \in Nat /\ cursors[ch] \in Nat \cup {-1} /\ s \in Nat
  BY DEF SubType, None
<1>2. \A k \in 1..Len(toServer)' : k + s <= Len(toServer) => k + s \in 1..Len(toServer) /\ toServer'[k] = toServer[k + s]
  BY <1>1
<1>3. ASSUME NEW k \in 1..Len(toServer)', Resumes(k, ch)'
      PROVE  /\ \A m \in 1..Len(toServer)' : m < k => toServer'[m].ch # ch
             /\ ch \notin live' /\ \A i \in Places' : ~Numbered(At(i), ch)'
             /\ cursors'[ch] <= toServer'[k].since /\ toServer'[k].since <= head'[ch]
             /\ Current(ch)' /\ Silent(ch)' => view'[ch] = toServer'[k].since
  <2>1. k + s <= Len(toServer)
    BY <1>1, <1>3
  <2>2. k + s \in 1..Len(toServer) /\ toServer'[k] = toServer[k + s] /\ Resumes(k + s, ch)
    BY <1>2, <1>3, <2>1 DEF Resumes
  <2>3. /\ \A m \in 1..Len(toServer) : m < k + s => toServer[m].ch # ch
        /\ ch \notin live /\ \A i \in Places : ~Numbered(At(i), ch)
        /\ cursors[ch] <= toServer[k + s].since /\ toServer[k + s].since <= head[ch]
        /\ Current(ch) /\ Silent(ch) => view[ch] = toServer[k + s].since
    BY <2>2 DEF AskInv
  <2>4. ~Asked(s, ch)
    <3>1. s = 1 => 1 \in 1..Len(toServer) /\ 1 < k + s
      BY <1>1, <2>2
    <3> QED
      BY <2>3, <3>1 DEF Asked
  <2>5. toServer[k + s].since \in Nat
    BY <1>1, <2>2, SMTT(30) DEF SubType, Asks, Resumes, None
  <2>6. ASSUME NEW m \in 1..Len(toServer)', m < k PROVE toServer'[m].ch # ch
    <3>1. m + s <= Len(toServer) /\ m + s < k + s
      BY <1>1, <2>1, <2>6
    <3> QED
      BY <1>2, <2>3, <3>1
  <2>7. cursors'[ch] <= toServer'[k].since
    <3>1. cursors'[ch] \in {cursors[ch], -1}
      BY <2>3 DEF None
    <3> QED
      BY <1>1, <2>2, <2>3, <2>5, <3>1, SMTT(30)
  <2>8. toServer'[k].since <= head'[ch]
    BY <1>1, <2>2, <2>3, <2>5, SMTT(30)
  <2>9. conn = "open"
    BY <1>1, <2>2 DEF ReadInv
  <2>10. ch \notin live' /\ \A i \in Places' : ~Numbered(At(i), ch)'
    BY <2>3, <2>4
  <2> QED
    BY <2>2, <2>3, <2>6, <2>7, <2>8, <2>9, <2>10
<1>4. ASSUME NEW k \in 1..Len(toServer)', Begins(k, ch)', ch \notin live', Current(ch)', Silent(ch)' PROVE FALSE
  <2>1. k + s <= Len(toServer)
    BY <1>1, <1>4
  <2>2. k + s \in 1..Len(toServer) /\ Begins(k + s, ch)
    BY <1>2, <1>4, <2>1 DEF Begins
  <2>3. conn = "open"
    BY <1>1, <2>2 DEF ReadInv
  <2>4. ch \notin live /\ Current(ch) /\ Silent(ch)
    BY <1>4, <2>3
  <2> QED
    BY <2>2, <2>4 DEF AskInv
<1> QED
  BY <1>3, <1>4 DEF AskInv

\* Frames written to the connection go to the end of the queue.
LEMMA AppendAsk ==
    ASSUME SubType, NEW frames \in Seq(Asks), toServer' = toServer \o frames
    PROVE  /\ toServer' \in Seq(Asks) /\ Len(toServer)' = Len(toServer) + Len(frames) /\ Len(frames) \in Nat
           /\ \A k \in 1..Len(toServer)' :
                  IF k <= Len(toServer) THEN toServer'[k] = toServer[k]
                  ELSE k - Len(toServer) \in 1..Len(frames) /\ toServer'[k] = frames[k - Len(toServer)]
<1>1. toServer \in Seq(Asks)
  BY DEF SubType
<1> QED
  BY <1>1, ConcatProperties, LenProperties

\* Frames of the server go to the end of the other.
LEMMA AppendFrames ==
    ASSUME SubType, NEW frames \in Seq(Answers), toClient' = toClient \o frames, UNCHANGED inHand
    PROVE  /\ toClient' \in Seq(Answers) /\ Len(frames) \in Nat /\ Appends(Len(frames))
           /\ \A i \in NewPlaces(Len(frames)) : /\ i - Len(toClient) \in 1..Len(frames) /\ i \in Nat
                                                /\ At(i)' = frames[i - Len(toClient)]
<1>1. toClient \in Seq(Answers) /\ Len(toClient) \in Nat /\ Len(frames) \in Nat
  BY LenProperties DEF SubType
<1>2. /\ toClient' \in Seq(Answers) /\ Len(toClient') = Len(toClient) + Len(frames)
      /\ \A i \in 1..Len(toClient) + Len(frames) : toClient'[i] =
             IF i <= Len(toClient) THEN toClient[i] ELSE frames[i - Len(toClient)]
  BY <1>1, ConcatProperties
<1> QED
  BY <1>1, <1>2 DEF Appends, NewPlaces, At

-----------------------------------------------------------------------------
(* Types are kept.                                                          *)

\* The frames each action writes.
LEMMA FrameTypes ==
    ASSUME SubType
    PROVE  /\ \A ch \in Channels : SubscribeFrame(ch) \in Asks /\ UnsubscribeFrame(ch) \in Asks /\ Fresh(ch) \in Asks
           /\ \A ch \in Channels, n \in Nat : AckFrame(ch, n) \in Answers /\ EventFrame(ch, n) \in Answers
           /\ \A ch \in Channels : ByeFrame(ch) \in Answers
           /\ \A scope \in SUBSET Channels : LostFrame(scope) \in Answers
           /\ ErrorFrame \in Answers
<1>1. \A ch \in Channels : SubscribeFrame(ch) \in Asks /\ UnsubscribeFrame(ch) \in Asks /\ Fresh(ch) \in Asks
  BY DEF SubType, SubscribeFrame, UnsubscribeFrame, Fresh, Asks
<1>2. \A ch \in Channels, n \in Nat : AckFrame(ch, n) \in Answers /\ EventFrame(ch, n) \in Answers
  BY DEF AckFrame, EventFrame, Answers, Acks, Events
<1>3. \A ch \in Channels : ByeFrame(ch) \in Answers
  BY DEF ByeFrame, Answers, Byes
<1>4. \A scope \in SUBSET Channels : LostFrame(scope) \in Answers
  BY DEF LostFrame, Answers, Losses
<1>5. ErrorFrame \in Answers
  BY DEF Answers
<1> QED
  BY <1>1, <1>2, <1>3, <1>4, <1>5

\* What the frame in hand is.
LEMMA InHandTypes ==
    ASSUME SubType
    PROVE  /\ inHand.op \in {"subscribed", "event"} => inHand.ch \in Channels /\ inHand.seq \in Nat
           /\ inHand.op = "unsubscribed" => inHand.ch \in Channels
           /\ inHand.op = "out_of_sync" => inHand.scope \subseteq Channels
           /\ inHand.op \in {"subscribed", "event", "unsubscribed", "out_of_sync", "error"} => inHand # NoFrame
BY DEF SubType, Answers, Acks, Events, Byes, Losses, ErrorFrame, NoFrame

\* The hello of a connection subscribes every channel once, from its cursor.
LEMMA HelloAsks ==
    ASSUME SubType, NEW order \in SetToSeqs(subs), NEW hello, hello = [i \in DOMAIN order |-> SubscribeFrame(order[i])]
    PROVE  /\ hello \in Seq(Asks) /\ Len(hello) = Len(order) /\ Len(order) \in Nat
           /\ \A k \in 1..Len(order) : order[k] \in subs /\ hello[k] = SubscribeFrame(order[k])
           /\ \A k, m \in 1..Len(order) : k # m => order[k] # order[m]
<1>1. subs \in SUBSET Channels
  BY DEF SubType
<1>2. /\ order \in Seq(subs) /\ Len(order) \in Nat /\ DOMAIN order = 1..Len(order)
      /\ \A i, j \in 1..Len(order) : i # j => order[i] # order[j]
  BY <1>1, Orders
<1>3. \A k \in 1..Len(order) : order[k] \in subs /\ SubscribeFrame(order[k]) \in Asks
  BY <1>1, <1>2, FrameTypes
<1>4. hello \in [1..Len(order) -> Asks]
  BY <1>2, <1>3
<1>5. hello \in Seq(Asks) /\ Len(hello) = Len(order)
  BY <1>2, <1>4
<1> QED
  BY <1>2, <1>3, <1>5

\* The frames resync writes.
LEMMA FreshAsks ==
    ASSUME SubType, NEW S \in SUBSET Channels, NEW order \in SetToSeqs(S), NEW frames,
           frames = [i \in DOMAIN order |-> Fresh(order[i])]
    PROVE  /\ frames \in Seq(Asks) /\ Len(frames) = Len(order) /\ Len(order) \in Nat /\ order \in Seq(S)
           /\ \A k \in 1..Len(order) : order[k] \in S /\ frames[k] = Fresh(order[k])
<1>1. order \in Seq(S) /\ Len(order) \in Nat /\ DOMAIN order = 1..Len(order)
  BY Orders
<1>2. \A k \in 1..Len(order) : order[k] \in S /\ Fresh(order[k]) \in Asks
  BY <1>1, FrameTypes
<1>3. frames \in [1..Len(order) -> Asks]
  BY <1>1, <1>2
<1>4. frames \in Seq(Asks) /\ Len(frames) = Len(order)
  BY <1>1, <1>3
<1> QED
  BY <1>1, <1>2, <1>4

\* A write leaves the wires as they are, or sends, or breaks the connection.
LEMMA WriteTypes ==
    ASSUME SubType, NEW frames \in Seq(Asks), Write(frames)
    PROVE  /\ toServer' \in Seq(Asks) /\ toClient' \in Seq(Answers) /\ conn' \in {"nil", "open", "broken"}
           /\ live' \subseteq Channels /\ drops' \in 0..MaxDrops
<1>1. toServer \in Seq(Asks) /\ toServer \o frames \in Seq(Asks) /\ <<>> \in Seq(Asks) /\ <<>> \in Seq(Answers)
  BY DEF SubType
<1>2. drops < MaxDrops => drops + 1 \in 0..MaxDrops
  BY SubscriptionAssumption DEF SubType, SubscriptionAssumption
<1> QED
  BY <1>1, <1>2 DEF SubType, Write, Breaks, LoseWires, wireVars

\* The answer to a subscribe that is kept.
Joined(ch, from) == Append([i \in 1..(head[ch] - from) |-> EventFrame(ch, from + i)], AckFrame(ch, head[ch]))
LEMMA Replay ==
    ASSUME SubType, NEW ch \in Channels, NEW from \in Nat, from <= head[ch], NEW frames,
           frames = Joined(ch, from)
    PROVE  /\ frames \in Seq(Answers) /\ Len(frames) = head[ch] - from + 1
           /\ \A i \in 1..Len(frames) :
                  frames[i] = IF i <= head[ch] - from THEN EventFrame(ch, from + i) ELSE AckFrame(ch, head[ch])
<1> DEFINE n == head[ch] - from
           events == [i \in 1..n |-> EventFrame(ch, from + i)]
<1>1. n \in Nat /\ head[ch] \in Nat
  BY DEF SubType
<1>2. \A i \in 1..n : from + i \in Nat
  BY <1>1
<1>3. \A i \in 1..n : EventFrame(ch, from + i) \in Answers
  BY <1>2, FrameTypes
<1>4. AckFrame(ch, head[ch]) \in Answers
  BY <1>1, FrameTypes
<1>5. frames = Append(events, AckFrame(ch, head[ch])) /\ \A i \in 1..n : events[i] = EventFrame(ch, from + i)
  BY DEF Joined
<1>6. events \in [1..n -> Answers]
  BY <1>3
<1> HIDE DEF events, n
<1>7. events \in Seq(Answers) /\ Len(events) = n
  BY <1>1, <1>6
<1>8. ASSUME NEW e \in Answers, NEW s \in Seq(Answers), Len(s) = n
      PROVE  /\ Append(s, e) \in Seq(Answers) /\ Len(Append(s, e)) = n + 1
             /\ \A i \in 1..(n + 1) : Append(s, e)[i] = IF i <= n THEN s[i] ELSE e
  BY <1>1, <1>8, AppendProperties
<1>9. /\ frames \in Seq(Answers) /\ Len(frames) = n + 1
      /\ \A i \in 1..(n + 1) : frames[i] = IF i <= n THEN events[i] ELSE AckFrame(ch, head[ch])
  <2>1. PICK e \in Answers : e = AckFrame(ch, head[ch])
    BY <1>4
  <2>2. frames = Append(events, e)
    BY <1>5, <2>1
  <2>3. /\ Append(events, e) \in Seq(Answers) /\ Len(Append(events, e)) = n + 1
        /\ \A i \in 1..(n + 1) : Append(events, e)[i] = IF i <= n THEN events[i] ELSE e
    BY <1>7, <1>8
  <2>4. frames \in Seq(Answers) /\ Len(frames) = n + 1
    BY <2>2, <2>3
  <2>5. \A i \in 1..(n + 1) : frames[i] = IF i <= n THEN events[i] ELSE e
    BY <2>2, <2>3
  <2> QED
    BY <2>1, <2>4, <2>5
<1> QED
  BY <1>1, <1>5, <1>9 DEF n

LEMMA TypeKept ==
    ASSUME SubType, \A ch \in Channels : AskInv(ch), [Next]_vars
    PROVE  SubType'
<1> USE SubscriptionAssumption DEF SubscriptionAssumption
<1>1. CASE ReadFrame
  <2>1. Head(toClient) \in Answers /\ Tail(toClient) \in Seq(Answers)
    BY <1>1 DEF SubType, ReadFrame
  <2> QED
    BY <1>1, <2>1 DEF SubType, ReadFrame, serverVars, clientVars, countVars
<1>2. CASE ReadFails
  BY <1>2 DEF SubType, ReadFails, clientVars, countVars
<1>3. CASE CtxDone \/ Close \/ Drop
  <2>1. toServer' = <<>> /\ toClient' = <<>> /\ live' = {} /\ conn' \in {"nil", "broken"}
    BY <1>3 DEF CtxDone, Close, Drop, Breaks, LoseWires
  <2>2. drops' \in 0..MaxDrops /\ calls' \in 0..MaxCalls
    BY <1>3 DEF SubType, CtxDone, Close, Drop, Breaks
  <2>3. UNCHANGED <<head, oldest, subs, cursors, inHand, pending, view>> /\ closed' \in BOOLEAN
    BY <1>3 DEF SubType, CtxDone, Close, Drop, clientVars, readVars
  <2> QED
    BY <2>1, <2>2, <2>3 DEF SubType
<1>4. CASE Reconnect
  <2>1. PICK order \in SetToSeqs(subs) : toServer' = [i \in DOMAIN order |-> SubscribeFrame(order[i])]
    BY <1>4 DEF Reconnect, Hellos
  <2>2. toServer' \in Seq(Asks)
    BY <2>1, HelloAsks
  <2> QED
    BY <1>4, <2>2 DEF SubType, Reconnect, serverVars, clientVars, countVars
<1>5. CASE PopPending
  <2>1. Head(pending) \in Channels /\ Tail(pending) \in Seq(Channels)
    BY <1>5 DEF SubType, PopPending
  <2>2. view' \in [Channels -> Nat \cup {None}]
    BY <1>5, <2>1 DEF SubType, PopPending, Reread
  <2> QED
    BY <1>5, <2>1, <2>2 DEF SubType, PopPending, serverVars, wireVars, clientVars, countVars
<1>6. CASE DecodeSubscribed \/ DecodeEvent
  <2>1. inHand.ch \in Channels /\ inHand.seq \in Nat
    BY <1>6, InHandTypes DEF DecodeSubscribed, DecodeEvent
  <2>2. cursors' \in [Channels -> Nat \cup {None}]
    BY <1>6, <2>1 DEF SubType, DecodeSubscribed, DecodeEvent, Advance
  <2>3. view' \in [Channels -> Nat \cup {None}]
    BY <1>6, <2>1 DEF SubType, DecodeSubscribed, DecodeEvent
  <2>4. inHand' = NoFrame /\ UNCHANGED <<serverVars, wireVars, closed, subs, pending, countVars>>
    BY <1>6 DEF DecodeSubscribed, DecodeEvent
  <2> QED
    BY <2>2, <2>3, <2>4 DEF SubType, serverVars, wireVars, countVars
<1>7. CASE DecodeUnsubscribed \/ DecodeError
  <2>1. view' \in [Channels -> Nat \cup {None}]
    BY <1>7, InHandTypes DEF SubType, DecodeUnsubscribed, DecodeError, None
  <2> QED
    BY <1>7, <2>1 DEF SubType, DecodeUnsubscribed, DecodeError, serverVars, wireVars, clientVars, countVars
<1>8. CASE DecodeOutOfSync
  <2>1. Hit(inHand) \in SUBSET Channels
    BY DEF SubType, Hit
  <2>2. PICK order \in SetToSeqs(Hit(inHand)) :
            /\ Write([i \in DOMAIN order |-> Fresh(order[i])])
            /\ \/ Hit(inHand) = {} /\ UNCHANGED <<pending, view>>
               \/ /\ Hit(inHand) # {}
                  /\ pending' = Tail(order)
                  /\ view' = [view EXCEPT ![Head(order)] = Reread(Head(order))]
    BY <1>8 DEF DecodeOutOfSync
  <2> DEFINE frames == [i \in DOMAIN order |-> Fresh(order[i])]
  <2>3. frames \in Seq(Asks) /\ order \in Seq(Hit(inHand)) /\ Write(frames)
    BY <2>1, <2>2, FreshAsks
  <2> HIDE DEF frames
  <2>4. /\ toServer' \in Seq(Asks) /\ toClient' \in Seq(Answers) /\ conn' \in {"nil", "open", "broken"}
        /\ live' \subseteq Channels /\ drops' \in 0..MaxDrops
    BY <2>3, WriteTypes
  <2>5. pending' \in Seq(Channels) /\ view' \in [Channels -> Nat \cup {None}]
    <3>1. CASE Hit(inHand) = {}
      BY <2>2, <3>1 DEF SubType
    <3>2. CASE Hit(inHand) # {}
      <4>1. order # <<>>
        BY <2>1, <3>2, Orders
      <4>2. order \in Seq(Channels)
        BY <2>1, <2>3
      <4>3. Head(order) \in Channels /\ Tail(order) \in Seq(Channels)
        BY <4>1, <4>2
      <4> QED
        BY <2>2, <3>2, <4>3 DEF SubType, Reread
    <3> QED
      BY <3>1, <3>2
  <2>6. cursors' \in [Channels -> Nat \cup {None}]
    BY <1>8 DEF SubType, DecodeOutOfSync
  <2>7. inHand' = NoFrame /\ UNCHANGED <<head, oldest, closed, subs, calls>>
    BY <1>8 DEF DecodeOutOfSync
  <2> QED
    BY <2>4, <2>5, <2>6, <2>7 DEF SubType
<1>9. ASSUME NEW ch \in Channels, Subscribe(ch) \/ Unsubscribe(ch) PROVE SubType'
  <2>1. PICK frame \in Asks : Write(<<frame>>)
    BY <1>9, FrameTypes DEF Subscribe, Unsubscribe
  <2>2. /\ toServer' \in Seq(Asks) /\ toClient' \in Seq(Answers) /\ conn' \in {"nil", "open", "broken"}
        /\ live' \subseteq Channels /\ drops' \in 0..MaxDrops
    <3>1. <<frame>> \in Seq(Asks)
      OBVIOUS
    <3> QED
      BY <2>1, <3>1, WriteTypes
  <2>3. calls' \in 0..MaxCalls /\ subs' \subseteq Channels /\ UNCHANGED <<head, oldest, closed, inHand, pending>>
    BY <1>9, SMTT(30) DEF SubType, Subscribe, Unsubscribe, readVars
  <2>4. cursors' \in [Channels -> Nat \cup {None}] /\ view' \in [Channels -> Nat \cup {None}]
    BY <1>9 DEF SubType, Subscribe, Unsubscribe
  <2> QED
    BY <2>2, <2>3, <2>4 DEF SubType
<1>10. ASSUME NEW ch \in Channels, Publish(ch) PROVE SubType'
  <2>1. head[ch] + 1 \in Nat /\ head[ch] + 1 <= MaxSeq /\ head' = [head EXCEPT ![ch] = head[ch] + 1]
    BY <1>10, SMTT(30) DEF SubType, Publish
  <2>2. /\ head' \in [Channels -> Nat] /\ UNCHANGED oldest
        /\ \A d \in Channels : head'[d] <= MaxSeq /\ 1 <= oldest[d] /\ oldest[d] <= head'[d] + 1
    BY <1>10, <2>1, SMTT(30) DEF SubType, Publish
  <2>3. EventFrame(ch, head'[ch]) \in Answers
    BY <2>2, FrameTypes
  <2>4. toClient' \in Seq(Answers)
    BY <1>10, <2>3 DEF SubType, Publish
  <2> QED
    BY <1>10, <2>2, <2>4 DEF SubType, Publish, clientVars, readVars, countVars
<1>11. ASSUME NEW ch \in Channels, Trim(ch) PROVE SubType'
  BY <1>11, SMTT(30) DEF SubType, Trim, wireVars, clientVars, readVars, countVars
<1>12. CASE ServerSubscribes
  <2>1. /\ Head(toServer) = toServer[1] /\ 1 \in 1..Len(toServer) /\ Tail(toServer) \in Seq(Asks)
        /\ toServer[1] \in Asks /\ toServer[1].op = "subscribe"
    <3>1. toServer \in Seq(Asks) /\ toServer # <<>> /\ Head(toServer).op = "subscribe"
      BY <1>12 DEF SubType, ServerSubscribes
    <3> QED
      BY <3>1
  <2>2. PICK ch \in Channels, from \in Nat :
            /\ from <= head[ch]
            /\ \/ toClient' = toClient \o Joined(ch, from) /\ live' = live \cup {ch}
               \/ toClient' = Append(toClient, LostFrame({ch})) /\ live' = live \ {ch}
               \/ toClient' = Append(toClient, ErrorFrame) /\ UNCHANGED live
    <3> DEFINE ch == Head(toServer).ch
               since == Head(toServer).since
               from == IF since = None THEN head[ch] ELSE since
    <3>1. ch \in Channels /\ since \in Nat \cup {None} /\ head[ch] \in Nat
      BY <2>1 DEF SubType, Asks
    <3>2. from \in Nat /\ from <= head[ch]
      <4>1. since # None => Resumes(1, ch)
        BY <2>1 DEF Resumes
      <4> QED
        BY <2>1, <3>1, <4>1 DEF AskInv
    <3> QED
      BY <1>12, <2>1, <3>1, <3>2 DEF ServerSubscribes, Joined
  <2> DEFINE frames == Joined(ch, from)
  <2>3. frames \in Seq(Answers)
    BY <2>2, Replay
  <2>4. LostFrame({ch}) \in Answers /\ ErrorFrame \in Answers
    BY FrameTypes
  <2> HIDE DEF frames
  <2>5. toClient' \in Seq(Answers) /\ live' \subseteq Channels
    <3>1. CASE toClient' = toClient \o frames /\ live' = live \cup {ch}
      BY <2>3, <3>1 DEF SubType
    <3>2. CASE toClient' = Append(toClient, LostFrame({ch})) /\ live' = live \ {ch}
      BY <2>4, <3>2 DEF SubType
    <3>3. CASE toClient' = Append(toClient, ErrorFrame) /\ UNCHANGED live
      BY <2>4, <3>3 DEF SubType
    <3> QED
      BY <2>2, <3>1, <3>2, <3>3 DEF frames
  <2>6. toServer' = Tail(toServer) /\ UNCHANGED <<head, oldest, conn, clientVars, readVars, view, countVars>>
    BY <1>12 DEF ServerSubscribes
  <2> QED
    BY <2>1, <2>5, <2>6 DEF SubType, clientVars, readVars, countVars
<1>13. CASE ServerUnsubscribes
  <2>1. Head(toServer).ch \in Channels /\ Tail(toServer) \in Seq(Asks)
    <3>1. toServer \in Seq(Asks) /\ toServer # <<>>
      BY <1>13 DEF SubType, ServerUnsubscribes
    <3>2. Head(toServer) \in Asks /\ Tail(toServer) \in Seq(Asks)
      BY <3>1
    <3> QED
      BY <3>2 DEF Asks
  <2>2. PICK f \in Answers : toClient' = Append(toClient, f)
    BY <1>13, <2>1, FrameTypes DEF ServerUnsubscribes
  <2>3. toClient' \in Seq(Answers)
    BY <2>2 DEF SubType
  <2>4. live' \subseteq Channels /\ toServer' = Tail(toServer)
    BY <1>13 DEF SubType, ServerUnsubscribes
  <2>5. UNCHANGED <<head, oldest, conn, closed, subs, cursors, inHand, pending, view, drops, calls>>
    BY <1>13 DEF ServerUnsubscribes, clientVars, readVars, countVars
  <2> QED
    BY <2>1, <2>3, <2>4, <2>5 DEF SubType
<1>14. ASSUME NEW name, FallBehind(name) PROVE SubType'
  <2> DEFINE scope == {ch \in Channels : NameOf[ch] = name}
  <2>1. LostFrame(scope) \in Answers
    BY FrameTypes
  <2>2. toClient' = Append(toClient, LostFrame(scope)) /\ live' = live \ scope
    BY <1>14 DEF FallBehind
  <2>3. drops' \in 0..MaxDrops /\ UNCHANGED <<head, oldest, toServer, conn, clientVars, readVars, view, calls>>
    BY <1>14 DEF FallBehind, SubType
  <2> HIDE DEF scope
  <2> QED
    BY <2>1, <2>2, <2>3 DEF SubType, clientVars, readVars
<1>15. CASE UNCHANGED vars
  BY <1>15 DEF SubType, vars, serverVars, wireVars, clientVars, readVars, countVars
<1> QED
  BY <1>1, <1>2, <1>3, <1>4, <1>5, <1>6, <1>7, <1>8, <1>9, <1>10, <1>11, <1>12, <1>13, <1>14, <1>15
     DEF Next, Reader, Decode, Server

-----------------------------------------------------------------------------
(* The invariant is kept by the reader, channel by channel.                 *)

LEMMA StartInv == ASSUME Init PROVE SubType /\ SubInv
<1> USE SubscriptionAssumption DEF SubscriptionAssumption
<1>1. PICK order \in SetToSeqs(subs) : toServer = [i \in DOMAIN order |-> SubscribeFrame(order[i])]
  BY DEF Init, Hellos
<1>2. /\ toServer \in Seq(Asks)
      /\ \A k \in 1..Len(toServer) : toServer[k].op = "subscribe" => toServer[k].since = None
  <2>1. subs \in SUBSET Channels
    BY DEF Init
  <2>2. order \in Seq(subs) /\ Len(order) \in Nat /\ DOMAIN order = 1..Len(order)
    BY <2>1, Orders
  <2>3. \A k \in 1..Len(order) : SubscribeFrame(order[k]) \in Asks /\ SubscribeFrame(order[k]).since = None
    BY <2>1, <2>2 DEF Init, SubscribeFrame, Asks
  <2>4. toServer \in [1..Len(order) -> Asks]
    BY <1>1, <2>2, <2>3
  <2>5. toServer \in Seq(Asks) /\ Len(toServer) = Len(order)
    BY <2>2, <2>4
  <2> QED
    BY <1>1, <2>2, <2>3, <2>5
<1>3. SubType
  <2>1. 0 \in 0..MaxDrops /\ 0 \in 0..MaxCalls /\ 0 <= MaxSeq
    OBVIOUS
  <2>2. /\ head \in [Channels -> Nat] /\ oldest \in [Channels -> Nat]
        /\ \A ch \in Channels : head[ch] <= MaxSeq /\ 1 <= oldest[ch] /\ oldest[ch] <= head[ch] + 1
    BY <2>1 DEF Init
  <2>3. cursors \in [Channels -> Nat \cup {None}] /\ view \in [Channels -> Nat \cup {None}] /\ subs \subseteq Channels
    BY DEF Init
  <2>4. toClient \in Seq(Answers) /\ pending \in Seq(Channels) /\ inHand = NoFrame /\ live \subseteq Channels
    BY DEF Init
  <2> QED
    BY <1>2, <2>1, <2>2, <2>3, <2>4 DEF Init, SubType
<1>4. ASSUME NEW ch \in Channels PROVE ChannelInv(ch)
  <2>1. Places = {0} /\ ~Of(At(0), ch) /\ ~Current(ch) /\ ~IsPending(ch) /\ ch \notin live
    BY DEF Init, Places, At, Of, Numbered, Ending, NoFrame, Current, IsPending
  <2>2. \A i : ~IsFirst(i, ch) /\ ~IsLast(i, ch)
    BY <2>1 DEF IsFirst, IsLast
  <2>3. \A i, j : ~Adjacent(i, j, ch)
    BY <2>1 DEF Adjacent
  <2>4. ChainInv(ch) /\ EdgeInv(ch)
    BY <2>1, <2>2, <2>3 DEF ChainInv, EdgeInv
  <2>5. GrowInv(ch)
    BY <2>1 DEF GrowInv, Of
  <2>6. HeldInv(ch)
    BY <2>1 DEF HeldInv, Init, None
  <2>7. \A k \in 1..Len(toServer) : ~Resumes(k, ch)
    BY <1>2 DEF Resumes
  <2>8. AskInv(ch)
    BY <2>1, <2>7 DEF AskInv
  <2> QED
    BY <2>4, <2>5, <2>6, <2>8 DEF ChannelInv
<1>5. ReadInv
  BY DEF Init, ReadInv
<1> QED
  BY <1>3, <1>4, <1>5 DEF SubInv

\* The queue to the server stays as it is.
LEMMA AskStays ==
    ASSUME SubType, ReadInv, NEW ch \in Channels, AskInv(ch), UNCHANGED <<toServer, head>>,
           ch \in live' => ch \in live,
           (\E i \in Places' : Numbered(At(i), ch)') => \E i \in Places : Numbered(At(i), ch),
           cursors'[ch] \in {cursors[ch], None} \/ \E i \in Places : Numbered(At(i), ch),
           conn = "open" /\ ch \notin live' /\ Current(ch)' /\ Silent(ch)' =>
               ch \notin live /\ Current(ch) /\ Silent(ch) /\ view'[ch] = view[ch]
    PROVE  AskInv(ch)'
<1>1. Len(toServer) \in Nat /\ head[ch] \in Nat
  BY DEF SubType
<1>2. \A k \in 1..Len(toServer)' : k + 0 <= Len(toServer) /\ toServer'[k] = toServer[k + 0]
  BY <1>1
<1>3. 0 \in {0, 1} /\ 0 <= Len(toServer) /\ Len(toServer)' \in Nat /\ Len(toServer)' >= Len(toServer) - 0
      /\ head'[ch] \in Nat /\ head'[ch] >= head[ch]
  BY <1>1
<1> QED
  BY <1>2, <1>3, AskKeeps

LEMMA ReadFrameKeeps ==
    ASSUME SubType, SubInv, ReadFrame, NEW ch \in Channels PROVE ChannelInv(ch)'
<1>1. ReadInv /\ HeldInv(ch) /\ ChainInv(ch) /\ GrowInv(ch) /\ EdgeInv(ch) /\ AskInv(ch)
  BY DEF SubInv, ChannelInv
<1>2. /\ inHand = NoFrame /\ toClient # <<>> /\ inHand' = Head(toClient) /\ toClient' = Tail(toClient)
      /\ UNCHANGED <<live, conn, head, cursors, view, pending, toServer, subs>>
  BY DEF ReadFrame, Idle, serverVars, clientVars
<1>3. /\ ChainInv(ch)' /\ GrowInv(ch)' /\ EdgeInv(ch)' /\ (Silent(ch)' <=> Silent(ch))
      /\ \A i \in Places' : Numbered(At(i), ch)' => \E j \in Places : Numbered(At(j), ch)
  BY <1>1, <1>2, ReadKeeps
<1>4. (Current(ch)' <=> Current(ch)) /\ (IsPending(ch)' <=> IsPending(ch))
  BY <1>2 DEF Current, IsPending
<1>5. HeldInv(ch)'
  BY <1>1, <1>2, <1>4 DEF HeldInv
<1>6. AskInv(ch)'
  BY <1>1, <1>2, <1>3, <1>4, AskStays
<1> QED
  BY <1>3, <1>5, <1>6 DEF ChannelInv

\* The connection ends, or was gone already.
LEMMA EndKeeps ==
    ASSUME SubType, SubInv, ReadFails \/ CtxDone \/ Close \/ Drop, NEW ch \in Channels PROVE ChannelInv(ch)'
<1>1. ReadInv /\ HeldInv(ch) /\ ChainInv(ch) /\ GrowInv(ch) /\ EdgeInv(ch) /\ AskInv(ch)
  BY DEF SubInv, ChannelInv
<1>2. /\ toClient' = <<>> /\ toServer' = <<>> /\ conn' # "open"
      /\ UNCHANGED <<head, inHand, cursors, view, pending, subs>>
  <2>1. CASE ReadFails
    BY <1>1, <2>1 DEF ReadFails, ReadInv, clientVars
  <2>2. CASE CtxDone \/ Close \/ Drop
    BY <2>2 DEF CtxDone, Close, Drop, Breaks, LoseWires, clientVars, readVars
  <2> QED
    BY <2>1, <2>2
<1>3. (Current(ch)' <=> Current(ch)) /\ (IsPending(ch)' <=> IsPending(ch))
  BY <1>2 DEF Current, IsPending
<1>4. HeldInv(ch)'
  BY <1>1, <1>2, <1>3 DEF HeldInv
<1> QED
  BY <1>1, <1>2, <1>3, <1>4, BrokenKeeps

LEMMA ReconnectKeeps ==
    ASSUME SubType, SubInv, Reconnect, NEW ch \in Channels PROVE ChannelInv(ch)'
<1>1. ReadInv /\ HeldInv(ch) /\ ChainInv(ch) /\ GrowInv(ch) /\ EdgeInv(ch) /\ AskInv(ch)
  BY DEF SubInv, ChannelInv
<1>2. /\ inHand = NoFrame /\ toClient' = <<>> /\ live = {} /\ pending = <<>>
      /\ UNCHANGED <<live, head, cursors, view, pending, subs, inHand>>
  BY <1>1 DEF Reconnect, Idle, ReadInv, serverVars, clientVars
<1>3. (Current(ch)' <=> Current(ch)) /\ (IsPending(ch)' <=> IsPending(ch))
  BY <1>2 DEF Current, IsPending
<1>4. HeldInv(ch)'
  BY <1>1, <1>2, <1>3 DEF HeldInv
<1>5. Places' = {0} /\ ~Of(At(0), ch)'
  BY <1>2 DEF Places, At, Of, Numbered, Ending, NoFrame
<1>6. \A i : ~IsFirst(i, ch)' /\ ~IsLast(i, ch)'
  BY <1>5 DEF IsFirst, IsLast
<1>7. \A i, j : ~Adjacent(i, j, ch)'
  BY <1>5 DEF Adjacent
<1>8. ChainInv(ch)' /\ EdgeInv(ch)'
  BY <1>2, <1>5, <1>6, <1>7 DEF ChainInv, EdgeInv
<1>9. GrowInv(ch)'
  BY <1>5 DEF GrowInv, Of
<1>10. AskInv(ch)'
  <2>1. PICK order \in SetToSeqs(subs) : toServer' = [i \in DOMAIN order |-> SubscribeFrame(order[i])]
    BY DEF Reconnect, Hellos
  <2>2. /\ Len(toServer)' = Len(order) /\ Len(order) \in Nat
        /\ \A k \in 1..Len(order) : toServer'[k] = SubscribeFrame(order[k])
        /\ \A k, m \in 1..Len(order) : k # m => order[k] # order[m]
    BY <2>1, HelloAsks
  <2>3. \A k \in 1..Len(order) : /\ toServer'[k].ch = order[k]
                                 /\ toServer'[k].since = cursors[order[k]]
    <3>1. \A d : SubscribeFrame(d).ch = d /\ SubscribeFrame(d).since = cursors[d]
      BY DEF SubscribeFrame
    <3> QED
      BY <2>2, <3>1
  <2>4. ASSUME NEW k \in 1..Len(toServer)', Resumes(k, ch)'
        PROVE  /\ \A m \in 1..Len(toServer)' : m < k => toServer'[m].ch # ch
               /\ cursors'[ch] = toServer'[k].since /\ cursors[ch] # None
    <3>1. order[k] = ch /\ k \in 1..Len(order)
      BY <2>2, <2>3, <2>4 DEF Resumes
    <3>2. \A m \in 1..Len(toServer)' : m < k => order[m] # ch
      BY <2>2, <3>1
    <3> QED
      BY <1>2, <2>2, <2>3, <2>4, <3>1, <3>2 DEF Resumes
  <2>5. \A i \in Places' : ~Numbered(At(i), ch)'
    BY <1>5 DEF Of
  <2>6. cursors[ch] # None => cursors[ch] <= cursors[ch]
    BY DEF SubType
  <2>7. ASSUME NEW k \in 1..Len(toServer)', Begins(k, ch)' PROVE ~Current(ch)'
    <3>1. cursors[ch] = None
      BY <2>2, <2>3, <2>7 DEF Begins
    <3> QED
      BY <1>1, <1>2, <1>3, <3>1 DEF HeldInv, Current
  <2>8. Current(ch)' => view'[ch] = cursors'[ch]
    BY <1>1, <1>2, <1>3 DEF HeldInv
  <2>9. cursors[ch] <= head[ch]
    BY <1>1 DEF HeldInv
  <2>10. ASSUME NEW k \in 1..Len(toServer)', Resumes(k, ch)'
         PROVE  /\ \A m \in 1..Len(toServer)' : m < k => toServer'[m].ch # ch
                /\ ch \notin live' /\ \A i \in Places' : ~Numbered(At(i), ch)'
                /\ cursors'[ch] <= toServer'[k].since /\ toServer'[k].since <= head'[ch]
                /\ Current(ch)' /\ Silent(ch)' => view'[ch] = toServer'[k].since
    BY <1>2, <2>4, <2>5, <2>6, <2>8, <2>9, <2>10
  <2> QED
    BY <2>7, <2>10 DEF AskInv
<1> QED
  BY <1>4, <1>8, <1>9, <1>10 DEF ChannelInv

LEMMA PopPendingKeeps ==
    ASSUME SubType, SubInv, PopPending, ~RereadAtOnce, NEW ch \in Channels PROVE ChannelInv(ch)'
<1>1. ReadInv /\ HeldInv(ch) /\ ChainInv(ch) /\ GrowInv(ch) /\ EdgeInv(ch) /\ AskInv(ch)
  BY DEF SubInv, ChannelInv
<1>2. /\ pending # <<>> /\ pending' = Tail(pending) /\ view' = [view EXCEPT ![Head(pending)] = None]
      /\ UNCHANGED <<toServer, toClient, live, conn, head, cursors, subs, inHand>>
  BY DEF PopPending, Reread, serverVars, wireVars, clientVars
<1>3. /\ Len(pending)' = Len(pending) - 1 /\ Len(pending) \in Nat /\ Head(pending) = pending[1]
      /\ \A k \in 1..Len(pending)' : k + 1 \in 1..Len(pending) /\ pending'[k] = pending[k + 1]
  BY <1>2, SMTT(30) DEF SubType
<1>4. IsPending(ch)' => IsPending(ch)
  BY <1>3 DEF IsPending
<1>5. IsPending(ch) => IsPending(ch)' \/ ch = Head(pending)
  <2> SUFFICES ASSUME NEW k \in 1..Len(pending), pending[k] = ch, ch # Head(pending) PROVE IsPending(ch)'
      BY DEF IsPending
  <2>1. k - 1 \in 1..Len(pending)' /\ k = (k - 1) + 1
    BY <1>3
  <2> QED
    BY <1>3, <2>1 DEF IsPending
<1>6. view'[ch] = IF ch = Head(pending) THEN None ELSE view[ch]
  BY <1>2 DEF SubType
<1>7. Current(ch)' => Current(ch) /\ view'[ch] = view[ch]
  BY <1>5, <1>6 DEF Current
<1>8. HeldInv(ch)'
  <2>1. view'[ch] <= head'[ch]
    BY <1>1, <1>2, <1>6 DEF HeldInv, None, SubType
  <2> QED
    BY <1>1, <1>2, <1>4, <1>6, <1>7, <2>1 DEF HeldInv
<1>9. ChainInv(ch)' /\ GrowInv(ch)' /\ EdgeInv(ch)' /\ (Silent(ch)' <=> Silent(ch))
  BY <1>1, <1>2, <1>7, SameKeeps
<1>10. \A i : At(i)' = At(i)
  BY <1>2 DEF At
<1>11. Places' = Places
  BY <1>2 DEF Places
<1>12. AskInv(ch)'
  BY <1>1, <1>2, <1>7, <1>9, <1>10, <1>11, AskStays
<1> QED
  BY <1>8, <1>9, <1>12 DEF ChannelInv

\* What a frame with a seq says to the client.
LEMMA SeqInHand ==
    ASSUME SubType, SubInv, NEW ch \in Channels, Numbered(inHand, ch)
    PROVE  /\ pending = <<>> /\ ~IsPending(ch) /\ inHand.seq \in Nat
           /\ cursors[ch] <= inHand.seq /\ inHand.seq <= head[ch]
           /\ view[ch] # None => Current(ch) /\ ch \in subs /\ cursors[ch] = view[ch] /\ Follows(inHand, view[ch])
<1>1. ReadInv /\ HeldInv(ch) /\ ChainInv(ch) /\ GrowInv(ch)
  BY DEF SubInv, ChannelInv
<1>2. inHand # NoFrame
  BY DEF Numbered, NoFrame
<1>3. pending = <<>> /\ ~IsPending(ch)
  BY <1>1, <1>2 DEF ReadInv, IsPending
<1>4. 0 \in Places /\ At(0) = inHand /\ \A k \in Places : ~(k < 0)
  BY Numbers DEF Places, At
<1>5. inHand.seq \in Nat
  BY <1>4, Numbers
<1>6. cursors[ch] <= inHand.seq /\ inHand.seq <= head[ch]
  BY <1>1, <1>4 DEF GrowInv
<1>7. ASSUME view[ch] # None PROVE Current(ch) /\ ch \in subs /\ cursors[ch] = view[ch] /\ Follows(inHand, view[ch])
  <2>1. Current(ch) /\ ch \in subs /\ cursors[ch] = view[ch]
    BY <1>1, <1>3, <1>7 DEF Current, HeldInv
  <2>2. IsFirst(0, ch)
    BY <1>4 DEF IsFirst, Of
  <2> QED
    BY <1>1, <1>4, <2>1, <2>2 DEF ChainInv
<1> QED
  BY <1>3, <1>5, <1>6, <1>7

\* A frame with a seq is decoded: the cursor and the application end at that seq, or both stay without.
LEMMA SeqDecoded ==
    ASSUME SubType, SubInv, DecodeSubscribed \/ DecodeEvent, NEW ch \in Channels
    PROVE  /\ inHand' = NoFrame /\ UNCHANGED <<toServer, toClient, live, conn, head, subs, pending>>
           /\ ~Numbered(inHand, ch) => cursors'[ch] = cursors[ch] /\ view'[ch] = view[ch]
           /\ Numbered(inHand, ch) =>
                  /\ cursors'[ch] = IF ch \in subs THEN inHand.seq ELSE cursors[ch]
                  /\ view'[ch] \in {None, inHand.seq}
                  /\ ch \notin subs => view'[ch] = None
<1>1. inHand' = NoFrame /\ UNCHANGED <<toServer, toClient, live, conn, head, subs, pending>>
  BY DEF DecodeSubscribed, DecodeEvent, serverVars, wireVars
<1>2. inHand.ch \in Channels /\ inHand.seq \in Nat
  BY InHandTypes DEF DecodeSubscribed, DecodeEvent
<1>3. Numbered(inHand, ch) <=> ch = inHand.ch
  BY DEF Numbered, DecodeSubscribed, DecodeEvent
<1>4. cursors[ch] \in Nat \cup {-1} /\ view[ch] \in Nat \cup {-1}
  BY DEF SubType, None
<1>5. CASE ~Numbered(inHand, ch)
  BY <1>1, <1>2, <1>3, <1>5 DEF SubType, DecodeSubscribed, DecodeEvent, Advance
<1>6. CASE Numbered(inHand, ch)
  <2>1. /\ cursors[ch] <= inHand.seq
        /\ view[ch] # None => ch \in subs /\ cursors[ch] = view[ch] /\ Follows(inHand, view[ch])
    BY <1>6, SeqInHand
  <2>2. ch \notin subs => view[ch] = None
    BY DEF SubInv, ChannelInv, HeldInv
  <2>3. cursors'[ch] = IF ch \in subs /\ inHand.seq > cursors[ch] THEN inHand.seq ELSE cursors[ch]
    BY <1>2, <1>3, <1>6 DEF SubType, DecodeSubscribed, DecodeEvent, Advance
  <2>4. cursors'[ch] = IF ch \in subs THEN inHand.seq ELSE cursors[ch]
    BY <1>2, <1>4, <2>1, <2>3
  <2>5. CASE DecodeSubscribed
    <3>1. view'[ch] = IF ch \in subs /\ view[ch] = None THEN inHand.seq ELSE view[ch]
      BY <1>2, <1>3, <1>6, <2>5 DEF SubType, DecodeSubscribed
    <3>2. view[ch] # None => inHand.seq = view[ch]
      BY <2>1, <2>5 DEF Follows, DecodeSubscribed
    <3> QED
      BY <1>1, <1>6, <2>2, <2>4, <3>1, <3>2
  <2>6. CASE DecodeEvent
    <3>1. view'[ch] = IF view[ch] # None /\ inHand.seq > view[ch] THEN inHand.seq ELSE view[ch]
      BY <1>2, <1>3, <1>6, <2>6 DEF SubType, DecodeEvent
    <3>2. view[ch] # None => inHand.seq = view[ch] + 1
      BY <2>1, <2>6 DEF Follows, DecodeEvent
    <3>3. view[ch] # None => inHand.seq > view[ch]
      BY <1>4, <3>2 DEF None
    <3> QED
      BY <1>1, <1>6, <2>2, <2>4, <3>1, <3>3
  <2> QED
    BY <2>5, <2>6
<1> QED
  BY <1>1, <1>5, <1>6

LEMMA SeqDecodedKeeps ==
    ASSUME SubType, SubInv, DecodeSubscribed \/ DecodeEvent, NEW ch \in Channels PROVE ChannelInv(ch)'
<1>1. ReadInv /\ HeldInv(ch) /\ ChainInv(ch) /\ GrowInv(ch) /\ EdgeInv(ch) /\ AskInv(ch)
  BY DEF SubInv, ChannelInv
<1>2. /\ inHand' = NoFrame /\ UNCHANGED <<toServer, toClient, live, conn, head, subs, pending>>
      /\ ~Numbered(inHand, ch) => cursors'[ch] = cursors[ch] /\ view'[ch] = view[ch]
      /\ Numbered(inHand, ch) =>
             /\ cursors'[ch] = IF ch \in subs THEN inHand.seq ELSE cursors[ch]
             /\ view'[ch] \in {None, inHand.seq}
             /\ ch \notin subs => view'[ch] = None
  BY SeqDecoded
<1>3. IsPending(ch)' <=> IsPending(ch)
  BY <1>2 DEF IsPending
<1>4. Of(inHand, ch) <=> Numbered(inHand, ch)
  BY DEF Of, Numbered, Ending, DecodeSubscribed, DecodeEvent
<1>5. Current(ch)' => IF Of(inHand, ch) THEN Numbered(inHand, ch) /\ view'[ch] = inHand.seq
                      ELSE Current(ch) /\ view'[ch] = view[ch]
  BY <1>2, <1>3, <1>4 DEF Current
<1>6. HeldInv(ch)'
  <2>1. CASE Numbered(inHand, ch)
    <3>1. ~IsPending(ch) /\ inHand.seq \in Nat /\ inHand.seq <= head[ch] /\ cursors[ch] <= head[ch]
      BY <1>1, <2>1, SeqInHand DEF HeldInv
    <3>2. head[ch] \in Nat /\ None <= head[ch]
      BY DEF SubType, None
    <3>3. cursors'[ch] <= head'[ch] /\ view'[ch] <= head'[ch]
      BY <1>2, <2>1, <3>1, <3>2
    <3>4. Current(ch)' => cursors'[ch] = view'[ch]
      BY <1>2, <2>1 DEF Current
    <3>5. ch \notin subs' => cursors'[ch] = None /\ view'[ch] = None
      BY <1>1, <1>2, <2>1 DEF HeldInv
    <3> QED
      BY <1>3, <3>1, <3>3, <3>4, <3>5 DEF HeldInv
  <2>2. CASE ~Numbered(inHand, ch)
    <3>1. Current(ch)' <=> Current(ch)
      BY <1>2, <1>3, <2>2 DEF Current
    <3> QED
      BY <1>1, <1>2, <1>3, <2>2, <3>1 DEF HeldInv
  <2> QED
    BY <2>1, <2>2
<1>7. cursors'[ch] \in {cursors[ch], None} \/ (Numbered(inHand, ch) /\ cursors'[ch] = inHand.seq)
  BY <1>2
<1>8. /\ ChainInv(ch)' /\ GrowInv(ch)' /\ EdgeInv(ch)'
      /\ \A i \in Places' : Numbered(At(i), ch)' => Numbered(At(i), ch) /\ i \in Places
      /\ conn = "open" /\ Current(ch)' /\ Silent(ch)' /\ ch \notin live =>
             Current(ch) /\ Silent(ch) /\ view'[ch] = view[ch]
  BY <1>1, <1>2, <1>5, <1>7, TakenKeeps
<1>9. Numbered(inHand, ch) => \E i \in Places : Numbered(At(i), ch)
  <2>1. 0 \in Places /\ At(0) = inHand
    BY Numbers DEF Places, At
  <2> QED
    BY <2>1
<1>10. AskInv(ch)'
  BY <1>1, <1>2, <1>7, <1>8, <1>9, AskStays
<1> QED
  BY <1>6, <1>8, <1>10 DEF ChannelInv

LEMMA OtherDecodedKeeps ==
    ASSUME SubType, SubInv, DecodeUnsubscribed \/ DecodeError, NEW ch \in Channels PROVE ChannelInv(ch)'
<1>1. ReadInv /\ HeldInv(ch) /\ ChainInv(ch) /\ GrowInv(ch) /\ EdgeInv(ch) /\ AskInv(ch)
  BY DEF SubInv, ChannelInv
<1>2. /\ inHand' = NoFrame /\ UNCHANGED <<toServer, toClient, live, conn, head, subs, pending, cursors>>
  BY DEF DecodeUnsubscribed, DecodeError, serverVars, wireVars, clientVars
<1>3. IsPending(ch)' <=> IsPending(ch)
  BY <1>2 DEF IsPending
<1>4. view'[ch] = IF Of(inHand, ch) THEN None ELSE view[ch]
  BY InHandTypes DEF SubType, Of, Numbered, Ending, DecodeUnsubscribed, DecodeError, ErrorFrame
<1>5. Current(ch)' => ~Of(inHand, ch) /\ Current(ch) /\ view'[ch] = view[ch]
  BY <1>3, <1>4 DEF Current
<1>6. HeldInv(ch)'
  <2>1. head[ch] \in Nat /\ None <= head[ch]
    BY DEF SubType, None
  <2> QED
    BY <1>1, <1>2, <1>3, <1>4, <1>5, <2>1 DEF HeldInv
<1>7. cursors'[ch] \in {cursors[ch], None}
  BY <1>2
<1>8. /\ ChainInv(ch)' /\ GrowInv(ch)' /\ EdgeInv(ch)'
      /\ \A i \in Places' : Numbered(At(i), ch)' => Numbered(At(i), ch) /\ i \in Places
      /\ conn = "open" /\ Current(ch)' /\ Silent(ch)' /\ ch \notin live =>
             Current(ch) /\ Silent(ch) /\ view'[ch] = view[ch]
  BY <1>1, <1>2, <1>5, <1>7, TakenKeeps
<1>9. AskInv(ch)'
  BY <1>1, <1>2, <1>7, <1>8, AskStays
<1> QED
  BY <1>6, <1>8, <1>9 DEF ChannelInv

\* Who is told of an out_of_sync is no longer current, and has no cursor.
LEMMA LossDecoded ==
    ASSUME SubType, SubInv, DecodeOutOfSync, ~RereadAtOnce, NEW ch \in Channels,
           NEW order \in SetToSeqs(Hit(inHand)),
           \/ Hit(inHand) = {} /\ UNCHANGED <<pending, view>>
           \/ /\ Hit(inHand) # {}
              /\ pending' = Tail(order)
              /\ view' = [view EXCEPT ![Head(order)] = Reread(Head(order))]
    PROVE  /\ HeldInv(ch)' /\ cursors'[ch] \in {cursors[ch], None}
           /\ Current(ch)' => ~Of(inHand, ch) /\ Current(ch) /\ view'[ch] = view[ch]
           /\ ch \in Hit(inHand) => ~Current(ch)'
<1> DEFINE hit == Hit(inHand)
<1>1. ReadInv /\ HeldInv(ch)
  BY DEF SubInv, ChannelInv
<1>2. hit \in SUBSET Channels /\ (ch \in hit <=> ch \in inHand.scope /\ ch \in subs)
  BY DEF SubType, Hit
<1>3. /\ order \in Seq(hit) /\ Len(order) \in Nat
      /\ \A i, j \in 1..Len(order) : i # j => order[i] # order[j]
      /\ \A d \in hit : \E i \in 1..Len(order) : order[i] = d
  BY <1>2, Orders, ZenonT(60)
<1>4. pending = <<>> /\ ~IsPending(ch)
  BY <1>1, InHandTypes DEF ReadInv, IsPending, DecodeOutOfSync
<1>5. UNCHANGED <<head, subs>> /\ cursors'[ch] = IF ch \in hit THEN None ELSE cursors[ch]
  BY DEF DecodeOutOfSync
<1>6. Of(inHand, ch) <=> ch \in inHand.scope
  BY DEF Of, Numbered, Ending, DecodeOutOfSync
<1> HIDE DEF hit
<1>7. view'[ch] \in {None, view[ch]} /\ (ch \notin hit => view'[ch] = view[ch] /\ ~IsPending(ch)')
  <2>1. CASE hit = {}
    BY <1>4, <2>1 DEF hit, IsPending
  <2>2. CASE hit # {}
    <3>1. pending' = Tail(order) /\ view' = [view EXCEPT ![Head(order)] = None] /\ order # <<>>
      BY <1>3, <2>2, SMTT(30) DEF hit, Reread
    <3>2. Head(order) \in hit /\ \A k \in 1..Len(pending)' : pending'[k] \in hit
      BY <1>3, <3>1
    <3> QED
      BY <1>2, <3>1, <3>2 DEF IsPending, SubType
  <2> QED
    BY <2>1, <2>2
<1>8. ch \in hit => ~Current(ch)'
  <2> SUFFICES ASSUME ch \in hit PROVE view'[ch] = None \/ IsPending(ch)'
      BY DEF Current
  <2>1. pending' = Tail(order) /\ view' = [view EXCEPT ![Head(order)] = None] /\ order # <<>>
    BY <1>3, SMTT(30) DEF hit, Reread
  <2>2. PICK i \in 1..Len(order) : order[i] = ch
    BY <1>3
  <2>3. CASE i = 1
    BY <2>1, <2>2, <2>3 DEF SubType
  <2>4. CASE i # 1
    <3>1. i - 1 \in 1..Len(Tail(order)) /\ Tail(order)[i - 1] = order[i]
      BY <1>3, <2>1, <2>4
    <3> QED
      BY <2>1, <2>2, <3>1 DEF IsPending
  <2> QED
    BY <2>3, <2>4
<1>9. ch \notin subs => view[ch] = None /\ cursors[ch] = None
  BY <1>1 DEF HeldInv
<1>10. Current(ch)' => ~Of(inHand, ch) /\ Current(ch) /\ view'[ch] = view[ch]
  BY <1>2, <1>4, <1>6, <1>7, <1>8, <1>9 DEF Current
<1>11. HeldInv(ch)'
  <2>1. head[ch] \in Nat /\ None <= head[ch]
    BY DEF SubType, None
  <2>2. IsPending(ch)' => cursors'[ch] = None
    BY <1>5, <1>7
  <2>3. Current(ch)' => cursors'[ch] = view'[ch]
    BY <1>1, <1>5, <1>8, <1>10 DEF HeldInv
  <2>4. cursors'[ch] <= head'[ch] /\ view'[ch] <= head'[ch]
    BY <1>1, <1>5, <1>7, <2>1 DEF HeldInv
  <2>5. ch \notin subs' => cursors'[ch] = None /\ view'[ch] = None
    BY <1>5, <1>7, <1>9
  <2> QED
    BY <2>2, <2>3, <2>4, <2>5 DEF HeldInv
<1> QED
  BY <1>5, <1>8, <1>10, <1>11 DEF hit

\* Frames are written, none of which asks for ch in a way AskInv forbids.
LEMMA AskWritten ==
    ASSUME SubType, ReadInv, NEW ch \in Channels, AskInv(ch), NEW frames \in Seq(Asks),
           \/ conn # "open" /\ UNCHANGED toServer
           \/ conn = "open" /\ toServer' = toServer \o frames,
           \A k \in 1..Len(frames) : \/ frames[k].ch # ch
                                     \/ frames[k].op = "unsubscribe"
                                     \/ frames[k].since = None /\ ~Current(ch)',
           UNCHANGED <<head, live>>,
           (\E i \in Places' : Numbered(At(i), ch)') => \E i \in Places : Numbered(At(i), ch),
           cursors'[ch] \in {cursors[ch], None} \/ \E i \in Places : Numbered(At(i), ch),
           conn = "open" /\ ch \notin live' /\ Current(ch)' /\ Silent(ch)' =>
               ch \notin live /\ Current(ch) /\ Silent(ch) /\ view'[ch] = view[ch]
    PROVE  AskInv(ch)'
<1>1. CASE conn # "open" /\ UNCHANGED toServer
  BY <1>1, AskStays
<1>2. CASE conn = "open" /\ toServer' = toServer \o frames
  <2>1. /\ Len(toServer)' = Len(toServer) + Len(frames) /\ Len(frames) \in Nat /\ Len(toServer) \in Nat
        /\ \A k \in 1..Len(toServer)' :
               IF k <= Len(toServer) THEN toServer'[k] = toServer[k]
               ELSE k - Len(toServer) \in 1..Len(frames) /\ toServer'[k] = frames[k - Len(toServer)]
    BY <1>2, AppendAsk, Numbers
  <2>2. head[ch] \in Nat /\ head'[ch] = head[ch]
    BY DEF SubType
  <2>3. ASSUME NEW k \in 1..Len(toServer)', ~(k + 0 <= Len(toServer))
        PROVE  ~Resumes(k, ch)' /\ (Begins(k, ch)' => ~(Current(ch) /\ Silent(ch))')
    <3>1. k - Len(toServer) \in 1..Len(frames) /\ toServer'[k] = frames[k - Len(toServer)]
      BY <2>1, <2>3
    <3>2. \/ toServer'[k].ch # ch
          \/ toServer'[k].op = "unsubscribe"
          \/ toServer'[k].since = None /\ ~Current(ch)'
      BY <3>1
    <3> QED
      BY <3>2 DEF Resumes, Begins
  <2>4. \A k \in 1..Len(toServer)' :
            IF k + 0 <= Len(toServer) THEN toServer'[k] = toServer[k + 0]
            ELSE ~Resumes(k, ch)' /\ (Begins(k, ch)' => ~(Current(ch) /\ Silent(ch))')
    BY <2>1, <2>3
  <2>5. 0 \in {0, 1} /\ 0 <= Len(toServer) /\ Len(toServer)' \in Nat /\ Len(toServer)' >= Len(toServer) - 0
        /\ head'[ch] \in Nat /\ head'[ch] >= head[ch]
    BY <2>1, <2>2
  <2> QED
    BY <2>4, <2>5, AskKeeps
<1> QED
  BY <1>1, <1>2

LEMMA LossDecodedKeeps ==
    ASSUME SubType, SubInv, DecodeOutOfSync, ~RereadAtOnce, NEW ch \in Channels PROVE ChannelInv(ch)'
<1>1. ReadInv /\ HeldInv(ch) /\ ChainInv(ch) /\ GrowInv(ch) /\ EdgeInv(ch) /\ AskInv(ch)
  BY DEF SubInv, ChannelInv
<1>2. PICK order \in SetToSeqs(Hit(inHand)) :
          /\ Write([i \in DOMAIN order |-> Fresh(order[i])])
          /\ \/ Hit(inHand) = {} /\ UNCHANGED <<pending, view>>
             \/ /\ Hit(inHand) # {}
                /\ pending' = Tail(order)
                /\ view' = [view EXCEPT ![Head(order)] = Reread(Head(order))]
  BY DEF DecodeOutOfSync
<1>3. /\ HeldInv(ch)' /\ cursors'[ch] \in {cursors[ch], None}
      /\ Current(ch)' => ~Of(inHand, ch) /\ Current(ch) /\ view'[ch] = view[ch]
      /\ ch \in Hit(inHand) => ~Current(ch)'
  BY <1>2, LossDecoded
<1>4. PICK frames \in Seq(Asks) :
          /\ Write(frames)
          /\ \A k \in 1..Len(frames) : frames[k].ch # ch \/ (frames[k].since = None /\ ~Current(ch)')
  <2> DEFINE frames == [i \in DOMAIN order |-> Fresh(order[i])]
  <2>1. Hit(inHand) \in SUBSET Channels
    BY DEF SubType, Hit
  <2>2. /\ frames \in Seq(Asks) /\ Len(frames) = Len(order)
        /\ \A k \in 1..Len(order) : order[k] \in Hit(inHand) /\ frames[k] = Fresh(order[k])
    BY <2>1, FreshAsks
  <2>3. \A d : Fresh(d).ch = d /\ Fresh(d).since = None
    BY DEF Fresh
  <2>4. Write(frames)
    BY <1>2
  <2> HIDE DEF frames
  <2>5. \A k \in 1..Len(frames) : frames[k].ch # ch \/ (frames[k].since = None /\ ~Current(ch)')
    BY <1>3, <2>2, <2>3
  <2> QED
    BY <2>2, <2>4, <2>5
<1>5. inHand' = NoFrame /\ UNCHANGED head
  BY DEF DecodeOutOfSync
<1>6. CASE Breaks
  <2>1. toServer' = <<>> /\ toClient' = <<>> /\ conn' # "open"
    BY <1>6 DEF Breaks, LoseWires
  <2> QED
    BY <1>1, <1>3, <1>5, <2>1, BrokenKeeps
<1>7. CASE ~Breaks
  <2>1. /\ UNCHANGED <<toClient, conn, live>>
        /\ \/ conn # "open" /\ UNCHANGED toServer
           \/ conn = "open" /\ toServer' = toServer \o frames
    BY <1>4, <1>7 DEF Write, wireVars
  <2>2. /\ ChainInv(ch)' /\ GrowInv(ch)' /\ EdgeInv(ch)'
        /\ \A i \in Places' : Numbered(At(i), ch)' => Numbered(At(i), ch) /\ i \in Places
        /\ conn = "open" /\ Current(ch)' /\ Silent(ch)' /\ ch \notin live =>
               Current(ch) /\ Silent(ch) /\ view'[ch] = view[ch]
    BY <1>1, <1>3, <1>5, <2>1, TakenKeeps
  <2>3. AskInv(ch)'
    BY <1>1, <1>3, <1>4, <1>5, <2>1, <2>2, AskWritten
  <2> QED
    BY <1>3, <2>2, <2>3 DEF ChannelInv
<1> QED
  BY <1>6, <1>7

-----------------------------------------------------------------------------
(* It is kept by the application.                                           *)

LEMMA CallKeeps ==
    ASSUME SubType, SubInv, ~Redundant, NEW d \in Channels, Subscribe(d) \/ Unsubscribe(d), NEW ch \in Channels
    PROVE  ChannelInv(ch)'
<1>1. ReadInv /\ HeldInv(ch) /\ ChainInv(ch) /\ GrowInv(ch) /\ EdgeInv(ch) /\ AskInv(ch)
  BY DEF SubInv, ChannelInv
<1>2. UNCHANGED <<head, inHand, pending>>
  BY DEF Subscribe, Unsubscribe, readVars
<1>3. IsPending(ch)' <=> IsPending(ch)
  BY <1>2 DEF IsPending
<1>4. /\ ch # d => UNCHANGED <<cursors[ch], view[ch]>> /\ (ch \in subs' <=> ch \in subs)
      /\ ch = d => cursors'[ch] = None /\ view'[ch] = None
  <2>1. CASE Unsubscribe(d)
    BY <2>1 DEF SubType, Unsubscribe
  <2>2. CASE Subscribe(d)
    <3>1. d \notin subs /\ UNCHANGED <<cursors, view>> /\ subs' = subs \cup {d}
      BY <2>2 DEF Subscribe
    <3> QED
      BY <1>1, <3>1 DEF HeldInv
  <2> QED
    BY <2>1, <2>2
<1>5. PICK frames \in Seq(Asks) :
          /\ Write(frames)
          /\ \A k \in 1..Len(frames) : \/ frames[k].ch # ch
                                       \/ frames[k].op = "unsubscribe"
                                       \/ frames[k].since = None /\ ~Current(ch)'
  <2>1. PICK frame \in Asks : /\ Write(<<frame>>)
                            /\ \/ frame.ch # ch
                               \/ frame.op = "unsubscribe"
                               \/ frame.since = None /\ ~Current(ch)'
    <3>1. CASE Unsubscribe(d)
      <4>1. UnsubscribeFrame(d) \in Asks /\ UnsubscribeFrame(d).op = "unsubscribe"
        BY FrameTypes DEF UnsubscribeFrame
      <4>2. Write(<<UnsubscribeFrame(d)>>)
        BY <3>1 DEF Unsubscribe
      <4> QED
        BY <4>1, <4>2
    <3>2. CASE Subscribe(d)
      <4>1. SubscribeFrame(d) \in Asks
        BY FrameTypes
      <4>2. SubscribeFrame(d).ch = d /\ SubscribeFrame(d).since = cursors[d]
        BY DEF SubscribeFrame
      <4>3. ch = d => cursors[d] = None /\ ~Current(ch)'
        BY <1>1, <1>4, <3>2 DEF Current, Subscribe, HeldInv
      <4>4. Write(<<SubscribeFrame(d)>>)
        BY <3>2 DEF Subscribe
      <4> QED
        BY <4>1, <4>2, <4>3, <4>4
    <3> QED
      BY <3>1, <3>2
  <2> DEFINE frames == <<frame>>
  <2>2. frames \in Seq(Asks) /\ Len(frames) = 1 /\ frames[1] = frame /\ Write(frames)
    BY <2>1
  <2> HIDE DEF frames
  <2>3. \A k \in 1..Len(frames) : frames[k] = frame
    BY <2>2
  <2> QED
    BY <2>1, <2>2, <2>3
<1>6. Current(ch)' => Current(ch) /\ view'[ch] = view[ch]
  BY <1>3, <1>4 DEF Current
<1>7. cursors'[ch] \in {cursors[ch], None}
  BY <1>4
<1>8. HeldInv(ch)'
  <2>1. head[ch] \in Nat /\ None <= head[ch]
    BY DEF SubType, None
  <2> QED
    BY <1>1, <1>2, <1>3, <1>4, <1>6, <2>1 DEF HeldInv
<1>9. CASE Breaks
  <2>1. toServer' = <<>> /\ toClient' = <<>> /\ conn' # "open"
    BY <1>9 DEF Breaks, LoseWires
  <2> QED
    BY <1>1, <1>2, <1>6, <1>7, <1>8, <2>1, BrokenKeeps
<1>10. CASE ~Breaks
  <2>1. /\ UNCHANGED <<toClient, conn, live>>
        /\ \/ conn # "open" /\ UNCHANGED toServer
           \/ conn = "open" /\ toServer' = toServer \o frames
    BY <1>5, <1>10 DEF Write, wireVars
  <2>2. ChainInv(ch)' /\ GrowInv(ch)' /\ EdgeInv(ch)' /\ (Silent(ch)' <=> Silent(ch))
    BY <1>1, <1>2, <1>6, <1>7, <2>1, SameKeeps
  <2>3. (\A i : At(i)' = At(i)) /\ Places' = Places
    BY <1>2, <2>1 DEF At, Places
  <2>4. AskInv(ch)'
    BY <1>1, <1>2, <1>5, <1>6, <1>7, <2>1, <2>2, <2>3, AskWritten
  <2> QED
    BY <1>8, <2>2, <2>4 DEF ChannelInv
<1> QED
  BY <1>9, <1>10

-----------------------------------------------------------------------------
(* It is kept by the server.                                                *)

\* The server leaves the client alone.
Afar == UNCHANGED <<subs, cursors, view, pending, inHand, conn>>

LEMMA HeldStays ==
    ASSUME SubType, NEW ch \in Channels, HeldInv(ch), Afar, head'[ch] \in Nat, head'[ch] >= head[ch]
    PROVE  HeldInv(ch)' /\ (Current(ch)' <=> Current(ch))
<1>1. (Current(ch)' <=> Current(ch)) /\ (IsPending(ch)' <=> IsPending(ch))
  BY DEF Afar, Current, IsPending
<1>2. head[ch] \in Nat /\ cursors[ch] \in Nat \cup {-1} /\ view[ch] \in Nat \cup {-1}
  BY DEF SubType, None
<1>3. cursors[ch] <= head[ch] /\ view[ch] <= head[ch]
  BY DEF HeldInv
<1>4. cursors'[ch] <= head'[ch] /\ view'[ch] <= head'[ch]
  BY <1>2, <1>3 DEF Afar
<1> QED
  BY <1>1, <1>4 DEF HeldInv, Afar

\* A frame that ends ch.
LEMMA EndingKeeps ==
    ASSUME SubType, NEW ch \in Channels, ChainInv(ch), GrowInv(ch), EdgeInv(ch), Afar, UNCHANGED head,
           NEW f \in Answers, Ending(f, ch), toClient' = Append(toClient, f), ch \notin live'
    PROVE  /\ ChainInv(ch)' /\ GrowInv(ch)' /\ EdgeInv(ch)' /\ ~Silent(ch)'
           /\ \A i \in Places' : Numbered(At(i), ch)' => \E j \in Places : Numbered(At(j), ch)
<1>1. /\ <<f>> \in Seq(Answers) /\ Len(<<f>>) = 1 /\ <<f>>[1] = f /\ toClient' = toClient \o <<f>>
      /\ UNCHANGED <<inHand, conn, cursors, view, pending>>
  BY AppendIsConcat DEF SubType, Afar
<1>2. /\ Appends(1)
      /\ \A i \in NewPlaces(1) : i - Len(toClient) \in 1..1 /\ i \in Nat /\ At(i)' = <<f>>[i - Len(toClient)]
  BY <1>1, AppendFrames
<1>3. Len(toClient) \in Nat
  BY Numbers
<1>4. \A i \in NewPlaces(1) : i = Len(toClient) + 1 /\ At(i)' = f
  BY <1>1, <1>2, <1>3
<1>5. Of(f, ch) /\ ~Numbered(f, ch)
  BY DEF Of, Ending, Numbered
<1>6. PICK start \in Nat : start = Len(toClient) + 1
  BY <1>3
<1>7. start \in NewPlaces(1) /\ At(start)' = f
  BY <1>3, <1>4, <1>6 DEF NewPlaces
<1>8. \A i \in NewPlaces(1) : /\ Of(At(i), ch)' /\ ~Numbered(At(i), ch)' /\ i + 1 \notin NewPlaces(1)
  BY <1>3, <1>4, <1>5
<1>9. head'[ch] \in Nat /\ head'[ch] >= head[ch]
  BY DEF SubType
<1>10. ~Numbered(At(start), ch)' /\ Ending(At(start), ch)'
  BY <1>5, <1>7
<1>11. ChainInv(ch)' /\ GrowInv(ch)' /\ EdgeInv(ch)' /\ ~Silent(ch)'
  BY <1>1, <1>2, <1>6, <1>8, <1>9, <1>10, ToldKeeps
<1>12. /\ Places' = Places \cup NewPlaces(1)
       /\ \A i \in Places : At(i)' = At(i)
  BY <1>2, AppendPlaces
<1>13. \A i \in Places' : Numbered(At(i), ch)' => \E j \in Places : Numbered(At(j), ch)
  BY <1>8, <1>12
<1> QED
  BY <1>11, <1>13

\* The frames are not of ch.
LEMMA OthersKeep ==
    ASSUME SubType, NEW ch \in Channels, ChainInv(ch), GrowInv(ch), EdgeInv(ch), Afar,
           NEW frames \in Seq(Answers), toClient' = toClient \o frames,
           \A k \in 1..Len(frames) : ~Of(frames[k], ch), ch \in live' <=> ch \in live,
           head'[ch] = head[ch] \/ (ch \notin live /\ head'[ch] \in Nat /\ head'[ch] >= head[ch])
    PROVE  /\ ChainInv(ch)' /\ GrowInv(ch)' /\ EdgeInv(ch)' /\ (Silent(ch)' <=> Silent(ch))
           /\ \A i \in Places' : Numbered(At(i), ch)' => \E j \in Places : Numbered(At(j), ch)
<1>1. UNCHANGED <<inHand, conn, cursors, view, pending>>
  BY DEF Afar
<1>2. /\ Len(frames) \in Nat /\ Appends(Len(frames))
      /\ \A i \in NewPlaces(Len(frames)) : /\ i - Len(toClient) \in 1..Len(frames)
                                           /\ At(i)' = frames[i - Len(toClient)]
  BY <1>1, AppendFrames
<1>3. \A i \in NewPlaces(Len(frames)) : ~Of(At(i), ch)'
  BY <1>2
<1> QED
  BY <1>1, <1>2, <1>3, PassedKeeps

\* The server takes a frame.
LEMMA AskTaken ==
    ASSUME SubType, ReadInv, NEW ch \in Channels, AskInv(ch), Afar, UNCHANGED head,
           toServer # <<>>, toServer' = Tail(toServer),
           \/ Head(toServer).ch = ch
           \/ /\ ch \in live' => ch \in live
              /\ \A i \in Places' : Numbered(At(i), ch)' => \E j \in Places : Numbered(At(j), ch),
           ch \notin live' /\ Silent(ch)' /\ Current(ch) => ch \notin live /\ Silent(ch)
    PROVE  AskInv(ch)'
<1>1. /\ Len(toServer) \in Nat /\ 1 <= Len(toServer) /\ Len(toServer)' = Len(toServer) - 1 /\ Head(toServer) = toServer[1]
      /\ \A k \in 1..Len(toServer)' : toServer'[k] = toServer[k + 1] /\ k + 1 <= Len(toServer)
  BY DEF SubType
<1>2. head[ch] \in Nat /\ head'[ch] = head[ch] /\ 1 \in {0, 1}
  BY DEF SubType
<1>3. Current(ch)' <=> Current(ch)
  BY DEF Afar, Current, IsPending
<1>4. /\ Len(toServer)' \in Nat /\ Len(toServer)' >= Len(toServer) - 1 /\ head'[ch] \in Nat /\ head'[ch] >= head[ch]
  BY <1>1, <1>2
<1>5. \A k \in 1..Len(toServer)' :
          IF k + 1 <= Len(toServer) THEN toServer'[k] = toServer[k + 1]
          ELSE ~Resumes(k, ch)' /\ (Begins(k, ch)' => ~(Current(ch) /\ Silent(ch))')
  BY <1>1
<1>6. Asked(1, ch) <=> Head(toServer).ch = ch
  BY <1>1 DEF Asked
<1> QED
  BY <1>1, <1>2, <1>3, <1>4, <1>5, <1>6, AskKeeps DEF Afar

\* The server says something on its own account.
LEMMA AskUntaken ==
    ASSUME SubType, ReadInv, NEW ch \in Channels, AskInv(ch), Afar, UNCHANGED toServer,
           head'[ch] \in Nat, head'[ch] >= head[ch], ch \in live' => ch \in live,
           \A i \in Places' : Numbered(At(i), ch)' => ch \in live \/ \E j \in Places : Numbered(At(j), ch),
           ch \notin live' /\ Silent(ch)' /\ Current(ch) => ch \notin live /\ Silent(ch)
    PROVE  AskInv(ch)'
<1>1. Len(toServer) \in Nat
  BY DEF SubType
<1>2. \A k \in 1..Len(toServer)' : k + 0 <= Len(toServer) /\ toServer'[k] = toServer[k + 0]
  BY <1>1
<1>3. 0 \in {0, 1} /\ 0 <= Len(toServer) /\ Len(toServer)' \in Nat /\ Len(toServer)' >= Len(toServer) - 0
  BY <1>1
<1>4. Current(ch)' <=> Current(ch)
  BY DEF Afar, Current, IsPending
<1> QED
  BY <1>2, <1>3, <1>4, AskKeeps DEF Afar

LEMMA TrimKeeps ==
    ASSUME SubType, SubInv, NEW d \in Channels, Trim(d), NEW ch \in Channels PROVE ChannelInv(ch)'
<1>1. UNCHANGED <<head, live, toServer, toClient, conn, subs, cursors, view, pending, inHand>>
  BY DEF Trim, wireVars, clientVars, readVars
<1>2. (Current(ch)' <=> Current(ch)) /\ (IsPending(ch)' <=> IsPending(ch))
  BY <1>1 DEF Current, IsPending
<1>3. Places' = Places /\ \A i : At(i)' = At(i)
  BY <1>1 DEF Places, At
<1>4. HeldInv(ch) /\ ChainInv(ch) /\ GrowInv(ch) /\ EdgeInv(ch) /\ AskInv(ch) /\ ReadInv
  BY DEF SubInv, ChannelInv
<1>5. ChainInv(ch)' /\ GrowInv(ch)' /\ EdgeInv(ch)' /\ (Silent(ch)' <=> Silent(ch))
  BY <1>1, <1>2, <1>4, SameKeeps
<1>6. AskInv(ch)'
  BY <1>1, <1>2, <1>3, <1>4, <1>5, AskStays
<1>7. HeldInv(ch)'
  BY <1>1, <1>2, <1>4 DEF HeldInv
<1> QED
  BY <1>5, <1>6, <1>7 DEF ChannelInv

LEMMA FallBehindKeeps ==
    ASSUME SubType, SubInv, NEW name, FallBehind(name), NEW ch \in Channels PROVE ChannelInv(ch)'
<1> DEFINE scope == {c \in Channels : NameOf[c] = name}
           f == LostFrame(scope)
<1>1. /\ toClient' = Append(toClient, f) /\ live' = live \ scope
      /\ Afar /\ UNCHANGED <<head, toServer>>
  BY DEF FallBehind, clientVars, readVars, Afar
<1>2. ReadInv /\ HeldInv(ch) /\ ChainInv(ch) /\ GrowInv(ch) /\ EdgeInv(ch) /\ AskInv(ch)
  BY DEF SubInv, ChannelInv
<1>3. f \in Answers /\ (ch \in scope => Ending(f, ch)) /\ (ch \notin scope => ~Of(f, ch))
  BY FrameTypes DEF LostFrame, Ending, Of, Numbered
<1>4. head[ch] \in Nat /\ head'[ch] = head[ch] /\ head'[ch] >= head[ch]
  BY <1>1 DEF SubType
<1>5. HeldInv(ch)'
  BY <1>1, <1>2, <1>4, HeldStays
<1> HIDE DEF scope, f
<1>6. CASE ch \in scope
  <2>1. /\ ChainInv(ch)' /\ GrowInv(ch)' /\ EdgeInv(ch)' /\ ~Silent(ch)'
        /\ \A i \in Places' : Numbered(At(i), ch)' => \E j \in Places : Numbered(At(j), ch)
    BY <1>1, <1>2, <1>3, <1>6, EndingKeeps
  <2>2. AskInv(ch)'
    BY <1>1, <1>2, <1>4, <2>1, AskUntaken
  <2> QED
    BY <1>5, <2>1, <2>2 DEF ChannelInv
<1>7. CASE ch \notin scope
  <2>1. <<f>> \in Seq(Answers) /\ toClient' = toClient \o <<f>> /\ \A k \in 1..Len(<<f>>) : ~Of(<<f>>[k], ch)
    BY <1>1, <1>3, <1>7, AppendIsConcat DEF SubType
  <2>2. /\ ChainInv(ch)' /\ GrowInv(ch)' /\ EdgeInv(ch)' /\ (Silent(ch)' <=> Silent(ch))
        /\ \A i \in Places' : Numbered(At(i), ch)' => \E j \in Places : Numbered(At(j), ch)
    BY <1>1, <1>2, <1>7, <2>1, OthersKeep
  <2>3. AskInv(ch)'
    BY <1>1, <1>2, <1>4, <1>7, <2>2, AskUntaken
  <2> QED
    BY <1>5, <2>2, <2>3 DEF ChannelInv
<1> QED
  BY <1>6, <1>7

LEMMA ByeKeeps ==
    ASSUME SubType, SubInv, ServerUnsubscribes, NEW ch \in Channels PROVE ChannelInv(ch)'
<1> DEFINE d == Head(toServer).ch
           f == ByeFrame(d)
<1>1. /\ toClient' = Append(toClient, f) /\ live' = live \ {d} /\ toServer # <<>> /\ toServer' = Tail(toServer)
      /\ Afar /\ UNCHANGED head
  BY DEF ServerUnsubscribes, clientVars, readVars, Afar
<1>2. ReadInv /\ HeldInv(ch) /\ ChainInv(ch) /\ GrowInv(ch) /\ EdgeInv(ch) /\ AskInv(ch)
  BY DEF SubInv, ChannelInv
<1>3. d \in Channels
  <2>1. Head(toServer) \in Asks
    BY <1>1 DEF SubType
  <2> QED
    BY <2>1 DEF Asks
<1>4. f \in Answers /\ (ch = d => Ending(f, ch)) /\ (ch # d => ~Of(f, ch))
  BY <1>3, FrameTypes DEF ByeFrame, Ending, Of, Numbered
<1>5. head[ch] \in Nat /\ head'[ch] = head[ch] /\ head'[ch] >= head[ch]
  BY <1>1 DEF SubType
<1>6. HeldInv(ch)'
  BY <1>1, <1>2, <1>5, HeldStays
<1> HIDE DEF f
<1>7. CASE ch = d
  <2>1. ch \notin live'
    BY <1>1, <1>7
  <2>2. ChainInv(ch)' /\ GrowInv(ch)' /\ EdgeInv(ch)' /\ ~Silent(ch)'
    BY <1>1, <1>2, <1>4, <1>7, <2>1, EndingKeeps
  <2>3. AskInv(ch)'
    BY <1>1, <1>2, <1>7, <2>2, AskTaken
  <2> QED
    BY <1>6, <2>2, <2>3 DEF ChannelInv
<1>8. CASE ch # d
  <2>1. <<f>> \in Seq(Answers) /\ toClient' = toClient \o <<f>> /\ \A k \in 1..Len(<<f>>) : ~Of(<<f>>[k], ch)
    BY <1>1, <1>4, <1>8, AppendIsConcat DEF SubType
  <2>2. ch \in live' <=> ch \in live
    BY <1>1, <1>8
  <2>3. /\ ChainInv(ch)' /\ GrowInv(ch)' /\ EdgeInv(ch)' /\ (Silent(ch)' <=> Silent(ch))
        /\ \A i \in Places' : Numbered(At(i), ch)' => \E j \in Places : Numbered(At(j), ch)
    BY <1>1, <1>2, <2>1, <2>2, OthersKeep
  <2>4. AskInv(ch)'
    BY <1>1, <1>2, <2>2, <2>3, AskTaken
  <2> QED
    BY <1>6, <2>3, <2>4 DEF ChannelInv
<1> QED
  BY <1>7, <1>8

LEMMA PublishKeeps ==
    ASSUME SubType, SubInv, NEW d \in Channels, Publish(d), NEW ch \in Channels PROVE ChannelInv(ch)'
<1> DEFINE f == EventFrame(d, head[d] + 1)
           frames == IF d \in live THEN <<f>> ELSE <<>>
<1>1. /\ Afar /\ UNCHANGED <<live, toServer>>
      /\ head'[ch] = IF ch = d THEN head[ch] + 1 ELSE head[ch]
      /\ head'[d] = head[d] + 1 /\ head[d] \in Nat /\ head[ch] \in Nat
      /\ toClient' = IF d \in live THEN Append(toClient, EventFrame(d, head'[d])) ELSE toClient
  BY DEF SubType, Publish, clientVars, readVars, Afar
<1>2. ReadInv /\ HeldInv(ch) /\ ChainInv(ch) /\ GrowInv(ch) /\ EdgeInv(ch) /\ AskInv(ch)
  BY DEF SubInv, ChannelInv
<1>3. head'[ch] \in Nat /\ head'[ch] >= head[ch]
  BY <1>1
<1>4. f \in Answers /\ f.seq = head[d] + 1 /\ f.op = "event" /\ Numbered(f, d) /\ (ch # d => ~Of(f, ch))
  <2>1. head[d] + 1 \in Nat
    BY <1>1
  <2> QED
    BY <2>1, FrameTypes DEF EventFrame, Of, Numbered, Ending
<1> HIDE DEF f
<1>5. /\ frames \in Seq(Answers) /\ toClient' = toClient \o frames
      /\ d \in live => frames = <<f>> /\ Len(frames) = 1 /\ frames[1] = f
      /\ d \notin live => Len(frames) = 0
  <2>1. toClient \in Seq(Answers)
    BY DEF SubType
  <2> QED
    BY <1>1, <1>4, <2>1, AppendIsConcat, ConcatEmptySeq DEF f
<1>6. HeldInv(ch)' /\ (Current(ch)' <=> Current(ch))
  BY <1>1, <1>2, <1>3, HeldStays
<1> HIDE DEF frames
<1>7. CASE ch = d /\ d \in live
  <2>1. UNCHANGED <<inHand, conn, cursors, view, pending>> /\ conn = "open"
    BY <1>1, <1>2, <1>7 DEF Afar, ReadInv
  <2>2. /\ Appends(1)
        /\ \A i \in NewPlaces(1) : i - Len(toClient) \in 1..1 /\ i \in Nat /\ At(i)' = frames[i - Len(toClient)]
    BY <1>5, <1>7, <2>1, AppendFrames
  <2>3. Len(toClient) \in Nat
    BY Numbers
  <2>4. \A i \in NewPlaces(1) : i = Len(toClient) + 1 /\ At(i)' = f
    BY <1>5, <1>7, <2>2, <2>3
  <2>5. PICK start \in Nat : start = Len(toClient) + 1
    BY <2>3
  <2>6. start \in NewPlaces(1) /\ At(start)' = f
    BY <2>3, <2>4, <2>5 DEF NewPlaces
  <2>7. f.seq = head'[ch] /\ f.seq \in Nat /\ f.seq = head[ch] + 1 /\ Numbered(f, ch) /\ Of(f, ch)
    BY <1>1, <1>3, <1>4, <1>7 DEF Of
  <2>8. /\ \A i \in NewPlaces(1) : Of(At(i), ch)' /\ At(i)'.seq \in Nat
        /\ \A i \in NewPlaces(1) : i + 1 \notin NewPlaces(1)
        /\ Numbered(At(start), ch)' /\ At(start)'.seq = head'[ch]
    BY <2>3, <2>4, <2>6, <2>7
  <2>9. /\ \A i \in Places : IsLast(i, ch) /\ Numbered(At(i), ch) => Follows(At(start)', At(i).seq)
        /\ Silent(ch) /\ Current(ch) => Follows(At(start)', view[ch])
    <3>1. /\ \A i \in Places : IsLast(i, ch) => At(i).seq = head[ch]
          /\ Silent(ch) /\ Current(ch) => view[ch] = head[ch]
      BY <1>2, <1>7, <2>1 DEF EdgeInv
    <3>2. \A s : s = head[ch] => Follows(f, s)
      BY <1>4, <2>7 DEF Follows
    <3> QED
      BY <2>6, <3>1, <3>2
  <2>10. \A i \in NewPlaces(1) :
            /\ cursors[ch] <= At(i)'.seq /\ At(i)'.seq <= head'[ch]
            /\ \A j \in Places : Numbered(At(j), ch) => At(j).seq <= At(i)'.seq
            /\ \A j \in NewPlaces(1) : ~(j < i)
    <3>1. cursors[ch] <= head[ch] /\ cursors[ch] \in Nat \cup {-1}
      BY <1>2 DEF HeldInv, SubType, None
    <3>2. \A j \in Places : Numbered(At(j), ch) => At(j).seq \in Nat /\ At(j).seq <= head[ch]
      BY <1>2, Numbers DEF GrowInv
    <3>3. \A i, j \in NewPlaces(1) : ~(j < i)
      BY <2>3, <2>4
    <3>4. cursors[ch] <= f.seq /\ f.seq <= head'[ch]
      BY <1>1, <2>7, <3>1
    <3>5. \A j \in Places : Numbered(At(j), ch) => At(j).seq <= f.seq
      BY <1>1, <2>7, <3>2
    <3> QED
      BY <2>4, <3>3, <3>4, <3>5
  <2>11. ChainInv(ch)' /\ GrowInv(ch)' /\ EdgeInv(ch)' /\ ~Silent(ch)'
    BY <1>1, <1>2, <1>3, <1>7, <2>1, <2>2, <2>5, <2>8, <2>9, <2>10, ToldKeeps
  <2>12. AskInv(ch)'
    BY <1>1, <1>2, <1>3, <1>7, <2>11, AskUntaken
  <2> QED
    BY <1>6, <2>11, <2>12 DEF ChannelInv
<1>8. CASE ch # d \/ d \notin live
  <2>1. \A k \in 1..Len(frames) : ~Of(frames[k], ch)
    BY <1>4, <1>5, <1>8
  <2>2. head'[ch] = head[ch] \/ (ch \notin live /\ head'[ch] \in Nat /\ head'[ch] >= head[ch])
    BY <1>1, <1>3, <1>8
  <2>3. /\ ChainInv(ch)' /\ GrowInv(ch)' /\ EdgeInv(ch)' /\ (Silent(ch)' <=> Silent(ch))
        /\ \A i \in Places' : Numbered(At(i), ch)' => \E j \in Places : Numbered(At(j), ch)
    BY <1>1, <1>2, <1>5, <2>1, <2>2, OthersKeep
  <2>4. AskInv(ch)'
    BY <1>1, <1>2, <1>3, <2>3, AskUntaken
  <2> QED
    BY <1>6, <2>3, <2>4 DEF ChannelInv
<1> QED
  BY <1>7, <1>8

\* Where the answer to a subscribe starts is where what was on its way, or the application, is.
LEMMA JoinsAt ==
    ASSUME SubType, SubInv, NEW ch \in Channels, toServer # <<>>, Head(toServer).op = "subscribe", Head(toServer).ch = ch,
           NEW from, from = IF Head(toServer).since = None THEN head[ch] ELSE Head(toServer).since
    PROVE  /\ from \in Nat /\ from <= head[ch] /\ cursors[ch] <= from
           /\ Silent(ch) /\ Current(ch) => view[ch] = from
           /\ \A i \in Places : Numbered(At(i), ch) => At(i).seq <= from /\ (IsLast(i, ch) => At(i).seq = from)
<1>1. ReadInv /\ HeldInv(ch) /\ GrowInv(ch) /\ EdgeInv(ch) /\ AskInv(ch)
  BY DEF SubInv, ChannelInv
<1>2. Head(toServer) = toServer[1] /\ 1 \in 1..Len(toServer) /\ toServer[1] \in Asks /\ head[ch] \in Nat
  BY DEF SubType
<1>3. conn = "open"
  BY <1>1 DEF ReadInv
<1>4. CASE Head(toServer).since # None
  <2>1. Resumes(1, ch) /\ from = toServer[1].since
    BY <1>2, <1>4 DEF Resumes
  <2>2. from \in Nat
    BY <1>2, <1>4, <2>1 DEF Asks, Resumes
  <2> QED
    BY <1>1, <1>2, <2>1, <2>2 DEF AskInv
<1>5. CASE Head(toServer).since = None
  <2>1. from = head[ch] /\ Begins(1, ch)
    BY <1>2, <1>5 DEF Begins
  <2>2. Silent(ch) /\ Current(ch) => ch \in live
    BY <1>1, <1>2, <2>1 DEF AskInv
  <2>3. \A i \in Places : Numbered(At(i), ch) => ~Ending(At(i), ch)
    BY DEF Numbered, Ending
  <2> QED
    BY <1>1, <1>2, <1>3, <2>1, <2>2, <2>3 DEF EdgeInv, GrowInv, HeldInv
<1> QED
  BY <1>4, <1>5

\* A replay and its ack go on from there to the head.
GoesOn(frames, n, ch, from) ==
    /\ frames \in Seq(Answers) /\ Len(frames) = n /\ n > 0
    /\ \A k \in 1..n : /\ Numbered(frames[k], ch) /\ frames[k].seq \in Nat
                       /\ from <= frames[k].seq /\ frames[k].seq <= head[ch]
                       /\ k + 1 \in 1..n => Follows(frames[k + 1], frames[k].seq)
    /\ Follows(frames[1], from) /\ frames[n].seq = head[ch]
    /\ \A j, k \in 1..n : j < k => frames[j].seq <= frames[k].seq
LEMMA ReplayFollows ==
    ASSUME SubType, NEW ch \in Channels, NEW from \in Nat, from <= head[ch], NEW frames,
           frames = Joined(ch, from),
           NEW n \in Nat, n = head[ch] - from + 1
    PROVE  GoesOn(frames, n, ch, from)
<1>1. head[ch] \in Nat /\ n \in Nat /\ n > 0 /\ head[ch] = from + (n - 1)
  BY DEF SubType
<1>2. /\ frames \in Seq(Answers) /\ Len(frames) = n
      /\ \A k \in 1..n : frames[k] = IF k <= n - 1 THEN EventFrame(ch, from + k) ELSE AckFrame(ch, head[ch])
  <2>1. /\ frames \in Seq(Answers) /\ Len(frames) = head[ch] - from + 1
        /\ \A k \in 1..Len(frames) :
               frames[k] = IF k <= head[ch] - from THEN EventFrame(ch, from + k) ELSE AckFrame(ch, head[ch])
    BY Replay
  <2>2. n - 1 = head[ch] - from
    BY <1>1
  <2> QED
    BY <2>1, <2>2
<1>3. /\ \A s : EventFrame(ch, s).op = "event" /\ EventFrame(ch, s).ch = ch /\ EventFrame(ch, s).seq = s
      /\ \A s : AckFrame(ch, s).op = "subscribed" /\ AckFrame(ch, s).ch = ch /\ AckFrame(ch, s).seq = s
  BY DEF EventFrame, AckFrame
<1>4. \A k \in 1..n : Numbered(frames[k], ch)
  BY <1>2, <1>3 DEF Numbered
<1>5. \A k \in 1..n : frames[k].seq = IF k <= n - 1 THEN from + k ELSE head[ch]
  BY <1>2, <1>3
<1>6. \A k \in 1..n : frames[k].seq \in Nat /\ from <= frames[k].seq /\ frames[k].seq <= head[ch]
  BY <1>1, <1>5
<1>7. \A j, k \in 1..n : j < k => frames[j].seq <= frames[k].seq
  BY <1>1, <1>5
<1>8. \A k \in 1..n : Follows(frames[k], IF k = 1 THEN from ELSE frames[k - 1].seq)
  <2> SUFFICES ASSUME NEW k \in 1..n PROVE Follows(frames[k], IF k = 1 THEN from ELSE frames[k - 1].seq)
      OBVIOUS
  <2>1. (IF k = 1 THEN from ELSE frames[k - 1].seq) = from + (k - 1)
    <3>1. k # 1 => k - 1 \in 1..n /\ k - 1 <= n - 1
      BY <1>1
    <3> QED
      BY <1>5, <3>1
  <2>2. CASE k <= n - 1
    <3>1. frames[k].op = "event" /\ frames[k].seq = (from + (k - 1)) + 1
      BY <1>2, <1>3, <1>5, <2>2
    <3> QED
      BY <2>1, <3>1 DEF Follows
  <2>3. CASE ~(k <= n - 1)
    <3>1. frames[k].op = "subscribed" /\ k = n
      BY <1>1, <1>2, <1>3, <2>3
    <3>2. frames[k].seq = from + (k - 1)
      BY <1>1, <1>5, <2>3, <3>1
    <3> QED
      BY <2>1, <3>1, <3>2 DEF Follows
  <2> QED
    BY <2>2, <2>3
<1>9. \A k \in 1..n : k + 1 \in 1..n => Follows(frames[k + 1], frames[k].seq)
  <2> SUFFICES ASSUME NEW k \in 1..n, k + 1 \in 1..n PROVE Follows(frames[k + 1], frames[k].seq)
      OBVIOUS
  <2>1. k + 1 # 1 /\ (k + 1) - 1 = k
    OBVIOUS
  <2> QED
    BY <1>8, <2>1
<1>10. 1 \in 1..n /\ n \in 1..n /\ ~(n <= n - 1)
  BY <1>1
<1>11. Follows(frames[1], from) /\ frames[n].seq = head[ch]
  BY <1>5, <1>8, <1>10
<1> QED
  BY <1>1, <1>2, <1>4, <1>6, <1>7, <1>9, <1>11 DEF GoesOn

LEMMA JoinKeeps ==
    ASSUME SubType, SubInv, NEW ch \in Channels, toServer # <<>>, Head(toServer).ch = ch,
           NEW from \in Nat, from <= head[ch], cursors[ch] <= from,
           Silent(ch) /\ Current(ch) => view[ch] = from,
           \A i \in Places : Numbered(At(i), ch) => At(i).seq <= from /\ (IsLast(i, ch) => At(i).seq = from),
           NEW frames,
           frames = Joined(ch, from),
           toClient' = toClient \o frames, ch \in live', toServer' = Tail(toServer), Afar, UNCHANGED head
    PROVE  ChannelInv(ch)'
<1>1. ReadInv /\ HeldInv(ch) /\ ChainInv(ch) /\ GrowInv(ch) /\ EdgeInv(ch) /\ AskInv(ch)
  BY DEF SubInv, ChannelInv
<1>2. UNCHANGED <<inHand, conn, cursors, view, pending>> /\ Len(toClient) \in Nat
  BY Numbers DEF Afar
<1>3. head[ch] \in Nat /\ head'[ch] = head[ch] /\ cursors[ch] \in Nat \cup {-1} /\ head'[ch] >= head[ch]
  BY DEF SubType, None
<1>4. HeldInv(ch)'
  BY <1>1, <1>3, HeldStays
<1>6. PICK n \in Nat : n = head[ch] - from + 1
  BY <1>3
<1>7. /\ frames \in Seq(Answers) /\ Len(frames) = n /\ n > 0
      /\ \A k \in 1..n : /\ Numbered(frames[k], ch) /\ frames[k].seq \in Nat
                         /\ from <= frames[k].seq /\ frames[k].seq <= head[ch]
                         /\ k + 1 \in 1..n => Follows(frames[k + 1], frames[k].seq)
      /\ Follows(frames[1], from) /\ frames[n].seq = head[ch]
      /\ \A j, k \in 1..n : j < k => frames[j].seq <= frames[k].seq
  <2>1. GoesOn(frames, n, ch, from)
    BY <1>6, ReplayFollows
  <2> QED
    BY <2>1 DEF GoesOn
<1>8. /\ Appends(n)
      /\ \A i \in NewPlaces(n) : i - Len(toClient) \in 1..n /\ i \in Nat /\ At(i)' = frames[i - Len(toClient)]
  BY <1>2, <1>7, AppendFrames
<1>9. PICK start \in Nat : start = Len(toClient) + 1
  BY <1>2
<1>10. PICK end \in Nat : end = Len(toClient) + n
  BY <1>2
<1>11. At(start)' = frames[1] /\ At(end)' = frames[n]
  <2>1. start \in NewPlaces(n) /\ end \in NewPlaces(n) /\ start - Len(toClient) = 1 /\ end - Len(toClient) = n
    BY <1>2, <1>7, <1>9, <1>10 DEF NewPlaces
  <2> QED
    BY <1>8, <2>1
<1>12. \A i \in NewPlaces(n) : /\ Of(At(i), ch)' /\ Numbered(At(i), ch)' /\ At(i)'.seq \in Nat
                               /\ from <= At(i)'.seq /\ At(i)'.seq <= head[ch]
  BY <1>7, <1>8 DEF Of
<1>13. \A i \in NewPlaces(n) : i + 1 \in NewPlaces(n) => Follows(At(i + 1)', At(i)'.seq)
  <2> SUFFICES ASSUME NEW i \in NewPlaces(n), i + 1 \in NewPlaces(n) PROVE Follows(At(i + 1)', At(i)'.seq)
      OBVIOUS
  <2>1. (i + 1) - Len(toClient) = (i - Len(toClient)) + 1
    BY <1>2, <1>8
  <2> QED
    BY <1>7, <1>8, <2>1
<1>14. \A i, j \in NewPlaces(n) : j < i => At(j)'.seq <= At(i)'.seq
  <2> SUFFICES ASSUME NEW i \in NewPlaces(n), NEW j \in NewPlaces(n), j < i PROVE At(j)'.seq <= At(i)'.seq
      OBVIOUS
  <2>1. j - Len(toClient) < i - Len(toClient)
    BY <1>2, <1>8
  <2> QED
    BY <1>7, <1>8, <2>1
<1>15. \A i \in NewPlaces(n) :
           /\ cursors[ch] <= At(i)'.seq /\ At(i)'.seq <= head'[ch]
           /\ \A j \in Places : Numbered(At(j), ch) => At(j).seq <= At(i)'.seq
  <2> SUFFICES ASSUME NEW i \in NewPlaces(n)
               PROVE  /\ cursors[ch] <= At(i)'.seq /\ At(i)'.seq <= head'[ch]
                      /\ \A j \in Places : Numbered(At(j), ch) => At(j).seq <= At(i)'.seq
      OBVIOUS
  <2>1. PICK s \in Nat : s = At(i)'.seq /\ from <= s /\ s <= head[ch]
    BY <1>12
  <2>2. cursors[ch] <= s /\ s <= head'[ch]
    BY <1>3, <2>1
  <2>3. \A j \in Places : Numbered(At(j), ch) => At(j).seq <= s
    BY <2>1, Numbers
  <2> QED
    BY <2>1, <2>2, <2>3
<1>16. /\ \A i \in Places : IsLast(i, ch) /\ Numbered(At(i), ch) => Follows(At(start)', At(i).seq)
       /\ Silent(ch) /\ Current(ch) => Follows(At(start)', view[ch])
  BY <1>7, <1>11
<1>17. end \in NewPlaces(n) /\ At(end)'.seq = head'[ch] /\ Numbered(At(end), ch)'
  BY <1>2, <1>3, <1>7, <1>10, <1>11, <1>12 DEF NewPlaces
<1>18. head'[ch] \in Nat
  BY <1>3
<1> HIDE DEF Places, At
<1>19. ChainInv(ch)' /\ GrowInv(ch)' /\ EdgeInv(ch)' /\ ~Silent(ch)'
  <2>1. \A i \in NewPlaces(n) : Of(At(i), ch)' /\ (Numbered(At(i), ch)' => At(i)'.seq \in Nat)
    BY <1>12
  <2>2. \A i \in NewPlaces(n) : i + 1 \in NewPlaces(n) => Numbered(At(i), ch)' /\ Follows(At(i + 1)', At(i)'.seq)
    BY <1>12, <1>13
  <2>3. \A i \in NewPlaces(n) : Numbered(At(i), ch)' =>
            /\ cursors[ch] <= At(i)'.seq /\ At(i)'.seq <= head'[ch]
            /\ \A j \in Places : Numbered(At(j), ch) => At(j).seq <= At(i)'.seq
            /\ \A j \in NewPlaces(n) : j < i /\ Numbered(At(j), ch)' => At(j)'.seq <= At(i)'.seq
    BY <1>14, <1>15
  <2>4. conn = "open" => IF ch \in live' THEN Numbered(At(end), ch)' /\ At(end)'.seq = head'[ch]
                                         ELSE Ending(At(end), ch)'
    BY <1>17
  <2>5. UNCHANGED <<conn, cursors, view, pending>> /\ head'[ch] >= head[ch] /\ n > 0
    BY <1>2, <1>3, <1>7
  <2> QED
    BY <1>1, <1>8, <1>9, <1>10, <1>16, <1>18, <2>1, <2>2, <2>3, <2>4, <2>5, ToldKeeps
<1>20. AskInv(ch)'
  BY <1>1, <1>19, AskTaken
<1> QED
  BY <1>4, <1>19, <1>20 DEF ChannelInv

LEMMA SubscribedKeeps ==
    ASSUME SubType, SubInv, ServerSubscribes, NEW ch \in Channels PROVE ChannelInv(ch)'
<1> DEFINE d == Head(toServer).ch
           from == IF Head(toServer).since = None THEN head[d] ELSE Head(toServer).since
           replay == Joined(d, from)
           lost == LostFrame({d})
<1>1. /\ toServer # <<>> /\ Head(toServer).op = "subscribe" /\ toServer' = Tail(toServer)
      /\ Afar /\ UNCHANGED head
      /\ \/ toClient' = toClient \o replay /\ live' = live \cup {d}
         \/ toClient' = Append(toClient, lost) /\ live' = live \ {d}
         \/ toClient' = Append(toClient, ErrorFrame) /\ UNCHANGED live
  BY DEF ServerSubscribes, clientVars, readVars, Afar, Joined
<1>2. ReadInv /\ HeldInv(ch) /\ ChainInv(ch) /\ GrowInv(ch) /\ EdgeInv(ch) /\ AskInv(ch)
  BY DEF SubInv, ChannelInv
<1>3. d \in Channels
  <2>1. Head(toServer) \in Asks
    BY <1>1 DEF SubType
  <2> QED
    BY <2>1 DEF Asks
<1>4. /\ from \in Nat /\ from <= head[d] /\ cursors[d] <= from
      /\ Silent(d) /\ Current(d) => view[d] = from
      /\ \A i \in Places : Numbered(At(i), d) => At(i).seq <= from /\ (IsLast(i, d) => At(i).seq = from)
  BY <1>1, <1>3, JoinsAt, ZenonT(60)
<1>5. head[ch] \in Nat /\ head'[ch] = head[ch] /\ head'[ch] >= head[ch]
  BY <1>1 DEF SubType
<1>6. HeldInv(ch)'
  BY <1>1, <1>2, <1>5, HeldStays
<1>7. /\ replay \in Seq(Answers) /\ \A k \in 1..Len(replay) : replay[k].op \in {"event", "subscribed"} /\ replay[k].ch = d
  <2>1. /\ replay \in Seq(Answers)
        /\ \A k \in 1..Len(replay) :
               replay[k] = IF k <= head[d] - from THEN EventFrame(d, from + k) ELSE AckFrame(d, head[d])
    BY <1>3, <1>4, Replay
  <2>2. \A s : /\ EventFrame(d, s).op = "event" /\ EventFrame(d, s).ch = d
               /\ AckFrame(d, s).op = "subscribed" /\ AckFrame(d, s).ch = d
    BY DEF EventFrame, AckFrame
  <2> HIDE DEF replay, from, d
  <2> QED
    BY <2>1, <2>2
<1>8. lost \in Answers /\ ErrorFrame \in Answers /\ Ending(lost, d) /\ ~Of(ErrorFrame, ch) /\ (ch # d => ~Of(lost, ch))
  BY <1>3, FrameTypes DEF LostFrame, ErrorFrame, Ending, Of, Numbered
<1>9. CASE ch = d /\ toClient' = toClient \o replay /\ live' = live \cup {d}
  <2>1. PICK start \in Nat : start = from
    BY <1>4
  <2>2. PICK frames : frames = Joined(d, start)
    OBVIOUS
  <2> HIDE DEF from, lost
  <2> QED
    BY <1>1, <1>4, <1>9, <2>1, <2>2, JoinKeeps
<1> HIDE DEF replay, from, lost
<1>10. CASE ch = d /\ toClient' = Append(toClient, lost) /\ live' = live \ {d}
  <2>1. ch \notin live'
    BY <1>10
  <2>2. ChainInv(ch)' /\ GrowInv(ch)' /\ EdgeInv(ch)' /\ ~Silent(ch)'
    BY <1>1, <1>2, <1>8, <1>10, <2>1, EndingKeeps
  <2>3. AskInv(ch)'
    BY <1>1, <1>2, <1>10, <2>2, AskTaken
  <2> QED
    BY <1>6, <2>2, <2>3 DEF ChannelInv
<1>11. ASSUME NEW frames \in Seq(Answers), toClient' = toClient \o frames,
              \A k \in 1..Len(frames) : ~Of(frames[k], ch), ch \in live' <=> ch \in live
       PROVE  ChannelInv(ch)'
  <2>1. /\ ChainInv(ch)' /\ GrowInv(ch)' /\ EdgeInv(ch)' /\ (Silent(ch)' <=> Silent(ch))
        /\ \A i \in Places' : Numbered(At(i), ch)' => \E j \in Places : Numbered(At(j), ch)
    BY <1>1, <1>2, <1>5, <1>11, OthersKeep
  <2>2. AskInv(ch)'
    BY <1>1, <1>2, <1>11, <2>1, AskTaken
  <2> QED
    BY <1>6, <2>1, <2>2 DEF ChannelInv
<1>12. ASSUME NEW f \in Answers, toClient' = Append(toClient, f), ~Of(f, ch), ch \in live' <=> ch \in live
       PROVE  ChannelInv(ch)'
  <2>1. <<f>> \in Seq(Answers) /\ toClient' = toClient \o <<f>> /\ \A k \in 1..Len(<<f>>) : ~Of(<<f>>[k], ch)
    BY <1>12, AppendIsConcat DEF SubType
  <2> QED
    BY <1>11, <1>12, <2>1
<1>13. CASE ch # d /\ toClient' = toClient \o replay /\ live' = live \cup {d}
  <2>1. \A k \in 1..Len(replay) : ~Of(replay[k], ch)
    BY <1>7, <1>13 DEF Of, Numbered, Ending
  <2> QED
    BY <1>7, <1>11, <1>13, <2>1
<1>14. CASE ch # d /\ toClient' = Append(toClient, lost) /\ live' = live \ {d}
  BY <1>8, <1>12, <1>14
<1>15. CASE toClient' = Append(toClient, ErrorFrame) /\ UNCHANGED live
  BY <1>8, <1>12, <1>15
<1> QED
  BY <1>1, <1>9, <1>10, <1>13, <1>14, <1>15

-----------------------------------------------------------------------------
(* The invariant, and what follows from it.                                 *)

LEMMA ReadInvKept ==
    ASSUME SubType, ReadInv, [Next]_vars PROVE ReadInv'
<1>1. CASE ReadFrame \/ ReadFails \/ Reconnect \/ PopPending
  BY <1>1 DEF ReadInv, ReadFrame, ReadFails, Reconnect, PopPending, Idle, serverVars, wireVars, clientVars
<1>2. CASE CtxDone \/ Close \/ Drop
  BY <1>2 DEF ReadInv, CtxDone, Close, Drop, Breaks, LoseWires, readVars
<1>3. CASE DecodeSubscribed \/ DecodeEvent \/ DecodeUnsubscribed \/ DecodeError
  BY <1>3 DEF ReadInv, DecodeSubscribed, DecodeEvent, DecodeUnsubscribed, DecodeError, serverVars, wireVars
<1>4. CASE DecodeOutOfSync
  <2>1. inHand' = NoFrame
    BY <1>4 DEF DecodeOutOfSync
  <2>2. PICK frames : Write(frames)
    BY <1>4 DEF DecodeOutOfSync
  <2> QED
    BY <2>1, <2>2 DEF ReadInv, Write, Breaks, LoseWires, wireVars
<1>5. ASSUME NEW ch \in Channels, Subscribe(ch) \/ Unsubscribe(ch) PROVE ReadInv'
  <2>1. UNCHANGED <<inHand, pending>>
    BY <1>5 DEF Subscribe, Unsubscribe, readVars
  <2>2. PICK frames : Write(frames)
    BY <1>5 DEF Subscribe, Unsubscribe
  <2> QED
    BY <2>1, <2>2 DEF ReadInv, Write, Breaks, LoseWires, wireVars
<1>6. ASSUME NEW ch \in Channels, Publish(ch) \/ Trim(ch) PROVE ReadInv'
  BY <1>6 DEF ReadInv, Publish, Trim, wireVars, readVars
<1>7. CASE ServerSubscribes \/ ServerUnsubscribes
  <2>1. conn = "open" /\ UNCHANGED <<conn, inHand, pending>>
    BY <1>7 DEF ReadInv, ServerSubscribes, ServerUnsubscribes, readVars
  <2> QED
    BY <2>1 DEF ReadInv
<1>8. ASSUME NEW name, FallBehind(name) PROVE ReadInv'
  <2>1. conn = "open" /\ UNCHANGED <<conn, inHand, pending>>
    BY <1>8 DEF ReadInv, FallBehind, readVars
  <2> QED
    BY <2>1 DEF ReadInv
<1>9. CASE UNCHANGED vars
  BY <1>9 DEF ReadInv, vars, serverVars, wireVars, readVars
<1> QED
  BY <1>1, <1>2, <1>3, <1>4, <1>5, <1>6, <1>7, <1>8, <1>9 DEF Next, Reader, Decode, Server

LEMMA StutterKeeps ==
    ASSUME SubType, SubInv, UNCHANGED vars, NEW ch \in Channels PROVE ChannelInv(ch)'
<1>1. UNCHANGED <<head, live, toServer, toClient, conn, subs, cursors, view, pending, inHand>>
  BY DEF vars, serverVars, wireVars, clientVars, readVars
<1>2. (Current(ch)' <=> Current(ch)) /\ (IsPending(ch)' <=> IsPending(ch))
  BY <1>1 DEF Current, IsPending
<1>3. Places' = Places /\ \A i : At(i)' = At(i)
  BY <1>1 DEF Places, At
<1>4. HeldInv(ch) /\ ChainInv(ch) /\ GrowInv(ch) /\ EdgeInv(ch) /\ AskInv(ch) /\ ReadInv
  BY DEF SubInv, ChannelInv
<1>5. ChainInv(ch)' /\ GrowInv(ch)' /\ EdgeInv(ch)' /\ (Silent(ch)' <=> Silent(ch))
  BY <1>1, <1>2, <1>4, SameKeeps
<1>6. AskInv(ch)'
  BY <1>1, <1>2, <1>3, <1>4, <1>5, AskStays
<1>7. HeldInv(ch)'
  BY <1>1, <1>2, <1>4 DEF HeldInv
<1> QED
  BY <1>5, <1>6, <1>7 DEF ChannelInv

LEMMA SubInvHolds ==
    ASSUME ~RereadAtOnce, ~Redundant PROVE Spec => [](SubType /\ SubInv)
<1>1. Init => SubType /\ SubInv
  BY StartInv
<1>2. ASSUME SubType, SubInv, [Next]_vars PROVE SubType' /\ SubInv'
  <2>1. SubType'
    BY <1>2, TypeKept DEF SubInv, ChannelInv
  <2>2. ReadInv'
    BY <1>2, ReadInvKept DEF SubInv
  <2>3. ASSUME NEW ch \in Channels PROVE ChannelInv(ch)'
    <3>1. CASE Reader
      BY <1>2, <3>1, ReadFrameKeeps, EndKeeps, ReconnectKeeps, PopPendingKeeps, SeqDecodedKeeps, OtherDecodedKeeps,
         LossDecodedKeeps DEF Reader, Decode
    <3>2. CASE CtxDone \/ Close \/ Drop
      BY <1>2, <3>2, EndKeeps
    <3>3. CASE Server
      BY <1>2, <3>3, SubscribedKeeps, ByeKeeps DEF Server
    <3>4. CASE \E d \in Channels : Subscribe(d) \/ Unsubscribe(d) \/ Publish(d) \/ Trim(d)
      BY <1>2, <3>4, CallKeeps, PublishKeeps, TrimKeeps
    <3>5. CASE \E name \in {NameOf[d] : d \in Channels} : FallBehind(name)
      BY <1>2, <3>5, FallBehindKeeps
    <3>6. CASE UNCHANGED vars
      BY <1>2, <3>6, StutterKeeps
    <3> QED
      BY <1>2, <3>1, <3>2, <3>3, <3>4, <3>5, <3>6 DEF Next
  <2> QED
    BY <2>1, <2>2, <2>3 DEF SubInv
<1> QED
  BY <1>1, <1>2, PTL DEF Spec

\* Every variable keeps its type, and no cursor or view is beyond what was published.
THEOREM SubTypeCorrect == ASSUME ~RereadAtOnce, ~Redundant PROVE Spec => []TypeOK
<1>1. ASSUME SubType, SubInv PROVE TypeOK
  <2> USE <1>1
  <2>1. \A ch \in Channels : head[ch] \in Seqs /\ oldest[ch] \in 1..(MaxSeq + 1)
    BY SubscriptionAssumption DEF SubscriptionAssumption, SubType, Seqs
  <2>2. \A ch \in Channels : cursors[ch] \in Seqs \cup {None} /\ view[ch] \in Seqs \cup {None}
    <3> SUFFICES ASSUME NEW ch \in Channels PROVE cursors[ch] \in Seqs \cup {None} /\ view[ch] \in Seqs \cup {None}
        OBVIOUS
    <3>1. cursors[ch] <= head[ch] /\ view[ch] <= head[ch] /\ head[ch] <= MaxSeq /\ MaxSeq \in Nat
      BY SubscriptionAssumption DEF SubscriptionAssumption, SubInv, ChannelInv, HeldInv, SubType
    <3>2. head[ch] \in Nat /\ cursors[ch] \in Nat \cup {None} /\ view[ch] \in Nat \cup {None}
      BY DEF SubType
    <3> QED
      BY <3>1, <3>2 DEF Seqs
  <2>3. head \in [Channels -> Seqs] /\ oldest \in [Channels -> 1..(MaxSeq + 1)]
    BY <2>1 DEF SubType
  <2>4. cursors \in [Channels -> Seqs \cup {None}] /\ view \in [Channels -> Seqs \cup {None}]
    BY <2>2 DEF SubType
  <2>5. inHand.op \in {"none", "subscribed", "unsubscribed", "event", "out_of_sync", "error"}
    BY DEF SubType, Answers, Acks, Events, Byes, Losses, ErrorFrame, NoFrame
  <2> QED
    BY <2>3, <2>4, <2>5 DEF SubType, TypeOK
<1> QED
  BY <1>1, SubInvHolds, PTL

\* advance and resync (ws.go:356-388): no cursor is ahead of what the application was given.
THEOREM CursorsStayBehind == ASSUME ~RereadAtOnce, ~Redundant PROVE Spec => []CursorNotAhead
<1>1. ASSUME SubType, SubInv PROVE CursorNotAhead
  <2> SUFFICES ASSUME NEW ch \in subs, view[ch] # None PROVE cursors[ch] <= view[ch]
      BY DEF CursorNotAhead
  <2>1. ch \in Channels /\ view[ch] \in Nat
    BY <1>1 DEF SubType
  <2>2. CASE IsPending(ch)
    BY <1>1, <2>1, <2>2 DEF SubInv, ChannelInv, HeldInv, None
  <2>3. CASE ~IsPending(ch)
    BY <1>1, <2>1, <2>3 DEF SubInv, ChannelInv, HeldInv, Current
  <2> QED
    BY <2>2, <2>3
<1> QED
  BY <1>1, SubInvHolds, PTL

\* What an application that is current is given next is the event after the last.
LEMMA NextEvent ==
    ASSUME SubType, SubInv, DecodeEvent, view[inHand.ch] # None
    PROVE  inHand.seq = view[inHand.ch] + 1 /\ view[inHand.ch] \in Nat
<1>1. inHand.ch \in Channels
  BY InHandTypes DEF DecodeEvent
<1>2. Numbered(inHand, inHand.ch)
  BY DEF Numbered, DecodeEvent
<1> QED
  BY <1>1, <1>2, SeqInHand DEF Follows, DecodeEvent, SubType

\* ws.go:114-121: over drops, resumes, resyncs and calls, no application that is current misses an event.
THEOREM NothingIsSkipped == ASSUME ~RereadAtOnce, ~Redundant PROVE Spec => NoSilentGap
<1>1. ASSUME SubType, SubInv, DecodeEvent, view[inHand.ch] # None PROVE inHand.seq <= view[inHand.ch] + 1
  BY <1>1, NextEvent
<1>2. SubType /\ SubInv => [DecodeEvent /\ view[inHand.ch] # None => inHand.seq <= view[inHand.ch] + 1]_vars
  BY <1>1
<1> QED
  BY <1>2, SubInvHolds, PTL DEF NoSilentGap

\* ws.go:154-155: nor is it given one twice.
THEOREM NothingIsRepeated == ASSUME ~RereadAtOnce, ~Redundant PROVE Spec => SeqIncreases
<1>1. ASSUME SubType, SubInv, DecodeEvent, view[inHand.ch] # None PROVE view[inHand.ch] < inHand.seq
  BY <1>1, NextEvent
<1>2. SubType /\ SubInv => [DecodeEvent /\ view[inHand.ch] # None => view[inHand.ch] < inHand.seq]_vars
  BY <1>1
<1> QED
  BY <1>2, SubInvHolds, PTL DEF SeqIncreases
===============================================================================
