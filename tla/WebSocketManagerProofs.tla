----------------------- MODULE WebSocketManagerProofs -----------------------
(***************************************************************************)
(* Theorems about WebSocketManager.tla, for every value of its constants:  *)
(* any connections, limits, capacity and log, one server or Redis.         *)
(***************************************************************************)
EXTENDS WebSocketManager, FiniteSetTheorems, SequenceTheorems, WellFoundedInduction,
        NaturalsInduction, TLAPS

Places == {"new", "insert", "look", "start", "greet", "run", "retain", "remove", "unsubscribe",
           "closed"}

Sock == [at : Places, queue : Seq(Item), kill : BOOLEAN, ended : {"none", "send", "receive"},
         job : {"none", "watermark", "data", "stream", "done"}, flag : BOOLEAN,
         watermark : Nat, rows : SUBSET Nat, got : SUBSET Nat, cursor : Nat, missed : SUBSET Nat]

Task == [state : {"none", "starting", "on"}, inbox : Seq(Frames)]

-----------------------------------------------------------------------------
(***************************************************************************)
(* The inductive invariant.  First, what is so of each socket by itself.   *)
(***************************************************************************)

\* The entries that the first m items of a queue bring.
Brings(item)  == item.kind \in {"live", "row"}
Carried(q, m) == {q[i].n : i \in {j \in 1..m : Brings(q[j])}}

\* Nothing tells of an entry that is not in the log, which has n.
ItemFits(item, n) == item.n <= n /\ (Brings(item) => item.n # 0)

Fits(s, n) ==
  /\ Len(s.queue) <= Capacity
  /\ \A j \in 1..Len(s.queue) : ItemFits(s.queue[j], n)
  /\ s.rows \cup s.got \cup s.missed \subseteq 1..n
  /\ s.cursor <= n /\ s.watermark <= n

\* The client has what its cursor covers; in front of a SyncComplete is what its
\* watermark covers; and while a stream runs, that is on the way or will be.
Promised(s) ==
  /\ 1..s.cursor \subseteq s.got
  /\ \A j \in 1..Len(s.queue) :
       s.queue[j].kind = "complete" => 1..s.queue[j].n \subseteq s.got \cup Carried(s.queue, j - 1)
  /\ s.job = "stream" /\ s.ended # "send" =>
       1..s.watermark \subseteq s.got \cup Carried(s.queue, Len(s.queue)) \cup s.rows
  /\ s.at \in {"new", "insert"} => s.queue = <<>>

SocksOK == \A c \in Conns : Fits(sock[c], log) /\ Promised(sock[c])

\* Then the registry: who is in it is being driven, or just stopped.
Driven == {"look", "start", "greet", "run"}

RegistryOK ==
  /\ \A c \in registered : sock[c].at \in Driven \cup {"retain"}
  /\ \A c \in Conns : sock[c].ended # "none" \/ sock[c].job # "none" => sock[c].at = "run"

Types ==
  /\ mode \in Modes /\ limit \in Limits
  /\ log \in 0..MaxFrames /\ due \subseteq 1..log
  /\ registered \subseteq Conns /\ present \in BOOLEAN
  /\ IsFiniteSet(registered)
  /\ subscriber \in Conns \cup {NoTask}
  /\ tasks \in [Conns -> Task]
  /\ \A t \in Conns : \A j \in 1..Len(tasks[t].inbox) : tasks[t].inbox[j] <= log
  /\ sock \in [Conns -> Sock]

\* Last, what needs connects and disconnects of the user to take turns.
Busy(c) == Connecting(c) \/ Disconnecting(c)

Turns == \A c, d \in Conns : Busy(c) /\ Busy(d) => c = d

Within ==
  /\ Cardinality(registered) <= limit
  /\ \A c \in Conns : sock[c].at = "insert" => Cardinality(registered) < limit

\* The entry of the map is there from the first connection until the last has
\* left, and with it the task: between the two a handler is at work.
Entered ==
  /\ registered # {} => present
  /\ present => \E c \in Conns : sock[c].at \in Driven \cup {"retain", "remove"}
  /\ \A c \in Conns : /\ sock[c].at = "unsubscribe" => ~present
                      /\ sock[c].at \in {"look", "start"} => present

Tasked ==
  /\ subscriber # NoTask \/ (\E c \in Conns : sock[c].at \in {"look", "start"}) => mode = "redis"
  /\ subscriber # NoTask => tasks[subscriber].state # "none"
  /\ \A t \in Conns : tasks[t].state # "none" => t = subscriber
  /\ present /\ mode = "redis" =>
       subscriber # NoTask \/ \E c \in Conns : sock[c].at \in {"look", "start"}
  /\ subscriber # NoTask => present \/ \E c \in Conns : sock[c].at = "unsubscribe"
  /\ \A c \in Conns : sock[c].at = "start" => subscriber = NoTask

InTurn == "churn" \notin Races => Turns /\ Within /\ Entered /\ Tasked

Inv == Types /\ SocksOK /\ RegistryOK /\ NoDeafSocket /\ InTurn

-----------------------------------------------------------------------------
(***************************************************************************)
(* Queues.                                                                 *)
(***************************************************************************)

\* What is appended brings itself, and changes nothing about what is before it.
LEMMA CarriedAppend ==
  ASSUME NEW q \in Seq(Item), NEW e \in Item
  PROVE  /\ \A m \in 0..Len(q) : Carried(Append(q, e), m) = Carried(q, m)
         /\ Carried(q, Len(q)) \subseteq Carried(Append(q, e), Len(q) + 1)
         /\ Brings(e) => e.n \in Carried(Append(q, e), Len(q) + 1)
<1>1. /\ Len(q) \in Nat /\ Append(q, e)[Len(q) + 1] = e
      /\ \A j \in 1..Len(q) : Append(q, e)[j] = q[j]
  BY AppendProperties
<1>2. \A m \in 0..Len(q) : Carried(Append(q, e), m) = Carried(q, m)
  BY <1>1 DEF Carried
<1>3. Carried(q, Len(q)) \subseteq Carried(Append(q, e), Len(q) + 1)
  BY <1>1 DEF Carried
<1>4. Brings(e) => e.n \in Carried(Append(q, e), Len(q) + 1)
  BY <1>1 DEF Carried
<1>5. QED
  BY <1>2, <1>3, <1>4

\* What is taken off the front brings itself; the others move up.
LEMMA CarriedTail ==
  ASSUME NEW q \in Seq(Item), q # <<>>, NEW m \in 1..Len(q), NEW x \in Carried(q, m)
  PROVE  x \in Carried(Tail(q), m - 1) \/ (Brings(Head(q)) /\ x = Head(q).n)
<1>1. /\ Len(q) \in Nat \ {0} /\ Len(Tail(q)) = Len(q) - 1
      /\ \A i \in 1..Len(Tail(q)) : Tail(q)[i] = q[i + 1]
      /\ Head(q) = q[1]
  BY HeadTailProperties, EmptySeq
<1>2. PICK i \in 1..m : Brings(q[i]) /\ x = q[i].n
  BY DEF Carried
<1>3. CASE i = 1
  BY <1>1, <1>2, <1>3
<1>4. CASE i # 1
  <2>1. i - 1 \in 1..(m - 1) /\ i - 1 \in 1..Len(Tail(q)) /\ (i - 1) + 1 = i
    BY <1>1, <1>4
  <2>2. Tail(q)[i - 1] = q[i]
    BY <1>1, <2>1
  <2>3. QED
    BY <1>2, <2>1, <2>2 DEF Carried
<1>5. QED
  BY <1>3, <1>4

-----------------------------------------------------------------------------
(***************************************************************************)
(* One socket: what its tasks do to it keeps what is so of it.             *)
(***************************************************************************)
OK(s, n) == s \in Sock /\ Fits(s, n) /\ Promised(s)

\* An item may go on a queue that has room, if no SyncComplete claims what is not
\* on the way.
LEMMA Queued ==
  ASSUME NEW n \in Nat, NEW s, OK(s, n), s.at \notin {"new", "insert"}, Len(s.queue) < Capacity,
         NEW e \in Item, ItemFits(e, n),
         e.kind = "complete" => 1..e.n \subseteq s.got \cup Carried(s.queue, Len(s.queue))
  PROVE  OK([s EXCEPT !.queue = Append(@, e)], n)
<1> DEFINE q == s.queue
           t == [s EXCEPT !.queue = Append(@, e)]
<1>0. q \in Seq(Item) /\ Len(q) \in Nat /\ Append(q, e) \in Seq(Item)
  BY AppendProperties DEF OK, Sock
<1> DEFINE u == Append(q, e)
<1> HIDE DEF u
<1>q. t = [s EXCEPT !.queue = u]
  BY DEF u
<1>1. /\ q \in Seq(Item) /\ Len(q) \in Nat /\ t \in Sock /\ t.queue = Append(q, e)
      /\ t.got = s.got /\ t.rows = s.rows /\ t.missed = s.missed /\ t.cursor = s.cursor
      /\ t.watermark = s.watermark /\ t.job = s.job /\ t.ended = s.ended /\ t.at = s.at
  BY <1>0, <1>q DEF OK, Sock, u
<1>2. /\ Len(Append(q, e)) = Len(q) + 1 /\ Append(q, e)[Len(q) + 1] = e
      /\ \A j \in 1..Len(q) : Append(q, e)[j] = q[j]
  BY <1>1, AppendProperties
<1>3. /\ \A m \in 0..Len(q) : Carried(Append(q, e), m) = Carried(q, m)
      /\ Carried(q, Len(q)) \subseteq Carried(Append(q, e), Len(q) + 1)
  BY <1>1, CarriedAppend
<1> HIDE DEF t, q
<1>4. Fits(t, n)
  <2>1. Len(q) < Capacity /\ Capacity \in Nat
    BY WebSocketManagerAssumption DEF q
  <2>2. \A j \in 1..(Len(q) + 1) : j = Len(q) + 1 \/ j \in 1..Len(q)
    BY <1>1
  <2>3. \A j \in 1..Len(t.queue) : ItemFits(t.queue[j], n)
    BY <1>1, <1>2, <2>2 DEF OK, Fits, q
  <2>4. QED
    BY <1>1, <1>2, <2>1, <2>3 DEF OK, Fits
<1>5. Promised(t)
  <2>1. ASSUME NEW j \in 1..Len(t.queue), t.queue[j].kind = "complete"
        PROVE  1..t.queue[j].n \subseteq t.got \cup Carried(t.queue, j - 1)
    <3>1. CASE j = Len(q) + 1
      <4>1. Carried(t.queue, j - 1) = Carried(q, Len(q))
        BY <1>1, <1>3, <3>1
      <4>2. QED
        BY <1>1, <1>2, <2>1, <3>1, <4>1 DEF q
    <3>2. CASE j # Len(q) + 1
      <4>1. j \in 1..Len(q) /\ j - 1 \in 0..Len(q)
        BY <1>1, <1>2, <3>2
      <4>2. t.queue[j] = q[j] /\ Carried(t.queue, j - 1) = Carried(q, j - 1)
        BY <1>1, <1>2, <1>3, <4>1
      <4>3. QED
        BY <1>1, <2>1, <4>1, <4>2 DEF OK, Promised, q
    <3>3. QED
      BY <3>1, <3>2
  <2>2. t.job = "stream" /\ t.ended # "send" =>
          1..t.watermark \subseteq t.got \cup Carried(t.queue, Len(t.queue)) \cup t.rows
    BY <1>1, <1>2, <1>3 DEF OK, Promised, q
  <2>3. QED
    BY <1>1, <2>1, <2>2 DEF OK, Promised
<1>6. QED
  BY <1>1, <1>4, <1>5 DEF OK, t

\* The client takes the next item: a SyncComplete at the front covers only what
\* the client has.
LEMMA Taken ==
  ASSUME NEW n \in Nat, NEW s, OK(s, n), s.at = "run", s.queue # <<>>
  PROVE  OK([Take(s, Head(s.queue)) EXCEPT !.queue = Tail(@)], n)
<1> DEFINE q == s.queue
           e == Head(q)
           t == [Take(s, e) EXCEPT !.queue = Tail(@)]
<1>1. /\ q \in Seq(Item) /\ Len(q) \in Nat \ {0} /\ Len(Tail(q)) = Len(q) - 1 /\ Tail(q) \in Seq(Item)
      /\ \A j \in 1..Len(Tail(q)) : Tail(q)[j] = q[j + 1]
      /\ e \in Item /\ e = q[1]
  BY HeadTailProperties, EmptySeq DEF OK, Sock
<1>2. /\ ItemFits(e, n)
      /\ e.kind = "complete" => 1..e.n \subseteq s.got
  <2>1. 1 \in 1..Len(q) /\ Carried(q, 0) = {}
    BY <1>1 DEF Carried
  <2>2. QED
    BY <1>1, <2>1 DEF OK, Fits, Promised
<1>3. /\ t \in Sock /\ t.queue = Tail(q)
      /\ t.rows = s.rows /\ t.missed = s.missed
      /\ t.watermark = s.watermark /\ t.job = s.job /\ t.ended = s.ended /\ t.at = s.at
      /\ t.got = IF Brings(e) THEN s.got \cup {e.n} ELSE s.got
      /\ t.cursor = IF e.kind = "complete" THEN e.n ELSE s.cursor
  <2>1. /\ Tail(q) \in Seq(Item) /\ e.n \in Nat
        /\ e.kind \in {"live", "row", "complete", "beat"}
    BY <1>1 DEF Item
  <2> DEFINE rest == Tail(q)
  <2> HIDE DEF rest, e
  <2>2. rest \in Seq(Item) /\ t = [Take(s, e) EXCEPT !.queue = rest]
    <3>1. Take(s, e).queue = q
      BY DEF Take, OK, Sock
    <3>2. QED
      BY <2>1, <3>1 DEF rest
  <2>3. CASE Brings(e)
    BY <2>1, <2>2, <2>3 DEF Take, Brings, OK, Sock, rest
  <2>4. CASE ~Brings(e)
    BY <2>1, <2>2, <2>4 DEF Take, Brings, OK, Sock, rest
  <2>5. QED
    BY <2>3, <2>4
<1> HIDE DEF t, e
<1>4. \A m \in 1..Len(q) : Carried(q, m) \subseteq t.got \cup Carried(Tail(q), m - 1)
  BY <1>1, <1>3, CarriedTail DEF e, q
<1>5. Fits(t, n)
  <2>1. Len(Tail(q)) <= Capacity
    <3>1. Len(q) <= Capacity /\ Capacity \in Nat
      BY WebSocketManagerAssumption DEF OK, Fits
    <3>2. QED
      BY <1>1, <3>1
  <2>2. ASSUME NEW j \in 1..Len(Tail(q)) PROVE ItemFits(Tail(q)[j], n)
    <3>1. j + 1 \in 1..Len(q) /\ Tail(q)[j] = q[j + 1]
      BY <1>1
    <3>2. QED
      BY <3>1 DEF OK, Fits
  <2>3. t.got \subseteq 1..n /\ t.cursor <= n
    BY <1>1, <1>2, <1>3 DEF OK, Fits, ItemFits, Item, Brings
  <2>4. QED
    BY <1>3, <2>1, <2>2, <2>3 DEF OK, Fits
<1>6. Promised(t)
  <2>1. 1..t.cursor \subseteq t.got /\ s.got \subseteq t.got
    BY <1>2, <1>3 DEF OK, Promised, Brings
  <2>2. ASSUME NEW j \in 1..Len(Tail(q)), Tail(q)[j].kind = "complete"
        PROVE  1..Tail(q)[j].n \subseteq t.got \cup Carried(Tail(q), j - 1)
    <3>1. j + 1 \in 1..Len(q) /\ j \in 1..Len(q) /\ (j + 1) - 1 = j
      BY <1>1
    <3>2. 1..q[j + 1].n \subseteq s.got \cup Carried(q, j)
      BY <1>1, <2>2, <3>1 DEF OK, Promised
    <3>3. QED
      BY <1>1, <1>4, <2>1, <3>1, <3>2
  <2>3. s.job = "stream" /\ s.ended # "send" =>
          1..s.watermark \subseteq t.got \cup Carried(Tail(q), Len(Tail(q))) \cup s.rows
    BY <1>1, <1>4, <2>1 DEF OK, Promised
  <2>4. QED
    BY <1>3, <2>1, <2>2, <2>3 DEF OK, Promised
<1>7. QED
  BY <1>3, <1>5, <1>6 DEF OK, t, e

\* A new socket has promised nothing.
LEMMA Blank ==
  ASSUME NEW n \in Nat, NEW place \in Places
  PROVE  OK([NewSock EXCEPT !.at = place], n)
<1> DEFINE t == [NewSock EXCEPT !.at = place]
<1>1. /\ t \in Sock /\ t.queue = <<>> /\ t.rows = {} /\ t.got = {} /\ t.missed = {}
      /\ t.cursor = 0 /\ t.watermark = 0 /\ t.job = "none"
  <2>1. <<>> \in Seq(Item)
    OBVIOUS
  <2>2. QED
    BY <2>1 DEF NewSock, Sock
<1> HIDE DEF t
<1>2. Len(t.queue) = 0 /\ 1..0 = {} /\ 0 <= Capacity
  BY <1>1, WebSocketManagerAssumption
<1>3. QED
  BY <1>1, <1>2 DEF OK, Fits, Promised, t

\* A row that goes on the queue is one less to stream; when there is none left,
\* all that the watermark covers is there or on the way.
LEMMA Streamed ==
  ASSUME NEW n \in Nat, NEW s, OK(s, n), s.at = "run", s.job = "stream", s.ended # "send",
         Len(s.queue) < Capacity, n <= MaxFrames
  PROVE  /\ \A f \in s.rows : OK([s EXCEPT !.queue = Append(@, Row(f)), !.rows = @ \ {f}], n)
         /\ s.rows = {} =>
              OK([s EXCEPT !.queue = Append(@, Done(s.watermark)), !.watermark = 0, !.job = "done",
                           !.flag = FALSE], n)
<1>0. s.queue \in Seq(Item) /\ Len(s.queue) \in Nat /\ s \in Sock /\ MaxFrames \in Nat
  BY WebSocketManagerAssumption DEF OK, Sock
<1>1. ASSUME NEW f \in s.rows
      PROVE  OK([s EXCEPT !.queue = Append(@, Row(f)), !.rows = @ \ {f}], n)
  <2> DEFINE u == [s EXCEPT !.queue = Append(@, Row(f))]
             t == [s EXCEPT !.queue = Append(@, Row(f)), !.rows = @ \ {f}]
  <2>1. f \in 1..n /\ Row(f) \in Item /\ ItemFits(Row(f), n) /\ Row(f).kind # "complete"
    BY <1>0 DEF OK, Fits, Row, Item, ItemFits
  <2>2. OK(u, n)
    BY <2>1, Queued
  <2>3. u \in Sock /\ t = [u EXCEPT !.rows = s.rows \ {f}] /\ u.queue = Append(s.queue, Row(f))
    BY <1>0, <2>2 DEF OK, Sock
  <2>4. /\ u.rows = s.rows /\ u.got = s.got /\ u.watermark = s.watermark /\ u.job = s.job
        /\ u.ended = s.ended /\ u.at = s.at
    BY <1>0 DEF Sock
  <2>5. f \in Carried(u.queue, Len(u.queue))
    <3>1. Len(u.queue) = Len(s.queue) + 1 /\ Brings(Row(f)) /\ Row(f).n = f
      BY <1>0, <2>1, <2>3, AppendProperties DEF Row, Brings
    <3>2. QED
      BY <1>0, <2>1, <2>3, <3>1, CarriedAppend
  <2> HIDE DEF u
  <2>6. /\ t \in Sock /\ t.queue = u.queue /\ t.got = u.got /\ t.rows = s.rows \ {f}
        /\ t.missed = u.missed /\ t.cursor = u.cursor /\ t.watermark = u.watermark
        /\ t.job = u.job /\ t.ended = u.ended /\ t.at = u.at
    BY <1>0, <2>3 DEF Sock
  <2> HIDE DEF t
  <2>7. QED
    BY <2>2, <2>4, <2>5, <2>6 DEF OK, Fits, Promised, t
<1>2. ASSUME s.rows = {}
      PROVE  OK([s EXCEPT !.queue = Append(@, Done(s.watermark)), !.watermark = 0, !.job = "done",
                          !.flag = FALSE], n)
  <2> DEFINE w == s.watermark
             u == [s EXCEPT !.queue = Append(@, Done(w))]
             t == [s EXCEPT !.queue = Append(@, Done(w)), !.watermark = 0, !.job = "done",
                            !.flag = FALSE]
  <2>1. w \in Nat /\ w <= n /\ 1..w \subseteq s.got \cup Carried(s.queue, Len(s.queue))
    BY <1>0, <1>2 DEF OK, Fits, Promised, Sock
  <2>2. Done(w) \in Item /\ ItemFits(Done(w), n) /\ Done(w).n = w
    BY <1>0, <2>1 DEF Done, Item, ItemFits, Brings
  <2>3. OK(u, n)
    BY <2>1, <2>2, Queued
  <2>4. t = [u EXCEPT !.watermark = 0, !.job = "done", !.flag = FALSE]
    BY <1>0 DEF Sock
  <2> HIDE DEF u
  <2>5. /\ t \in Sock /\ t.queue = u.queue /\ t.got = u.got /\ t.rows = u.rows
        /\ t.missed = u.missed /\ t.cursor = u.cursor /\ t.watermark = 0
        /\ t.job = "done" /\ t.ended = u.ended /\ t.at = u.at
    BY <2>3, <2>4 DEF OK, Sock
  <2> HIDE DEF t
  <2>6. Fits(t, n)
    BY <2>3, <2>5 DEF OK, Fits
  <2>7. Promised(t)
    BY <2>3, <2>5 DEF OK, Promised
  <2>8. QED
    BY <2>5, <2>6, <2>7 DEF OK, t
<1>3. QED
  BY <1>1, <1>2

\* The end of a task loses nothing that was promised: without a send task there
\* is no client to promise to.
LEMMA Ending ==
  ASSUME NEW n \in Nat, NEW s, OK(s, n), s.at = "run"
  PROVE  /\ OK([s EXCEPT !.ended = "send", !.queue = <<>>], n)
         /\ OK([s EXCEPT !.ended = "receive", !.job = "done", !.flag = FALSE], n)
         /\ OK([s EXCEPT !.job = "done", !.flag = FALSE], n)
<1>1. s \in Sock /\ <<>> \in Seq(Item) /\ 0 <= Capacity /\ Len(<<>>) = 0
  BY WebSocketManagerAssumption DEF OK
<1>2. OK([s EXCEPT !.ended = "send", !.queue = <<>>], n)
  <2> DEFINE t == [s EXCEPT !.ended = "send", !.queue = <<>>]
  <2>1. /\ t \in Sock /\ t.queue = <<>> /\ t.got = s.got /\ t.rows = s.rows
        /\ t.missed = s.missed /\ t.cursor = s.cursor /\ t.watermark = s.watermark
        /\ t.ended = "send" /\ t.at = s.at
    BY <1>1 DEF Sock
  <2> HIDE DEF t
  <2>2. QED
    BY <1>1, <2>1 DEF OK, Fits, Promised, t
<1>3. ASSUME NEW task \in {"receive", s.ended}
      PROVE  OK([s EXCEPT !.ended = task, !.job = "done", !.flag = FALSE], n)
  <2> DEFINE t == [s EXCEPT !.ended = task, !.job = "done", !.flag = FALSE]
  <2>1. /\ t \in Sock /\ t.queue = s.queue /\ t.got = s.got /\ t.rows = s.rows
        /\ t.missed = s.missed /\ t.cursor = s.cursor /\ t.watermark = s.watermark
        /\ t.job = "done" /\ t.at = s.at
    BY <1>1 DEF Sock
  <2> HIDE DEF t
  <2>2. QED
    BY <2>1 DEF OK, Fits, Promised, t
<1>4. [s EXCEPT !.job = "done", !.flag = FALSE]
        = [s EXCEPT !.ended = s.ended, !.job = "done", !.flag = FALSE]
  BY <1>1 DEF Sock
<1>5. QED
  BY <1>2, <1>3, <1>4

\* A catch-up that begins takes for its watermark what the log holds, and will
\* stream all of that, or all that is above the cursor.
LEMMA Begun ==
  ASSUME NEW n \in Nat, NEW s, OK(s, n), s.at = "run"
  PROVE  /\ OK([s EXCEPT !.flag = TRUE, !.job = "watermark"], n)
         /\ OK([s EXCEPT !.watermark = n, !.job = "data"], n)
         /\ OK([s EXCEPT !.watermark = n, !.job = "stream", !.rows = (s.cursor + 1)..n], n)
         /\ OK([s EXCEPT !.job = "stream", !.rows = 1..n], n)
<1>1. s \in Sock /\ s.cursor \in Nat /\ s.watermark \in Nat
  BY DEF OK, Sock
<1>2. /\ (s.cursor + 1)..n \subseteq 1..n /\ (s.cursor + 1)..n \in SUBSET Nat
      /\ 1..n \subseteq s.got \cup ((s.cursor + 1)..n)
  BY <1>1 DEF OK, Promised
<1>3. OK([s EXCEPT !.flag = TRUE, !.job = "watermark"], n)
  <2> DEFINE t == [s EXCEPT !.flag = TRUE, !.job = "watermark"]
  <2>1. /\ t \in Sock /\ t.queue = s.queue /\ t.got = s.got /\ t.rows = s.rows
        /\ t.missed = s.missed /\ t.cursor = s.cursor /\ t.watermark = s.watermark
        /\ t.job = "watermark" /\ t.at = s.at
    BY <1>1 DEF Sock
  <2> HIDE DEF t
  <2>2. QED
    BY <2>1 DEF OK, Fits, Promised, t
<1>4. OK([s EXCEPT !.watermark = n, !.job = "data"], n)
  <2> DEFINE t == [s EXCEPT !.watermark = n, !.job = "data"]
  <2>1. /\ t \in Sock /\ t.queue = s.queue /\ t.got = s.got /\ t.rows = s.rows
        /\ t.missed = s.missed /\ t.cursor = s.cursor /\ t.watermark = n
        /\ t.job = "data" /\ t.at = s.at
    BY <1>1 DEF Sock
  <2> HIDE DEF t
  <2>2. QED
    BY <2>1 DEF OK, Fits, Promised, t
<1>5. OK([s EXCEPT !.watermark = n, !.job = "stream", !.rows = (s.cursor + 1)..n], n)
  <2> DEFINE R == (s.cursor + 1)..n
             t == [s EXCEPT !.watermark = n, !.job = "stream", !.rows = R]
  <2> HIDE DEF R
  <2>1. /\ t \in Sock /\ t.queue = s.queue /\ t.got = s.got /\ t.rows = R
        /\ t.missed = s.missed /\ t.cursor = s.cursor /\ t.watermark = n /\ t.at = s.at
    BY <1>1, <1>2 DEF Sock, R
  <2> HIDE DEF t
  <2>2. QED
    BY <1>2, <2>1 DEF OK, Fits, Promised, t, R
<1>6. OK([s EXCEPT !.job = "stream", !.rows = 1..n], n)
  <2> DEFINE R == 1..n
             t == [s EXCEPT !.job = "stream", !.rows = R]
  <2> HIDE DEF R
  <2>1. /\ t \in Sock /\ t.queue = s.queue /\ t.got = s.got /\ t.rows = R
        /\ t.missed = s.missed /\ t.cursor = s.cursor /\ t.watermark = s.watermark /\ t.at = s.at
    <3>1. R \in SUBSET Nat
      BY DEF R
    <3>2. QED
      BY <1>1, <3>1 DEF Sock
  <2>2. s.watermark <= n
    BY DEF OK, Fits
  <2>3. 1..s.watermark \subseteq R
    BY <1>1, <2>2 DEF R
  <2> HIDE DEF t
  <2>4. QED
    BY <2>1, <2>3 DEF OK, Fits, Promised, t, R
<1>7. QED
  BY <1>3, <1>4, <1>5, <1>6

\* A set of frames has a first one.
LEMMA LeastFrame ==
  ASSUME NEW S, S \subseteq Nat, S # {}
  PROVE  \E g \in S : \A h \in S : g <= h
<1>1. PICK g \in S : \A h \in S : ~ (<<h, g>> \in OpToRel(<, Nat))
  BY NatLessThanWellFounded, WFMin, Zenon
<1>2. \A h \in S : ~(h < g)
  BY <1>1, Zenon DEF OpToRel
<1>3. QED
  BY <1>2

\* Entries that are written later change nothing for a socket.
LEMMA Later ==
  ASSUME NEW n \in Nat, NEW m \in Nat, n <= m, NEW s, OK(s, n)
  PROVE  OK(s, m)
<1>1. s \in Sock
  BY DEF OK
<1>2. /\ 1..n \subseteq 1..m
      /\ \A k \in Nat : k <= n => k <= m
      /\ \A j \in 1..Len(s.queue) : s.queue[j].n \in Nat
  <2>1. \A j \in 1..Len(s.queue) : s.queue[j] \in Item
    BY <1>1 DEF Sock
  <2>2. QED
    BY <2>1 DEF Item
<1>3. Fits(s, m)
  BY <1>1, <1>2 DEF OK, Fits, ItemFits, Sock
<1>4. QED
  BY <1>1, <1>3 DEF OK

\* A frame or a heartbeat for a socket that is registered: it is queued, dropped
\* under a catch-up, or the end of the connection.
LEMMA Offered ==
  ASSUME Types, SocksOK, RegistryOK, NEW c \in Conns, NEW e \in Item, ItemFits(e, log),
         e.kind \in {"live", "beat"}
  PROVE  /\ OK(Offer(c, e), log)
         /\ Offer(c, e).at = sock[c].at /\ Offer(c, e).ended = sock[c].ended
         /\ Offer(c, e).job = sock[c].job
         /\ sock[c].kill => Offer(c, e).kill
         /\ c \in registered /\ Stale(c) => Closed(c) \/ Offer(c, e).kill
<1> DEFINE s == sock[c]
<1>1. s \in Sock /\ OK(s, log) /\ Len(s.queue) \in Nat /\ log \in Nat /\ Capacity \in Nat
  BY WebSocketManagerAssumption DEF Types, SocksOK, OK, Sock
<1> HIDE DEF s
<1>2. CASE c \notin registered \/ Closed(c)
  <2>1. Offer(c, e) = s
    BY <1>2 DEF Offer, s
  <2>2. QED
    BY <1>1, <1>2, <2>1 DEF s
<1>3. CASE ~(c \notin registered \/ Closed(c)) /\ Room(c)
  <2>1. Offer(c, e) = [s EXCEPT !.queue = Append(@, e)]
    BY <1>3 DEF Offer, s
  <2>2. s.at \notin {"new", "insert"} /\ Len(s.queue) < Capacity
    BY <1>3 DEF RegistryOK, Driven, Room, s
  <2>3. OK(Offer(c, e), log)
    BY <1>1, <2>1, <2>2, Queued
  <2>4. ~Stale(c)
    BY <1>3 DEF Stale
  <2>5. QED
    BY <1>1, <2>1, <2>3, <2>4 DEF Sock, s
<1>4. CASE ~(c \notin registered \/ Closed(c)) /\ ~Room(c) /\ s.flag
  <2>1. Offer(c, e) = Drop(s, e)
    BY <1>4 DEF Offer, s
  <2>2. CASE CatchingUp(s) /\ e.kind = "live"
    <3> DEFINE t == [s EXCEPT !.missed = @ \cup {e.n}]
    <3>1. Offer(c, e) = t /\ e.n \in 1..log
      BY <2>1, <2>2 DEF Drop, ItemFits, Item, Brings
    <3>2. /\ t \in Sock /\ t.queue = s.queue /\ t.got = s.got /\ t.rows = s.rows
          /\ t.missed = s.missed \cup {e.n} /\ t.cursor = s.cursor /\ t.watermark = s.watermark
          /\ t.job = s.job /\ t.ended = s.ended /\ t.at = s.at /\ t.kill = s.kill
      BY <1>1, <3>1 DEF Sock
    <3> HIDE DEF t
    <3>3. Fits(t, log) /\ Promised(t)
      BY <1>1, <3>1, <3>2 DEF OK, Fits, Promised
    <3>4. ~Stale(c)
      BY <1>4 DEF Stale, s
    <3>5. QED
      BY <3>1, <3>2, <3>3, <3>4 DEF OK, s
  <2>3. CASE ~(CatchingUp(s) /\ e.kind = "live")
    <3>1. Offer(c, e) = s /\ ~Stale(c)
      BY <1>4, <2>1, <2>3 DEF Drop, Stale, s
    <3>2. QED
      BY <1>1, <3>1 DEF s
  <2>4. QED
    BY <2>2, <2>3
<1>5. CASE ~(c \notin registered \/ Closed(c)) /\ ~Room(c) /\ ~s.flag
  <2> DEFINE t == [s EXCEPT !.kill = TRUE]
  <2>1. Offer(c, e) = t
    BY <1>5 DEF Offer, s
  <2>2. /\ t \in Sock /\ t.queue = s.queue /\ t.got = s.got /\ t.rows = s.rows
        /\ t.missed = s.missed /\ t.cursor = s.cursor /\ t.watermark = s.watermark
        /\ t.job = s.job /\ t.ended = s.ended /\ t.at = s.at /\ t.kill = TRUE
    BY <1>1 DEF Sock
  <2> HIDE DEF t
  <2>3. Fits(t, log) /\ Promised(t)
    BY <1>1, <2>2 DEF OK, Fits, Promised
  <2>4. QED
    BY <2>1, <2>2, <2>3 DEF OK, s
<1>6. QED
  BY <1>2, <1>3, <1>4, <1>5

-----------------------------------------------------------------------------
(***************************************************************************)
(* Steps, by what they do to the sockets.                                  *)
(***************************************************************************)

\* The tasks of a socket change that socket only; it goes on, or stops.
Worked(c, s) ==
  /\ sock' = [sock EXCEPT ![c] = s] /\ OK(s, log)
  /\ sock[c].at = "run" /\ s.at \in {"run", "retain"}
  /\ s.at = "run" => s.kill = sock[c].kill /\ (sock[c].ended # "none" => s.ended # "none")
  /\ s.at = "retain" => Calm(c) /\ s.ended = "none" /\ s.job = "none"
  /\ UNCHANGED <<setting, log, due, Registry>>

LEMMA SocketWorks ==
  ASSUME Inv, NEW c \in Conns, SendNext(c) \/ Break(c) \/ CatchUp(c) \/ Stop(c)
  PROVE  \E s : Worked(c, s)
<1> DEFINE s == sock[c]
<1>1. /\ s \in Sock /\ OK(s, log) /\ log \in Nat /\ log <= MaxFrames
      /\ s.job # "none" => s.at = "run"
  BY WebSocketManagerAssumption DEF Inv, Types, SocksOK, OK, RegistryOK
<1>2. CASE SendNext(c)
  <2> DEFINE t == [Take(s, Head(s.queue)) EXCEPT !.queue = Tail(@)]
  <2>1. sock' = [sock EXCEPT ![c] = t] /\ s.at = "run" /\ s.queue # <<>>
    BY <1>2, Zenon DEF SendNext, Running
  <2>2. OK(t, log)
    BY <1>1, <2>1, Taken
  <2>3. t.at = s.at /\ t.kill = s.kill /\ t.ended = s.ended
    BY <1>1 DEF Take, Sock
  <2> HIDE DEF t
  <2>4. Worked(c, t)
    BY <1>2, <2>1, <2>2, <2>3 DEF SendNext, Worked
  <2>5. QED
    BY <2>4
<1>3. CASE Break(c)
  <2> DEFINE t1 == [s EXCEPT !.ended = "send", !.queue = <<>>]
             t2 == [s EXCEPT !.ended = "receive", !.job = "done", !.flag = FALSE]
  <2>1. /\ sock' = [sock EXCEPT ![c] = t1] \/ sock' = [sock EXCEPT ![c] = t2]
        /\ s.at = "run"
    BY <1>3 DEF Break, Running, Inv, Types
  <2>2. OK(t1, log) /\ OK(t2, log)
    BY <1>1, <2>1, Ending
  <2>3. /\ t1.at = s.at /\ t1.kill = s.kill /\ t1.ended = "send"
        /\ t2.at = s.at /\ t2.kill = s.kill /\ t2.ended = "receive"
    BY <1>1 DEF Sock
  <2> HIDE DEF t1, t2
  <2>4. Worked(c, t1) \/ Worked(c, t2)
    BY <1>3, <2>1, <2>2, <2>3 DEF Break, Worked
  <2>5. QED
    BY <2>4
<1>4. CASE AskCatchUp(c) \/ ReadWatermark(c) \/ ReadData(c)
  <2> DEFINE t1 == [s EXCEPT !.flag = TRUE, !.job = "watermark"]
             t2 == [s EXCEPT !.watermark = log, !.job = "data"]
             t3 == [s EXCEPT !.watermark = log, !.job = "stream", !.rows = (s.cursor + 1)..log]
             t4 == [s EXCEPT !.job = "stream", !.rows = 1..log]
  <2>1. /\ \/ sock' = [sock EXCEPT ![c] = t1] \/ sock' = [sock EXCEPT ![c] = t2]
           \/ sock' = [sock EXCEPT ![c] = t3] \/ sock' = [sock EXCEPT ![c] = t4]
        /\ UNCHANGED <<setting, log, due, Registry>>
    BY <1>4 DEF AskCatchUp, ReadWatermark, ReadData, Inv, Types
  <2>2. s.at = "run"
    BY <1>1, <1>4 DEF AskCatchUp, ReadWatermark, ReadData, Running
  <2>3. OK(t1, log) /\ OK(t2, log) /\ OK(t3, log) /\ OK(t4, log)
    BY <1>1, <2>2, Begun
  <2>4. /\ t1.at = s.at /\ t1.kill = s.kill /\ t1.ended = s.ended
        /\ t2.at = s.at /\ t2.kill = s.kill /\ t2.ended = s.ended
        /\ t3.at = s.at /\ t3.kill = s.kill /\ t3.ended = s.ended
        /\ t4.at = s.at /\ t4.kill = s.kill /\ t4.ended = s.ended
    BY <1>1 DEF Sock
  <2> HIDE DEF t1, t2, t3, t4
  <2>5. Worked(c, t1) \/ Worked(c, t2) \/ Worked(c, t3) \/ Worked(c, t4)
    BY <2>1, <2>2, <2>3, <2>4 DEF Worked
  <2>6. QED
    BY <2>5
<1>5. CASE Stream(c)
  <2>1. s.at = "run" /\ s.job = "stream"
    BY <1>1, <1>5 DEF Stream
  <2>2. CASE Closed(c)
    <3> DEFINE t == [s EXCEPT !.job = "done", !.flag = FALSE]
    <3>1. sock' = [sock EXCEPT ![c] = t] /\ UNCHANGED <<setting, log, due, Registry>>
      BY <1>5, <2>2 DEF Stream, Inv, Types
    <3>2. OK(t, log) /\ t.at = s.at /\ t.kill = s.kill /\ t.ended = s.ended
      BY <1>1, <2>1, Ending DEF Sock
    <3> HIDE DEF t
    <3>3. Worked(c, t)
      BY <2>1, <3>1, <3>2 DEF Worked
    <3>4. QED
      BY <3>3
  <2>3. CASE ~Closed(c)
    <3> DEFINE f  == CHOOSE g \in s.rows : \A h \in s.rows : g <= h
               t1 == [s EXCEPT !.queue = Append(@, Done(s.watermark)), !.watermark = 0,
                               !.job = "done", !.flag = FALSE]
               t2 == [s EXCEPT !.queue = Append(@, Row(f)), !.rows = @ \ {f}]
    <3>1. /\ sock' = [sock EXCEPT ![c] = IF s.rows = {} THEN t1 ELSE t2]
          /\ UNCHANGED <<setting, log, due, Registry>>
          /\ Len(s.queue) < Capacity /\ s.ended # "send"
      BY <1>5, <2>3 DEF Stream, Finish, StreamRow, Room, Closed, Inv, Types
    <3>2. s.rows # {} => f \in s.rows
      <4>1. s.rows \in SUBSET Nat
        BY <1>1 DEF Sock
      <4>2. ASSUME s.rows # {} PROVE \E g \in s.rows : \A h \in s.rows : g <= h
        BY <4>1, <4>2, LeastFrame
      <4>3. QED
        BY <4>2
    <3>3. OK(IF s.rows = {} THEN t1 ELSE t2, log)
      BY <1>1, <2>1, <3>1, <3>2, Streamed
    <3>4. /\ t1.at = s.at /\ t1.kill = s.kill /\ t1.ended = s.ended
          /\ t2.at = s.at /\ t2.kill = s.kill /\ t2.ended = s.ended
      BY <1>1 DEF Sock
    <3> HIDE DEF t1, t2
    <3>5. Worked(c, IF s.rows = {} THEN t1 ELSE t2)
      BY <2>1, <3>1, <3>3, <3>4 DEF Worked
    <3>6. QED
      BY <3>5
  <2>4. QED
    BY <2>2, <2>3
<1>6. CASE Stop(c)
  <2> DEFINE t == [NewSock EXCEPT !.at = "retain"]
  <2>1. sock' = [sock EXCEPT ![c] = t]
    BY <1>6 DEF Stop
  <2>2. OK(t, log) /\ t.at = "retain" /\ t.ended = "none" /\ t.job = "none"
    BY <1>1, Blank DEF Places, NewSock
  <2> HIDE DEF t
  <2>3. Worked(c, t)
    BY <1>6, <2>1, <2>2 DEF Stop, Running, Worked
  <2>4. QED
    BY <2>3
<1>7. QED
  BY <1>2, <1>3, <1>4, <1>5, <1>6 DEF CatchUp

-----------------------------------------------------------------------------
(***************************************************************************)
(* What keeps the invariant.                                               *)
(***************************************************************************)

\* Connections that leave the registry change nothing about whose turn it is.
LEMMA SameTurn ==
  ASSUME Inv, registered' \subseteq registered, UNCHANGED <<mode, limit, present, subscriber>>,
         \A d \in Conns : sock'[d].at = sock[d].at,
         \A t \in Conns : tasks'[t].state = "none" <=> tasks[t].state = "none"
  PROVE  InTurn' /\ IsFiniteSet(registered')
<1>1. /\ IsFiniteSet(registered) /\ subscriber \in Conns \cup {NoTask} /\ limit \in Nat
      /\ InTurn
  BY WebSocketManagerAssumption DEF Inv, Types
<1>2. /\ IsFiniteSet(registered') /\ Cardinality(registered') <= Cardinality(registered)
      /\ Cardinality(registered') \in Nat /\ Cardinality(registered) \in Nat
  BY <1>1, FS_Subset, FS_CardinalityType
<1>3. SUFFICES ASSUME "churn" \notin Races, Turns, Within, Entered, Tasked
               PROVE  Turns' /\ Within' /\ Entered' /\ Tasked'
  BY <1>1, <1>2 DEF InTurn
<1>4. Turns'
  BY <1>3 DEF Turns, Busy, Connecting, Disconnecting
<1>5. Within'
  BY <1>1, <1>2, <1>3 DEF Within
<1>6. Entered'
  BY <1>3 DEF Entered
<1>7. Tasked'
  BY <1>1, <1>3 DEF Tasked
<1>8. QED
  BY <1>4, <1>5, <1>6, <1>7

\* A socket that goes on, or stops while nobody else connects or disconnects.
LEMMA WorkedInv ==
  ASSUME Inv, NEW c \in Conns, NEW s, Worked(c, s)
  PROVE  Inv'
<1>1. /\ sock \in [Conns -> Sock] /\ s \in Sock /\ sock' \in [Conns -> Sock]
      /\ sock'[c] = s /\ \A d \in Conns : d # c => sock'[d] = sock[d]
      /\ sock[c].at = "run" /\ s.at \in {"run", "retain"}
      /\ UNCHANGED <<mode, limit, log, due, registered, present, subscriber, tasks>>
  BY DEF Inv, Types, Worked, OK, setting, Registry
<1>2. Types' /\ SocksOK'
  BY <1>1 DEF Inv, Types, SocksOK, Worked, OK
<1>3. RegistryOK' /\ NoDeafSocket'
  BY <1>1 DEF Inv, RegistryOK, NoDeafSocket, Worked, Driven
<1>4. InTurn'
  <2>1. CASE s.at = "run"
    <3>1. \A d \in Conns : sock'[d].at = sock[d].at
      BY <1>1, <2>1
    <3>2. QED
      BY <1>1, <3>1, SameTurn
  <2>2. CASE s.at = "retain"
    <3>1. SUFFICES ASSUME "churn" \notin Races, Turns, Within, Entered, Tasked
                   PROVE  Turns' /\ Within' /\ Entered' /\ Tasked'
      BY DEF Inv, InTurn
    <3>2. \A d \in Conns : d # c => ~Busy(d) /\ sock'[d].at = sock[d].at
      BY <1>1, <2>2, <3>1 DEF Worked, Calm, Busy
    <3>3. \A d \in Conns : Busy(d)' => d = c
      BY <1>1, <3>2 DEF Busy, Connecting, Disconnecting
    <3>4. Turns' /\ Within'
      BY <1>1, <2>2, <3>1, <3>2, <3>3 DEF Turns, Within
    <3>5. Entered'
      BY <1>1, <2>2, <3>1, <3>2 DEF Entered, Driven
    <3>6. Tasked'
      BY <1>1, <2>2, <3>1, <3>2 DEF Tasked
    <3>7. QED
      BY <3>4, <3>5, <3>6
  <2>3. QED
    BY <1>1, <2>1, <2>2
<1>5. QED
  BY <1>2, <1>3, <1>4 DEF Inv

\* A delivery: whoever is unregistered by it has its signal, or has ended.
LEMMA DeliveredInv ==
  ASSUME Inv, NEW e \in Item, ItemFits(e, log), e.kind \in {"live", "beat"},
         DeliverToLocalUser(e), UNCHANGED <<setting, log, subscriber>>, due' \subseteq due,
         tasks' \in [Conns -> Task],
         \A t \in Conns : \A j \in 1..Len(tasks'[t].inbox) : tasks'[t].inbox[j] <= log,
         \A t \in Conns : tasks'[t].state = "none" <=> tasks[t].state = "none"
  PROVE  Inv'
<1>1. /\ sock' = [d \in Conns |-> Offer(d, e)] /\ registered' = {d \in registered : ~Stale(d)}
      /\ UNCHANGED <<mode, limit, present>>
  BY DEF DeliverToLocalUser, setting
<1>2. ASSUME NEW d \in Conns
      PROVE  /\ OK(sock'[d], log)
             /\ sock'[d].at = sock[d].at /\ sock'[d].ended = sock[d].ended
             /\ sock'[d].job = sock[d].job
             /\ sock[d].kill => sock'[d].kill
             /\ d \in registered /\ Stale(d) => Closed(d) \/ sock'[d].kill
  BY <1>1, Offered DEF Inv
<1>3. sock' \in [Conns -> Sock] /\ SocksOK'
  BY <1>1, <1>2 DEF SocksOK, OK
<1>4. InTurn' /\ IsFiniteSet(registered')
  BY <1>1, <1>2, SameTurn
<1>5. Types'
  BY <1>1, <1>3, <1>4 DEF Inv, Types
<1>6. RegistryOK'
  <2>1. RegistryOK /\ registered' \subseteq registered /\ registered \subseteq Conns
    BY <1>1 DEF Inv, Types
  <2>2. QED
    BY <1>2, <2>1 DEF RegistryOK
<1>7. NoDeafSocket'
  <2>1. SUFFICES ASSUME NEW d \in Conns, sock[d].at \in Driven
                 PROVE  d \in registered' \/ sock'[d].kill \/ sock'[d].ended # "none"
    BY <1>2 DEF NoDeafSocket, Driven
  <2>2. d \in registered \/ sock[d].kill \/ sock[d].ended # "none"
    BY <2>1 DEF Inv, NoDeafSocket, Driven
  <2>3. Closed(d) => sock[d].ended = "send"
    BY <2>1 DEF Closed, Driven
  <2>4. QED
    BY <1>1, <1>2, <2>2, <2>3
<1>8. QED
  BY <1>3, <1>4, <1>5, <1>6, <1>7 DEF Inv

-----------------------------------------------------------------------------
LEMMA CommitChangeInv ==
  ASSUME Inv, CommitChange
  PROVE  Inv'
<1>1. /\ log' = log + 1 /\ log < MaxFrames /\ due' = due \cup {log + 1} /\ log \in Nat /\ MaxFrames \in Nat
      /\ UNCHANGED <<mode, limit, registered, present, subscriber, tasks, sock>>
  BY WebSocketManagerAssumption DEF Inv, Types, CommitChange, setting, Registry
<1>2. SocksOK'
  <2>1. \A c \in Conns : OK(sock[c], log + 1)
    BY <1>1, Later DEF Inv, SocksOK, Types, OK
  <2>2. QED
    BY <1>1, <2>1 DEF SocksOK, OK
<1>3. Types'
  <2>1. \A t \in Conns : \A j \in 1..Len(tasks[t].inbox) : tasks[t].inbox[j] <= log + 1
    <3>1. \A t \in Conns : tasks[t].inbox \in Seq(Frames)
      BY DEF Inv, Types, Task
    <3>2. \A t \in Conns : \A j \in 1..Len(tasks[t].inbox) : tasks[t].inbox[j] \in Nat
      BY <1>1, <3>1 DEF Frames
    <3>3. QED
      BY <1>1, <3>2 DEF Inv, Types
  <2>2. due' \subseteq 1..log'
    <3>1. due \subseteq 1..log
      BY DEF Inv, Types
    <3>2. QED
      BY <1>1, <3>1
  <2>3. QED
    BY <1>1, <2>1, <2>2 DEF Inv, Types
<1>4. RegistryOK' /\ NoDeafSocket'
  BY <1>1 DEF Inv, RegistryOK, NoDeafSocket
<1>5. InTurn'
  BY <1>1, SameTurn
<1>6. QED
  BY <1>2, <1>3, <1>4, <1>5 DEF Inv

LEMMA DeliverInv ==
  ASSUME Inv, NEW f \in Frames, Deliver(f)
  PROVE  Inv'
<1>1. f \in 1..log /\ f \in due /\ due' \subseteq due /\ UNCHANGED <<setting, log, subscriber>>
      /\ log \in Nat /\ log <= MaxFrames /\ MaxFrames \in Nat
  BY WebSocketManagerAssumption DEF Inv, Types, Deliver
<1>2. CASE mode = "local"
  <2>1. DeliverToLocalUser(Live(f)) /\ UNCHANGED tasks
    BY <1>2 DEF Deliver
  <2>2. Live(f) \in Item /\ ItemFits(Live(f), log) /\ Live(f).kind = "live"
    BY <1>1 DEF Live, Item, ItemFits
  <2>3. QED
    BY <1>1, <2>1, <2>2, DeliveredInv DEF Inv, Types
<1>3. CASE mode = "redis"
  <2>1. /\ tasks' = [t \in Conns |-> IF tasks[t].state = "on"
                                     THEN [tasks[t] EXCEPT !.inbox = Append(@, f)] ELSE tasks[t]]
        /\ UNCHANGED <<mode, limit, registered, present, sock>>
    BY <1>3 DEF Deliver, setting
  <2>2. ASSUME NEW t \in Conns
        PROVE  /\ tasks'[t] \in Task /\ tasks'[t].state = tasks[t].state
               /\ \A j \in 1..Len(tasks'[t].inbox) : tasks'[t].inbox[j] <= log
    <3>1. tasks[t] \in Task /\ tasks[t].inbox \in Seq(Frames)
          /\ \A j \in 1..Len(tasks[t].inbox) : tasks[t].inbox[j] <= log
      BY DEF Inv, Types, Task
    <3>2. CASE tasks[t].state = "on"
      <4> DEFINE u == Append(tasks[t].inbox, f)
      <4>1. /\ u \in Seq(Frames) /\ Len(u) = Len(tasks[t].inbox) + 1 /\ u[Len(tasks[t].inbox) + 1] = f
            /\ \A j \in 1..Len(tasks[t].inbox) : u[j] = tasks[t].inbox[j]
        BY <3>1, AppendProperties
      <4>2. Len(tasks[t].inbox) \in Nat
        BY <3>1
      <4>3. \A j \in 1..Len(u) : u[j] <= log
        <5>1. ASSUME NEW j \in 1..Len(u)
              PROVE  j = Len(tasks[t].inbox) + 1 \/ j \in 1..Len(tasks[t].inbox)
          BY <4>1, <4>2
        <5>2. QED
          BY <1>1, <3>1, <4>1, <5>1
      <4> HIDE DEF u
      <4>4. tasks'[t] = [tasks[t] EXCEPT !.inbox = u]
        BY <2>1, <3>2 DEF u
      <4>5. QED
        BY <3>1, <4>1, <4>3, <4>4 DEF Task
    <3>3. CASE tasks[t].state # "on"
      BY <2>1, <3>1, <3>3
    <3>4. QED
      BY <3>2, <3>3
  <2>3. tasks' \in [Conns -> Task]
    BY <2>1, <2>2
  <2>4. Types' /\ SocksOK'
    BY <1>1, <2>1, <2>2, <2>3 DEF Inv, Types, SocksOK
  <2>5. RegistryOK' /\ NoDeafSocket'
    BY <2>1 DEF Inv, RegistryOK, NoDeafSocket
  <2>6. InTurn'
    BY <1>1, <2>1, <2>2, SameTurn
  <2>7. QED
    BY <2>4, <2>5, <2>6 DEF Inv
<1>4. QED
  BY <1>2, <1>3 DEF Deliver

LEMMA TaskReceivesInv ==
  ASSUME Inv, NEW t \in Conns, TaskReceives(t)
  PROVE  Inv'
<1> DEFINE f == Head(tasks[t].inbox)
<1>1. /\ DeliverToLocalUser(Live(f)) /\ UNCHANGED <<setting, log, due, subscriber>>
      /\ tasks' = [tasks EXCEPT ![t].inbox = Tail(@)] /\ tasks[t].inbox # <<>>
  BY DEF TaskReceives
<1>2. tasks \in [Conns -> Task] /\ tasks[t] \in Task /\ tasks[t].inbox \in Seq(Frames)
      /\ \A u \in Conns : \A j \in 1..Len(tasks[u].inbox) : tasks[u].inbox[j] <= log
  BY DEF Inv, Types, Task
<1>3. /\ Len(tasks[t].inbox) \in Nat \ {0} /\ f = tasks[t].inbox[1] /\ f \in Frames
      /\ Tail(tasks[t].inbox) \in Seq(Frames)
      /\ Len(Tail(tasks[t].inbox)) = Len(tasks[t].inbox) - 1
      /\ \A j \in 1..Len(Tail(tasks[t].inbox)) : Tail(tasks[t].inbox)[j] = tasks[t].inbox[j + 1]
  BY <1>1, <1>2, HeadTailProperties, EmptySeq
<1>4. f <= log /\ \A j \in 1..Len(Tail(tasks[t].inbox)) : Tail(tasks[t].inbox)[j] <= log
  <2>1. 1 \in 1..Len(tasks[t].inbox)
        /\ \A j \in 1..Len(Tail(tasks[t].inbox)) : j + 1 \in 1..Len(tasks[t].inbox)
    BY <1>3
  <2>2. QED
    BY <1>2, <1>3, <2>1
<1>5. Live(f) \in Item /\ ItemFits(Live(f), log) /\ Live(f).kind = "live"
  BY <1>3, <1>4, WebSocketManagerAssumption DEF Live, Item, ItemFits, Frames
<1>6. /\ tasks' \in [Conns -> Task]
      /\ \A u \in Conns : u # t => tasks'[u] = tasks[u]
      /\ tasks'[t].state = tasks[t].state /\ tasks'[t].inbox = Tail(tasks[t].inbox)
  <2> DEFINE v == Tail(tasks[t].inbox)
  <2> HIDE DEF v
  <2>1. tasks' = [tasks EXCEPT ![t].inbox = v] /\ v \in Seq(Frames)
    BY <1>1, <1>3 DEF v
  <2>2. QED
    BY <1>2, <2>1 DEF Task, v
<1>7. /\ \A u \in Conns : \A j \in 1..Len(tasks'[u].inbox) : tasks'[u].inbox[j] <= log
      /\ \A u \in Conns : tasks'[u].state = "none" <=> tasks[u].state = "none"
  BY <1>2, <1>4, <1>6
<1> HIDE DEF f
<1>8. QED
  BY <1>1, <1>5, <1>6, <1>7, DeliveredInv

LEMMA TaskSubscribesInv ==
  ASSUME Inv, NEW t \in Conns, TaskSubscribes(t)
  PROVE  Inv'
<1>1. /\ tasks' = [tasks EXCEPT ![t].state = "on"] /\ tasks[t].state = "starting"
      /\ UNCHANGED <<mode, limit, log, due, registered, present, subscriber, sock>>
  BY DEF TaskSubscribes, setting
<1>2. tasks \in [Conns -> Task] /\ tasks[t] \in Task
  BY DEF Inv, Types
<1>3. /\ tasks' \in [Conns -> Task]
      /\ \A u \in Conns : /\ tasks'[u].state = "none" <=> tasks[u].state = "none"
                          /\ tasks'[u].inbox = tasks[u].inbox
  BY <1>1, <1>2 DEF Task
<1>4. Types' /\ SocksOK'
  BY <1>1, <1>3 DEF Inv, Types, SocksOK
<1>5. RegistryOK' /\ NoDeafSocket'
  BY <1>1 DEF Inv, RegistryOK, NoDeafSocket
<1>6. InTurn'
  BY <1>1, <1>3, SameTurn
<1>7. QED
  BY <1>4, <1>5, <1>6 DEF Inv

-----------------------------------------------------------------------------
(***************************************************************************)
(* Connecting and disconnecting.                                           *)
(***************************************************************************)

\* The handler of c goes on to another place, with the socket as it is.
Moved(c, place) ==
  /\ sock' = [sock EXCEPT ![c].at = place]
  /\ UNCHANGED <<mode, limit, log, due>>

LEMMA MovedSock ==
  ASSUME Inv, NEW c \in Conns, NEW place \in Places \ {"new", "insert"}, Moved(c, place)
  PROVE  /\ sock' \in [Conns -> Sock] /\ SocksOK'
         /\ sock'[c].at = place /\ \A d \in Conns : d # c => sock'[d] = sock[d]
         /\ sock'[c].kill = sock[c].kill /\ sock'[c].ended = sock[c].ended
         /\ sock'[c].job = sock[c].job
<1> DEFINE t == [sock[c] EXCEPT !.at = place]
<1>1. sock \in [Conns -> Sock] /\ sock[c] \in Sock /\ OK(sock[c], log)
  BY DEF Inv, Types, SocksOK, OK
<1>2. /\ t \in Sock /\ t.queue = sock[c].queue /\ t.got = sock[c].got /\ t.rows = sock[c].rows
      /\ t.missed = sock[c].missed /\ t.cursor = sock[c].cursor
      /\ t.watermark = sock[c].watermark /\ t.job = sock[c].job /\ t.ended = sock[c].ended
      /\ t.at = place /\ t.kill = sock[c].kill
  BY <1>1 DEF Sock
<1>3. sock' = [sock EXCEPT ![c] = t]
  BY DEF Moved
<1> HIDE DEF t
<1>4. OK(t, log)
  BY <1>1, <1>2 DEF OK, Fits, Promised
<1>5. SocksOK'
  BY <1>1, <1>3, <1>4 DEF Inv, SocksOK, OK, Moved
<1>6. QED
  BY <1>1, <1>2, <1>3, <1>5

\* While the handler of c is at work, none of the others is.
LEMMA Alone ==
  ASSUME Inv, "churn" \notin Races, NEW c \in Conns, Busy(c) \/ Calm(c)
  PROVE  \A d \in Conns : d # c => ~Busy(d)
BY DEF Inv, InTurn, Turns, Busy, Calm

LEMMA AdmitInv ==
  ASSUME Inv, NEW c \in Conns, NEW k \in 0..MaxFrames, Admit(c, k)
  PROVE  Inv'
<1> DEFINE open  == {d \in registered : ~Closed(d)}
           place == IF Cardinality(open) < limit THEN "insert" ELSE "closed"
           t     == [sock[c] EXCEPT !.got = 1..k, !.cursor = k, !.at = place]
<1>1. /\ sock[c].at = "new" /\ Calm(c) /\ k \in 0..log /\ registered' = open
      /\ sock' = [sock EXCEPT ![c] = t]
      /\ UNCHANGED <<mode, limit, log, due, present, subscriber, tasks>>
  BY DEF Admit, setting
<1>2. sock \in [Conns -> Sock] /\ sock[c] \in Sock /\ OK(sock[c], log) /\ log \in Nat /\ limit \in Nat
      /\ IsFiniteSet(registered)
  BY WebSocketManagerAssumption DEF Inv, Types, SocksOK, OK
<1>3. /\ t \in Sock /\ t.queue = sock[c].queue /\ t.got = 1..k /\ t.rows = sock[c].rows
      /\ t.missed = sock[c].missed /\ t.cursor = k
      /\ t.watermark = sock[c].watermark /\ t.job = sock[c].job /\ t.ended = sock[c].ended
      /\ t.at = place /\ t.kill = sock[c].kill
  <2> DEFINE R == 1..k
  <2>1. R \in SUBSET Nat /\ k \in Nat /\ place \in Places
    BY <1>1, <1>2 DEF Places
  <2> HIDE DEF R, place
  <2>2. t = [sock[c] EXCEPT !.got = R, !.cursor = k, !.at = place]
    BY DEF R
  <2> HIDE DEF t
  <2>3. QED
    BY <1>2, <2>1, <2>2 DEF Sock, R
<1>4. sock[c].queue = <<>> /\ sock[c].job = "none" /\ sock[c].ended = "none" /\ c \notin registered
  BY <1>1 DEF Inv, SocksOK, Promised, RegistryOK, Driven
<1> HIDE DEF t
<1>5. OK(t, log)
  <2>1. 1..k \subseteq 1..log /\ Len(<<>>) = 0 /\ k <= log
    BY <1>1, <1>2
  <2>2. Fits(t, log)
    BY <1>2, <1>3, <2>1 DEF OK, Fits
  <2>3. Promised(t)
    BY <1>3, <1>4, <2>1 DEF Promised
  <2>4. QED
    BY <1>3, <2>2, <2>3 DEF OK
<1>6. /\ sock' \in [Conns -> Sock] /\ sock'[c] = t /\ \A d \in Conns : d # c => sock'[d] = sock[d]
      /\ SocksOK'
  <2>1. sock' \in [Conns -> Sock] /\ sock'[c] = t /\ \A d \in Conns : d # c => sock'[d] = sock[d]
    BY <1>1, <1>2, <1>3
  <2>2. QED
    BY <1>1, <1>5, <2>1 DEF Inv, SocksOK, OK
<1>7. /\ IsFiniteSet(open) /\ Cardinality(open) <= Cardinality(registered)
      /\ Cardinality(open) \in Nat /\ Cardinality(registered) \in Nat
  BY <1>2, FS_Subset, FS_CardinalityType
<1>8. Types'
  BY <1>1, <1>6, <1>7 DEF Inv, Types
<1>9. RegistryOK'
  <2>1. open \subseteq registered /\ registered \subseteq Conns /\ RegistryOK
    BY DEF Inv, Types
  <2>2. QED
    BY <1>1, <1>3, <1>4, <1>6, <2>1 DEF RegistryOK
<1>10. NoDeafSocket'
  <2>1. SUFFICES ASSUME NEW d \in Conns, d # c, sock[d].at \in Driven
                 PROVE  d \in open \/ sock[d].kill \/ sock[d].ended # "none"
    BY <1>1, <1>3, <1>6 DEF NoDeafSocket, Driven
  <2>2. d \in registered \/ sock[d].kill \/ sock[d].ended # "none"
    BY <2>1 DEF Inv, NoDeafSocket, Driven
  <2>3. Closed(d) => sock[d].ended = "send"
    BY <2>1 DEF Closed, Driven
  <2>4. QED
    BY <2>2, <2>3
<1>11. InTurn'
  <2>1. SUFFICES ASSUME "churn" \notin Races, Turns, Within, Entered, Tasked
                 PROVE  Turns' /\ Within' /\ Entered' /\ Tasked'
    BY DEF Inv, InTurn
  <2>2. \A d \in Conns : d # c => ~Busy(d) /\ sock'[d].at = sock[d].at
    BY <1>1, <1>6, <2>1, Alone
  <2>3. Turns'
    BY <2>2 DEF Turns, Busy, Connecting, Disconnecting
  <2>4. Within'
    <3>1. sock'[c].at = "insert" => Cardinality(open) < limit
      BY <1>3, <1>6
    <3>2. Cardinality(open) <= limit
      BY <1>2, <1>7, <2>1 DEF Within
    <3>3. ASSUME NEW d \in Conns, sock'[d].at = "insert" PROVE d = c
      BY <2>2, <3>3 DEF Busy, Connecting
    <3>4. QED
      BY <1>1, <3>1, <3>2, <3>3 DEF Within
  <2>5. sock'[c].at \in {"insert", "closed"}
    BY <1>3, <1>6
  <2>6. Entered'
    BY <1>1, <2>1, <2>2, <2>5 DEF Entered, Driven
  <2>7. Tasked'
    BY <1>1, <2>1, <2>2, <2>5 DEF Tasked
  <2>8. QED
    BY <2>3, <2>4, <2>6, <2>7
<1>12. QED
  BY <1>6, <1>8, <1>9, <1>10, <1>11 DEF Inv

LEMMA InsertInv ==
  ASSUME Inv, NEW c \in Conns, Insert(c)
  PROVE  Inv'
<1> DEFINE place == IF mode = "redis" THEN "look" ELSE "greet"
<1>1. /\ sock[c].at = "insert" /\ registered' = registered \cup {c} /\ present' = TRUE
      /\ Moved(c, place) /\ place \in Places \ {"new", "insert"}
      /\ UNCHANGED <<mode, limit, log, due, subscriber, tasks>>
  BY DEF Insert, Goto, Moved, setting, Places
<1>2. place \in {"look", "greet"} /\ (mode = "redis" <=> place = "look")
  OBVIOUS
<1> HIDE DEF place
<1>3. /\ sock' \in [Conns -> Sock] /\ SocksOK'
      /\ sock'[c].at = place /\ \A d \in Conns : d # c => sock'[d] = sock[d]
      /\ sock'[c].ended = sock[c].ended /\ sock'[c].job = sock[c].job
  BY <1>1, MovedSock
<1>4. /\ IsFiniteSet(registered) /\ registered \subseteq Conns /\ limit \in Nat
      /\ subscriber \in Conns \cup {NoTask} /\ c \notin registered
  BY <1>1, WebSocketManagerAssumption DEF Inv, Types, RegistryOK, Driven
<1>5. /\ IsFiniteSet(registered') /\ Cardinality(registered') = Cardinality(registered) + 1
      /\ Cardinality(registered) \in Nat
  BY <1>1, <1>4, FS_AddElement, FS_CardinalityType
<1>6. Types'
  BY <1>1, <1>3, <1>4, <1>5 DEF Inv, Types
<1>7. RegistryOK' /\ NoDeafSocket'
  BY <1>1, <1>2, <1>3, <1>4 DEF Inv, RegistryOK, NoDeafSocket, Driven
<1>8. InTurn'
  <2>1. SUFFICES ASSUME "churn" \notin Races, Turns, Within, Entered, Tasked
                 PROVE  Turns' /\ Within' /\ Entered' /\ Tasked'
    BY DEF Inv, InTurn
  <2>2. \A d \in Conns : d # c => ~Busy(d) /\ sock'[d].at = sock[d].at
    BY <1>1, <1>3, <2>1, Alone DEF Busy, Connecting
  <2>3. Turns'
    BY <2>2 DEF Turns, Busy, Connecting, Disconnecting
  <2>4. Within'
    <3>1. Cardinality(registered) < limit
      BY <1>1, <2>1 DEF Within
    <3>2. \A d \in Conns : sock'[d].at # "insert"
      BY <1>2, <1>3, <2>2 DEF Busy, Connecting
    <3>3. QED
      BY <1>1, <1>4, <1>5, <3>1, <3>2 DEF Within
  <2>5. Entered'
    BY <1>1, <1>2, <1>3, <2>1, <2>2 DEF Entered, Driven, Busy, Disconnecting
  <2>6. Tasked'
    BY <1>1, <1>2, <1>3, <1>4, <2>1, <2>2 DEF Tasked, Busy, Connecting
  <2>7. QED
    BY <2>3, <2>4, <2>5, <2>6
<1>9. QED
  BY <1>3, <1>6, <1>7, <1>8 DEF Inv

LEMMA LookForSubscriberInv ==
  ASSUME Inv, NEW c \in Conns, LookForSubscriber(c)
  PROVE  Inv'
<1> DEFINE place == IF subscriber = NoTask THEN "start" ELSE "greet"
<1>1. /\ sock[c].at = "look"
      /\ Moved(c, place) /\ place \in Places \ {"new", "insert"}
      /\ UNCHANGED <<mode, limit, log, due, registered, present, subscriber, tasks>>
  BY DEF LookForSubscriber, Goto, Moved, setting, Registry, Places
<1>2. place \in {"start", "greet"} /\ (place = "start" <=> subscriber = NoTask)
  OBVIOUS
<1> HIDE DEF place
<1>3. /\ sock' \in [Conns -> Sock] /\ SocksOK'
      /\ sock'[c].at = place /\ \A d \in Conns : d # c => sock'[d] = sock[d]
      /\ sock'[c].kill = sock[c].kill
      /\ sock'[c].ended = sock[c].ended /\ sock'[c].job = sock[c].job
  BY <1>1, MovedSock
<1>4. Types'
  BY <1>1, <1>3 DEF Inv, Types
<1>5. RegistryOK' /\ NoDeafSocket'
  <2>1. RegistryOK'
    <3>1. RegistryOK /\ registered \subseteq Conns
      BY DEF Inv, Types
    <3>2. QED
      BY <1>1, <1>2, <1>3, <3>1 DEF RegistryOK, Driven
  <2>2. NoDeafSocket'
    BY <1>1, <1>2, <1>3 DEF Inv, NoDeafSocket
  <2>3. QED
    BY <2>1, <2>2
<1>6. InTurn'
  <2>1. SUFFICES ASSUME "churn" \notin Races, Turns, Within, Entered, Tasked
                 PROVE  Turns' /\ Within' /\ Entered' /\ Tasked'
    BY DEF Inv, InTurn
  <2>2. \A d \in Conns : d # c => ~Busy(d) /\ sock'[d].at = sock[d].at
    BY <1>1, <1>3, <2>1, Alone DEF Busy, Connecting
  <2>3. Turns' /\ Within'
    BY <1>1, <1>2, <1>3, <2>1, <2>2 DEF Turns, Within, Busy, Connecting, Disconnecting
  <2>4. Entered'
    BY <1>1, <1>2, <1>3, <2>1, <2>2 DEF Entered, Driven, Busy, Disconnecting
  <2>5. Tasked'
    BY <1>1, <1>2, <1>3, <2>1, <2>2 DEF Tasked, Busy, Connecting
  <2>6. QED
    BY <2>3, <2>4, <2>5
<1>7. QED
  BY <1>3, <1>4, <1>5, <1>6 DEF Inv

LEMMA StartRedisSubscriberInv ==
  ASSUME Inv, NEW c \in Conns, StartRedisSubscriber(c)
  PROVE  Inv'
<1>1. /\ sock[c].at = "start" /\ subscriber' = c /\ tasks' = [tasks EXCEPT ![c].state = "starting"]
      /\ Moved(c, "greet") /\ "greet" \in Places \ {"new", "insert"}
      /\ UNCHANGED <<mode, limit, log, due, registered, present>>
  BY DEF StartRedisSubscriber, Goto, Moved, setting, Places
<1>2. /\ sock' \in [Conns -> Sock] /\ SocksOK'
      /\ sock'[c].at = "greet" /\ \A d \in Conns : d # c => sock'[d] = sock[d]
      /\ sock'[c].kill = sock[c].kill
      /\ sock'[c].ended = sock[c].ended /\ sock'[c].job = sock[c].job
  BY <1>1, MovedSock
<1>3. tasks \in [Conns -> Task] /\ tasks[c] \in Task /\ NoTask \notin Conns
  BY WebSocketManagerAssumption DEF Inv, Types
<1>4. /\ tasks' \in [Conns -> Task] /\ tasks'[c].state = "starting"
      /\ \A t \in Conns : t # c => tasks'[t] = tasks[t]
      /\ \A t \in Conns : tasks'[t].inbox = tasks[t].inbox
  BY <1>1, <1>3 DEF Task
<1>5. Types'
  BY <1>1, <1>2, <1>4 DEF Inv, Types
<1>6. RegistryOK'
  <2>1. RegistryOK /\ registered \subseteq Conns
    BY DEF Inv, Types
  <2>2. QED
    BY <1>1, <1>2, <2>1 DEF RegistryOK, Driven
<1>7. NoDeafSocket'
  BY <1>1, <1>2 DEF Inv, NoDeafSocket
<1>8. InTurn'
  <2>1. SUFFICES ASSUME "churn" \notin Races, Turns, Within, Entered, Tasked
                 PROVE  Turns' /\ Within' /\ Entered' /\ Tasked'
    BY DEF Inv, InTurn
  <2>2. \A d \in Conns : d # c => ~Busy(d) /\ sock'[d].at = sock[d].at
    BY <1>1, <1>2, <2>1, Alone DEF Busy, Connecting
  <2>3. Turns' /\ Within'
    BY <1>1, <1>2, <2>1, <2>2 DEF Turns, Within, Busy, Connecting, Disconnecting
  <2>4. Entered'
    BY <1>1, <1>2, <2>1, <2>2 DEF Entered, Driven, Busy, Disconnecting
  <2>5. subscriber = NoTask /\ \A t \in Conns : tasks[t].state = "none"
    BY <1>1, <1>3, <2>1 DEF Tasked
  <2>6. present
    BY <1>1, <2>1 DEF Entered
  <2>7. Tasked'
    <3>1. mode = "redis"
      BY <1>1, <2>1 DEF Tasked
    <3>2. subscriber' = c /\ c # NoTask /\ present' /\ mode' = mode
      BY <1>1, <1>3, <2>6
    <3>3. \A t \in Conns : tasks'[t].state # "none" => t = c
      BY <1>4, <2>5
    <3>4. \A d \in Conns : sock'[d].at # "start"
      BY <1>2, <2>2 DEF Busy, Connecting
    <3>5. QED
      BY <1>4, <3>1, <3>2, <3>3, <3>4 DEF Tasked
  <2>8. QED
    BY <2>3, <2>4, <2>7
<1>9. QED
  BY <1>2, <1>5, <1>6, <1>7, <1>8 DEF Inv

\* The heartbeat is a delivery; then the handler drives its socket.
LEMMA GreetInv ==
  ASSUME Inv, NEW c \in Conns, Greet(c)
  PROVE  Inv'
<1>1. /\ sock[c].at = "greet" /\ registered' = {d \in registered : ~Stale(d)}
      /\ sock' = [d \in Conns |-> IF d = c THEN [Offer(c, Beat) EXCEPT !.at = "run"]
                                  ELSE Offer(d, Beat)]
      /\ UNCHANGED <<mode, limit, log, due, present, subscriber, tasks>>
  BY DEF Greet, setting
<1>2. Beat \in Item /\ ItemFits(Beat, log) /\ Beat.kind = "beat"
  BY WebSocketManagerAssumption DEF Beat, Item, ItemFits, Brings, Inv, Types
<1>3. ASSUME NEW d \in Conns
      PROVE  /\ OK(Offer(d, Beat), log)
             /\ Offer(d, Beat).at = sock[d].at /\ Offer(d, Beat).ended = sock[d].ended
             /\ Offer(d, Beat).job = sock[d].job
             /\ sock[d].kill => Offer(d, Beat).kill
             /\ d \in registered /\ Stale(d) => Closed(d) \/ Offer(d, Beat).kill
  BY <1>2, Offered DEF Inv
<1> DEFINE s == Offer(c, Beat)
           t == [s EXCEPT !.at = "run"]
<1>4. s \in Sock
  BY <1>3 DEF OK
<1>5. /\ t \in Sock /\ t.queue = s.queue /\ t.got = s.got /\ t.rows = s.rows
      /\ t.missed = s.missed /\ t.cursor = s.cursor
      /\ t.watermark = s.watermark /\ t.job = s.job /\ t.ended = s.ended
      /\ t.at = "run" /\ t.kill = s.kill
  <2> HIDE DEF s
  <2>1. QED
    BY <1>4 DEF Sock, Places
<1>6. sock'[c] = t /\ \A d \in Conns : d # c => sock'[d] = Offer(d, Beat)
  BY <1>1
<1> HIDE DEF t, s
<1>7. OK(t, log)
  <2>1. OK(s, log)
    BY <1>3 DEF s
  <2>2. Fits(t, log) /\ Promised(t)
    BY <1>5, <2>1 DEF OK, Fits, Promised
  <2>3. QED
    BY <1>5, <2>2 DEF OK
<1>8. \A d \in Conns : OK(sock'[d], log)
  BY <1>3, <1>6, <1>7
<1>9. sock' \in [Conns -> Sock] /\ SocksOK'
  BY <1>1, <1>8 DEF SocksOK, OK
<1>10. /\ sock'[c].at = "run"
       /\ \A d \in Conns : d # c => sock'[d].at = sock[d].at
       /\ \A d \in Conns : /\ sock'[d].ended = sock[d].ended /\ sock'[d].job = sock[d].job
                           /\ sock[d].kill => sock'[d].kill
                           /\ d \in registered /\ Stale(d) => Closed(d) \/ sock'[d].kill
  BY <1>3, <1>5, <1>6 DEF s
<1>11. IsFiniteSet(registered) /\ registered' \subseteq registered /\ registered \subseteq Conns
  BY <1>1 DEF Inv, Types
<1>12. /\ IsFiniteSet(registered') /\ Cardinality(registered') <= Cardinality(registered)
       /\ Cardinality(registered') \in Nat /\ Cardinality(registered) \in Nat
  BY <1>11, FS_Subset, FS_CardinalityType
<1>13. Types'
  BY <1>1, <1>9, <1>11, <1>12 DEF Inv, Types
<1>14. RegistryOK'
  BY <1>1, <1>10, <1>11 DEF Inv, RegistryOK, Driven
<1>15. NoDeafSocket'
  <2>1. SUFFICES ASSUME NEW d \in Conns, sock[d].at \in Driven
                 PROVE  d \in registered' \/ sock'[d].kill \/ sock'[d].ended # "none"
    BY <1>1, <1>10 DEF NoDeafSocket, Driven
  <2>2. d \in registered \/ sock[d].kill \/ sock[d].ended # "none"
    BY <2>1 DEF Inv, NoDeafSocket, Driven
  <2>3. Closed(d) => sock[d].ended = "send"
    BY <2>1 DEF Closed, Driven
  <2>4. QED
    BY <1>1, <1>10, <2>2, <2>3
<1>16. InTurn'
  <2>1. SUFFICES ASSUME "churn" \notin Races, Turns, Within, Entered, Tasked
                 PROVE  Turns' /\ Within' /\ Entered' /\ Tasked'
    BY DEF Inv, InTurn
  <2>2. \A d \in Conns : d # c => ~Busy(d) /\ sock'[d].at = sock[d].at
    BY <1>1, <1>10, <2>1, Alone DEF Busy, Connecting
  <2>3. Turns'
    BY <2>2 DEF Turns, Busy, Connecting, Disconnecting
  <2>4. Within'
    <3>1. limit \in Nat
      BY WebSocketManagerAssumption DEF Inv, Types
    <3>2. \A d \in Conns : sock'[d].at # "insert"
      BY <1>10, <2>2 DEF Busy, Connecting
    <3>3. QED
      BY <1>1, <1>12, <2>1, <3>1, <3>2 DEF Within
  <2>5. Entered'
    BY <1>1, <1>10, <1>11, <2>1, <2>2 DEF Entered, Driven, Busy, Disconnecting
  <2>6. Tasked'
    BY <1>1, <1>10, <2>1, <2>2 DEF Tasked, Busy, Connecting
  <2>7. QED
    BY <2>3, <2>4, <2>5, <2>6
<1>17. QED
  BY <1>9, <1>13, <1>14, <1>15, <1>16 DEF Inv

LEMMA RetainInv ==
  ASSUME Inv, NEW c \in Conns, Retain(c)
  PROVE  Inv'
<1>1. /\ sock[c].at = "retain" /\ registered' = registered \ {c}
      /\ Moved(c, "remove") /\ "remove" \in Places \ {"new", "insert"}
      /\ UNCHANGED <<mode, limit, log, due, present, subscriber, tasks>>
  BY DEF Retain, Goto, Moved, setting, Places
<1>2. /\ sock' \in [Conns -> Sock] /\ SocksOK'
      /\ sock'[c].at = "remove" /\ \A d \in Conns : d # c => sock'[d] = sock[d]
      /\ sock'[c].ended = sock[c].ended /\ sock'[c].job = sock[c].job
  BY <1>1, MovedSock
<1>3. IsFiniteSet(registered) /\ registered' \subseteq registered /\ registered \subseteq Conns
  BY <1>1 DEF Inv, Types
<1>4. /\ IsFiniteSet(registered') /\ Cardinality(registered') <= Cardinality(registered)
      /\ Cardinality(registered') \in Nat /\ Cardinality(registered) \in Nat
  BY <1>3, FS_Subset, FS_CardinalityType
<1>5. Types'
  BY <1>1, <1>2, <1>3, <1>4 DEF Inv, Types
<1>6. RegistryOK'
  BY <1>1, <1>2, <1>3 DEF Inv, RegistryOK, Driven
<1>7. NoDeafSocket'
  BY <1>1, <1>2 DEF Inv, NoDeafSocket
<1>8. InTurn'
  <2>1. SUFFICES ASSUME "churn" \notin Races, Turns, Within, Entered, Tasked
                 PROVE  Turns' /\ Within' /\ Entered' /\ Tasked'
    BY DEF Inv, InTurn
  <2>2. \A d \in Conns : d # c => ~Busy(d) /\ sock'[d].at = sock[d].at
    BY <1>1, <1>2, <2>1, Alone DEF Busy, Disconnecting
  <2>3. Turns'
    BY <2>2 DEF Turns, Busy, Connecting, Disconnecting
  <2>4. Within'
    <3>1. limit \in Nat
      BY WebSocketManagerAssumption DEF Inv, Types
    <3>2. \A d \in Conns : sock'[d].at # "insert"
      BY <1>2, <2>2 DEF Busy, Connecting
    <3>3. QED
      BY <1>1, <1>4, <2>1, <3>1, <3>2 DEF Within
  <2>5. Entered'
    BY <1>1, <1>2, <1>3, <2>1, <2>2 DEF Entered, Driven, Busy, Disconnecting
  <2>6. Tasked'
    BY <1>1, <1>2, <2>1, <2>2 DEF Tasked, Busy, Disconnecting
  <2>7. QED
    BY <2>3, <2>4, <2>5, <2>6
<1>9. QED
  BY <1>2, <1>5, <1>6, <1>7, <1>8 DEF Inv

\* The entry goes when nobody is left; whoever is left is driven.
LEMMA RemoveIfEmptyInv ==
  ASSUME Inv, NEW c \in Conns, RemoveIfEmpty(c)
  PROVE  Inv'
<1> DEFINE removed == present /\ registered = {}
           place   == IF removed /\ mode = "redis" THEN "unsubscribe" ELSE "closed"
<1>1. /\ sock[c].at = "remove" /\ present' = (present /\ ~removed)
      /\ Moved(c, place) /\ place \in Places \ {"new", "insert"}
      /\ UNCHANGED <<mode, limit, log, due, registered, subscriber, tasks>>
  BY DEF RemoveIfEmpty, Goto, Moved, setting, Places
<1>2. /\ place \in {"unsubscribe", "closed"}
      /\ present' \in BOOLEAN
      /\ place = "unsubscribe" => present /\ registered = {} /\ ~present'
      /\ present' => present /\ registered # {}
      /\ present /\ ~present' => registered = {} /\ (mode = "redis" => place = "unsubscribe")
      /\ registered # {} => present' = present
  <2>1. present \in BOOLEAN /\ (present' <=> (present /\ registered # {})) /\ present' \in BOOLEAN
    BY <1>1 DEF Inv, Types
  <2>2. /\ place \in {"unsubscribe", "closed"}
        /\ place = "unsubscribe" => present /\ registered = {} /\ mode = "redis"
        /\ present /\ registered = {} /\ mode = "redis" => place = "unsubscribe"
    OBVIOUS
  <2>3. QED
    BY <2>1, <2>2
<1> HIDE DEF place, removed
<1>3. /\ sock' \in [Conns -> Sock] /\ SocksOK'
      /\ sock'[c].at = place /\ \A d \in Conns : d # c => sock'[d] = sock[d]
      /\ sock'[c].ended = sock[c].ended /\ sock'[c].job = sock[c].job
  BY <1>1, MovedSock
<1>4. Types'
  BY <1>1, <1>2, <1>3 DEF Inv, Types
<1>5. RegistryOK'
  BY <1>1, <1>2, <1>3 DEF Inv, Types, RegistryOK, Driven
<1>6. NoDeafSocket'
  BY <1>1, <1>2, <1>3 DEF Inv, NoDeafSocket
<1>7. InTurn'
  <2>1. SUFFICES ASSUME "churn" \notin Races, Turns, Within, Entered, Tasked
                 PROVE  Turns' /\ Within' /\ Entered' /\ Tasked'
    BY DEF Inv, InTurn
  <2>2. \A d \in Conns : d # c => ~Busy(d) /\ sock'[d].at = sock[d].at
    BY <1>1, <1>3, <2>1, Alone DEF Busy, Disconnecting
  <2>3. Turns'
    BY <2>2 DEF Turns, Busy, Connecting, Disconnecting
  <2>4. Within'
    BY <1>1, <1>2, <1>3, <2>1, <2>2 DEF Within, Busy, Connecting
  <2>5. Entered'
    <3>1. ASSUME present'
          PROVE  \E d \in Conns : sock'[d].at \in Driven \cup {"retain", "remove"}
      <4>1. PICK d \in registered : d \in Conns
        BY <1>2, <3>1 DEF Inv, Types
      <4>2. sock[d].at \in Driven \cup {"retain"} /\ d # c
        BY <1>1, <4>1 DEF Inv, RegistryOK, Driven
      <4>3. QED
        BY <1>3, <4>1, <4>2
    <3>2. \A d \in Conns : sock'[d].at = "unsubscribe" => ~present'
      BY <1>2, <1>3, <2>2 DEF Busy, Disconnecting
    <3>3. registered' # {} => present'
      BY <1>1, <1>2, <2>1 DEF Entered
    <3>4. \A d \in Conns : sock'[d].at \notin {"look", "start"}
      BY <1>2, <1>3, <2>2 DEF Busy, Connecting
    <3>5. QED
      BY <3>1, <3>2, <3>3, <3>4 DEF Entered
  <2>6. Tasked'
    <3>1. present' => present
      BY <1>2
    <3>2. \A d \in Conns : sock[d].at \notin {"look", "start", "unsubscribe"}
      BY <1>1, <2>2 DEF Busy, Connecting, Disconnecting
    <3>3. \A d \in Conns : sock'[d].at \notin {"look", "start"}
      BY <1>2, <1>3, <3>2
    <3>4. subscriber # NoTask => present' \/ \E d \in Conns : sock'[d].at = "unsubscribe"
      <4>1. subscriber # NoTask => present /\ mode = "redis"
        BY <2>1, <3>2 DEF Tasked
      <4>2. QED
        BY <1>2, <1>3, <4>1
    <3>5. QED
      BY <1>1, <2>1, <3>1, <3>2, <3>3, <3>4 DEF Tasked
  <2>7. QED
    BY <2>3, <2>4, <2>5, <2>6
<1>8. QED
  BY <1>3, <1>4, <1>5, <1>6, <1>7 DEF Inv

LEMMA UnsubscribeInv ==
  ASSUME Inv, NEW c \in Conns, Unsubscribe(c)
  PROVE  Inv'
<1>1. /\ sock[c].at = "unsubscribe" /\ subscriber' = NoTask
      /\ tasks' = [t \in Conns |-> IF t = subscriber THEN [state |-> "none", inbox |-> <<>>]
                                   ELSE tasks[t]]
      /\ Moved(c, "closed") /\ "closed" \in Places \ {"new", "insert"}
      /\ UNCHANGED <<mode, limit, log, due, registered, present>>
  BY DEF Unsubscribe, Goto, Moved, setting, Places
<1>2. /\ sock' \in [Conns -> Sock] /\ SocksOK'
      /\ sock'[c].at = "closed" /\ \A d \in Conns : d # c => sock'[d] = sock[d]
      /\ sock'[c].ended = sock[c].ended /\ sock'[c].job = sock[c].job
  BY <1>1, MovedSock
<1>3. tasks \in [Conns -> Task] /\ [state |-> "none", inbox |-> <<>>] \in Task
  <2>1. <<>> \in Seq(Frames)
    OBVIOUS
  <2>2. QED
    BY <2>1 DEF Inv, Types, Task
<1>4. /\ tasks' \in [Conns -> Task]
      /\ \A t \in Conns : \A j \in 1..Len(tasks'[t].inbox) : tasks'[t].inbox[j] <= log
  BY <1>1, <1>3 DEF Inv, Types
<1>5. Types'
  BY <1>1, <1>2, <1>4 DEF Inv, Types
<1>6. RegistryOK'
  <2>1. RegistryOK /\ registered \subseteq Conns
    BY DEF Inv, Types
  <2>2. QED
    BY <1>1, <1>2, <2>1 DEF RegistryOK, Driven
<1>7. NoDeafSocket'
  BY <1>1, <1>2 DEF Inv, NoDeafSocket
<1>8. InTurn'
  <2>1. SUFFICES ASSUME "churn" \notin Races, Turns, Within, Entered, Tasked
                 PROVE  Turns' /\ Within' /\ Entered' /\ Tasked'
    BY DEF Inv, InTurn
  <2>2. \A d \in Conns : d # c => ~Busy(d) /\ sock'[d].at = sock[d].at
    BY <1>1, <1>2, <2>1, Alone DEF Busy, Disconnecting
  <2>3. Turns' /\ Within'
    BY <1>1, <1>2, <2>1, <2>2 DEF Turns, Within, Busy, Connecting, Disconnecting
  <2>4. ~present
    BY <1>1, <2>1 DEF Entered
  <2>5. Entered'
    BY <1>1, <1>2, <2>1, <2>4 DEF Entered
  <2>6. Tasked'
    <3>1. \A t \in Conns : tasks'[t].state = "none"
      BY <1>1, <2>1 DEF Tasked
    <3>2. QED
      BY <1>1, <1>2, <2>2, <2>4, <3>1 DEF Tasked, Busy, Connecting
  <2>7. QED
    BY <2>3, <2>5, <2>6
<1>9. QED
  BY <1>2, <1>5, <1>6, <1>7, <1>8 DEF Inv

-----------------------------------------------------------------------------
(***************************************************************************)
(* The theorems.                                                           *)
(***************************************************************************)
LEMMA InitInv == Init => Inv
<1> SUFFICES ASSUME Init PROVE Inv
  OBVIOUS
<1>1. /\ NewSock = [NewSock EXCEPT !.at = "new"] /\ "new" \in Places
      /\ NewSock.at = "new" /\ NewSock.ended = "none" /\ NewSock.job = "none"
  BY DEF NewSock, Places
<1>2. OK(NewSock, 0)
  BY <1>1, Blank
<1>3. /\ mode \in Modes /\ limit \in Limits /\ log = 0 /\ due = {} /\ registered = {}
      /\ present = FALSE /\ subscriber = NoTask
      /\ tasks = [c \in Conns |-> [state |-> "none", inbox |-> <<>>]]
      /\ sock = [c \in Conns |-> NewSock]
      /\ limit \in Nat \ {0} /\ MaxFrames \in Nat
  BY WebSocketManagerAssumption DEF Init
<1>4. Types
  <2>1. <<>> \in Seq(Frames) /\ Len(<<>>) = 0
    OBVIOUS
  <2>2. [state |-> "none", inbox |-> <<>>] \in Task
    BY <2>1 DEF Task
  <2>3. IsFiniteSet({}) /\ NewSock \in Sock
    BY <1>2, FS_EmptySet DEF OK
  <2>4. /\ tasks \in [Conns -> Task] /\ sock \in [Conns -> Sock]
        /\ \A t \in Conns : \A j \in 1..Len(tasks[t].inbox) : tasks[t].inbox[j] <= log
    BY <1>3, <2>1, <2>2, <2>3
  <2>5. log \in 0..MaxFrames /\ due \subseteq 1..log
    BY <1>3
  <2>6. /\ registered \subseteq Conns /\ present \in BOOLEAN /\ IsFiniteSet(registered)
        /\ subscriber \in Conns \cup {NoTask}
    BY <1>3, <2>3, Zenon
  <2>7. QED
    BY <1>3, <2>4, <2>5, <2>6 DEF Types
<1>5. SocksOK /\ RegistryOK /\ NoDeafSocket
  BY <1>1, <1>2, <1>3 DEF SocksOK, OK, RegistryOK, NoDeafSocket
<1>6. InTurn
  <2>1. Turns /\ Entered /\ Tasked
    BY <1>1, <1>3 DEF Turns, Busy, Connecting, Disconnecting, Entered, Tasked
  <2>2. Within
    BY <1>1, <1>3, FS_EmptySet DEF Within
  <2>3. QED
    BY <2>1, <2>2 DEF InTurn
<1>7. QED
  BY <1>4, <1>5, <1>6 DEF Inv

LEMMA InvNext == Inv /\ [Next]_vars => Inv'
<1> SUFFICES ASSUME Inv, [Next]_vars PROVE Inv'
  OBVIOUS
<1>1. CASE CommitChange
  BY <1>1, CommitChangeInv
<1>2. CASE Publish
  BY <1>2, DeliverInv DEF Publish
<1>3. ASSUME NEW c \in Conns, TaskSubscribes(c) \/ TaskReceives(c)
      PROVE  Inv'
  BY <1>3, TaskSubscribesInv, TaskReceivesInv
<1>4. ASSUME NEW c \in Conns, Connect(c)
      PROVE  Inv'
  BY <1>4, AdmitInv, InsertInv, LookForSubscriberInv, StartRedisSubscriberInv, GreetInv DEF Connect
<1>5. ASSUME NEW c \in Conns, CatchUp(c) \/ SendNext(c) \/ Break(c)
      PROVE  Inv'
  BY <1>5, SocketWorks, WorkedInv
<1>6. ASSUME NEW c \in Conns, Disconnect(c)
      PROVE  Inv'
  BY <1>6, SocketWorks, WorkedInv, RetainInv, RemoveIfEmptyInv, UnsubscribeInv DEF Disconnect
<1>7. CASE UNCHANGED vars
  <2>1. UNCHANGED <<mode, limit, log, due, registered, present, subscriber, tasks, sock>>
    BY <1>7 DEF vars, setting
  <2>2. Types' /\ SocksOK' /\ RegistryOK' /\ NoDeafSocket'
    BY <2>1 DEF Inv, Types, SocksOK, RegistryOK, NoDeafSocket
  <2>3. InTurn'
    BY <2>1, SameTurn
  <2>4. QED
    BY <2>2, <2>3 DEF Inv
<1>8. QED
  BY <1>1, <1>2, <1>3, <1>4, <1>5, <1>6, <1>7 DEF Next

LEMMA Invariant == Spec => []Inv
  BY InitInv, InvNext, PTL DEF Spec

\* Every value is of its type, no channel exceeds its capacity, and, if connects
\* and disconnects take turns, no user has more connections than the limit.
THEOREM Typing == Spec => []TypeOK
<1>1. Inv => TypeOK
  <2> SUFFICES ASSUME Inv PROVE TypeOK
    OBVIOUS
  <2>1. \A c \in Conns : /\ tasks[c].inbox \in Seq(Frames) /\ sock[c].queue \in Seq(Item)
                         /\ Len(sock[c].queue) <= Capacity
                         /\ sock[c].rows \cup sock[c].got \cup sock[c].missed \subseteq 1..log
    BY DEF Inv, Types, Task, Sock, SocksOK, Fits
  <2>2. \A c \in Conns : {sock[c].cursor, sock[c].watermark} \subseteq 0..log
    BY DEF Inv, Types, Sock, SocksOK, Fits
  <2>3. "churn" \in Races \/ Cardinality(registered) <= limit
    BY DEF Inv, InTurn, Within
  <2>4. QED
    BY <2>1, <2>2, <2>3 DEF Inv, Types, TypeOK
<1>2. QED
  BY <1>1, Invariant, PTL

\* A socket that is driven is registered, or has its signal to stop, or has ended:
\* whichever deliveries, connects and disconnects race, none stays open unheard.
THEOREM NoneDeaf == Spec => []NoDeafSocket
  BY Invariant, PTL DEF Inv

\* A client's cursor never covers an entry it lacks, whatever frames were dropped
\* while its catch-up ran and whichever frames were queued between its rows.
THEOREM CursorCovered == Spec => []WatermarkHonest
<1>1. Inv => WatermarkHonest
  BY DEF Inv, SocksOK, Promised, WatermarkHonest
<1>2. QED
  BY <1>1, Invariant, PTL

\* With Redis, a connected user has exactly one subscriber task and a user who is
\* gone has none, as long as connects and disconnects of a user take turns.
THEOREM OneSubscriber == ASSUME "churn" \notin Races PROVE Spec => []Subscribed
<1>1. Inv => Subscribed
  <2> SUFFICES ASSUME Inv, mode = "redis", Calmed
               PROVE  /\ Fed
                      /\ Subscribing \subseteq {subscriber}
                      /\ (\A c \in Conns : ~Running(c)) => Subscribing = {}
    BY DEF Subscribed
  <2>1. Entered /\ Tasked /\ subscriber \in Conns \cup {NoTask}
    BY DEF Inv, InTurn, Types
  <2>2. Subscribing \subseteq {subscriber}
    BY <2>1 DEF Subscribing, Tasked
  <2>3. \A c \in Conns : sock[c].at \notin {"look", "start", "greet", "retain", "remove", "unsubscribe"}
    BY DEF Calmed, Connecting, Disconnecting
  <2>4. Fed
    BY <2>1, <2>3 DEF Fed, Subscribing, Entered, Tasked
  <2>5. (\A c \in Conns : ~Running(c)) => Subscribing = {}
    <3>1. SUFFICES ASSUME \A c \in Conns : ~Running(c), NEW t \in Subscribing PROVE FALSE
      OBVIOUS
    <3>2. subscriber # NoTask
      BY <2>1, WebSocketManagerAssumption DEF Subscribing, Tasked
    <3>3. present
      BY <2>1, <2>3, <3>2 DEF Tasked
    <3>4. QED
      BY <2>1, <2>3, <3>1, <3>3 DEF Entered, Driven, Running
  <2>6. QED
    BY <2>2, <2>4, <2>5
<1>2. QED
  BY <1>1, Invariant, PTL
=============================================================================
