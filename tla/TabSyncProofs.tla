--------------------------- MODULE TabSyncProofs ---------------------------
(***************************************************************************)
(* What TabSync.tla keeps for every value of its constants.                *)
(***************************************************************************)
EXTENDS TabSync, FiniteSetTheorems, SequenceTheorems, WellFoundedInduction, TLAPS

-----------------------------------------------------------------------------
(***************************************************************************)
(* Sets of positions, and sequences.                                       *)
(***************************************************************************)
\* A set of naturals has a least.
LEMMA LeastOf ==
  ASSUME NEW S, S \subseteq Nat, S # {}
  PROVE  \E m \in S : \A x \in S : m <= x
<1>1. PICK m \in S : \A x \in S : ~ (<<x, m>> \in OpToRel(<, Nat))
  BY NatLessThanWellFounded, WFMin, Zenon
<1>2. \A x \in S : ~(x < m)
  BY <1>1, Zenon DEF OpToRel
<1>3. QED
  BY <1>2

\* A bounded set of positions has a last one.
LEMMA LastOf ==
  ASSUME NEW S, S # {}, NEW b \in Nat, S \subseteq 0..b
  PROVE  Last(S) \in S /\ \A x \in S : x <= Last(S)
<1> DEFINE T == {b - x : x \in S}
<1>0. \A x \in S : x \in Nat /\ x <= b
  OBVIOUS
<1>1. T \subseteq Nat /\ T # {}
  <2>1. \A x \in S : b - x \in Nat
    BY <1>0
  <2>2. QED
    BY <2>1
<1>2. PICK n \in T : \A y \in T : n <= y
  BY <1>1, LeastOf
<1>3. PICK m \in S : n = b - m
  BY <1>2
<1>4. ASSUME NEW x \in S PROVE x <= m
  <2>1. b - m <= b - x
    BY <1>2, <1>3
  <2>2. QED
    BY <1>0, <2>1
<1>5. QED
  BY <1>4 DEF Last

LEMMA LastIs ==
  ASSUME NEW S, S \subseteq Nat, NEW i \in S, \A x \in S : x <= i
  PROVE  Last(S) = i
<1>1. Last(S) \in S /\ \A x \in S : x <= Last(S)
  BY DEF Last
<1>2. Last(S) \in Nat /\ i \in Nat /\ Last(S) <= i /\ i <= Last(S)
  BY <1>1
<1>3. QED
  BY <1>2

\* Positions can be listed in order.
LEMMA Listed ==
  ASSUME NEW b \in Nat, NEW S \in SUBSET (1..b)
  PROVE  Cardinality(S) \in Nat /\ InOrder(S) \in [1..Cardinality(S) -> S]
<1> DEFINE Lists(T, n) == {f \in [1..n -> T] : \A i, j \in DOMAIN f : i < j => f[i] < f[j]}
           Bad == {n \in Nat : \E T \in SUBSET (1..b) : Cardinality(T) = n /\ Lists(T, n) = {}}
<1>1. \A T \in SUBSET (1..b) : IsFiniteSet(T) /\ Cardinality(T) \in Nat
  <2>1. IsFiniteSet(1..b)
    BY FS_Interval
  <2>2. QED
    BY <2>1, FS_Subset, FS_CardinalityType
<1>2. Bad = {}
  <2>1. SUFFICES ASSUME Bad # {} PROVE FALSE
    OBVIOUS
  <2>2. PICK n \in Bad : \A x \in Bad : n <= x
    BY <2>1, LeastOf
  <2>3. n \in Nat
    OBVIOUS
  <2>4. PICK T \in SUBSET (1..b) : Cardinality(T) = n /\ Lists(T, n) = {}
    OBVIOUS
  <2>5. CASE n = 0
    <3>1. [i \in 1..0 |-> 0] \in Lists(T, 0)
      OBVIOUS
    <3>2. QED
      BY <2>4, <2>5, <3>1
  <2>6. CASE n # 0
    <3>1. T # {} /\ IsFiniteSet(T)
      BY <1>1, <2>4, <2>6, FS_EmptySet
    <3>2. Last(T) \in T /\ \A x \in T : x <= Last(T)
      <4>1. T \subseteq 0..b
        OBVIOUS
      <4>2. QED
        BY <3>1, <4>1, LastOf
    <3>3. T \ {Last(T)} \in SUBSET (1..b) /\ Cardinality(T \ {Last(T)}) = n - 1
      BY <2>4, <3>1, <3>2, FS_RemoveElement
    <3>4. n - 1 \in Nat /\ n - 1 \notin Bad
      BY <2>2, <2>3, <2>6
    <3>5. PICK g : g \in Lists(T \ {Last(T)}, n - 1)
      BY <3>3, <3>4
    <3>6. [i \in 1..n |-> IF i = n THEN Last(T) ELSE g[i]] \in Lists(T, n)
      <4> DEFINE f == [i \in 1..n |-> IF i = n THEN Last(T) ELSE g[i]]
      <4>1. \A i \in 1..(n - 1) : f[i] = g[i] /\ g[i] \in T \ {Last(T)} /\ i \in DOMAIN g
        BY <2>3, <3>5
      <4>2. f \in [1..n -> T]
        <5>1. \A i \in 1..n : i = n \/ i \in 1..(n - 1)
          BY <2>3
        <5>2. \A i \in 1..n : f[i] \in T
          BY <3>2, <4>1, <5>1
        <5>3. QED
          BY <5>2
      <4>3. ASSUME NEW i \in 1..n, NEW j \in 1..n, i < j PROVE f[i] < f[j]
        <5>1. i \in 1..(n - 1)
          BY <2>3, <4>3
        <5>2. CASE j = n
          <6>1. f[j] = Last(T) /\ f[i] \in T \ {Last(T)}
            BY <4>1, <5>1, <5>2
          <6>2. \A x \in T \ {Last(T)} : x < Last(T)
            <7>1. SUFFICES ASSUME NEW x \in T, x # Last(T) PROVE x < Last(T)
              OBVIOUS
            <7>2. x \in Nat /\ Last(T) \in Nat /\ x <= Last(T)
              <8>1. T \in SUBSET (1..b) /\ x \in T /\ Last(T) \in T
                BY <3>2
              <8>2. \A y \in T : y \in Nat
                BY <8>1
              <8>3. QED
                BY <3>2, <8>1, <8>2
            <7>3. QED
              BY <7>1, <7>2
          <6>3. QED
            BY <6>1, <6>2
        <5>3. CASE j # n
          <6>1. j \in 1..(n - 1)
            BY <2>3, <5>3
          <6>2. QED
            BY <3>5, <4>1, <4>3, <5>1, <6>1
        <5>4. QED
          BY <5>2, <5>3
      <4>4. QED
        BY <4>2, <4>3
    <3>7. QED
      BY <2>4, <3>6
  <2>7. QED
    BY <2>5, <2>6
<1>3. Cardinality(S) \in Nat /\ Lists(S, Cardinality(S)) # {}
  BY <1>1, <1>2
<1>4. QED
  BY <1>3 DEF InOrder

\* What the deletes a tab is asked for become.
LEMMA CacheWritesAre ==
  ASSUME NEW s \in Seq(Message)
  PROVE  /\ CacheWrites(s) \in Seq(Op)
         /\ \A n \in DOMAIN CacheWrites(s) : \E i \in DOMAIN s :
              s[i].is = "cache_delete" /\ s[i].key \in Keys /\ CacheWrites(s)[n] = WriteOp(s[i].key, Absent)
<1> DEFINE A == {i \in DOMAIN s : s[i].is = "cache_delete"}
           c == Cardinality(A)
           w == CacheWrites(s)
<1>1. Len(s) \in Nat /\ DOMAIN s = 1..Len(s)
  BY LenProperties
<1>2. c \in Nat /\ InOrder(A) \in [1..c -> A]
  BY <1>1, Listed
<1>3. \A i \in A : s[i] \in Message /\ s[i].key \in Keys
  <2>1. \A i \in DOMAIN s : s[i] \in Message
    BY <1>1, ElementOfSeq
  <2>2. QED
    BY <2>1 DEF Message, Complete, Reset
<1>4. w = [n \in 1..c |-> WriteOp(s[InOrder(A)[n]].key, Absent)]
  BY <1>2 DEF CacheWrites
<1>5. \A n \in 1..c : InOrder(A)[n] \in A /\ w[n] = WriteOp(s[InOrder(A)[n]].key, Absent)
  BY <1>2, <1>4
<1>6. \A n \in 1..c : w[n] \in Op
  <2>1. \A k \in Keys : WriteOp(k, Absent) \in Op
    BY DEF WriteOp, Op, Absent
  <2>2. QED
    BY <1>3, <1>5, <2>1
<1>7. w \in Seq(Op)
  <2>1. w \in [1..c -> Op]
    BY <1>4, <1>6
  <2> HIDE DEF c, w
  <2>2. QED
    BY <1>2, <2>1
<1>8. QED
  BY <1>2, <1>3, <1>4, <1>5, <1>7

-----------------------------------------------------------------------------
(***************************************************************************)
(* The log, and what a row holds at a position of it.                      *)
(***************************************************************************)
LEMMA LogType ==
  ASSUME log \in Seq(Entry)
  PROVE  /\ Len(log) \in Nat /\ DOMAIN log = 1..Len(log)
         /\ \A n \in 1..Len(log) : log[n] \in Entry /\ log[n].key \in Keys /\ log[n].live \in BOOLEAN
<1>1. Len(log) \in Nat /\ DOMAIN log = 1..Len(log) /\ \A n \in 1..Len(log) : log[n] \in Entry
  BY LenProperties, ElementOfSeq
<1>2. \A e \in Entry : e.key \in Keys /\ e.live \in BOOLEAN
  BY DEF Entry
<1>3. QED
  BY <1>1, <1>2

LEMMA ValType ==
  ASSUME NEW k, NEW p \in Nat
  PROVE  Val(k, p) \in Nat /\ Val(k, p) <= p
<1> DEFINE about == {n \in 1..p : log[n].key = k}
<1>1. CASE about # {}
  <2>1. Last(about) \in about
    BY <1>1, LastOf
  <2>2. QED
    BY <2>1 DEF Val, Absent
<1>2. CASE about = {}
  BY <1>2 DEF Val, Absent
<1>3. QED
  BY <1>1, <1>2

\* A new entry leaves what rows held before it.
LEMMA ValKept ==
  ASSUME log \in Seq(Entry), NEW e, log' = Append(log, e), NEW k, NEW p \in 0..Len(log)
  PROVE  Val(k, p)' = Val(k, p)
<1>1. \A n \in 1..p : log'[n] = log[n]
  BY AppendProperties
<1>2. {n \in 1..p : log'[n].key = k} = {n \in 1..p : log[n].key = k}
  BY <1>1
<1> DEFINE about == {n \in 1..p : log[n].key = k}
<1>3. about # {} => Last(about) \in 1..p
  <2>1. SUFFICES ASSUME about # {} PROVE Last(about) \in about
    OBVIOUS
  <2>2. p \in Nat /\ about \subseteq 0..p
    BY LogType
  <2>3. QED
    BY <2>1, <2>2, LastOf
<1>4. about # {} => log'[Last(about)] = log[Last(about)]
  BY <1>1, <1>3
<1>5. QED
  BY <1>2, <1>4 DEF Val

\* One entry further, one row holds what the entry says.
LEMMA ValNext ==
  ASSUME log \in Seq(Entry), NEW k, NEW p \in Nat, p < Len(log)
  PROVE  Val(k, p + 1) = IF log[p + 1].key # k THEN Val(k, p)
                         ELSE IF log[p + 1].op = "set" THEN p + 1 ELSE Absent
<1> DEFINE A == {n \in 1..p : log[n].key = k}
           B == {n \in 1..(p + 1) : log[n].key = k}
<1>1. CASE log[p + 1].key # k
  <2>1. A = B
    BY <1>1
  <2>2. QED
    BY <1>1, <2>1 DEF Val
<1>2. CASE log[p + 1].key = k
  <2>1. p + 1 \in B /\ B \subseteq Nat /\ \A x \in B : x <= p + 1
    BY <1>2
  <2>2. Last(B) = p + 1
    BY <2>1, LastIs
  <2>3. QED
    BY <1>2, <2>1, <2>2 DEF Val
<1>3. QED
  BY <1>1, <1>2

LEMMA FreshDown ==
  ASSUME log \in Seq(Entry), NEW k, NEW v, NEW c \in Nat, NEW b \in 0..c, Fresh(k, v, c)
  PROVE  Fresh(k, v, b)
BY LogType DEF Fresh

LEMMA FreshIs ==
  ASSUME log \in Seq(Entry), NEW k, NEW p \in 0..Len(log), NEW c \in 0..p
  PROVE  Fresh(k, Val(k, p), c)
BY LogType DEF Fresh

\* What is fresh at a position is so after entries about other rows.
LEMMA FreshNext ==
  ASSUME log \in Seq(Entry), NEW k, NEW v, NEW p \in Nat, p < Len(log), Fresh(k, v, p), log[p + 1].key # k
  PROVE  Fresh(k, v, p + 1)
<1>0. Len(log) \in Nat
  BY LogType
<1>1. PICK q \in p..Len(log) : Val(k, q) = v
  BY DEF Fresh
<1>2. CASE q = p
  <2>1. Val(k, p + 1) = v
    BY <1>1, <1>2, ValNext
  <2>2. QED
    BY <1>0, <2>1 DEF Fresh
<1>3. CASE q # p
  BY <1>0, <1>1, <1>3 DEF Fresh
<1>4. QED
  BY <1>2, <1>3

-----------------------------------------------------------------------------
(***************************************************************************)
(* Types.                                                                  *)
(***************************************************************************)
LEMMA MessageTypes ==
  /\ \A k \in Keys, v \in Nat : Action(k, v) \in Message
  /\ \A k \in Keys : CacheDelete(k) \in Message
  /\ Complete \in Message /\ Reset \in Message
BY DEF Message, Action, CacheDelete, Complete, Reset

LEMMA OpTypes ==
  /\ \A k \in Keys, v \in Nat : WriteOp(k, v) \in Op
  /\ \A c \in Nat : CursorOp(c) \in Op
  /\ \A m \in Message : NotifyOp(m) \in Op
  /\ WipeOp \in Op /\ FlushOp \in Op
BY DEF Op, WriteOp, CursorOp, NotifyOp, WipeOp, FlushOp

LEMMA OpParts ==
  ASSUME NEW o \in Op
  PROVE  /\ o.do \in {"write", "cursor", "notify", "wipe", "flush"}
         /\ o.do = "write" => o.key \in Keys /\ o.val \in Nat /\ o = WriteOp(o.key, o.val)
         /\ o.do = "cursor" => o.id \in Nat /\ o = CursorOp(o.id)
         /\ o.do = "notify" => o.msg \in Message /\ o = NotifyOp(o.msg)
         /\ o.do = "wipe" => o = WipeOp
         /\ o.do = "flush" => o = FlushOp
BY DEF Op, WriteOp, CursorOp, NotifyOp, WipeOp, FlushOp

LEMMA MessageParts ==
  ASSUME NEW m \in Message
  PROVE  /\ m.is \in {"action", "cache_delete", "complete", "reset"}
         /\ m.is = "action" => m.key \in Keys /\ m.val \in Nat /\ m = Action(m.key, m.val)
         /\ m.is = "cache_delete" => m.key \in Keys /\ m = CacheDelete(m.key)
         /\ m.is = "complete" => m = Complete
         /\ m.is = "reset" => m = Reset
BY DEF Message, Action, CacheDelete, Complete, Reset

UpStream == [at : {"up"}, pos : Nat, mark : Nat, left : SUBSET Keys, done : BOOLEAN, claim : Nat]

LEMMA StreamParts ==
  ASSUME stream \in Stream
  PROVE  /\ stream.at = "up" => stream \in UpStream
         /\ stream # Down /\ stream # Flushing => stream.at = "up"
BY DEF Stream, UpStream, Down, Flushing

LEMMA StreamTypes ==
  /\ Down.at # "up" /\ Flushing.at # "up" /\ Down # Flushing
  /\ Down \in Stream /\ Flushing \in Stream /\ UpStream \subseteq Stream
BY DEF Stream, UpStream, Down, Flushing

LEMMA ScenarioType ==
  ASSUME scenario \in Scenarios
  PROVE  scenario.opens \in Nat /\ scenario.drops \in Nat /\ scenario.log \in Nat
BY TabSyncAssumption DEF Scenario

\* What a tab shows once it has applied some messages.
LEMMA ReplayType ==
  ASSUME NEW s \in Seq(Message), NEW mem \in [Keys -> Nat]
  PROVE  Replay(mem, s) \in [Keys -> Nat]
<1> DEFINE touching(k) == {i \in DOMAIN s : s[i].is = "reset" \/ (s[i].is = "action" /\ s[i].key = k)}
<1>1. Len(s) \in Nat /\ DOMAIN s = 1..Len(s) /\ \A i \in 1..Len(s) : s[i] \in Message
  BY LenProperties, ElementOfSeq
<1>2. ASSUME NEW k \in Keys, touching(k) # {} PROVE Last(touching(k)) \in DOMAIN s
  <2>1. touching(k) \subseteq 0..Len(s)
    BY <1>1
  <2>2. QED
    BY <1>1, <1>2, <2>1, LastOf
<1>3. ASSUME NEW k \in Keys, touching(k) # {}, s[Last(touching(k))].is = "action"
      PROVE  s[Last(touching(k))].val \in Nat
  BY <1>1, <1>2, <1>3, MessageParts
<1>4. QED
  BY <1>3 DEF Replay, Absent

LEMMA ReplayInitializedType ==
  ASSUME NEW i \in BOOLEAN, NEW s
  PROVE  ReplayInitialized(i, s) \in BOOLEAN
BY DEF ReplayInitialized

LEMMA PostedType ==
  ASSUME inbox \in [Tabs -> Seq(Message)], NEW m \in Message, NEW t
  PROVE  Posted(t, m) \in [Tabs -> Seq(Message)]
BY AppendProperties DEF Posted

LEMMA ApplyType ==
  ASSUME TypeOK, NEW t \in Tabs, NEW i \in BOOLEAN, NEW s \in Seq(Message), Apply(t, memory[t], i, s)
  PROVE  /\ memory' \in [Tabs -> [Keys -> Nat]]
         /\ initialized' \in [Tabs -> BOOLEAN]
         /\ ops' \in Seq(Op)
         /\ engine = NoTab => ops' = ops
<1>1. Replay(memory[t], s) \in [Keys -> Nat] /\ ReplayInitialized(i, s) \in BOOLEAN
  BY ReplayType, ReplayInitializedType DEF TypeOK
<1>2. ops \o CacheWrites(s) \in Seq(Op)
  BY CacheWritesAre, ConcatProperties DEF TypeOK
<1>3. t # NoTab
  BY TabSyncAssumption
<1>4. QED
  BY <1>1, <1>2, <1>3 DEF Apply, TypeOK

LEMMA CatchingType ==
  ASSUME log \in Seq(Entry), floor \in Nat, NEW p \in Nat, NEW l \in SUBSET Keys
  PROVE  Catching(p, l) \in UpStream
BY LogType DEF Catching, UpStream

LEMMA TypingServer ==
  ASSUME TypeOK, ServerNext
  PROVE  TypeOK'
<1>1. ASSUME NEW k \in Keys, NEW o \in {"set", "del"}, NEW l \in BOOLEAN, Record(k, o, l),
             awaiting' \subseteq Tabs \X Keys
      PROVE  TypeOK'
  <2>1. [key |-> k, op |-> o, live |-> l] \in Entry
    BY DEF Entry
  <2>2. log' \in Seq(Entry) /\ Len(log') = Len(log) + 1 /\ Len(log) \in Nat
    BY <1>1, <2>1, AppendProperties, LogType DEF Record, TypeOK
  <2>3. floor' \in 0..Len(log')
    BY <1>1, <2>2 DEF Record, TypeOK
  <2>4. QED
    BY <1>1, <2>2, <2>3 DEF Record, TypeOK, vars, serverVars, idbVars, pageVars, storeVars, roleVars, queueVars, boundVars
<1>2. ASSUME NEW k \in Keys, Commit(k) PROVE TypeOK'
  BY <1>1, <1>2 DEF Commit, TypeOK
<1>3. ASSUME NEW k \in Keys, Rejoin(k) PROVE TypeOK'
  BY <1>1, <1>3 DEF Rejoin, TypeOK
<1>4. ASSUME NEW t \in Tabs, NEW k \in Keys, Click(t, k) PROVE TypeOK'
  <2>1. awaiting' \subseteq Tabs \X Keys
    BY <1>4 DEF Click, TypeOK
  <2>2. QED
    BY <1>1, <1>4, <2>1 DEF Click
<1>5. ASSUME Prune PROVE TypeOK'
  BY <1>5, LogType DEF Prune, TypeOK, vars, serverVars, idbVars, pageVars, storeVars, roleVars, queueVars, boundVars
<1>6. QED
  BY <1>2, <1>3, <1>4, <1>5 DEF ServerNext

LEMMA TypingPage ==
  ASSUME TypeOK, NEW t \in Tabs, Open(t) \/ Close(t) \/ Hydrate(t) \/ Lead(t)
  PROVE  TypeOK'
<1>0. t # NoTab
  BY TabSyncAssumption
<1>1. ASSUME Open(t) PROVE TypeOK'
  BY SMTT(30), <1>1, ScenarioType DEF Open, TypeOK, vars, serverVars, idbVars, pageVars, storeVars, roleVars, queueVars, boundVars
<1>2. ASSUME Close(t) PROVE TypeOK'
  <2>1. EmptyStore \in [Keys -> Nat] /\ <<>> \in Seq(Message) /\ <<>> \in Seq(Op)
    BY DEF EmptyStore, Absent
  <2>2. /\ life' \in [Tabs -> {"closed", "hydrating", "open"}] /\ unread' \in [Tabs -> SUBSET Keys]
        /\ fetched' \in [Tabs -> {Nothing} \cup (Keys \X Nat)] /\ memory' \in [Tabs -> [Keys -> Nat]]
        /\ initialized' \in [Tabs -> BOOLEAN] /\ inbox' \in [Tabs -> Seq(Message)]
        /\ held' \in [Tabs -> Seq(Message)] /\ awaiting' \subseteq Tabs \X Keys
    BY <1>2, <2>1 DEF Close, TypeOK
  <2>3. /\ lock' \in Tabs \cup {NoTab} /\ engine' \in {lock', NoTab} /\ ops' \in Seq(Op)
        /\ failedWrites' \in BOOLEAN /\ stream' \in Stream
        /\ (engine' = NoTab => ops' = <<>> /\ ~failedWrites' /\ stream' = Down)
    BY <1>0, <1>2, <2>1, StreamTypes DEF Close, TypeOK, queueVars
  <2>4. \A u \in Tabs : /\ held'[u] # <<>> => life'[u] = "hydrating"
                        /\ life'[u] = "closed" => inbox'[u] = <<>> /\ lock' # u
    <3>1. \A u \in Tabs : u # t => held'[u] = held[u] /\ life'[u] = life[u] /\ inbox'[u] = inbox[u]
      BY <1>2 DEF Close, TypeOK
    <3>2. held'[t] = <<>> /\ inbox'[t] = <<>> /\ lock' # t /\ \A u \in Tabs : lock # u => lock' # u
      BY <1>0, <1>2, TabSyncAssumption DEF Close, TypeOK
    <3>3. \A u \in Tabs : /\ held[u] # <<>> => life[u] = "hydrating"
                          /\ life[u] = "closed" => inbox[u] = <<>> /\ lock # u
      BY DEF TypeOK
    <3>4. QED
      BY <3>1, <3>2, <3>3
  <2>5. QED
    BY <1>2, <2>2, <2>3, <2>4 DEF Close, TypeOK, vars, serverVars, idbVars, pageVars, storeVars, roleVars, queueVars, boundVars
<1>3. ASSUME NEW k \in Keys, FetchList(t, k) PROVE TypeOK'
  BY <1>3 DEF FetchList, HydrationStep, TypeOK, vars, serverVars, idbVars, pageVars, storeVars, roleVars, queueVars, boundVars
<1>4. ASSUME NEW k \in Keys, SkipList(t, k) PROVE TypeOK'
  BY <1>4 DEF SkipList, HydrationStep, TypeOK, vars, serverVars, idbVars, pageVars, storeVars, roleVars, queueVars, boundVars
<1>5. ASSUME SetList(t) PROVE TypeOK'
  <2>1. fetched[t] \in Keys \X Nat
    BY <1>5 DEF SetList, TypeOK
  <2>2. fetched[t][1] \in Keys /\ fetched[t][2] \in Nat
    BY <2>1
  <2>3. QED
    BY <1>5, <2>2 DEF SetList, HydrationStep, TypeOK, vars, serverVars, idbVars, pageVars, storeVars, roleVars, queueVars, boundVars
<1>6. ASSUME FinishHydration(t) PROVE TypeOK'
  <2>1. held[t] \in Seq(Message) /\ <<>> \in Seq(Message)
    BY DEF TypeOK
  <2>2. /\ memory' \in [Tabs -> [Keys -> Nat]] /\ initialized' \in [Tabs -> BOOLEAN]
        /\ ops' \in Seq(Op) /\ (engine = NoTab => ops' = ops)
    BY <1>6, <2>1, ApplyType DEF FinishHydration
  <2>3. QED
    BY <1>6, <2>1, <2>2 DEF FinishHydration, Hydrated, TypeOK, vars, serverVars, idbVars, pageVars, storeVars, roleVars, queueVars, boundVars
<1>7. ASSUME Grant(t) PROVE TypeOK'
  BY <1>7 DEF Grant, TypeOK, vars, serverVars, idbVars, pageVars, storeVars, roleVars, queueVars, boundVars
<1>8. ASSUME StartEngine(t) PROVE TypeOK'
  BY <1>0, <1>8 DEF StartEngine, TypeOK, vars, serverVars, idbVars, pageVars, storeVars, roleVars, queueVars, boundVars
<1>9. QED
  BY <1>1, <1>2, <1>3, <1>4, <1>5, <1>6, <1>7, <1>8 DEF Hydrate, Lead

LEMMA TypingMessages ==
  ASSUME TypeOK, NEW t \in Tabs, Deliver(t) \/ \E k \in Keys : UiRemove(t, k)
  PROVE  TypeOK'
<1>0. t # NoTab
  BY TabSyncAssumption
<1>1. ASSUME Deliver(t) PROVE TypeOK'
  <2>1. /\ inbox[t] \in Seq(Message) /\ held[t] \in Seq(Message) /\ inbox[t] # <<>>
        /\ Head(inbox[t]) \in Message /\ Tail(inbox[t]) \in Seq(Message)
    BY <1>1, HeadTailProperties DEF Deliver, TypeOK
  <2>2. inbox' \in [Tabs -> Seq(Message)]
    BY <1>1, <2>1 DEF Deliver, TypeOK
  <2>3. CASE life[t] = "hydrating"
    <3>1. Append(held[t], Head(inbox[t])) \in Seq(Message)
      BY <2>1, AppendProperties
    <3>2. held' \in [Tabs -> Seq(Message)] /\ UNCHANGED <<storeVars, ops>>
          /\ \A u \in Tabs : u # t => held'[u] = held[u]
      <4>1. held' = [held EXCEPT ![t] = Append(@, Head(inbox[t]))] /\ UNCHANGED <<storeVars, ops>>
        BY <1>1, <2>3 DEF Deliver
      <4>2. held \in [Tabs -> Seq(Message)]
        BY DEF TypeOK
      <4>3. QED
        BY <3>1, <4>1, <4>2
    <3>3. \A u \in Tabs : life[u] = "closed" => inbox'[u] = inbox[u]
      BY <1>1, <2>3 DEF Deliver, TypeOK
    <3>4. QED
      BY <1>1, <2>2, <2>3, <3>2, <3>3 DEF Deliver, TypeOK, vars, serverVars, idbVars, pageVars, storeVars, roleVars, queueVars, boundVars
  <2>4. CASE life[t] = "open"
    <3>1. <<Head(inbox[t])>> \in Seq(Message) /\ initialized[t] \in BOOLEAN
      BY <2>1 DEF TypeOK
    <3>2. /\ memory' \in [Tabs -> [Keys -> Nat]] /\ initialized' \in [Tabs -> BOOLEAN]
          /\ ops' \in Seq(Op) /\ (engine = NoTab => ops' = ops)
      BY <1>1, <2>4, <3>1, ApplyType DEF Deliver
    <3>3. QED
      BY <1>1, <2>2, <2>4, <3>2 DEF Deliver, TypeOK, vars, serverVars, idbVars, pageVars, storeVars, roleVars, queueVars, boundVars
  <2>5. QED
    BY <1>1, <2>3, <2>4 DEF Deliver
<1>2. ASSUME NEW k \in Keys, UiRemove(t, k) PROVE TypeOK'
  <2>1. memory' \in [Tabs -> [Keys -> Nat]] /\ awaiting' \subseteq Tabs \X Keys
    BY <1>2 DEF UiRemove, TypeOK, Absent
  <2>2. ops' \in Seq(Op) /\ (engine = NoTab => ops' = ops)
    <3>1. WriteOp(k, Absent) \in Op /\ ops \in Seq(Op)
      BY OpTypes DEF TypeOK, Absent
    <3>2. (ops' = Append(ops, WriteOp(k, Absent)) /\ engine # NoTab) \/ ops' = ops
      BY <1>0, <1>2 DEF UiRemove
    <3>3. QED
      BY <3>1, <3>2, AppendProperties
  <2>3. inbox' \in [Tabs -> Seq(Message)] /\ \A u \in Tabs : life[u] = "closed" => inbox'[u] = inbox[u]
    <3>1. inbox' = inbox \/ inbox' = Posted(t, CacheDelete(k))
      BY <1>2 DEF UiRemove
    <3>2. CacheDelete(k) \in Message /\ inbox \in [Tabs -> Seq(Message)]
      BY MessageTypes DEF TypeOK
    <3>3. Posted(t, CacheDelete(k)) \in [Tabs -> Seq(Message)]
      BY <3>2, PostedType
    <3>4. QED
      BY <3>1, <3>2, <3>3 DEF Posted
  <2>4. QED
    BY <1>2, <2>1, <2>2, <2>3 DEF UiRemove, TypeOK, vars, serverVars, idbVars, pageVars, storeVars, roleVars, queueVars, boundVars
<1>3. QED
  BY <1>1, <1>2

LEMMA TypingEngine ==
  ASSUME TypeOK, NEW t \in Tabs, Dial(t) \/ Follow(t) \/ Disconnect(t)
  PROVE  TypeOK'
<1>0. t # NoTab
  BY TabSyncAssumption
<1> USE DEF EngineStep
<1>1. ASSUME Resume(t) PROVE TypeOK'
  <2>1. stream' \in Stream
    BY <1>1, CatchingType, StreamTypes DEF Resume, TypeOK
  <2>2. QED
    BY <1>0, <1>1, <2>1 DEF Resume, MayDial, TypeOK, vars, serverVars, idbVars, pageVars, storeVars, roleVars, queueVars, boundVars
<1>2. ASSUME StartOver(t) PROVE TypeOK'
  <2>1. {<<WipeOp, NotifyOp(Reset), FlushOp>>, <<WipeOp, CursorOp(0), NotifyOp(Reset), FlushOp>>} \subseteq Seq(Op)
    BY OpTypes, MessageTypes
  <2>2. ops' \in Seq(Op) /\ stream' \in Stream
    <3>1. ops' \in {<<WipeOp, NotifyOp(Reset), FlushOp>>, <<WipeOp, CursorOp(0), NotifyOp(Reset), FlushOp>>}
      BY <1>2 DEF StartOver
    <3>2. stream' = Flushing
      BY <1>2 DEF StartOver
    <3>3. QED
      BY <2>1, <3>1, <3>2, StreamTypes
  <2>3. QED
    BY <1>0, <1>2, <2>2 DEF StartOver, MayDial, EmptyStore, Absent, TypeOK, vars, serverVars, idbVars, pageVars, storeVars, roleVars, queueVars, boundVars
<1>3. ASSUME NEW k \in Keys, NEW v \in Nat, ReceiveAction(t, k, v)
      PROVE  memory' \in [Tabs -> [Keys -> Nat]] /\ ops' \in Seq(Op)
  <2>1. <<WriteOp(k, v), NotifyOp(Action(k, v))>> \in Seq(Op)
    BY OpTypes, MessageTypes
  <2>2. QED
    BY <1>3, <2>1, ConcatProperties DEF ReceiveAction, TypeOK
<1>4. ASSUME Streaming(t) PROVE stream \in UpStream
  BY <1>4, StreamParts DEF Streaming, TypeOK
<1>5. ASSUME NextEntry(t) PROVE TypeOK'
  <2>1. stream.pos \in Nat /\ stream.pos + 1 \in 1..Len(log) /\ stream.pos + 1 \in Nat
    BY <1>4, <1>5, LogType DEF NextEntry, UpStream, TypeOK
  <2>2. stream' \in Stream
    <3>1. stream \in UpStream /\ stream' = [stream EXCEPT !.pos = @ + 1]
      BY <1>4, <1>5 DEF NextEntry
    <3>2. stream' \in UpStream
      BY <2>1, <3>1 DEF UpStream
    <3>3. QED
      BY <3>2, StreamTypes
  <2>3. log[stream.pos + 1].key \in Keys
        /\ Val(log[stream.pos + 1].key, stream.pos + 1) \in Nat
    BY <2>1, LogType, ValType DEF TypeOK
  <2>4. memory' \in [Tabs -> [Keys -> Nat]] /\ ops' \in Seq(Op)
    BY <1>3, <1>5, <2>3 DEF NextEntry, TypeOK, storeVars
  <2>5. QED
    BY <1>0, <1>5, <2>2, <2>4 DEF NextEntry, ReceiveAction, Streaming, TypeOK, vars, serverVars, idbVars, pageVars, storeVars, roleVars, queueVars, boundVars
<1>6. ASSUME NextRow(t) PROVE TypeOK'
  <2>1. stream \in UpStream /\ stream.mark \in Nat
    BY <1>4, <1>6 DEF NextRow, UpStream
  <2>2. PICK k \in stream.left : stream' = [stream EXCEPT !.left = @ \ {k}]
                                 /\ ReceiveAction(t, k, Val(k, stream.mark))
    BY <1>6 DEF NextRow
  <2>3. k \in Keys /\ Val(k, stream.mark) \in Nat
    BY <2>1, ValType DEF UpStream
  <2>4. stream' \in Stream
    BY <2>1, <2>2, StreamTypes DEF UpStream, TypeOK
  <2>5. memory' \in [Tabs -> [Keys -> Nat]] /\ ops' \in Seq(Op)
    BY <1>3, <2>2, <2>3
  <2>6. QED
    BY <1>0, <1>6, <2>2, <2>4, <2>5 DEF NextRow, ReceiveAction, Streaming, TypeOK, vars, serverVars, idbVars, pageVars, storeVars, roleVars, queueVars, boundVars
<1>7. ASSUME CompleteStream(t) PROVE TypeOK'
  <2>1. stream \in UpStream /\ stream.claim \in Nat
    BY <1>4, <1>7 DEF CompleteStream, UpStream
  <2>2. <<CursorOp(stream.claim), NotifyOp(Complete)>> \in Seq(Op)
    BY <2>1, OpTypes, MessageTypes
  <2>3. ops' \in Seq(Op) /\ stream' \in Stream
    BY <1>7, <2>1, <2>2, ConcatProperties, StreamTypes DEF CompleteStream, UpStream, TypeOK
  <2>4. QED
    BY <1>0, <1>7, <2>3 DEF CompleteStream, Streaming, TypeOK, vars, serverVars, idbVars, pageVars, storeVars, roleVars, queueVars, boundVars
<1>8. ASSUME Disconnect(t) PROVE TypeOK'
  <2>1. drops' \in 0..scenario.drops /\ stream' \in Stream /\ engine # NoTab
    BY <1>0, <1>8, StreamTypes, ScenarioType DEF Disconnect, TypeOK
  <2>2. QED
    BY <1>8, <2>1 DEF Disconnect, TypeOK, vars, serverVars, idbVars, pageVars, storeVars, roleVars, queueVars, boundVars
<1>9. QED
  BY <1>1, <1>2, <1>5, <1>6, <1>7, <1>8 DEF Dial, Follow

LEMMA TypingWriter ==
  ASSUME TypeOK, WriterNext
  PROVE  TypeOK'
<1>1. /\ ops \in Seq(Op) /\ ops # <<>> /\ Head(ops) \in Op /\ Tail(ops) \in Seq(Op) /\ ops' = Tail(ops)
      /\ engine # NoTab
  BY HeadTailProperties DEF WriterNext, WriteRow, Wipe, SetCursor, Notify, Flush, Pop, TypeOK
<1>2. ASSUME WriteRow PROVE TypeOK'
  BY <1>1, <1>2, OpParts DEF WriteRow, Pop, TypeOK, vars, serverVars, idbVars, pageVars, storeVars, roleVars, queueVars, boundVars
<1>3. ASSUME Wipe PROVE TypeOK'
  BY <1>1, <1>3 DEF Wipe, Pop, EmptyStore, Absent, TypeOK, vars, serverVars, idbVars, pageVars, storeVars, roleVars, queueVars, boundVars
<1>4. ASSUME SetCursor PROVE TypeOK'
  BY <1>1, <1>4, OpParts DEF SetCursor, Pop, TypeOK, vars, serverVars, idbVars, pageVars, storeVars, roleVars, queueVars, boundVars
<1>5. ASSUME Notify PROVE TypeOK'
  <2>1. Head(ops).msg \in Message
    BY <1>1, <1>5, OpParts DEF Notify, Pop
  <2>2. inbox' \in [Tabs -> Seq(Message)] /\ \A u \in Tabs : life[u] = "closed" => inbox'[u] = inbox[u]
    BY <1>5, <2>1, PostedType DEF Notify, TypeOK, Posted
  <2>3. QED
    BY <1>1, <1>5, <2>2 DEF Notify, Pop, TypeOK, vars, serverVars, idbVars, pageVars, storeVars, roleVars, queueVars, boundVars
<1>6. ASSUME Flush PROVE TypeOK'
  <2>1. Catching(Len(log), {k \in Keys : Current(k) # Absent}) \in Stream
    BY CatchingType, LogType, StreamTypes DEF TypeOK
  <2>2. stream' \in Stream
    BY <1>6, <2>1 DEF Flush, TypeOK
  <2>3. QED
    BY <1>1, <1>6, <2>2 DEF Flush, Pop, TypeOK, vars, serverVars, idbVars, pageVars, storeVars, roleVars, queueVars, boundVars
<1>7. QED
  BY <1>2, <1>3, <1>4, <1>5, <1>6 DEF WriterNext

LEMMA TypingInit == Init => TypeOK
<1>1. SUFFICES ASSUME Init PROVE TypeOK
  OBVIOUS
<1>2. \A S : <<>> \in Seq(S) /\ Len(<<>>) = 0
  OBVIOUS
<1>3. log \in Seq(Entry) /\ ops \in Seq(Op) /\ floor \in 0..Len(log)
  BY <1>1, <1>2 DEF Init
<1>4. opens \in 0..scenario.opens /\ drops \in 0..scenario.drops
  BY <1>1, ScenarioType DEF Init
<1>5. inbox \in [Tabs -> Seq(Message)] /\ held \in [Tabs -> Seq(Message)]
      /\ memory \in [Tabs -> [Keys -> Nat]] /\ rows \in [Keys -> Nat] /\ NoTab \notin Tabs
  BY <1>1, <1>2, TabSyncAssumption DEF Init, EmptyStore, Absent
<1>6. QED
  BY <1>1, <1>3, <1>4, <1>5, StreamTypes DEF Init, TypeOK

LEMMA TypingNext ==
  ASSUME TypeOK, [Next]_vars
  PROVE  TypeOK'
<1>1. CASE UNCHANGED vars
  BY <1>1 DEF TypeOK, vars, serverVars, idbVars, pageVars, storeVars, roleVars, queueVars, boundVars
<1>2. CASE Next
  BY <1>2, TypingServer, TypingWriter, TypingPage, TypingMessages, TypingEngine DEF Next
<1>3. QED
  BY <1>1, <1>2

-----------------------------------------------------------------------------
(***************************************************************************)
(* The keys the properties speak of, and how the log goes on.              *)
(***************************************************************************)
\* The keys of which nobody has come back to a team, and those of which every
\* change was broadcast.
Tame == {k \in Keys : \A n \in DOMAIN log : log[n].key = k /\ log[n].op = "set" => log[n].live}
Heeded == {k \in Keys : Broadcast(k)}

\* The row is gone, for good unless a team is joined again.
Over(k) == Current(k) = Absent /\ (Gone(k) \/ Left(k))

LEMMA HeededTame == Heeded \subseteq Tame
BY DEF Heeded, Tame, Broadcast

LEMMA OverFresh ==
  ASSUME log \in Seq(Entry), NEW k, Over(k), NEW c \in 0..Len(log)
  PROVE  Fresh(k, Absent, c)
BY FreshIs, LogType DEF Over, Current

LEMMA RecordOnward ==
  ASSUME TypeOK, NEW k \in Keys, NEW o \in {"set", "del"}, NEW l \in BOOLEAN, Record(k, o, l)
  PROVE  /\ log' = Append(log, [key |-> k, op |-> o, live |-> l])
         /\ Len(log') = Len(log) + 1 /\ DOMAIN log' = 1..Len(log')
         /\ \A n \in 1..Len(log) : log'[n] = log[n]
         /\ log'[Len(log) + 1] = [key |-> k, op |-> o, live |-> l]
         /\ log' \in Seq(Entry)
BY AppendProperties, LogType, LenProperties DEF Record, TypeOK, Entry

\* What a step may do to the log.
LEMMA LogStep ==
  ASSUME TypeOK, [Next]_vars
  PROVE  \/ log' = log
         \/ \E k \in Keys, o \in {"set", "del"}, l \in BOOLEAN :
              /\ Record(k, o, l)
              /\ \/ Commit(k) /\ l
                 \/ o = "set" /\ ~l /\ "rejoin" \in scenario.gestures
                 \/ o = "del" /\ Current(k) # Absent
BY ZenonT(60) DEF Next, ServerNext, Commit, Rejoin, Click, Prune, Open, Close, Hydrate, FetchList, SkipList, SetList,
       FinishHydration, HydrationStep, Deliver, Lead, Grant, StartEngine, Dial, Resume, StartOver, Follow,
       NextEntry, NextRow, CompleteStream, ReceiveAction, Disconnect, UiRemove, EngineStep, WriterNext,
       WriteRow, Wipe, SetCursor, Notify, Flush, Pop, vars, serverVars

LEMMA FloorStep ==
  ASSUME TypeOK, TypeOK', [Next]_vars
  PROVE  floor <= floor'
<1>1. floor' = floor \/ Prune
  BY ZenonT(60) DEF Next, ServerNext, Commit, Rejoin, Click, Record, Open, Close, Hydrate, FetchList, SkipList, SetList,
         FinishHydration, HydrationStep, Deliver, Lead, Grant, StartEngine, Dial, Resume, StartOver, Follow,
         NextEntry, NextRow, CompleteStream, ReceiveAction, Disconnect, UiRemove, EngineStep, WriterNext,
         WriteRow, Wipe, SetCursor, Notify, Flush, Pop, vars, serverVars
<1>2. floor \in Nat /\ floor' \in Nat /\ Len(log) \in Nat
  BY LogType DEF TypeOK
<1>3. QED
  BY <1>1, <1>2 DEF Prune

LEMMA FreshKept ==
  ASSUME log \in Seq(Entry), NEW e, log' = log \/ log' = Append(log, e), log' \in Seq(Entry),
         NEW k, NEW v, NEW c \in 0..Len(log), Fresh(k, v, c)
  PROVE  Fresh(k, v, c)'
<1>1. CASE log' = log
  BY <1>1 DEF Fresh, Val
<1>2. CASE log' = Append(log, e)
  <2>1. PICK p \in c..Len(log) : Val(k, p) = v
    BY DEF Fresh
  <2>2. p \in 0..Len(log) /\ Len(log') \in Nat /\ Len(log) <= Len(log')
    BY <1>2, LogType
  <2>3. Val(k, p)' = v
    BY <1>2, <2>1, <2>2, ValKept
  <2>4. p \in c..Len(log')
    BY <2>2, LogType
  <2>5. QED
    BY <2>3, <2>4 DEF Fresh
<1>3. QED
  BY <1>1, <1>2

\* What is over stays over, and what was fresh stays so.
LEMMA Onward ==
  ASSUME TypeOK, TypeOK', [Next]_vars
  PROVE  /\ Len(log) \in Nat /\ Len(log') \in Nat /\ Len(log) <= Len(log')
         /\ \A k, v : \A c \in 0..Len(log) : Fresh(k, v, c) => Fresh(k, v, c)'
         /\ Tame' \subseteq Tame /\ Heeded' \subseteq Heeded
         /\ \A k \in Tame' : Over(k) => Over(k)'
         /\ \A c \in 0..Len(log) : Available(c)' => Available(c)
<1>0. log \in Seq(Entry) /\ log' \in Seq(Entry) /\ Len(log) \in Nat /\ DOMAIN log = 1..Len(log)
  BY LogType DEF TypeOK
<1>1. /\ Len(log') \in Nat /\ Len(log) <= Len(log') /\ DOMAIN log' = 1..Len(log')
      /\ \A n \in 1..Len(log) : log'[n] = log[n]
  <2>1. Len(log') \in Nat /\ DOMAIN log' = 1..Len(log')
    BY <1>0, LenProperties
  <2>2. CASE log' = log
    BY <1>0, <2>1, <2>2
  <2>3. CASE log' # log
    <3>1. PICK k \in Keys, o \in {"set", "del"}, l \in BOOLEAN : Record(k, o, l)
      BY <2>3, LogStep
    <3>2. Len(log') = Len(log) + 1 /\ \A n \in 1..Len(log) : log'[n] = log[n]
      BY <3>1, RecordOnward
    <3>3. QED
      BY <1>0, <2>1, <3>2
  <2>4. QED
    BY <2>2, <2>3
<1>8. log' = log \/ \E e : log' = Append(log, e)
  BY LogStep, RecordOnward
<1>2. \A k, v : \A c \in 0..Len(log) : Fresh(k, v, c) => Fresh(k, v, c)'
  BY <1>0, <1>8, FreshKept
<1>3. DOMAIN log \subseteq DOMAIN log' /\ \A n \in DOMAIN log : log'[n] = log[n]
  <2>1. \A n \in 1..Len(log) : n \in 1..Len(log')
    BY <1>0, <1>1
  <2>2. QED
    BY <1>0, <1>1, <2>1
<1>7. Tame' \subseteq Tame /\ Heeded' \subseteq Heeded
  BY <1>3 DEF Tame, Heeded, Broadcast
<1>4. ASSUME NEW k \in Tame', Over(k) PROVE Over(k)'
  <2>1. CASE log' = log
    BY <1>4, <2>1 DEF Over, Current, Val, Gone, Left
  <2>2. ASSUME NEW j \in Keys, NEW o \in {"set", "del"}, NEW l \in BOOLEAN, Record(j, o, l),
               \/ Commit(j) /\ l
               \/ o = "set" /\ ~l
               \/ o = "del" /\ Current(j) # Absent
        PROVE  Over(k)'
    <3>1. /\ log' = Append(log, [key |-> j, op |-> o, live |-> l]) /\ Len(log') = Len(log) + 1
          /\ \A n \in 1..Len(log) : log'[n] = log[n]
          /\ log'[Len(log) + 1] = [key |-> j, op |-> o, live |-> l]
      BY <2>2, RecordOnward
    <3>2. j # k
      <4>1. CASE Commit(j)
        BY <1>4, <4>1 DEF Commit, Over
      <4>2. CASE o = "set" /\ ~l
        <5>1. Len(log) + 1 \in DOMAIN log'
          BY <1>0, <1>1, <3>1
        <5>2. log'[Len(log) + 1].op = "set" /\ ~log'[Len(log) + 1].live /\ log'[Len(log) + 1].key = j
          BY <3>1, <4>2
        <5>3. QED
          BY <5>1, <5>2 DEF Tame
      <4>3. CASE o = "del" /\ Current(j) # Absent
        BY <1>4, <4>3 DEF Over
      <4>4. QED
        BY <2>2, <4>1, <4>2, <4>3
    <3>3. PICK p \in Nat : p = Len(log)
      BY <1>0
    <3>4. Val(k, p + 1)' = Val(k, p)'
      <4> DEFINE A == {n \in 1..p : log'[n].key = k}
                 B == {n \in 1..(p + 1) : log'[n].key = k}
      <4>1. log'[p + 1].key # k
        BY <3>1, <3>2, <3>3
      <4>2. A = B
        BY <4>1
      <4>3. QED
        BY <4>2 DEF Val
    <3>5. Current(k)' = Absent
      <4>1. Val(k, p)' = Val(k, p)
        BY <1>0, <3>1, <3>3, ValKept
      <4>2. Val(k, p + 1)' = Absent
        BY <1>4, <3>3, <3>4, <4>1 DEF Over, Current
      <4>3. QED
        BY <3>1, <3>3, <4>2 DEF Current
    <3>6. (Gone(k) => Gone(k)') /\ (Left(k) => Left(k)')
      BY <1>3 DEF Gone, Left
    <3>7. QED
      BY <1>4, <3>5, <3>6 DEF Over
  <2>3. QED
    BY <2>1, <2>2, LogStep
<1>5. \A c \in 0..Len(log) : Available(c)' => Available(c)
  <2>1. floor <= floor' /\ floor \in Nat /\ floor' \in Nat
    <3>1. floor \in 0..Len(log) /\ floor' \in 0..Len(log')
      BY DEF TypeOK
    <3>2. floor <= floor'
      BY FloorStep
    <3>3. QED
      BY <1>0, <1>1, <3>1, <3>2
  <2>2. QED
    BY <1>0, <1>1, <2>1 DEF Available
<1>6. QED
  BY <1>0, <1>1, <1>2, <1>4, <1>5, <1>7

-----------------------------------------------------------------------------
(***************************************************************************)
(* A delete that is on its way is of a row that is gone.                   *)
(***************************************************************************)
Deletes(s) == \A i \in DOMAIN s : s[i].is = "cache_delete" /\ s[i].key \in Tame => Over(s[i].key)

Ended ==
  /\ \A a \in awaiting : a[2] \in Tame => Over(a[2])
  /\ \A t \in Tabs : Deletes(inbox[t]) /\ Deletes(held[t])
  /\ \A i \in DOMAIN ops : ops[i].do = "notify" => ops[i].msg.is # "cache_delete"

LEMMA SeqFacts ==
  ASSUME NEW S, NEW s \in Seq(S)
  PROVE  Len(s) \in Nat /\ DOMAIN s = 1..Len(s) /\ \A i \in 1..Len(s) : s[i] \in S
BY LenProperties, ElementOfSeq

LEMMA HeadFacts ==
  ASSUME NEW S, NEW s \in Seq(S), s # <<>>
  PROVE  /\ Len(s) \in Nat /\ Len(s) > 0 /\ Head(s) = s[1] /\ Head(s) \in S /\ 1 \in DOMAIN s
         /\ Tail(s) \in Seq(S) /\ Len(Tail(s)) = Len(s) - 1 /\ DOMAIN Tail(s) = 1..(Len(s) - 1)
         /\ \A i \in 1..(Len(s) - 1) : Tail(s)[i] = s[i + 1] /\ i + 1 \in DOMAIN s
<1>1. Len(s) \in Nat /\ Len(s) > 0 /\ DOMAIN s = 1..Len(s)
  BY SeqFacts, EmptySeq
<1>2. Tail(s) \in Seq(S) /\ Len(Tail(s)) = Len(s) - 1 /\ \A i \in 1..Len(Tail(s)) : Tail(s)[i] = s[i + 1]
  BY HeadTailProperties
<1>3. Head(s) = s[1] /\ Head(s) \in S
  BY <1>1, HeadTailProperties
<1>4. QED
  BY <1>1, <1>2, <1>3, SeqFacts

LEMMA AppendFacts ==
  ASSUME NEW S, NEW s \in Seq(S), NEW e \in S
  PROVE  /\ Len(s) \in Nat /\ Append(s, e) \in Seq(S) /\ Len(Append(s, e)) = Len(s) + 1
         /\ DOMAIN s = 1..Len(s) /\ DOMAIN Append(s, e) = 1..(Len(s) + 1)
         /\ \A i \in 1..Len(s) : Append(s, e)[i] = s[i]
         /\ Append(s, e)[Len(s) + 1] = e
BY AppendProperties, LenProperties

LEMMA ConcatFacts ==
  ASSUME NEW S, NEW s \in Seq(S), NEW u \in Seq(S)
  PROVE  /\ Len(s) \in Nat /\ Len(u) \in Nat /\ DOMAIN s = 1..Len(s) /\ DOMAIN u = 1..Len(u)
         /\ s \o u \in Seq(S) /\ DOMAIN (s \o u) = 1..(Len(s) + Len(u)) /\ Len(s \o u) = Len(s) + Len(u)
         /\ \A i \in 1..Len(s) : (s \o u)[i] = s[i]
         /\ \A i \in 1..Len(u) : (s \o u)[Len(s) + i] = u[i]
<1>1. /\ s \o u \in Seq(S) /\ Len(s \o u) = Len(s) + Len(u)
      /\ \A i \in 1..(Len(s) + Len(u)) : (s \o u)[i] = IF i <= Len(s) THEN s[i] ELSE u[i - Len(s)]
  BY ConcatProperties
<1>2. Len(s) \in Nat /\ Len(u) \in Nat /\ DOMAIN s = 1..Len(s) /\ DOMAIN u = 1..Len(u)
      /\ DOMAIN (s \o u) = 1..Len(s \o u)
  BY <1>1, SeqFacts
<1>3. QED
  BY <1>1, <1>2

LEMMA DeletesTail ==
  ASSUME NEW s \in Seq(Message), s # <<>>, Deletes(s)
  PROVE  Deletes(Tail(s)) /\ Deletes(<<Head(s)>>)
BY HeadFacts DEF Deletes

LEMMA DeletesAppend ==
  ASSUME NEW s \in Seq(Message), NEW m \in Message, Deletes(s), Deletes(<<m>>)
  PROVE  Deletes(Append(s, m))
<1>1. m.is = "cache_delete" /\ m.key \in Tame => Over(m.key)
  BY DEF Deletes
<1>2. QED
  BY <1>1, AppendFacts DEF Deletes

LEMMA DeletesPosted ==
  ASSUME TypeOK, NEW m \in Message, NEW t, Deletes(<<m>>), \A u \in Tabs : Deletes(inbox[u])
  PROVE  \A u \in Tabs : Deletes(Posted(t, m)[u])
BY DeletesAppend DEF Posted, TypeOK

LEMMA DeletesEmpty == Deletes(<<>>)
BY DEF Deletes

LEMMA DeletesKept ==
  ASSUME TypeOK, TypeOK', [Next]_vars, NEW s, Deletes(s)
  PROVE  Deletes(s)'
BY Onward DEF Deletes

LEMMA ClickedOver ==
  ASSUME TypeOK, TypeOK', NEW t \in Tabs, NEW k \in Keys, Click(t, k)
  PROVE  Over(k)'
<1>1. PICK l \in BOOLEAN : Record(k, "del", l)
  BY DEF Click
<1>2. /\ Len(log') = Len(log) + 1 /\ DOMAIN log' = 1..Len(log')
      /\ log'[Len(log) + 1] = [key |-> k, op |-> "del", live |-> l]
  BY <1>1, RecordOnward
<1>3. PICK p \in Nat : p = Len(log)
  BY LogType DEF TypeOK
<1>4. Val(k, p + 1)' = Absent
  <2> DEFINE B == {n \in 1..(p + 1) : log'[n].key = k}
  <2>1. p + 1 \in B /\ B \subseteq Nat /\ \A x \in B : x <= p + 1
    BY <1>2, <1>3
  <2>2. Last(B) = p + 1
    BY <2>1, LastIs
  <2>3. QED
    BY <1>2, <1>3, <2>1, <2>2 DEF Val
<1>5. Current(k)' = Absent
  BY <1>2, <1>3, <1>4 DEF Current
<1>6. Gone(k)' \/ Left(k)'
  <2>1. Len(log) + 1 \in DOMAIN log'
    BY <1>2, <1>3
  <2>2. QED
    BY <1>2, <2>1 DEF Gone, Left
<1>7. QED
  BY <1>5, <1>6 DEF Over

LEMMA AwaitingStep ==
  ASSUME TypeOK, [Next]_vars
  PROVE  awaiting' \subseteq awaiting
         \/ \E t \in Tabs, k \in Keys : Click(t, k) /\ awaiting' = awaiting \cup {<<t, k>>}
BY ZenonT(60) DEF Next, ServerNext, Commit, Rejoin, Click, Record, Prune, Open, Close, Hydrate, FetchList, SkipList, SetList,
       FinishHydration, HydrationStep, Deliver, Lead, Grant, StartEngine, Dial, Resume, StartOver, Follow,
       NextEntry, NextRow, CompleteStream, ReceiveAction, Disconnect, UiRemove, EngineStep, WriterNext,
       WriteRow, Wipe, SetCursor, Notify, Flush, Pop, vars

LEMMA EndedAwaiting ==
  ASSUME TypeOK, TypeOK', Ended, [Next]_vars
  PROVE  \A a \in awaiting' : a[2] \in Tame' => Over(a[2])'
<1>1. \A a \in awaiting : a[2] \in Tame' => Over(a[2])'
  BY Onward DEF Ended
<1>2. ASSUME NEW t \in Tabs, NEW k \in Keys, Click(t, k), awaiting' = awaiting \cup {<<t, k>>}
      PROVE  \A a \in awaiting' : a[2] \in Tame' => Over(a[2])'
  <2>1. Over(k)'
    BY <1>2, ClickedOver
  <2>2. \A a \in awaiting' : a \in awaiting \/ a[2] = k
    BY <1>2
  <2>3. QED
    BY <1>1, <2>1, <2>2
<1>3. QED
  BY <1>1, <1>2, AwaitingStep

\* What a step may do to the messages of a tab.
LEMMA MessageStep ==
  ASSUME TypeOK, TypeOK', Ended, [Next]_vars
  PROVE  \A t \in Tabs : Deletes(inbox'[t]) /\ Deletes(held'[t])
<1>0. /\ inbox \in [Tabs -> Seq(Message)] /\ held \in [Tabs -> Seq(Message)]
      /\ \A t \in Tabs : Deletes(inbox[t]) /\ Deletes(held[t])
  BY DEF TypeOK, Ended
<1>1. CASE UNCHANGED <<inbox, held>>
  BY <1>0, <1>1
<1>2. ASSUME NEW t \in Tabs, Close(t) PROVE \A u \in Tabs : Deletes(inbox'[u]) /\ Deletes(held'[u])
  BY <1>0, <1>2, DeletesEmpty DEF Close
<1>3. ASSUME NEW t \in Tabs, Deliver(t) PROVE \A u \in Tabs : Deletes(inbox'[u]) /\ Deletes(held'[u])
  <2>1. /\ inbox[t] \in Seq(Message) /\ inbox[t] # <<>> /\ Head(inbox[t]) \in Message
        /\ held[t] \in Seq(Message)
    BY <1>0, <1>3, HeadFacts DEF Deliver
  <2>2. Deletes(Tail(inbox[t])) /\ Deletes(<<Head(inbox[t])>>)
    BY <1>0, <2>1, DeletesTail
  <2>3. Deletes(Append(held[t], Head(inbox[t])))
    BY <1>0, <2>1, <2>2, DeletesAppend
  <2>4. inbox' = [inbox EXCEPT ![t] = Tail(@)]
        /\ (held' = held \/ held' = [held EXCEPT ![t] = Append(@, Head(inbox[t]))])
    BY <1>3 DEF Deliver
  <2>5. QED
    BY <1>0, <2>2, <2>3, <2>4
<1>4. ASSUME NEW t \in Tabs, FinishHydration(t) PROVE \A u \in Tabs : Deletes(inbox'[u]) /\ Deletes(held'[u])
  BY <1>0, <1>4, DeletesEmpty DEF FinishHydration
<1>5. ASSUME NEW t \in Tabs, NEW k \in Keys, UiRemove(t, k)
      PROVE  \A u \in Tabs : Deletes(inbox'[u]) /\ Deletes(held'[u])
  <2>1. k \in Tame => Over(k)
    BY <1>5 DEF UiRemove, Ended
  <2>2. CacheDelete(k) \in Message /\ Deletes(<<CacheDelete(k)>>)
    BY <2>1, MessageTypes DEF Deletes, CacheDelete
  <2>3. \A u \in Tabs : Deletes(Posted(t, CacheDelete(k))[u])
    BY <1>0, <2>2, DeletesPosted
  <2>4. QED
    BY <1>0, <1>5, <2>3 DEF UiRemove
<1>6. ASSUME Notify PROVE \A u \in Tabs : Deletes(inbox'[u]) /\ Deletes(held'[u])
  <2>1. ops \in Seq(Op) /\ ops # <<>> /\ Head(ops).do = "notify"
    BY <1>6 DEF Notify, Pop, TypeOK
  <2>2. Head(ops).msg \in Message /\ Head(ops).msg.is # "cache_delete"
    BY <2>1, HeadFacts, OpParts DEF Ended
  <2>3. Deletes(<<Head(ops).msg>>)
    BY <2>2 DEF Deletes
  <2>4. \A u \in Tabs : Deletes(Posted(engine, Head(ops).msg)[u])
    BY <1>0, <2>2, <2>3, DeletesPosted
  <2>5. QED
    BY <1>0, <1>6, <2>4 DEF Notify, Pop
<1>7. UNCHANGED <<inbox, held>> \/ Notify \/ \E t \in Tabs : Close(t) \/ Deliver(t) \/ FinishHydration(t)
        \/ \E k \in Keys : UiRemove(t, k)
  BY ZenonT(60) DEF Next, ServerNext, Commit, Rejoin, Click, Record, Prune, Open, Hydrate, FetchList, SkipList, SetList,
       HydrationStep, Lead, Grant, StartEngine, Dial, Resume, StartOver, Follow,
       NextEntry, NextRow, CompleteStream, ReceiveAction, Disconnect, EngineStep, WriterNext,
       WriteRow, Wipe, SetCursor, Flush, Pop, vars
<1>8. QED
  BY <1>1, <1>2, <1>3, <1>4, <1>5, <1>6, <1>7

-----------------------------------------------------------------------------
(***************************************************************************)
(* The queue of the writer.                                                *)
(***************************************************************************)
\* How far the leader is: what its connection has brought, and what it may claim.
Moved ==
  /\ cursor <= Len(log)
  /\ \A i \in DOMAIN ops : ops[i].do = "cursor" => ops[i].id <= Len(log)
  /\ stream.at = "up" =>
       /\ cursor <= stream.pos /\ cursor <= stream.mark
       /\ stream.pos <= Len(log) /\ stream.mark <= Len(log)
       /\ stream.claim \in {0, stream.mark}
       /\ stream.left # {} => stream.pos = stream.mark
       /\ stream.done => stream.pos >= stream.mark /\ stream.left = {}
       /\ \A i \in DOMAIN ops : ops[i].do = "cursor" => stream.done /\ ops[i].id <= stream.mark

IsAction(o) == o.do = "notify" /\ o.msg.is = "action"

\* A row is said to hold a value by a write, and by a broadcast.
Speaks(o) == o.do = "write" \/ IsAction(o)
What(o) == IF o.do = "write" THEN [key |-> o.key, val |-> o.val] ELSE [key |-> o.msg.key, val |-> o.msg.val]

\* A broadcast follows its write.
Backed(i) ==
  IsAction(ops[i]) =>
    IF i = 1 THEN failedWrites \/ rows[ops[i].msg.key] = ops[i].msg.val
    ELSE ops[i - 1] = WriteOp(ops[i].msg.key, ops[i].msg.val)

\* A write that no broadcast follows is that of a delete.
Evicts(o) == o.do = "write" /\ o.val = Absent /\ (o.key \in Tame => Over(o.key))

Passed(i) ==
  ops[i].do = "write" =>
    \/ i + 1 \in DOMAIN ops /\ ops[i + 1] = NotifyOp(Action(ops[i].key, ops[i].val))
    \/ Evicts(ops[i])

\* Nothing is older than a cursor that may be on disk when it is written.
Covers(i) ==
  (Speaks(ops[i]) /\ What(ops[i]).key \in Tame) =>
    /\ Fresh(What(ops[i]).key, What(ops[i]).val, cursor)
    /\ \A h \in 1..(i - 1) : ops[h].do = "cursor" => Fresh(What(ops[i]).key, What(ops[i]).val, ops[h].id)

Items ==
  /\ \A i \in DOMAIN ops : Backed(i) /\ Passed(i) /\ Covers(i)
  /\ \A i, j \in DOMAIN ops : ops[i].do = "cursor" /\ ops[j].do = "cursor" => i = j
  /\ failedWrites => "write" \in scenario.faults

\* What may be appended.
Fit(w) ==
  /\ \A n \in DOMAIN w :
       /\ w[n].do = "notify" => w[n].msg.is # "cache_delete"
       /\ IsAction(w[n]) => n > 1 /\ w[n - 1] = WriteOp(w[n].msg.key, w[n].msg.val)
       /\ w[n].do = "write" =>
            \/ n + 1 \in DOMAIN w /\ w[n + 1] = NotifyOp(Action(w[n].key, w[n].val))
            \/ Evicts(w[n])
       /\ (Speaks(w[n]) /\ What(w[n]).key \in Tame) =>
            /\ Fresh(What(w[n]).key, What(w[n]).val, cursor)
            /\ \A h \in DOMAIN ops : ops[h].do = "cursor" => Fresh(What(w[n]).key, What(w[n]).val, ops[h].id)
  /\ \A n, h \in DOMAIN w : w[n].do = "cursor" => ~Speaks(w[h]) /\ (w[h].do = "cursor" => h = n)
  /\ (\E n \in DOMAIN w : w[n].do = "cursor") => \A i \in DOMAIN ops : ops[i].do # "cursor"

LEMMA CursorIds ==
  ASSUME TypeOK, Moved
  PROVE  /\ Len(ops) \in Nat /\ DOMAIN ops = 1..Len(ops)
         /\ \A i \in 1..Len(ops) : ops[i] \in Op
         /\ \A i \in 1..Len(ops) : ops[i].do = "cursor" => ops[i].id \in 0..Len(log)
         /\ cursor \in 0..Len(log)
<1>1. Len(ops) \in Nat /\ DOMAIN ops = 1..Len(ops) /\ \A i \in 1..Len(ops) : ops[i] \in Op
  BY SeqFacts DEF TypeOK
<1>2. \A i \in 1..Len(ops) : ops[i].do = "cursor" => ops[i].id \in Nat
  BY <1>1, OpParts
<1>3. QED
  BY SMTT(30), <1>1, <1>2, LogType DEF Moved, TypeOK

LEMMA ItemsAppend ==
  ASSUME TypeOK, TypeOK', [Next]_vars, Moved, Items, NEW w \in Seq(Op), Fit(w), ops' = ops \o w,
         UNCHANGED <<cursor, rows, failedWrites, scenario>>
  PROVE  Items'
<1>9. PICK L \in Nat : L = Len(ops)
  BY ConcatFacts DEF TypeOK
<1>0. /\ L \in Nat /\ Len(w) \in Nat /\ DOMAIN ops = 1..L /\ DOMAIN w = 1..Len(w)
      /\ DOMAIN ops' = 1..(L + Len(w))
      /\ \A i \in 1..L : ops'[i] = ops[i]
      /\ \A i \in 1..Len(w) : ops'[L + i] = w[i]
  BY <1>9, ConcatFacts DEF TypeOK
<1>1. /\ \A k, v : \A c \in 0..Len(log) : Fresh(k, v, c) => Fresh(k, v, c)'
      /\ Tame' \subseteq Tame
  BY Onward
<1>2. /\ \A i \in 1..L : ops[i].do = "cursor" => ops[i].id \in 0..Len(log)
      /\ cursor \in 0..Len(log)
  BY <1>9, CursorIds
<1>11. \A o : Evicts(o) => o.do = "write" /\ o.val = Absent /\ (o.key \in Tame' => Over(o.key)')
  BY Onward DEF Evicts
<1>3. ASSUME NEW i \in 1..L PROVE Backed(i)' /\ Passed(i)' /\ Covers(i)'
  <2>0. ops'[i] = ops[i] /\ i \in DOMAIN ops
    BY <1>0
  <2>1. Backed(i)'
    <3>1. i # 1 => ops'[i - 1] = ops[i - 1]
      BY <1>0
    <3>2. Backed(i)
      BY <2>0 DEF Items
    <3>3. QED
      BY <2>0, <3>1, <3>2 DEF Backed, IsAction
  <2>2. Passed(i)'
    <3>1. Passed(i)
      BY <2>0 DEF Items
    <3>2. i + 1 \in DOMAIN ops => i + 1 \in DOMAIN ops' /\ ops'[i + 1] = ops[i + 1]
      BY <1>0
    <3>3. QED
      BY <1>11, <2>0, <3>1, <3>2 DEF Passed, Evicts
  <2>3. Covers(i)'
    <3>1. Covers(i)
      BY <2>0 DEF Items
    <3>2. \A h \in 1..(i - 1) : ops'[h] = ops[h] /\ h \in 1..L
      BY <1>0
    <3>3. QED
      BY <1>1, <1>2, <2>0, <3>1, <3>2 DEF Covers, Speaks, IsAction, What
  <2>4. QED
    BY <2>1, <2>2, <2>3
<1>4. ASSUME NEW n \in 1..Len(w) PROVE Backed(L + n)' /\ Passed(L + n)' /\ Covers(L + n)'
  <2>0. ops'[L + n] = w[n] /\ n \in DOMAIN w /\ L + n \in Nat
    BY <1>0
  <2>1. Backed(L + n)'
    <3>1. IsAction(w[n]) => n > 1 /\ w[n - 1] = WriteOp(w[n].msg.key, w[n].msg.val)
      BY <2>0 DEF Fit
    <3>2. n > 1 => ops'[L + n - 1] = w[n - 1] /\ L + n # 1
      <4>1. n > 1 => n - 1 \in 1..Len(w) /\ L + (n - 1) = L + n - 1
        BY <1>0
      <4>2. QED
        BY <1>0, <4>1
    <3>3. PICK x \in Nat : x = L + n
      BY <2>0
    <3>4. IsAction(w[n]) => x # 1 /\ ops'[x - 1] = WriteOp(w[n].msg.key, w[n].msg.val)
      <4>1. CASE n > 1
        <5>1. ops'[x - 1] = w[n - 1] /\ x # 1
          BY <1>0, <3>2, <3>3, <4>1
        <5>2. QED
          BY <3>1, <5>1
      <4>2. CASE ~(n > 1)
        BY <3>1, <4>2
      <4>3. QED
        BY <4>1, <4>2
    <3>5. ops'[x] = w[n]
      BY <2>0, <3>3
    <3>6. Backed(x)'
      BY <3>4, <3>5 DEF Backed, IsAction
    <3>7. QED
      BY <3>3, <3>6
  <2>2. Passed(L + n)'
    <3>1. w[n].do = "write" =>
            \/ n + 1 \in DOMAIN w /\ w[n + 1] = NotifyOp(Action(w[n].key, w[n].val))
            \/ Evicts(w[n])
      BY <2>0 DEF Fit
    <3>2. n + 1 \in DOMAIN w => L + n + 1 \in DOMAIN ops' /\ ops'[L + n + 1] = w[n + 1]
      <4>1. n + 1 \in DOMAIN w => n + 1 \in 1..Len(w) /\ L + (n + 1) = L + n + 1
        BY <1>0
      <4>2. QED
        BY <1>0, <4>1
    <3>3. QED
      BY <1>11, <2>0, <3>1, <3>2 DEF Passed, Evicts
  <2>3. Covers(L + n)'
    <3>1. (Speaks(w[n]) /\ What(w[n]).key \in Tame) =>
            /\ Fresh(What(w[n]).key, What(w[n]).val, cursor)
            /\ \A h \in 1..L : ops[h].do = "cursor" => Fresh(What(w[n]).key, What(w[n]).val, ops[h].id)
            /\ \A h \in 1..Len(w) : w[h].do # "cursor"
      BY <1>0, <2>0 DEF Fit
    <3>2. \A h \in 1..(L + n - 1) : \/ h \in 1..L /\ ops'[h] = ops[h]
                                    \/ h - L \in 1..Len(w) /\ ops'[h] = w[h - L]
      <4>1. \A h \in 1..(L + n - 1) : h \notin 1..L => h - L \in 1..Len(w) /\ L + (h - L) = h
        BY <1>0
      <4>2. QED
        BY <1>0, <4>1
    <3>3. PICK x \in Nat : x = L + n
      BY <2>0
    <3>4. PICK o : o = w[n]
      OBVIOUS
    <3>5. ops'[x] = o
      BY <2>0, <3>3, <3>4
    <3>6. ASSUME Speaks(o), What(o).key \in Tame'
          PROVE  /\ Fresh(What(o).key, What(o).val, cursor)'
                 /\ \A h \in 1..(x - 1) : ops'[h].do = "cursor" => Fresh(What(o).key, What(o).val, ops[h].id)'
      <4>1. What(o).key \in Tame
        BY <1>1, <3>6
      <4>2. PICK k : k = What(o).key
        OBVIOUS
      <4>3. PICK v : v = What(o).val
        OBVIOUS
      <4>4. PICK c \in 0..Len(log) : c = cursor
        BY <1>2
      <4>5. Fresh(k, v, c)'
        BY <1>1, <3>1, <3>4, <3>6, <4>1, <4>2, <4>3, <4>4
      <4>6. ASSUME NEW h \in 1..(x - 1), ops'[h].do = "cursor"
            PROVE  Fresh(What(o).key, What(o).val, ops[h].id)'
        <5>1. h \in 1..L /\ ops'[h] = ops[h]
          <6>1. \A m \in 1..Len(w) : w[m].do # "cursor"
            BY <3>1, <3>4, <3>6, <4>1
          <6>2. QED
            BY SMTT(30), <1>0, <3>2, <3>3, <4>6, <6>1
        <5>2. PICK d \in 0..Len(log) : d = ops[h].id
          BY <1>2, <4>6, <5>1
        <5>3. Fresh(k, v, d)'
          BY <1>1, <3>1, <3>4, <3>6, <4>1, <4>2, <4>3, <4>6, <5>1, <5>2
        <5>4. QED
          BY <4>2, <4>3, <5>1, <5>2, <5>3
      <4>7. QED
        BY <4>2, <4>3, <4>4, <4>5, <4>6
    <3>7. Covers(x)'
      BY <3>5, <3>6 DEF Covers
    <3>8. QED
      BY <3>3, <3>7
  <2>4. QED
    BY <2>1, <2>2, <2>3
<1>5. \A i \in DOMAIN ops' : i \in 1..L \/ \E n \in 1..Len(w) : i = L + n
  <2>1. \A i \in DOMAIN ops' : i \notin 1..L => i - L \in 1..Len(w) /\ i = L + (i - L)
    BY <1>0
  <2>2. QED
    BY <2>1
<1>6. ASSUME NEW i \in DOMAIN ops', NEW j \in DOMAIN ops', ops'[i].do = "cursor", ops'[j].do = "cursor"
      PROVE  i = j
  <2>1. CASE i \in 1..L /\ j \in 1..L
    BY <1>0, <1>6, <2>1 DEF Items
  <2>2. ASSUME NEW n \in 1..Len(w), i = L + n \/ j = L + n, w[n].do = "cursor" PROVE i = j
    <3>1. \A h \in 1..L : ops'[h].do # "cursor"
      BY <1>0, <2>2 DEF Fit
    <3>2. \A h \in 1..Len(w) : w[h].do = "cursor" => h = n
      BY <1>0, <2>2 DEF Fit
    <3>3. \A m \in 1..Len(w) : ops'[L + m] = w[m]
      BY <1>0
    <3>4. ASSUME NEW m \in DOMAIN ops', ops'[m].do = "cursor" PROVE m = L + n
      <4>1. PICK p \in 1..Len(w) : m = L + p
        BY <1>5, <3>1, <3>4
      <4>2. QED
        BY <3>2, <3>3, <3>4, <4>1
    <3>5. QED
      BY <1>6, <3>4
  <2>3. QED
    BY SMTT(30), <1>0, <1>5, <1>6, <2>1, <2>2
<1>7. \A i \in DOMAIN ops' : Backed(i)' /\ Passed(i)' /\ Covers(i)'
  BY <1>3, <1>4, <1>5
<1>8. (failedWrites => "write" \in scenario.faults)'
  BY DEF Items
<1>10. QED
  BY <1>6, <1>7, <1>8 DEF Items

LEMMA ItemsTail ==
  ASSUME TypeOK, TypeOK', [Next]_vars, Moved, Items, ops # <<>>, ops' = Tail(ops),
         cursor' = cursor \/ (ops[1].do = "cursor" /\ cursor' = ops[1].id),
         (failedWrites => "write" \in scenario.faults)',
         ops[1].do = "write" => failedWrites' \/ rows'[ops[1].key] = ops[1].val
  PROVE  Items'
<1>1. PICK L \in Nat : L = Len(ops)
  BY HeadFacts DEF TypeOK
<1>2. /\ L > 0 /\ DOMAIN ops = 1..L /\ DOMAIN ops' = 1..(L - 1)
      /\ \A i \in 1..(L - 1) : ops'[i] = ops[i + 1] /\ i + 1 \in 1..L
  BY <1>1, HeadFacts, SeqFacts DEF TypeOK
<1>3. /\ \A k, v : \A c \in 0..Len(log) : Fresh(k, v, c) => Fresh(k, v, c)'
      /\ Tame' \subseteq Tame
      /\ \A o : Evicts(o) => o.do = "write" /\ o.val = Absent /\ (o.key \in Tame' => Over(o.key)')
  BY Onward DEF Evicts
<1>4. /\ \A i \in 1..L : ops[i].do = "cursor" => ops[i].id \in 0..Len(log)
      /\ cursor \in 0..Len(log)
  BY <1>1, CursorIds
<1>5. ASSUME NEW i \in 1..(L - 1) PROVE Backed(i)' /\ Passed(i)' /\ Covers(i)'
  <2>0. ops'[i] = ops[i + 1] /\ i + 1 \in 1..L /\ i \in Nat
    BY <1>2
  <2>1. Backed(i + 1) /\ Passed(i + 1) /\ Covers(i + 1)
    BY <1>2, <2>0 DEF Items
  <2>2. Backed(i)'
    <3>1. SUFFICES ASSUME IsAction(ops[i + 1])
                   PROVE  IF i = 1 THEN failedWrites' \/ rows'[ops[i + 1].msg.key] = ops[i + 1].msg.val
                          ELSE ops'[i - 1] = WriteOp(ops[i + 1].msg.key, ops[i + 1].msg.val)
      BY <2>0 DEF Backed, IsAction
    <3>2. ops[i] = WriteOp(ops[i + 1].msg.key, ops[i + 1].msg.val)
      BY <2>0, <2>1, <3>1 DEF Backed
    <3>3. CASE i = 1
      BY <3>2, <3>3 DEF WriteOp
    <3>4. CASE i # 1
      <4>1. i - 1 \in 1..(L - 1) /\ (i - 1) + 1 = i
        BY <1>2, <2>0, <3>4
      <4>2. ops'[i - 1] = ops[i]
        BY <1>2, <4>1
      <4>3. QED
        BY <3>2, <3>4, <4>2
    <3>5. QED
      BY <3>3, <3>4
  <2>3. Passed(i)'
    <3>1. (i + 1) + 1 \in DOMAIN ops => i + 1 \in DOMAIN ops' /\ ops'[i + 1] = ops[(i + 1) + 1]
      BY <1>2, <2>0
    <3>2. QED
      BY <1>3, <2>0, <2>1, <3>1 DEF Passed, Evicts
  <2>4. Covers(i)'
    <3>1. PICK o : o = ops[i + 1]
      OBVIOUS
    <3>2. SUFFICES ASSUME Speaks(o), What(o).key \in Tame'
                   PROVE  /\ Fresh(What(o).key, What(o).val, cursor)'
                          /\ \A h \in 1..(i - 1) : ops'[h].do = "cursor" => Fresh(What(o).key, What(o).val, ops[h].id)'
      BY <2>0, <3>1 DEF Covers
    <3>3. PICK k, v : k = What(o).key /\ v = What(o).val
      OBVIOUS
    <3>4. /\ Fresh(k, v, cursor)
          /\ \A h \in 1..i : ops[h].do = "cursor" => Fresh(k, v, ops[h].id)
      <4>1. (i + 1) - 1 = i
        BY <2>0
      <4>2. QED
        BY <1>3, <2>1, <3>1, <3>2, <3>3, <4>1 DEF Covers
    <3>5. PICK c : c = cursor'
      OBVIOUS
    <3>6. c \in 0..Len(log) /\ Fresh(k, v, c)
      BY <1>2, <1>4, <2>0, <3>4, <3>5
    <3>7. Fresh(k, v, c)'
      BY <1>3, <3>6
    <3>8. ASSUME NEW h \in 1..(i - 1), ops'[h].do = "cursor" PROVE Fresh(k, v, ops[h].id)'
      <4>1. h + 1 \in 1..i /\ h + 1 \in 1..L /\ ops'[h] = ops[h + 1]
        BY <1>2, <2>0
      <4>2. PICK d : d = ops'[h].id
        OBVIOUS
      <4>3. d \in 0..Len(log) /\ Fresh(k, v, d)
        BY <1>4, <3>4, <3>8, <4>1, <4>2
      <4>4. Fresh(k, v, d)'
        BY <1>3, <4>3
      <4>5. QED
        BY <4>2, <4>4
    <3>9. QED
      BY <3>3, <3>5, <3>7, <3>8
  <2>5. QED
    BY <2>2, <2>3, <2>4
<1>6. ASSUME NEW i \in DOMAIN ops', NEW j \in DOMAIN ops', ops'[i].do = "cursor", ops'[j].do = "cursor"
      PROVE  i = j
  <2>1. i + 1 \in DOMAIN ops /\ j + 1 \in DOMAIN ops /\ ops[i + 1].do = "cursor" /\ ops[j + 1].do = "cursor"
        /\ i \in Nat /\ j \in Nat
    BY <1>2, <1>6
  <2>2. i + 1 = j + 1
    BY <2>1 DEF Items
  <2>3. QED
    BY <2>1, <2>2
<1>7. \A i \in DOMAIN ops' : Backed(i)' /\ Passed(i)' /\ Covers(i)'
  BY <1>2, <1>5
<1>8. QED
  BY <1>6, <1>7 DEF Items

\* The queue of a leader that starts over: the wipe and the reset are ahead of
\* the flush, and behind it there are only deletes.
Opening == {WipeOp, CursorOp(0), NotifyOp(Reset)}

ClearingTo(f) ==
  /\ ops[f] = FlushOp
  /\ \A i \in 1..(f - 1) : ops[i] \in Opening
  /\ \A i \in (f + 1)..Len(ops) : ops[i].do = "write" /\ ops[i].val = Absent
  /\ \A i \in 2..f : ops[i] # WipeOp
  /\ \/ rows = EmptyStore /\ ops[1] # WipeOp
     \/ ops[1] = WipeOp /\ \E i \in 1..(f - 1) : ops[i] = NotifyOp(Reset)

Clearing == ~Available(cursor) /\ \E f \in DOMAIN ops : ClearingTo(f)

Shape ==
  /\ stream = Flushing => Clearing
  /\ (\E i \in DOMAIN ops : ops[i] \in {WipeOp, FlushOp, NotifyOp(Reset)}) => Clearing
  /\ Clearing => stream.at # "up"

QueueInv == Ended /\ Moved /\ Items /\ Shape

LEMMA OpsDiffer ==
  /\ WipeOp.do = "wipe" /\ FlushOp.do = "flush"
  /\ \A k, v : WriteOp(k, v).do = "write" /\ WriteOp(k, v).key = k /\ WriteOp(k, v).val = v
  /\ \A c : CursorOp(c).do = "cursor" /\ CursorOp(c).id = c
  /\ \A m : NotifyOp(m).do = "notify" /\ NotifyOp(m).msg = m
  /\ \A k, v : Action(k, v).is = "action" /\ Action(k, v).key = k /\ Action(k, v).val = v
  /\ Reset.is = "reset" /\ Complete.is = "complete" /\ \A k : CacheDelete(k).is = "cache_delete"
BY DEF WipeOp, FlushOp, WriteOp, CursorOp, NotifyOp, Action, Reset, Complete, CacheDelete

LEMMA Unavailable ==
  ASSUME TypeOK
  PROVE  ~Available(0)
BY LogType DEF Available, TypeOK

\* Deletes may be appended at any time.
LEMMA ShapeEvict ==
  ASSUME TypeOK, TypeOK', [Next]_vars, Moved, Shape, NEW w \in Seq(Op), \A n \in DOMAIN w : Evicts(w[n]),
         ops' = ops \o w, UNCHANGED <<cursor, rows>>, stream' \in {stream, Down}
  PROVE  Shape'
<1>1. PICK L \in Nat : L = Len(ops)
  BY ConcatFacts DEF TypeOK
<1>2. PICK M \in Nat : M = Len(w)
  BY ConcatFacts DEF TypeOK
<1>3. /\ DOMAIN ops = 1..L /\ DOMAIN w = 1..M /\ DOMAIN ops' = 1..(L + M) /\ Len(ops') = L + M
      /\ \A i \in 1..L : ops'[i] = ops[i]
      /\ \A i \in 1..M : ops'[L + i] = w[i]
  BY <1>1, <1>2, ConcatFacts DEF TypeOK
<1>4. \A i \in (L + 1)..(L + M) : ops'[i].do = "write" /\ ops'[i].val = Absent
  <2>1. \A i \in (L + 1)..(L + M) : i - L \in 1..M /\ L + (i - L) = i
    BY <1>1, <1>2
  <2>2. \A i \in (L + 1)..(L + M) : i - L \in DOMAIN w /\ ops'[i] = w[i - L]
    BY <1>3, <2>1
  <2>3. QED
    BY <2>2 DEF Evicts
<1>5. Clearing => Clearing'
  <2>1. ASSUME ~Available(cursor), NEW f \in 1..L, ClearingTo(f) PROVE ClearingTo(f)' /\ f \in DOMAIN ops'
    <3>1. f \in DOMAIN ops' /\ ops'[f] = ops[f] /\ ops'[1] = ops[1]
          /\ \A i \in 1..f : ops'[i] = ops[i]
      BY <1>3
    <3>2. \A i \in (f + 1)..(L + M) : i \in (f + 1)..L \/ i \in (L + 1)..(L + M)
      BY <1>1, <1>2
    <3>3. \A i \in (f + 1)..Len(ops)' : ops'[i].do = "write" /\ ops'[i].val = Absent
      BY <1>1, <1>3, <1>4, <2>1, <3>2 DEF ClearingTo
    <3>4. \A i \in 1..(f - 1) : i \in 1..f
      BY <1>1
    <3>5. \A i \in 2..f : i \in 1..f
      BY <1>1
    <3>6. QED
      BY <2>1, <3>1, <3>3, <3>4, <3>5 DEF ClearingTo, Opening
  <2>2. ~Available(cursor) => ~Available(cursor)'
    <3>1. PICK c \in 0..Len(log) : c = cursor
      BY CursorIds
    <3>2. QED
      BY <3>1, Onward
  <2>3. QED
    BY <1>3, <2>1, <2>2 DEF Clearing
<1>6. ASSUME NEW i \in DOMAIN ops', ops'[i] \in {WipeOp, FlushOp, NotifyOp(Reset)} PROVE Clearing
  <2>1. i \in 1..L
    BY <1>3, <1>4, <1>6, OpsDiffer
  <2>2. QED
    BY <1>3, <1>6, <2>1 DEF Shape
<1>7. stream' = Flushing => stream = Flushing
  BY StreamTypes
<1>8. Clearing' => stream.at # "up" \/ stream'.at # "up"
  <2>1. ASSUME NEW f \in DOMAIN ops', ops'[f] = FlushOp PROVE stream.at # "up"
    BY <1>6, <2>1 DEF Shape
  <2>2. QED
    BY <2>1 DEF Clearing, ClearingTo
<1>9. stream'.at = "up" => stream'.at = stream.at
  BY StreamTypes
<1>10. QED
  BY <1>5, <1>6, <1>7, <1>8, <1>9 DEF Shape

LEMMA FitEvict ==
  ASSUME TypeOK, Moved, NEW w \in Seq(Op), \A n \in DOMAIN w : Evicts(w[n])
  PROVE  Fit(w)
<1>1. \A n \in DOMAIN w : w[n].do = "write" /\ w[n].val = Absent /\ (w[n].key \in Tame => Over(w[n].key))
  BY DEF Evicts
<1>2. ASSUME NEW k, Over(k), NEW c \in 0..Len(log) PROVE Fresh(k, Absent, c)
  BY <1>2, OverFresh DEF TypeOK
<1>3. cursor \in 0..Len(log) /\ \A h \in DOMAIN ops : ops[h].do = "cursor" => ops[h].id \in 0..Len(log)
  BY CursorIds
<1>4. QED
  BY <1>1, <1>2, <1>3 DEF Fit, IsAction, Speaks, What, Evicts

LEMMA QueueEvict ==
  ASSUME TypeOK, TypeOK', [Next]_vars, QueueInv, NEW w \in Seq(Op), \A n \in DOMAIN w : Evicts(w[n]),
         ops' = ops \o w, UNCHANGED <<cursor, rows, failedWrites, scenario>>, stream' \in {stream, Down}
  PROVE  QueueInv'
<1>1. Fit(w)
  BY FitEvict DEF QueueInv
<1>2. Items'
  BY <1>1, ItemsAppend DEF QueueInv
<1>3. Shape'
  BY ShapeEvict DEF QueueInv
<1>4. /\ DOMAIN ops = 1..Len(ops) /\ Len(ops) \in Nat /\ Len(w) \in Nat /\ DOMAIN w = 1..Len(w)
      /\ \A i \in DOMAIN ops' : ops'[i].do # "write" => i \in DOMAIN ops /\ ops'[i] = ops[i]
  <2>1. PICK L \in Nat : L = Len(ops)
    BY ConcatFacts DEF TypeOK
  <2>2. PICK M \in Nat : M = Len(w)
    BY ConcatFacts DEF TypeOK
  <2>3. /\ DOMAIN ops = 1..L /\ DOMAIN w = 1..M /\ DOMAIN ops' = 1..(L + M)
        /\ \A i \in 1..L : ops'[i] = ops[i]
        /\ \A i \in 1..M : ops'[L + i] = w[i]
    BY <2>1, <2>2, ConcatFacts DEF TypeOK
  <2>4. \A i \in 1..(L + M) : i \in 1..L \/ (i - L \in 1..M /\ L + (i - L) = i)
    BY <2>1, <2>2
  <2>5. \A i \in 1..(L + M) : i \in 1..L \/ ops'[i].do = "write"
    BY <2>3, <2>4 DEF Evicts
  <2>6. QED
    BY <2>1, <2>2, <2>3, <2>5
<1>5. Ended'
  <2>1. \A i \in DOMAIN ops' : ops'[i].do = "notify" => ops'[i].msg.is # "cache_delete"
    BY <1>4 DEF QueueInv, Ended
  <2>2. QED
    BY <2>1, EndedAwaiting, MessageStep, DeletesKept DEF QueueInv, Ended
<1>6. Moved'
  <2>1. Len(log) \in Nat /\ Len(log') \in Nat /\ Len(log) <= Len(log') /\ cursor \in Nat
    BY Onward DEF TypeOK
  <2>2. \A i \in DOMAIN ops' : ops'[i].do = "cursor" => i \in DOMAIN ops /\ ops'[i] = ops[i] /\ ops[i].id \in 0..Len(log)
    BY <1>4, CursorIds DEF QueueInv
  <2>3. stream'.at = "up" => stream' = stream /\ stream \in UpStream
    BY StreamTypes, StreamParts DEF TypeOK
  <2>4. QED
    BY <2>1, <2>2, <2>3 DEF QueueInv, Moved, UpStream
<1>7. QED
  BY <1>2, <1>3, <1>5, <1>6 DEF QueueInv

LEMMA OthersEnded ==
  ASSUME TypeOK, TypeOK', [Next]_vars, QueueInv,
         \A i \in DOMAIN ops' : ops'[i].do = "notify" => ops'[i].msg.is # "cache_delete"
  PROVE  Ended'
BY EndedAwaiting, MessageStep, DeletesKept DEF QueueInv, Ended

\* While the connection is up nothing is being cleared.
LEMMA UpPlain ==
  ASSUME TypeOK, QueueInv, stream.at = "up"
  PROVE  /\ ~Clearing
         /\ \A i \in DOMAIN ops : ops[i] \notin {WipeOp, FlushOp, NotifyOp(Reset)}
BY DEF QueueInv, Shape

LEMMA PlainShape ==
  ASSUME \A i \in DOMAIN ops' : ops'[i] \notin {WipeOp, FlushOp, NotifyOp(Reset)}, stream' # Flushing
  PROVE  Shape'
BY DEF Shape, Clearing, ClearingTo

LEMMA AppendStill ==
  ASSUME TypeOK, NEW w \in Seq(Op), ops' = ops \o w
  PROVE  \A i \in DOMAIN ops' : \/ i \in DOMAIN ops /\ ops'[i] = ops[i]
                                \/ \E n \in DOMAIN w : ops'[i] = w[n]
<1>1. PICK L \in Nat : L = Len(ops)
  BY ConcatFacts DEF TypeOK
<1>2. PICK M \in Nat : M = Len(w)
  BY ConcatFacts DEF TypeOK
<1>3. /\ DOMAIN ops = 1..L /\ DOMAIN w = 1..M /\ DOMAIN ops' = 1..(L + M)
      /\ \A i \in 1..L : ops'[i] = ops[i]
      /\ \A i \in 1..M : ops'[L + i] = w[i]
  BY <1>1, <1>2, ConcatFacts DEF TypeOK
<1>4. \A i \in 1..(L + M) : i \in 1..L \/ (i - L \in 1..M /\ L + (i - L) = i)
  BY <1>1, <1>2
<1>5. QED
  BY <1>3, <1>4

\* A frame reaches the tab: what it says is newer than any cursor.
LEMMA QueuePair ==
  ASSUME TypeOK, TypeOK', [Next]_vars, QueueInv, NEW t \in Tabs, Streaming(t),
         NEW k \in Keys, NEW p \in stream.pos..Len(log),
         ReceiveAction(t, k, Val(k, p)),
         stream' \in UpStream, stream'.mark = stream.mark, stream'.claim = stream.claim,
         stream'.done = stream.done, stream.pos <= stream'.pos, stream'.pos <= Len(log),
         stream'.left \subseteq stream.left, stream'.left # {} => stream'.pos = stream.pos
  PROVE  QueueInv'
<1> DEFINE v == Val(k, p)
           w == <<WriteOp(k, v), NotifyOp(Action(k, v))>>
<1>0. /\ stream.at = "up" /\ stream \in UpStream /\ stream.pos \in Nat /\ stream.mark \in Nat
      /\ stream'.at = "up"
      /\ Len(log) \in Nat /\ p \in 0..Len(log) /\ log \in Seq(Entry)
  BY SMTT(30), StreamParts, LogType DEF Streaming, TypeOK, UpStream
<1>1. v \in Nat
  BY <1>0, ValType
<1>2. w \in Seq(Op)
  BY <1>1, OpTypes, MessageTypes
<1>3. ops' = ops \o w /\ UNCHANGED <<cursor, rows, failedWrites, scenario>> /\ log' = log
  BY DEF ReceiveAction, EngineStep, serverVars, idbVars
<1>4. \A c \in 0..p : Fresh(k, v, c)
  BY <1>0, FreshIs
<1>5. cursor \in 0..p /\ \A h \in DOMAIN ops : ops[h].do = "cursor" => ops[h].id \in 0..p
  <2>1. cursor \in Nat /\ cursor <= stream.pos
    BY <1>0 DEF QueueInv, Moved, TypeOK
  <2>2. ASSUME NEW h \in DOMAIN ops, ops[h].do = "cursor" PROVE ops[h].id \in 0..p
    <3>1. stream.done /\ ops[h].id <= stream.mark /\ ops[h].id \in 0..Len(log)
      BY <1>0, <2>2, CursorIds DEF QueueInv, Moved
    <3>2. stream.mark <= stream.pos
      BY <1>0, <3>1 DEF QueueInv, Moved
    <3>3. QED
      BY <1>0, <3>1, <3>2
  <2>3. QED
    BY <1>0, <2>1, <2>2
<1>6. DOMAIN w = 1..2 /\ w[1] = WriteOp(k, v) /\ w[2] = NotifyOp(Action(k, v))
  OBVIOUS
<1>7. Fit(w)
  <2>1. \A n \in DOMAIN w : n = 1 \/ n = 2
    BY <1>6
  <2>2. \A n \in DOMAIN w : Speaks(w[n]) /\ What(w[n]) = [key |-> k, val |-> v] /\ w[n].do # "cursor"
    BY <1>6, <2>1, OpsDiffer DEF Speaks, IsAction, What
  <2>3. w[1].do = "write" /\ ~IsAction(w[1]) /\ IsAction(w[2]) /\ w[2].do = "notify" /\ w[2].msg = Action(k, v)
        /\ w[1].key = k /\ w[1].val = v
    BY <1>6, OpsDiffer DEF IsAction
  <2>4. Action(k, v).key = k /\ Action(k, v).val = v /\ Action(k, v).is # "cache_delete"
    BY OpsDiffer
  <2>5. \A n \in DOMAIN w : /\ Fresh(What(w[n]).key, What(w[n]).val, cursor)
                            /\ \A h \in DOMAIN ops : ops[h].do = "cursor" => Fresh(What(w[n]).key, What(w[n]).val, ops[h].id)
    BY <1>4, <1>5, <2>2
  <2> HIDE DEF w, v
  <2>6. ASSUME NEW n \in DOMAIN w
        PROVE  /\ w[n].do = "notify" => w[n].msg.is # "cache_delete"
               /\ IsAction(w[n]) => n > 1 /\ w[n - 1] = WriteOp(w[n].msg.key, w[n].msg.val)
               /\ w[n].do = "write" => n + 1 \in DOMAIN w /\ w[n + 1] = NotifyOp(Action(w[n].key, w[n].val))
    <3>1. CASE n = 1
      BY <1>6, <2>3, <3>1
    <3>2. CASE n = 2
      BY <1>6, <2>3, <2>4, <3>2
    <3>3. QED
      BY <2>1, <3>1, <3>2
  <2>7. QED
    BY <2>2, <2>5, <2>6 DEF Fit
<1>8. Items'
  BY <1>2, <1>3, <1>7, ItemsAppend DEF QueueInv
<1>9. \A i \in DOMAIN ops' : \/ i \in DOMAIN ops /\ ops'[i] = ops[i]
                             \/ ops'[i] = WriteOp(k, v)
                             \/ ops'[i] = NotifyOp(Action(k, v))
  BY <1>2, <1>3, <1>6, AppendStill
<1>10. Ended'
  BY <1>9, OpsDiffer, OthersEnded DEF QueueInv, Ended
<1>11. Shape'
  <2>1. WriteOp(k, v) \notin {WipeOp, FlushOp, NotifyOp(Reset)}
        /\ NotifyOp(Action(k, v)) \notin {WipeOp, FlushOp, NotifyOp(Reset)}
    BY OpsDiffer
  <2>2. \A i \in DOMAIN ops' : ops'[i] \notin {WipeOp, FlushOp, NotifyOp(Reset)}
    BY <1>0, <1>9, <2>1, UpPlain
  <2>3. stream' # Flushing
    BY <1>0, StreamTypes
  <2>4. QED
    BY <2>2, <2>3, PlainShape
<1>12. Moved'
  <2>1. \A i \in DOMAIN ops' : ops'[i].do = "cursor" => i \in DOMAIN ops /\ ops'[i] = ops[i]
    BY <1>9, OpsDiffer
  <2>2. cursor \in Nat /\ stream'.pos \in Nat
    BY DEF TypeOK, UpStream
  <2>3. /\ cursor <= stream.pos /\ cursor <= stream.mark /\ stream.mark <= Len(log)
        /\ stream.claim \in {0, stream.mark}
        /\ stream.left # {} => stream.pos = stream.mark
        /\ stream.done => stream.pos >= stream.mark /\ stream.left = {}
        /\ \A i \in DOMAIN ops : ops[i].do = "cursor" => stream.done /\ ops[i].id <= stream.mark /\ ops[i].id <= Len(log)
    BY <1>0 DEF QueueInv, Moved
  <2>4. stream.done => stream'.pos >= stream.mark
    BY <1>0, <2>2, <2>3
  <2>5. cursor <= stream'.pos
    BY <1>0, <2>2, <2>3
  <2>6. /\ stream'.left # {} => stream'.pos = stream.mark
        /\ stream.done => stream'.left = {}
    BY <2>3
  <2>7. \A i \in DOMAIN ops' : ops'[i].do = "cursor" =>
          stream.done /\ ops'[i].id <= stream.mark /\ ops'[i].id <= Len(log)
    BY <2>1, <2>3
  <2>8. cursor <= Len(log)
    BY DEF QueueInv, Moved
  <2> HIDE DEF w, v
  <2>9. QED
    BY <1>3, <2>3, <2>4, <2>5, <2>6, <2>7, <2>8 DEF Moved
<1>13. QED
  BY <1>8, <1>10, <1>11, <1>12 DEF QueueInv

LEMMA NoMore ==
  ASSUME TypeOK
  PROVE  /\ <<>> \in Seq(Op) /\ Fit(<<>>) /\ ops \o <<>> = ops
         /\ \A n \in DOMAIN <<>> : FALSE
<1>1. ops \o <<>> = ops
  BY ConcatEmptySeq DEF TypeOK
<1>2. QED
  BY <1>1 DEF Fit

\* The connection moves on, or is made or lost, and the queue stays.
LEMMA QueueStays ==
  ASSUME TypeOK, TypeOK', [Next]_vars, QueueInv, ops' = ops,
         UNCHANGED <<cursor, rows, failedWrites, scenario>>, Shape', Moved'
  PROVE  QueueInv'
<1>1. Items'
  BY NoMore, ItemsAppend DEF QueueInv
<1>2. Ended'
  BY OthersEnded DEF QueueInv, Ended
<1>3. QED
  BY <1>1, <1>2 DEF QueueInv

LEMMA NextEntryIs ==
  ASSUME TypeOK, TypeOK', [Next]_vars, QueueInv, NEW t \in Tabs, NextEntry(t)
  PROVE  /\ stream.at = "up" /\ stream \in UpStream /\ stream.pos + 1 \in 1..Len(log)
         /\ stream' \in UpStream /\ stream'.mark = stream.mark /\ stream'.claim = stream.claim
         /\ stream'.done = stream.done /\ stream'.pos = stream.pos + 1 /\ stream'.left = {} /\ stream.left = {}
         /\ stream.pos \in Nat /\ stream.mark \in Nat /\ log' = log /\ Len(log) \in Nat
<1>1. stream.at = "up" /\ stream \in UpStream /\ stream.pos \in Nat /\ stream.mark \in Nat /\ Len(log) \in Nat
  BY StreamParts, LogType DEF NextEntry, Streaming, TypeOK, UpStream
<1>2. stream' = [stream EXCEPT !.pos = @ + 1] /\ stream.left = {} /\ stream.pos < Len(log) /\ log' = log
  BY DEF NextEntry, ReceiveAction, EngineStep, serverVars
<1>3. QED
  BY <1>1, <1>2 DEF UpStream

LEMMA QueueNextEntry ==
  ASSUME TypeOK, TypeOK', [Next]_vars, QueueInv, NEW t \in Tabs, NextEntry(t)
  PROVE  QueueInv'
<1>1. /\ stream.at = "up" /\ stream \in UpStream /\ stream.pos + 1 \in 1..Len(log)
      /\ stream' \in UpStream /\ stream'.mark = stream.mark /\ stream'.claim = stream.claim
      /\ stream'.done = stream.done /\ stream'.pos = stream.pos + 1 /\ stream'.left = {} /\ stream.left = {}
      /\ stream.pos \in Nat /\ stream.mark \in Nat /\ log' = log /\ Len(log) \in Nat
  BY NextEntryIs
<1>2. ASSUME ReceiveAction(t, log[stream.pos + 1].key, Val(log[stream.pos + 1].key, stream.pos + 1))
      PROVE  QueueInv'
  <2>1. log[stream.pos + 1].key \in Keys /\ Streaming(t)
    BY <1>1, LogType DEF NextEntry, TypeOK
  <2>2. stream.pos + 1 \in stream.pos..Len(log) /\ stream.pos <= stream'.pos /\ stream'.pos <= Len(log)
    BY <1>1
  <2>3. QED
    BY <1>1, <1>2, <2>1, <2>2, QueuePair
<1>3. ASSUME UNCHANGED <<storeVars, ops, boundVars>>, EngineStep PROVE QueueInv'
  <2>1. Shape'
    BY <1>1, <1>3, UpPlain, PlainShape, StreamTypes DEF UpStream, Flushing
  <2>2. /\ cursor \in Nat /\ cursor <= stream.pos /\ cursor <= stream.mark /\ stream.mark <= Len(log)
        /\ cursor <= Len(log)
        /\ stream.claim \in {0, stream.mark}
        /\ stream.done => stream.pos >= stream.mark
        /\ \A i \in DOMAIN ops : ops[i].do = "cursor" => stream.done /\ ops[i].id <= stream.mark /\ ops[i].id <= Len(log)
    BY <1>1 DEF QueueInv, Moved, TypeOK
  <2>3. cursor <= stream'.pos /\ stream'.pos <= Len(log) /\ (stream.done => stream'.pos >= stream.mark)
    BY <1>1, <2>2
  <2>4. UNCHANGED <<ops, cursor, rows, failedWrites, scenario>>
    BY <1>3 DEF EngineStep, serverVars, idbVars
  <2>5. Moved'
    BY <1>1, <2>2, <2>3, <2>4 DEF Moved
  <2>6. QED
    BY <2>1, <2>4, <2>5, QueueStays
<1>4. QED
  BY <1>2, <1>3 DEF NextEntry

LEMMA QueueNextRow ==
  ASSUME TypeOK, TypeOK', [Next]_vars, QueueInv, NEW t \in Tabs, NextRow(t)
  PROVE  QueueInv'
<1>1. /\ stream.at = "up" /\ stream \in UpStream /\ stream.pos \in Nat /\ stream.mark \in Nat
      /\ Streaming(t) /\ Len(log) \in Nat
  BY StreamParts, LogType DEF NextRow, Streaming, TypeOK, UpStream
<1>2. PICK k \in stream.left : /\ stream' = [stream EXCEPT !.left = @ \ {k}]
                               /\ ReceiveAction(t, k, Val(k, stream.mark))
  BY DEF NextRow
<1>3. k \in Keys /\ stream.pos = stream.mark /\ stream.pos <= Len(log) /\ stream.mark \in stream.pos..Len(log)
  BY <1>1, <1>2 DEF QueueInv, Moved, UpStream
<1>4. /\ stream' \in UpStream /\ stream'.mark = stream.mark /\ stream'.claim = stream.claim
      /\ stream'.done = stream.done /\ stream'.pos = stream.pos /\ stream'.left \subseteq stream.left
  BY <1>1, <1>2 DEF UpStream
<1>5. stream.pos <= stream'.pos /\ stream'.pos <= Len(log)
  BY <1>1, <1>3, <1>4
<1>6. QED
  BY <1>1, <1>2, <1>3, <1>4, <1>5, QueuePair

LEMMA QueueComplete ==
  ASSUME TypeOK, TypeOK', [Next]_vars, QueueInv, NEW t \in Tabs, CompleteStream(t)
  PROVE  QueueInv'
<1> DEFINE w == <<CursorOp(stream.claim), NotifyOp(Complete)>>
<1>1. /\ stream.at = "up" /\ stream \in UpStream /\ stream.pos \in Nat /\ stream.mark \in Nat
      /\ stream.claim \in Nat /\ Len(log) \in Nat
  BY StreamParts, LogType DEF CompleteStream, Streaming, TypeOK, UpStream
<1>2. /\ stream' = [stream EXCEPT !.done = TRUE] /\ stream.left = {} /\ stream.pos >= stream.mark
      /\ ~stream.done /\ ops' = ops \o w /\ UNCHANGED <<cursor, rows, failedWrites, scenario, log>>
  BY DEF CompleteStream, EngineStep, serverVars, idbVars
<1>3. w \in Seq(Op) /\ DOMAIN w = 1..2 /\ w[1] = CursorOp(stream.claim) /\ w[2] = NotifyOp(Complete)
  BY <1>1, OpTypes, MessageTypes
<1>4. \A i \in DOMAIN ops : ops[i].do # "cursor"
  BY <1>1, <1>2 DEF QueueInv, Moved
<1>5. \A n \in DOMAIN w : ~Speaks(w[n]) /\ (w[n].do = "cursor" => n = 1) /\ w[n].do # "write"
                          /\ (w[n].do = "notify" => w[n].msg.is # "cache_delete")
  <2>1. \A n \in DOMAIN w : n = 1 \/ n = 2
    BY <1>3
  <2> HIDE DEF w
  <2>2. QED
    BY <1>3, <2>1, OpsDiffer DEF Speaks, IsAction
<1> HIDE DEF w
<1>6. Fit(w)
  BY <1>4, <1>5 DEF Fit, Speaks
<1>7. Items'
  BY <1>2, <1>3, <1>6, ItemsAppend DEF QueueInv
<1>8. \A i \in DOMAIN ops' : \/ i \in DOMAIN ops /\ ops'[i] = ops[i]
                             \/ ops'[i] = CursorOp(stream.claim)
                             \/ ops'[i] = NotifyOp(Complete)
  <2>1. \A n \in DOMAIN w : w[n] = CursorOp(stream.claim) \/ w[n] = NotifyOp(Complete)
    <3>1. \A n \in DOMAIN w : n = 1 \/ n = 2
      BY <1>3
    <3>2. QED
      BY <1>3, <3>1
  <2>2. QED
    BY <1>2, <1>3, <2>1, AppendStill
<1>9. Ended'
  BY <1>8, OpsDiffer, OthersEnded DEF QueueInv, Ended
<1>10. Shape'
  <2>1. CursorOp(stream.claim) \notin {WipeOp, FlushOp, NotifyOp(Reset)}
        /\ NotifyOp(Complete) \notin {WipeOp, FlushOp, NotifyOp(Reset)}
    BY OpsDiffer
  <2>2. \A i \in DOMAIN ops' : ops'[i] \notin {WipeOp, FlushOp, NotifyOp(Reset)}
    BY <1>1, <1>8, <2>1, UpPlain
  <2>3. stream' # Flushing
    BY <1>1, <1>2 DEF Flushing, UpStream
  <2>4. QED
    BY <2>2, <2>3, PlainShape
<1>11. Moved'
  <2>1. /\ cursor <= stream.pos /\ cursor <= stream.mark /\ stream.mark <= Len(log) /\ stream.pos <= Len(log)
        /\ cursor <= Len(log) /\ stream.claim \in {0, stream.mark}
    BY <1>1 DEF QueueInv, Moved
  <2>2. \A i \in DOMAIN ops' : ops'[i].do = "cursor" => ops'[i].id = stream.claim
    BY <1>4, <1>8, OpsDiffer
  <2>3. stream.claim <= stream.mark /\ stream.claim <= Len(log)
    BY <1>1, <2>1
  <2>4. /\ stream'.at = "up" /\ stream'.pos = stream.pos /\ stream'.mark = stream.mark /\ stream'.claim = stream.claim
        /\ stream'.left = {} /\ stream'.done
    BY <1>1, <1>2 DEF UpStream
  <2>5. QED
    BY <1>2, <2>1, <2>2, <2>3, <2>4 DEF Moved
<1>12. QED
  BY <1>7, <1>9, <1>10, <1>11 DEF QueueInv

LEMMA CatchingIs ==
  ASSUME log \in Seq(Entry), floor \in Nat, NEW p \in Nat, NEW l \in SUBSET Keys
  PROVE  /\ Catching(p, l) \in UpStream /\ Catching(p, l).at = "up" /\ Catching(p, l).pos = p
         /\ Catching(p, l).mark = Len(log) /\ Catching(p, l).left = l /\ Catching(p, l).done = FALSE
         /\ Catching(p, l).claim \in {0, Len(log)}
BY CatchingType DEF Catching

LEMMA QueueResume ==
  ASSUME TypeOK, TypeOK', [Next]_vars, QueueInv, NEW t \in Tabs, Resume(t)
  PROVE  QueueInv'
<1>1. /\ ops = <<>> /\ ops' = <<>> /\ stream' = Catching(cursor, {})
      /\ UNCHANGED <<cursor, rows, failedWrites, scenario, log>>
      /\ cursor \in Nat /\ floor \in Nat /\ log \in Seq(Entry) /\ Len(log) \in Nat
  BY LogType DEF Resume, MayDial, EngineStep, serverVars, idbVars, TypeOK
<1>2. /\ stream'.at = "up" /\ stream'.pos = cursor /\ stream'.mark = Len(log) /\ stream'.left = {}
      /\ stream'.done = FALSE /\ stream'.claim \in {0, Len(log)}
  <2>1. {} \in SUBSET Keys
    OBVIOUS
  <2>2. QED
    BY ZenonT(60), <1>1, <2>1, CatchingIs
<1>3. Shape'
  BY <1>1, <1>2, PlainShape DEF Flushing
<1>4. Moved'
  BY <1>1, <1>2 DEF QueueInv, Moved
<1>5. QED
  BY <1>1, <1>3, <1>4, QueueStays

LEMMA QueueStartOver ==
  ASSUME TypeOK, TypeOK', [Next]_vars, QueueInv, NEW t \in Tabs, StartOver(t)
  PROVE  QueueInv'
<1> DEFINE a == <<WipeOp, NotifyOp(Reset), FlushOp>>
           b == <<WipeOp, CursorOp(0), NotifyOp(Reset), FlushOp>>
<1>1. /\ ops = <<>> /\ (ops' = a \/ ops' = b) /\ stream' = Flushing /\ ~Available(cursor)
      /\ UNCHANGED <<cursor, rows, failedWrites, scenario, log, floor>>
  BY DEF StartOver, MayDial, EngineStep, serverVars, idbVars
<1>2. a \in Seq(Op) /\ b \in Seq(Op) /\ <<>> \o a = a /\ <<>> \o b = b
  BY OpTypes, MessageTypes, ConcatEmptySeq
<1>3. \A n \in DOMAIN a : \/ n = 1 /\ a[n] = WipeOp
                          \/ n = 2 /\ a[n] = NotifyOp(Reset)
                          \/ n = 3 /\ a[n] = FlushOp
  OBVIOUS
<1>4. \A n \in DOMAIN b : \/ n = 1 /\ b[n] = WipeOp
                          \/ n = 2 /\ b[n] = CursorOp(0)
                          \/ n = 3 /\ b[n] = NotifyOp(Reset)
                          \/ n = 4 /\ b[n] = FlushOp
  OBVIOUS
<1>5. PICK w \in {a, b} : ops' = w
  BY <1>1
<1>6. \A n \in DOMAIN w : /\ ~Speaks(w[n]) /\ w[n].do # "write" /\ (w[n].do = "cursor" => n = 2 /\ w[n].id = 0)
                          /\ (w[n].do = "notify" => w[n].msg.is # "cache_delete")
  <2>1. CASE w = a
    <3> HIDE DEF a
    <3>1. QED
      BY <1>3, <2>1, OpsDiffer DEF Speaks, IsAction
  <2>2. CASE w = b
    <3> HIDE DEF b
    <3>1. QED
      BY <1>4, <2>2, OpsDiffer DEF Speaks, IsAction
  <2>3. QED
    BY <2>1, <2>2
<1>7. ops \o w = w /\ w \in Seq(Op)
  BY <1>1, <1>2
<1>8. Clearing'
  <2>1. ~Available(cursor)'
    BY <1>1 DEF Available
  <2>2. CASE w = a
    <3>1. /\ DOMAIN ops' = 1..3 /\ Len(ops') = 3 /\ ops'[1] = WipeOp /\ ops'[2] = NotifyOp(Reset) /\ ops'[3] = FlushOp
      BY <1>5, <2>2
    <3>2. ClearingTo(3)'
      <4>1. (\A i \in 1..(3 - 1) : i = 1 \/ i = 2) /\ (\A i \in 2..3 : i = 2 \/ i = 3) /\ 2 \in 1..(3 - 1)
            /\ (3 + 1)..3 = {}
        OBVIOUS
      <4>2. WipeOp # NotifyOp(Reset) /\ WipeOp # FlushOp
        BY OpsDiffer
      <4>3. QED
        BY <3>1, <4>1, <4>2 DEF ClearingTo, Opening
    <3>3. QED
      BY <2>1, <3>1, <3>2 DEF Clearing
  <2>3. CASE w = b
    <3>1. /\ DOMAIN ops' = 1..4 /\ Len(ops') = 4 /\ ops'[1] = WipeOp /\ ops'[2] = CursorOp(0)
          /\ ops'[3] = NotifyOp(Reset) /\ ops'[4] = FlushOp
      BY <1>5, <2>3
    <3>2. ClearingTo(4)'
      <4>1. (\A i \in 1..(4 - 1) : i = 1 \/ i = 2 \/ i = 3) /\ (\A i \in 2..4 : i = 2 \/ i = 3 \/ i = 4) /\ 3 \in 1..(4 - 1)
            /\ (4 + 1)..4 = {}
        OBVIOUS
      <4>2. WipeOp # NotifyOp(Reset) /\ WipeOp # FlushOp /\ WipeOp # CursorOp(0)
        BY OpsDiffer
      <4>3. QED
        BY <3>1, <4>1, <4>2 DEF ClearingTo, Opening
    <3>3. QED
      BY <2>1, <3>1, <3>2 DEF Clearing
  <2>4. QED
    BY <1>5, <2>2, <2>3
<1> HIDE DEF a, b
<1>9. Fit(w)
  BY <1>1, <1>6 DEF Fit, Speaks
<1>10. Items'
  BY <1>1, <1>5, <1>7, <1>9, ItemsAppend DEF QueueInv
<1>11. Ended'
  BY <1>5, <1>6, OthersEnded
<1>12. Shape'
  BY <1>1, <1>8, StreamTypes DEF Shape
<1>13. Moved'
  <2>1. Len(log) \in Nat
    BY LogType DEF TypeOK
  <2>2. stream'.at # "up" /\ \A i \in DOMAIN ops' : ops'[i].do = "cursor" => ops'[i].id = 0
    BY <1>1, <1>5, <1>6, StreamTypes
  <2>3. QED
    BY <1>1, <2>1, <2>2 DEF QueueInv, Moved
<1>14. QED
  BY <1>10, <1>11, <1>12, <1>13 DEF QueueInv

\* The leader goes, and its queue with it.
LEMMA QueueDropped ==
  ASSUME TypeOK, TypeOK', [Next]_vars, QueueInv, ops' = <<>>, stream' = Down, ~failedWrites', cursor' = cursor
  PROVE  QueueInv'
<1>1. Items'
  BY DEF Items
<1>2. Ended'
  BY OthersEnded
<1>3. Shape'
  BY PlainShape, StreamTypes
<1>4. Moved'
  <2>1. Len(log) \in Nat /\ Len(log') \in Nat /\ Len(log) <= Len(log') /\ cursor \in Nat
    BY Onward DEF TypeOK
  <2>2. QED
    BY <2>1, StreamTypes DEF QueueInv, Moved
<1>5. QED
  BY <1>1, <1>2, <1>3, <1>4 DEF QueueInv

LEMMA PopFacts ==
  ASSUME TypeOK, ops # <<>>, ops' = Tail(ops)
  PROVE  /\ Len(ops) \in Nat /\ Len(ops) > 0 /\ DOMAIN ops = 1..Len(ops) /\ Head(ops) = ops[1]
         /\ DOMAIN ops' = 1..(Len(ops) - 1) /\ Len(ops') = Len(ops) - 1
         /\ \A i \in 1..(Len(ops) - 1) : ops'[i] = ops[i + 1] /\ i + 1 \in DOMAIN ops
         /\ ops[1] \in Op /\ \A i \in DOMAIN ops' : ops'[i] = ops[i + 1] /\ i + 1 \in DOMAIN ops
BY HeadFacts, SeqFacts DEF TypeOK

LEMMA ShapeTail ==
  ASSUME TypeOK, Shape, ops # <<>>, ops' = Tail(ops), ops[1] # FlushOp,
         UNCHANGED <<stream, log, floor>>,
         ops[1] = WipeOp => rows' = EmptyStore,
         Clearing /\ ops[1] # WipeOp => rows' = rows,
         Clearing => cursor' \in {cursor, 0}
  PROVE  Shape'
<1>1. PICK L \in Nat : L = Len(ops)
  BY PopFacts
<1>2. /\ L > 0 /\ DOMAIN ops = 1..L /\ DOMAIN ops' = 1..(L - 1) /\ Len(ops') = L - 1
      /\ \A i \in 1..(L - 1) : ops'[i] = ops[i + 1] /\ i + 1 \in 1..L
  BY <1>1, PopFacts
<1>3. ASSUME Clearing PROVE Clearing'
  <2>1. PICK f \in DOMAIN ops : ClearingTo(f)
    BY <1>3 DEF Clearing
  <2>2. f \in 1..L /\ f # 1 /\ f - 1 \in DOMAIN ops' /\ (f - 1) + 1 = f
    BY <1>2, <2>1 DEF ClearingTo
  <2>3. PICK g \in Nat : g = f - 1
    BY <2>2
  <2>4. ops'[g] = FlushOp /\ g >= 1
    BY <1>2, <2>1, <2>2, <2>3 DEF ClearingTo
  <2>5. \A i \in 1..(g - 1) : ops'[i] \in Opening /\ ops'[i] = ops[i + 1] /\ i + 1 \in 2..f
    <3>1. \A i \in 1..(g - 1) : i + 1 \in 1..(f - 1) /\ i \in 1..(L - 1) /\ i + 1 \in 2..f
      BY <1>1, <2>2, <2>3
    <3>2. QED
      BY <1>2, <2>1, <3>1 DEF ClearingTo
  <2>6. \A i \in (g + 1)..(L - 1) : ops'[i].do = "write" /\ ops'[i].val = Absent
    <3>1. \A i \in (g + 1)..(L - 1) : i + 1 \in (f + 1)..L /\ i \in 1..(L - 1)
      BY <1>1, <2>2, <2>3
    <3>2. QED
      BY <1>1, <1>2, <2>1, <3>1 DEF ClearingTo
  <2>7. \A i \in 1..g : ops'[i] # WipeOp
    <3>1. \A i \in 1..g : i + 1 \in 2..f /\ i \in 1..(L - 1)
      BY <1>1, <2>2, <2>3
    <3>2. QED
      BY <1>2, <2>1, <3>1 DEF ClearingTo
  <2>8. rows' = EmptyStore
    BY <1>3, <2>1 DEF ClearingTo
  <2>9. ClearingTo(g)'
    <3>1. \A i \in 2..g : i \in 1..g
      BY <2>3
    <3>2. 1 \in 1..g
      BY <2>3, <2>4
    <3>3. QED
      BY <1>2, <2>4, <2>5, <2>6, <2>7, <2>8, <3>1, <3>2 DEF ClearingTo, Opening
  <2>10. ~Available(cursor)'
    <3>1. ~Available(cursor) /\ ~Available(0)
      BY <1>3, Unavailable DEF Clearing
    <3>2. QED
      BY <1>3, <3>1 DEF Available
  <2>11. g \in DOMAIN ops'
    BY <2>2, <2>3
  <2>12. QED
    BY <2>9, <2>10, <2>11 DEF Clearing
<1>4. ASSUME NEW i \in DOMAIN ops', ops'[i] \in {WipeOp, FlushOp, NotifyOp(Reset)} PROVE Clearing
  BY <1>2, <1>4 DEF Shape
<1>5. Clearing' => Clearing
  BY <1>4 DEF Clearing, ClearingTo
<1>6. QED
  BY <1>3, <1>4, <1>5 DEF Shape

LEMMA NotClearing ==
  ASSUME TypeOK, Shape, ops # <<>>, ops[1].do = "write" \/ (ops[1].do = "cursor" /\ ops[1].id # 0)
         \/ (ops[1].do = "notify" /\ ops[1].msg # Reset)
  PROVE  ~Clearing
<1>1. SUFFICES ASSUME NEW f \in DOMAIN ops, ClearingTo(f) PROVE FALSE
  BY DEF Clearing
<1>2. f \in Nat /\ f >= 1
  BY SeqFacts DEF TypeOK
<1>3. CASE f = 1
  BY <1>1, <1>3, OpsDiffer DEF ClearingTo
<1>4. CASE f # 1
  <2>1. 1 \in 1..(f - 1)
    BY <1>2, <1>4
  <2>2. ops[1] \in Opening
    BY <1>1, <2>1 DEF ClearingTo
  <2>3. QED
    BY <2>2, OpsDiffer DEF Opening
<1>5. QED
  BY <1>3, <1>4

LEMMA EndedTail ==
  ASSUME TypeOK, TypeOK', [Next]_vars, QueueInv, ops # <<>>, ops' = Tail(ops)
  PROVE  Ended'
BY PopFacts, OthersEnded DEF QueueInv, Ended

LEMMA MovedTail ==
  ASSUME TypeOK, QueueInv, ops # <<>>, ops' = Tail(ops), UNCHANGED <<log, stream>>,
         cursor' = cursor \/ (ops[1].do = "cursor" /\ cursor' = ops[1].id)
  PROVE  Moved'
<1>1. 1 \in DOMAIN ops /\ \A i \in DOMAIN ops' : ops'[i] = ops[i + 1] /\ i + 1 \in DOMAIN ops
  BY PopFacts
<1>2. stream.at = "up" => stream.pos \in Nat /\ stream.mark \in Nat
  BY StreamParts DEF TypeOK, UpStream
<1>3. ops[1].do = "cursor" => ops[1].id \in Nat
  BY <1>1, CursorIds DEF QueueInv
<1>4. QED
  BY <1>1, <1>2, <1>3 DEF QueueInv, Moved

LEMMA QueueWriter ==
  ASSUME TypeOK, TypeOK', [Next]_vars, QueueInv, WriterNext
  PROVE  QueueInv'
<1>1. /\ ops # <<>> /\ ops' = Tail(ops) /\ UNCHANGED <<log, floor, scenario>>
  BY DEF WriterNext, WriteRow, Wipe, SetCursor, Notify, Flush, Pop, serverVars
<1>2. Head(ops) = ops[1] /\ ops[1] \in Op /\ Len(ops) \in Nat
  BY <1>1, PopFacts
<1>3. Ended'
  BY <1>1, EndedTail
<1>4. Items /\ Shape /\ Moved /\ (failedWrites => "write" \in scenario.faults)
  BY DEF QueueInv, Items
<1>5. CASE WriteRow
  <2>1. /\ ops[1].do = "write" /\ UNCHANGED <<cursor, stream>>
        /\ \/ rows' = [rows EXCEPT ![ops[1].key] = ops[1].val] /\ UNCHANGED failedWrites
           \/ "write" \in scenario.faults /\ failedWrites'
    BY <1>2, <1>5 DEF WriteRow, Pop
  <2>2. ops[1].key \in Keys /\ ops[1].val \in Nat /\ rows \in [Keys -> Nat]
    BY <1>2, <2>1, OpParts DEF TypeOK
  <2>3. Items'
    BY <1>1, <1>4, <2>1, <2>2, ItemsTail
  <2>4. ~Clearing /\ ops[1] # FlushOp /\ ops[1] # WipeOp
    BY <1>1, <1>4, <2>1, NotClearing, OpsDiffer
  <2>5. Shape'
    BY <1>1, <1>4, <2>1, <2>4, ShapeTail
  <2>6. Moved'
    BY <1>1, <2>1, MovedTail
  <2>7. QED
    BY <1>3, <2>3, <2>5, <2>6 DEF QueueInv
<1>6. CASE Wipe
  <2>1. /\ ops[1].do = "wipe" /\ ops[1] = WipeOp /\ UNCHANGED <<cursor, stream>> /\ rows' = EmptyStore
        /\ failedWrites' = FALSE
    BY <1>2, <1>6, OpParts DEF Wipe, Pop
  <2>2. Items'
    BY <1>1, <1>4, <2>1, ItemsTail
  <2>3. ops[1] # FlushOp
    BY <2>1, OpsDiffer
  <2>4. Shape'
    BY <1>1, <1>4, <2>1, <2>3, ShapeTail
  <2>5. Moved'
    BY <1>1, <2>1, MovedTail
  <2>6. QED
    BY <1>3, <2>2, <2>4, <2>5 DEF QueueInv
<1>7. CASE SetCursor
  <2>1. /\ ops[1].do = "cursor" /\ UNCHANGED <<rows, stream>> /\ cursor' \in {cursor, ops[1].id}
        /\ failedWrites' = FALSE
    BY <1>2, <1>7 DEF SetCursor, Pop
  <2>2. Items'
    BY <1>1, <1>4, <2>1, ItemsTail
  <2>3. ops[1] # FlushOp /\ ops[1] # WipeOp
    BY <2>1, OpsDiffer
  <2>4. Clearing => ops[1].id = 0
    BY <1>1, <1>4, <2>1, NotClearing
  <2>5. Shape'
    BY <1>1, <1>4, <2>1, <2>3, <2>4, ShapeTail
  <2>6. Moved'
    BY <1>1, <2>1, MovedTail
  <2>7. QED
    BY <1>3, <2>2, <2>5, <2>6 DEF QueueInv
<1>8. CASE Notify
  <2>1. ops[1].do = "notify" /\ UNCHANGED <<rows, cursor, stream, failedWrites>>
    BY <1>2, <1>8 DEF Notify, Pop, idbVars
  <2>2. Items'
    BY <1>1, <1>4, <2>1, ItemsTail
  <2>3. ops[1] # FlushOp /\ ops[1] # WipeOp
    BY <2>1, OpsDiffer
  <2>4. Shape'
    BY <1>1, <1>4, <2>1, <2>3, ShapeTail
  <2>5. Moved'
    BY <1>1, <2>1, MovedTail
  <2>6. QED
    BY <1>3, <2>2, <2>4, <2>5 DEF QueueInv
<1>9. CASE Flush
  <2>1. /\ ops[1].do = "flush" /\ ops[1] = FlushOp /\ UNCHANGED <<rows, cursor, failedWrites>>
        /\ \/ stream = Flushing /\ stream' = Catching(Len(log), {k \in Keys : Current(k) # Absent})
           \/ stream # Flushing /\ stream' = stream
    BY <1>2, <1>9, OpParts DEF Flush, Pop, idbVars
  <2>2. Items'
    <3>1. ops[1].do # "write"
      BY <2>1
    <3>2. QED
      BY <1>1, <1>4, <2>1, <3>1, ItemsTail
  <2>3. PICK f \in DOMAIN ops : ClearingTo(f)
    <3>1. 1 \in DOMAIN ops
      BY <1>1, PopFacts
    <3>2. QED
      BY <1>4, <2>1, <3>1 DEF Shape, Clearing
  <2>4. f = 1
    <3>1. CASE f # 1
      <4>1. 1 \in 1..(f - 1)
        BY <1>1, <3>1, PopFacts
      <4>2. FlushOp \in Opening
        BY <2>1, <2>3, <4>1 DEF ClearingTo
      <4>3. QED
        BY <4>2, OpsDiffer DEF Opening
    <3>2. QED
      BY <3>1
  <2>5. \A i \in DOMAIN ops' : ops'[i].do = "write" /\ ops'[i].val = Absent
    <3>1. \A i \in DOMAIN ops' : ops'[i] = ops[i + 1] /\ i + 1 \in (1 + 1)..Len(ops)
      BY <1>1, PopFacts
    <3>2. QED
      BY <2>3, <2>4, <3>1 DEF ClearingTo
  <2>6. stream' # Flushing /\ (stream'.at = "up" => stream = Flushing \/ stream' = stream)
    <3>1. {k \in Keys : Current(k) # Absent} \in SUBSET Keys
      OBVIOUS
    <3>2. log \in Seq(Entry) /\ floor \in Nat /\ Len(log) \in Nat
      BY LogType DEF TypeOK
    <3>3. Catching(Len(log), {k \in Keys : Current(k) # Absent}).at = "up"
      BY <3>1, <3>2, CatchingIs
    <3>4. QED
      BY <2>1, <3>3, StreamTypes
  <2>7. Shape'
    BY <2>5, <2>6, PlainShape, OpsDiffer
  <2>8. Moved'
    <3>1. CASE stream = Flushing
      <4>1. PICK S \in SUBSET Keys : stream' = Catching(Len(log), S)
        BY <2>1, <3>1
      <4>2. log \in Seq(Entry) /\ floor \in Nat /\ Len(log) \in Nat
        BY LogType DEF TypeOK
      <4>3. /\ stream'.at = "up" /\ stream'.pos = Len(log) /\ stream'.mark = Len(log) /\ stream'.done = FALSE
            /\ stream'.claim \in {0, Len(log)}
        BY <4>1, <4>2, CatchingIs
      <4>4. \A i \in DOMAIN ops' : ops'[i].do # "cursor"
        BY <2>5
      <4>5. QED
        BY <1>1, <1>4, <2>1, <4>2, <4>3, <4>4 DEF Moved
    <3>2. CASE stream # Flushing
      BY <1>1, <2>1, <3>2, MovedTail
    <3>3. QED
      BY <3>1, <3>2
  <2>9. QED
    BY <1>3, <2>2, <2>7, <2>8 DEF QueueInv
<1>10. QED
  BY <1>5, <1>6, <1>7, <1>8, <1>9 DEF WriterNext

\* Every other step appends deletes of rows that are gone, or nothing.
LEMMA RequestedEvicts ==
  ASSUME NEW s \in Seq(Message), Deletes(s)
  PROVE  CacheWrites(s) \in Seq(Op) /\ \A n \in DOMAIN CacheWrites(s) : Evicts(CacheWrites(s)[n])
<1>1. /\ CacheWrites(s) \in Seq(Op)
      /\ \A n \in DOMAIN CacheWrites(s) : \E i \in DOMAIN s :
           s[i].is = "cache_delete" /\ s[i].key \in Keys /\ CacheWrites(s)[n] = WriteOp(s[i].key, Absent)
  BY CacheWritesAre
<1>2. ASSUME NEW i \in DOMAIN s, s[i].is = "cache_delete" PROVE Evicts(WriteOp(s[i].key, Absent))
  BY <1>2, OpsDiffer DEF Deletes, Evicts
<1>3. QED
  BY <1>1, <1>2

\* What the tabs and the server do to the queue and what it speaks of.
EvictStep ==
  /\ UNCHANGED <<cursor, rows, failedWrites, scenario>>
  /\ stream' \in {stream, Down}
  /\ \E w \in Seq(Op) : ops' = ops \o w /\ \A n \in DOMAIN w : Evicts(w[n])

LEMMA NothingAppended ==
  ASSUME TypeOK, UNCHANGED <<cursor, rows, failedWrites, scenario>>, stream' \in {stream, Down}, ops' = ops
  PROVE  EvictStep
<1>1. <<>> \in Seq(Op) /\ ops \o <<>> = ops
  BY ConcatEmptySeq DEF TypeOK
<1>2. PICK w \in Seq(Op) : w = <<>>
  BY <1>1
<1>3. DOMAIN w = {} /\ ops' = ops \o w
  BY <1>1, <1>2
<1>4. QED
  BY <1>3 DEF EvictStep

LEMMA RestEvicts ==
  ASSUME TypeOK, QueueInv, ServerNext \/ UNCHANGED vars
         \/ \E t \in Tabs : \/ Open(t) \/ Hydrate(t) \/ Deliver(t) \/ Lead(t) \/ Disconnect(t)
                            \/ (Close(t) /\ engine # t) \/ \E k \in Keys : UiRemove(t, k)
  PROVE  EvictStep
<1>1. CASE ServerNext
  <2>1. UNCHANGED <<cursor, rows, failedWrites, scenario, stream, ops>>
    BY <1>1 DEF ServerNext, Commit, Rejoin, Click, Record, Prune, idbVars, queueVars
  <2>2. QED
    BY <2>1, NothingAppended
<1>2. CASE UNCHANGED vars
  <2>1. UNCHANGED <<cursor, rows, failedWrites, scenario, stream, ops>>
    BY <1>2 DEF vars, serverVars, idbVars, queueVars
  <2>2. QED
    BY <2>1, NothingAppended
<1>3. ASSUME NEW t \in Tabs, Open(t) \/ Lead(t) \/ (Close(t) /\ engine # t) PROVE EvictStep
  <2>1. UNCHANGED <<cursor, rows, failedWrites, scenario, stream, ops>>
    BY <1>3 DEF Open, Lead, Grant, StartEngine, Close, serverVars, idbVars, queueVars
  <2>2. QED
    BY <2>1, NothingAppended
<1>4. ASSUME NEW t \in Tabs, Disconnect(t) PROVE EvictStep
  <2>1. UNCHANGED <<cursor, rows, failedWrites, scenario, ops>> /\ stream' = Down
    BY <1>4 DEF Disconnect, EngineStep, serverVars, idbVars, queueVars
  <2>2. QED
    BY <2>1, NothingAppended
<1>5. ASSUME NEW t \in Tabs, NEW s \in Seq(Message), Deletes(s), NEW m, NEW b, Apply(t, m, b, s),
             UNCHANGED <<cursor, rows, failedWrites, scenario, stream>>
      PROVE  EvictStep
  <2>1. CASE engine = t
    BY <1>5, <2>1, RequestedEvicts DEF Apply, EvictStep
  <2>2. CASE engine # t
    BY <1>5, <2>2, NothingAppended DEF Apply
  <2>3. QED
    BY <2>1, <2>2
<1>6. ASSUME NEW t \in Tabs, Deliver(t) PROVE EvictStep
  <2>1. UNCHANGED <<cursor, rows, failedWrites, scenario, stream>>
    BY <1>6 DEF Deliver, serverVars, idbVars
  <2>2. inbox[t] \in Seq(Message) /\ inbox[t] # <<>> /\ Deletes(inbox[t])
    BY <1>6 DEF Deliver, TypeOK, QueueInv, Ended
  <2>3. <<Head(inbox[t])>> \in Seq(Message) /\ Deletes(<<Head(inbox[t])>>)
    BY <2>2, DeletesTail, HeadFacts
  <2>4. CASE ops' = ops
    BY <2>1, <2>4, NothingAppended
  <2>5. CASE ops' # ops
    BY <1>5, <1>6, <2>1, <2>3, <2>5 DEF Deliver
  <2>6. QED
    BY <2>4, <2>5
<1>7. ASSUME NEW t \in Tabs, Hydrate(t) PROVE EvictStep
  <2>1. UNCHANGED <<cursor, rows, failedWrites, scenario, stream>>
    BY <1>7 DEF Hydrate, FetchList, SkipList, SetList, FinishHydration, HydrationStep, serverVars, idbVars, queueVars
  <2>2. held[t] \in Seq(Message) /\ Deletes(held[t])
    BY DEF TypeOK, QueueInv, Ended
  <2>3. CASE FinishHydration(t)
    BY <1>5, <2>1, <2>2, <2>3 DEF FinishHydration
  <2>4. CASE ~FinishHydration(t)
    <3>1. ops' = ops
      BY <1>7, <2>4 DEF Hydrate, FetchList, SkipList, SetList, HydrationStep, queueVars
    <3>2. QED
      BY <2>1, <3>1, NothingAppended
  <2>5. QED
    BY <2>3, <2>4
<1>8. ASSUME NEW t \in Tabs, NEW k \in Keys, UiRemove(t, k) PROVE EvictStep
  <2>1. UNCHANGED <<cursor, rows, failedWrites, scenario, stream>> /\ (k \in Tame => Over(k))
    BY <1>8 DEF UiRemove, serverVars, idbVars, QueueInv, Ended
  <2>2. CASE ops' = ops
    BY <2>1, <2>2, NothingAppended
  <2>3. CASE ops' # ops
    <3> DEFINE w == <<WriteOp(k, Absent)>>
    <3>1. ops' = Append(ops, WriteOp(k, Absent))
      BY <1>8, <2>3 DEF UiRemove
    <3>2. w \in Seq(Op) /\ ops' = ops \o w
      <4>1. WriteOp(k, Absent) \in Op /\ ops \in Seq(Op)
        BY OpTypes DEF TypeOK, Absent
      <4>2. \A e \in Op : <<e>> \in Seq(Op) /\ Append(ops, e) = ops \o <<e>>
        BY <4>1, AppendIsConcat
      <4>3. QED
        BY <3>1, <4>1, <4>2
    <3>3. \A n \in DOMAIN w : w[n] = WriteOp(k, Absent)
      OBVIOUS
    <3>4. \A n \in DOMAIN w : Evicts(w[n])
      BY <2>1, <3>3, OpsDiffer DEF Evicts
    <3>5. QED
      BY <2>1, <3>2, <3>4 DEF EvictStep
  <2>4. QED
    BY <2>2, <2>3
<1>9. QED
  BY <1>1, <1>2, <1>3, <1>4, <1>6, <1>7, <1>8

LEMMA QueueInit == Init => QueueInv
<1>1. SUFFICES ASSUME Init PROVE QueueInv
  OBVIOUS
<1>2. DOMAIN ops = {} /\ Len(log) = 0 /\ ops = <<>> /\ stream = Down /\ cursor = 0 /\ ~failedWrites /\ awaiting = {}
      /\ \A t \in Tabs : inbox[t] = <<>> /\ held[t] = <<>>
  BY <1>1 DEF Init
<1>3. QED
  BY <1>2, StreamTypes, DeletesEmpty DEF QueueInv, Ended, Moved, Items, Shape, Clearing

LEMMA QueueNext ==
  ASSUME TypeOK, TypeOK', [Next]_vars, QueueInv
  PROVE  QueueInv'
<1>1. CASE EvictStep
  BY <1>1, QueueEvict DEF EvictStep
<1>2. CASE WriterNext
  BY <1>2, QueueWriter
<1>3. ASSUME NEW t \in Tabs, Dial(t) \/ Follow(t) PROVE QueueInv'
  BY <1>3, QueueResume, QueueStartOver, QueueNextEntry, QueueNextRow, QueueComplete DEF Dial, Follow
<1>4. ASSUME NEW t \in Tabs, Close(t), engine = t PROVE QueueInv'
  BY <1>4, QueueDropped DEF Close, idbVars
<1>5. QED
  BY <1>1, <1>2, <1>3, <1>4, RestEvicts DEF Next

\* Every variable keeps its type, only a page that hydrates holds messages, and
\* a queue of cache writes outlives no tab, for every set of tabs and rows and
\* every scenario (broadcast_queue.rs, tab_leader.rs).
THEOREM Typing == Spec => []TypeOK
<1>1. TypeOK /\ [Next]_vars => TypeOK'
  BY TypingNext
<1>2. QED
  BY TypingInit, <1>1, PTL DEF Spec

LEMMA Queueing == Spec => []QueueInv
<1>1. TypeOK /\ TypeOK' /\ QueueInv /\ [Next]_vars => QueueInv'
  BY QueueNext
<1>2. QED
  BY QueueInit, <1>1, Typing, PTL DEF Spec

\* No tab is told of a row that the cache the tabs share does not hold, as long
\* as no write of it fails (idb_writer.rs, Notify).
THEOREM ToldOfCached == Spec => []ToldOnlyOfCached
<1>1. TypeOK /\ QueueInv => ToldOnlyOfCached
  <2>1. SUFFICES ASSUME TypeOK, QueueInv, "write" \notin scenario.faults, ops # <<>>, Head(ops).do = "notify",
                        Head(ops).msg.is = "action"
                 PROVE  rows[Head(ops).msg.key] = Head(ops).msg.val
    BY DEF ToldOnlyOfCached
  <2>2. 1 \in DOMAIN ops /\ Head(ops) = ops[1]
    BY <2>1, HeadFacts DEF TypeOK
  <2>3. Backed(1) /\ ~failedWrites
    BY <2>1, <2>2 DEF QueueInv, Items
  <2>4. QED
    BY <2>1, <2>2, <2>3 DEF Backed, IsAction
<1>2. QED
  BY <1>1, Typing, Queueing, PTL

-----------------------------------------------------------------------------
(***************************************************************************)
(* What a row will hold when the queue has been told of, or the part of it *)
(* that is ahead of the cursor.                                            *)
(***************************************************************************)
Touches(m, k) == m.is = "reset" \/ (m.is = "action" /\ m.key = k)
Brings(m) == IF m.is = "action" THEN m.val ELSE Absent

\* The broadcasts about row k up to an operation of a kind in B.
Told(q, k, B) ==
  {i \in DOMAIN q : q[i].do = "notify" /\ Touches(q[i].msg, k) /\ \A h \in 1..i : q[h].do \notin B}

\* No operation of q is of such a kind.
Passes(q, B) == \A h \in DOMAIN q : q[h].do \notin B

\* Sequences put together, by names the provers leave alone.
Joined(q, w) == q \o w
Extended(q, o) == Append(q, o)

Heard(v, q, k, B) ==
  IF Told(q, k, B) = {} THEN v ELSE Brings(q[Last(Told(q, k, B))].msg)

LEMMA HeardTail ==
  ASSUME NEW q \in Seq(Op), q # <<>>, NEW k, NEW B, q[1].do \notin B, NEW v
  PROVE  Heard(IF q[1].do = "notify" /\ Touches(q[1].msg, k) THEN Brings(q[1].msg) ELSE v, Tail(q), k, B)
           = Heard(v, q, k, B)
<1>1. PICK r \in Seq(Op) : r = Tail(q)
  BY HeadFacts
<1>2. PICK L \in Nat : L = Len(q)
  BY HeadFacts
<1>3. /\ L > 0 /\ DOMAIN q = 1..L /\ DOMAIN r = 1..(L - 1)
      /\ \A i \in 1..(L - 1) : r[i] = q[i + 1] /\ i + 1 \in 1..L
  BY <1>1, <1>2, HeadFacts, SeqFacts
<1> DEFINE S == Told(q, k, B)
           T == Told(r, k, B)
<1>4. S \subseteq 1..L /\ T \subseteq 1..(L - 1) /\ S \subseteq 0..L /\ T \subseteq 0..(L - 1)
  BY <1>3 DEF Told
<1>5. \A i \in 1..(L - 1) : i \in T <=> i + 1 \in S
  <2>1. SUFFICES ASSUME NEW i \in 1..(L - 1) PROVE i \in T <=> i + 1 \in S
    OBVIOUS
  <2>2. (\A h \in 1..i : r[h].do \notin B) <=> (\A h \in 2..(i + 1) : q[h].do \notin B)
    <3>1. \A h \in 1..i : h + 1 \in 2..(i + 1) /\ r[h] = q[h + 1]
      BY <1>3
    <3>2. \A h \in 2..(i + 1) : h - 1 \in 1..i /\ (h - 1) + 1 = h
      BY <1>3
    <3>3. \A h \in 2..(i + 1) : r[h - 1] = q[h]
      BY <3>1, <3>2
    <3>4. QED
      BY <3>1, <3>2, <3>3
  <2>3. (\A h \in 1..(i + 1) : q[h].do \notin B) <=> (\A h \in 2..(i + 1) : q[h].do \notin B)
    <3>1. \A h \in 1..(i + 1) : h = 1 \/ h \in 2..(i + 1)
      OBVIOUS
    <3>2. \A h \in 2..(i + 1) : h \in 1..(i + 1)
      OBVIOUS
    <3>3. QED
      BY <3>1, <3>2
  <2>4. i \in DOMAIN r /\ i + 1 \in DOMAIN q /\ r[i] = q[i + 1]
    BY <1>3
  <2>5. QED
    BY <2>2, <2>3, <2>4 DEF Told
<1>6. 1 \in S <=> q[1].do = "notify" /\ Touches(q[1].msg, k)
  <2>1. 1 \in DOMAIN q /\ \A h \in 1..1 : h = 1
    BY <1>3
  <2>2. QED
    BY <2>1 DEF Told
<1>7. CASE T = {}
  <2>1. \A x \in S : x = 1
    <3>1. ASSUME NEW x \in S, x # 1 PROVE x - 1 \in 1..(L - 1) /\ (x - 1) + 1 = x
      BY <1>4, <3>1
    <3>2. QED
      BY <1>5, <1>7, <3>1
  <2>2. CASE 1 \in S
    <3>1. Last(S) = 1
      <4>1. S \subseteq Nat /\ \A x \in S : x <= 1
        BY <2>1
      <4>2. QED
        BY <2>2, <4>1, LastIs
    <3>2. QED
      BY <1>1, <1>6, <1>7, <2>2, <3>1 DEF Heard
  <2>3. CASE 1 \notin S
    <3>1. S = {}
      BY <2>1, <2>3
    <3>2. QED
      BY <1>1, <1>6, <1>7, <2>3, <3>1 DEF Heard
  <2>4. QED
    BY <2>2, <2>3
<1>8. CASE T # {}
  <2>1. PICK m \in T : m = Last(T) /\ \A x \in T : x <= m
    <3>1. L - 1 \in Nat
      BY <1>3
    <3>2. QED
      BY <1>4, <1>8, <3>1, LastOf
  <2>2. m \in 1..(L - 1) /\ m + 1 \in S /\ r[m] = q[m + 1]
    BY <1>3, <1>4, <1>5
  <2>3. ASSUME NEW x \in S PROVE x <= m + 1
    <3>1. CASE x = 1
      BY <2>2, <3>1
    <3>2. CASE x # 1
      <4>1. x - 1 \in 1..(L - 1) /\ (x - 1) + 1 = x
        BY <1>4, <3>2
      <4>2. x - 1 <= m
        BY <1>5, <2>1, <4>1
      <4>3. QED
        BY <2>2, <4>1, <4>2
    <3>3. QED
      BY <3>1, <3>2
  <2>4. Last(S) = m + 1
    <3>1. S \subseteq Nat
      BY <1>4
    <3>2. QED
      BY <2>2, <2>3, <3>1, LastIs
  <2>5. QED
    BY <1>1, <1>8, <2>1, <2>2, <2>4 DEF Heard
<1>9. QED
  BY <1>7, <1>8

\* Behind such an operation nothing is heard.
LEMMA HeardStop ==
  ASSUME NEW q, NEW B, q[1].do \in B, NEW k, NEW v, DOMAIN q \subseteq Nat \ {0}
  PROVE  Heard(v, q, k, B) = v
<1>1. \A i \in DOMAIN q : 1 \in 1..i
  OBVIOUS
<1>2. Told(q, k, B) = {}
  BY <1>1 DEF Told
<1>3. QED
  BY <1>2 DEF Heard

LEMMA HeardNothing ==
  ASSUME NEW q, \A i \in DOMAIN q : q[i].do = "notify" => FALSE, NEW k, NEW B, NEW v
  PROVE  Heard(v, q, k, B) = v
<1>1. Told(q, k, B) = {}
  BY DEF Told
<1>2. QED
  BY <1>1 DEF Heard

\* What is appended without touching the row, or behind such an operation, is not.
LEMMA HeardSilent ==
  ASSUME NEW q \in Seq(Op), NEW w \in Seq(Op), NEW k, NEW B, NEW v, NEW r, r = Joined(q, w),
         \/ \A n \in DOMAIN w : w[n].do = "notify" => ~Touches(w[n].msg, k)
         \/ ~Passes(q, B)
  PROVE  Heard(v, r, k, B) = Heard(v, q, k, B)
<1>1. PICK L \in Nat : L = Len(q)
  BY ConcatFacts
<1>2. PICK M \in Nat : M = Len(w)
  BY ConcatFacts
<1>3. r \in Seq(Op) /\ r = q \o w
  BY ConcatFacts DEF Joined
<1>4. /\ DOMAIN q = 1..L /\ DOMAIN w = 1..M /\ DOMAIN r = 1..(L + M)
      /\ \A i \in 1..L : r[i] = q[i]
      /\ \A i \in 1..M : r[L + i] = w[i]
  BY <1>1, <1>2, <1>3, ConcatFacts
<1>5. ASSUME NEW i \in 1..(L + M) PROVE i \in Told(r, k, B) <=> i \in Told(q, k, B)
  <2>1. CASE i \in 1..L
    <3>1. \A h \in 1..i : h \in 1..L
      BY <2>1
    <3>2. \A h \in 1..i : r[h] = q[h]
      BY <1>4, <3>1
    <3>3. i \in DOMAIN r /\ i \in DOMAIN q /\ r[i] = q[i]
      BY <1>4, <2>1
    <3>4. QED
      BY <3>2, <3>3 DEF Told
  <2>2. CASE i \notin 1..L
    <3>1. i - L \in 1..M /\ L + (i - L) = i
      BY <2>2
    <3>2. r[i] = w[i - L] /\ i - L \in DOMAIN w
      BY <1>4, <3>1
    <3>3. i \notin Told(q, k, B)
      BY <1>4, <2>2 DEF Told
    <3>4. \A h \in DOMAIN q : h \in 1..i /\ r[h] = q[h]
      BY <1>4, <2>2
    <3>5. i \notin Told(r, k, B)
      BY <3>2, <3>4 DEF Told, Passes
    <3>6. QED
      BY <3>3, <3>5
  <2>3. QED
    BY <2>1, <2>2
<1>6. Told(r, k, B) \subseteq 1..(L + M) /\ Told(q, k, B) \subseteq 1..L /\ 1..L \subseteq 1..(L + M)
  BY <1>4 DEF Told
<1>7. Told(r, k, B) = Told(q, k, B)
  BY <1>5, <1>6
<1>8. CASE Told(q, k, B) # {}
  <2>1. Last(Told(q, k, B)) \in Told(q, k, B)
    <3>1. Told(q, k, B) \subseteq 0..L
      BY <1>6
    <3>2. QED
      BY <1>8, <3>1, LastOf
  <2>2. r[Last(Told(q, k, B))] = q[Last(Told(q, k, B))]
    BY <1>4, <1>6, <2>1
  <2>3. QED
    BY <1>3, <1>7, <2>2 DEF Heard
<1>9. CASE Told(q, k, B) = {}
  BY <1>3, <1>7, <1>9 DEF Heard
<1>10. QED
  BY <1>8, <1>9

\* What is told last is what is heard.
LEMMA HeardLast ==
  ASSUME NEW q \in Seq(Op), NEW o \in Op, o.do = "notify", NEW k, Touches(o.msg, k), NEW B, NEW v,
         "notify" \notin B, Passes(q, B), NEW r, r = Extended(q, o)
  PROVE  Heard(v, r, k, B) = Brings(o.msg)
<1>1. PICK L \in Nat : L = Len(q)
  BY SeqFacts
<1>2. r = Append(q, o)
  BY DEF Extended
<1>3. /\ DOMAIN q = 1..L /\ DOMAIN r = 1..(L + 1) /\ r[L + 1] = o
      /\ \A i \in 1..L : r[i] = q[i]
  BY <1>1, <1>2, AppendFacts
<1>4. L + 1 \in Told(r, k, B)
  <2>2. ASSUME NEW h \in 1..(L + 1) PROVE r[h].do \notin B
    <3>1. CASE h = L + 1
      BY <1>3, <3>1
    <3>2. CASE h # L + 1
      <4>1. h \in 1..L
        BY <3>2
      <4>2. QED
        BY <1>3, <4>1 DEF Passes
    <3>3. QED
      BY <3>1, <3>2
  <2>3. L + 1 \in DOMAIN r
    BY <1>3
  <2>4. QED
    BY <1>3, <2>2, <2>3 DEF Told
<1>5. Told(r, k, B) \subseteq Nat /\ \A x \in Told(r, k, B) : x <= L + 1
  BY <1>3 DEF Told
<1>6. Last(Told(r, k, B)) = L + 1
  BY <1>4, <1>5, LastIs
<1>7. QED
  BY <1>2, <1>3, <1>4, <1>6 DEF Heard

-----------------------------------------------------------------------------
(***************************************************************************)
(* The cache on disk and the lists of a tab are views of the rows: what    *)
(* one holds now, what it will hold after the part of the queue that is    *)
(* ahead of the cursor, and what after all of it.                          *)
(***************************************************************************)
\* How much of what the next SyncComplete will claim has been brought.
Reach == IF stream.pos < stream.mark THEN stream.pos ELSE stream.mark

UpToDate(V) ==
  /\ Available(cursor) => \A k \in Tame : Fresh(k, V.now[k], cursor)
  /\ ~failedWrites =>
       /\ stream.at = "up" /\ ~stream.done => \A k \in Tame \ stream.left : Fresh(k, V.ahead[k], Reach)
       /\ \A i \in DOMAIN ops : ops[i].do = "cursor" /\ ops[i].id # 0 =>
            \A k \in Tame : Fresh(k, V.ahead[k], ops[i].id)
  /\ scenario.faults = {} /\ stream.at = "up" => \A k \in Heeded \ stream.left : Fresh(k, V.all[k], stream.pos)

\* Where a view is compared with the log.
LEMMA Places ==
  ASSUME TypeOK, QueueInv
  PROVE  /\ cursor \in 0..Len(log) /\ Len(log) \in Nat
         /\ \A i \in DOMAIN ops : ops[i].do = "cursor" => ops[i].id \in 0..Len(log)
         /\ stream.at = "up" => /\ Reach \in 0..Len(log) /\ stream.pos \in 0..Len(log) /\ stream.mark \in 0..Len(log)
                                /\ stream \in UpStream
<1>1. /\ cursor \in 0..Len(log) /\ Len(log) \in Nat
      /\ \A i \in DOMAIN ops : ops[i].do = "cursor" => ops[i].id \in 0..Len(log)
  BY CursorIds, LogType DEF QueueInv, TypeOK
<1>2. ASSUME stream.at = "up"
      PROVE  Reach \in 0..Len(log) /\ stream.pos \in 0..Len(log) /\ stream.mark \in 0..Len(log) /\ stream \in UpStream
  <2>1. stream \in UpStream /\ stream.pos \in Nat /\ stream.mark \in Nat /\ stream.pos <= Len(log) /\ stream.mark <= Len(log)
    BY <1>2, StreamParts DEF QueueInv, Moved, TypeOK, UpStream
  <2>2. QED
    BY <1>1, <2>1 DEF Reach
<1>3. QED
  BY <1>1, <1>2

\* With no cursor to answer for, any view will do.
LEMMA Unclaimed ==
  ASSUME NEW W, ~Available(cursor)', stream'.at # "up", \A i \in DOMAIN ops' : ops'[i].do = "cursor" => ops'[i].id = 0
  PROVE  UpToDate(W)'
BY DEF UpToDate

\* What a row of a view may become while nothing is said of it.
Eases(k, u, v) == v = u \/ (v = Absent /\ (k \in Tame => Over(k)))

LEMMA EasesFresh ==
  ASSUME TypeOK, TypeOK', [Next]_vars, NEW k \in Tame', NEW u, NEW v, Eases(k, u, v), NEW c \in 0..Len(log), Fresh(k, u, c)
  PROVE  Fresh(k, v, c)'
<1>1. k \in Tame
  BY Onward
<1>2. Fresh(k, v, c)
  BY <1>1, OverFresh DEF Eases, TypeOK
<1>3. QED
  BY <1>2, Onward

LEMMA KeptUpToDate ==
  ASSUME TypeOK, TypeOK', [Next]_vars, QueueInv, EvictStep, NEW V, NEW W, UpToDate(V),
         \A k \in Keys : Eases(k, V.now[k], W.now[k]) /\ Eases(k, V.ahead[k], W.ahead[k]) /\ Eases(k, V.all[k], W.all[k])
  PROVE  UpToDate(W)'
<1>1. /\ cursor' = cursor /\ failedWrites' = failedWrites /\ scenario' = scenario /\ stream' \in {stream, Down}
      /\ \A i \in DOMAIN ops' : ops'[i].do = "cursor" => i \in DOMAIN ops /\ ops'[i] = ops[i]
  BY AppendStill DEF EvictStep, Evicts
<1>2. /\ cursor \in 0..Len(log)
      /\ \A i \in DOMAIN ops : ops[i].do = "cursor" => ops[i].id \in 0..Len(log)
      /\ stream.at = "up" => Reach \in 0..Len(log) /\ stream.pos \in 0..Len(log)
  BY Places
<1>3. stream'.at = "up" => stream' = stream /\ Reach' = Reach
  BY <1>1, StreamTypes DEF Reach
<1>4. /\ Tame' \subseteq Tame /\ Heeded' \subseteq Heeded /\ Heeded' \subseteq Tame' /\ Tame' \subseteq Keys
      /\ Available(cursor)' => Available(cursor)
  <2>1. PICK c \in 0..Len(log) : c = cursor
    BY <1>2
  <2>2. Available(cursor)' => Available(cursor)
    BY <1>1, <2>1, Onward
  <2>3. Heeded' \subseteq Tame' /\ Tame' \subseteq Keys
    BY DEF Heeded, Tame, Broadcast
  <2>4. QED
    BY <2>2, <2>3, Onward
<1>5. ASSUME Available(cursor)', NEW k \in Tame' PROVE Fresh(k, W.now[k], cursor)'
  <2>1. PICK c \in 0..Len(log) : c = cursor
    BY <1>2
  <2>2. Fresh(k, V.now[k], c)
    BY <1>4, <1>5, <2>1 DEF UpToDate
  <2>3. Fresh(k, W.now[k], c)'
    BY <1>4, <2>2, EasesFresh
  <2>4. QED
    BY <1>1, <2>1, <2>3
<1>6. ASSUME ~failedWrites', stream'.at = "up", ~stream'.done, NEW k \in Tame' \ stream'.left
      PROVE  Fresh(k, W.ahead[k], Reach)'
  <2>1. PICK c \in 0..Len(log) : c = Reach
    BY <1>2, <1>3, <1>6
  <2>2. Fresh(k, V.ahead[k], c)
    BY <1>1, <1>3, <1>4, <1>6, <2>1 DEF UpToDate
  <2>3. Fresh(k, W.ahead[k], c)'
    BY <1>4, <2>2, EasesFresh
  <2>4. QED
    BY <1>3, <1>6, <2>1, <2>3
<1>7. ASSUME ~failedWrites', NEW i \in DOMAIN ops', ops'[i].do = "cursor", ops'[i].id # 0, NEW k \in Tame'
      PROVE  Fresh(k, W.ahead[k], ops[i].id)'
  <2>1. PICK c \in 0..Len(log) : c = ops[i].id
    BY <1>1, <1>2, <1>7
  <2>2. Fresh(k, V.ahead[k], c)
    BY <1>1, <1>4, <1>7, <2>1 DEF UpToDate
  <2>3. Fresh(k, W.ahead[k], c)'
    BY <1>4, <2>2, EasesFresh
  <2>4. QED
    BY <1>1, <1>7, <2>1, <2>3
<1>8. ASSUME scenario'.faults = {}, stream'.at = "up", NEW k \in Heeded' \ stream'.left
      PROVE  Fresh(k, W.all[k], stream.pos)'
  <2>1. PICK c \in 0..Len(log) : c = stream.pos
    BY <1>2, <1>3, <1>8
  <2>2. Fresh(k, V.all[k], c)
    BY <1>1, <1>3, <1>4, <1>8, <2>1 DEF UpToDate
  <2>3. Fresh(k, W.all[k], c)'
    BY <1>4, <2>2, EasesFresh
  <2>4. QED
    BY <1>3, <1>8, <2>1, <2>3
<1>9. QED
  BY <1>5, <1>6, <1>7, <1>8 DEF UpToDate

\* The leader has gone.
LEMMA DroppedUpToDate ==
  ASSUME TypeOK, TypeOK', [Next]_vars, QueueInv, UNCHANGED <<cursor, log, floor>>, ops' = <<>>, stream' = Down,
         NEW V, NEW W, UpToDate(V), \A k \in Keys : Eases(k, V.now[k], W.now[k])
  PROVE  UpToDate(W)'
<1>1. stream'.at # "up" /\ DOMAIN ops' = {}
  BY StreamTypes
<1>2. ASSUME Available(cursor)', NEW k \in Tame' PROVE Fresh(k, W.now[k], cursor)'
  <2>1. PICK c \in 0..Len(log) : c = cursor
    BY Places
  <2>2. Available(cursor) /\ k \in Tame /\ k \in Keys
    BY <1>2, Onward DEF Available, Tame
  <2>3. Fresh(k, V.now[k], c)
    BY <2>1, <2>2 DEF UpToDate
  <2>4. Fresh(k, W.now[k], c)'
    BY <2>2, <2>3, EasesFresh
  <2>5. QED
    BY <2>1, <2>4
<1>3. QED
  BY <1>1, <1>2 DEF UpToDate

\* A row has been brought, by a frame of the delta, the bootstrap or the log.
LEMMA ReceivedUpToDate ==
  ASSUME TypeOK, TypeOK', [Next]_vars, QueueInv, stream.at = "up", stream'.at = "up",
         UNCHANGED <<log, floor, cursor, failedWrites, scenario>>,
         NEW k \in Keys, NEW p \in stream'.pos..Len(log),
         stream' \in UpStream, stream'.mark = stream.mark, stream'.done = stream.done,
         stream'.pos = stream.pos \/ (stream'.pos = stream.pos + 1 /\ stream'.pos <= Len(log) /\ log[stream.pos + 1].key = k),
         stream.left \ {k} \subseteq stream'.left,
         \A i \in DOMAIN ops' : ops'[i].do = "cursor" => i \in DOMAIN ops /\ ops'[i] = ops[i],
         NEW V, NEW W, UpToDate(V),
         \A j \in Keys \ {k} : W.now[j] = V.now[j] /\ W.ahead[j] = V.ahead[j] /\ W.all[j] = V.all[j],
         W.now[k] \in {V.now[k], Val(k, p)}, W.all[k] = Val(k, p),
         W.ahead[k] = Val(k, p) \/ (stream.done /\ W.ahead[k] = V.ahead[k])
  PROVE  UpToDate(W)'
<1>1. /\ cursor \in 0..Len(log) /\ Len(log) \in Nat /\ log \in Seq(Entry)
      /\ \A i \in DOMAIN ops : ops[i].do = "cursor" => ops[i].id \in 0..Len(log)
      /\ stream \in UpStream /\ stream.pos \in Nat /\ stream.mark \in Nat /\ stream.pos <= Len(log)
      /\ stream'.pos \in Nat
  <2>1. /\ cursor \in 0..Len(log) /\ Len(log) \in Nat /\ log \in Seq(Entry) /\ stream \in UpStream
        /\ \A i \in DOMAIN ops : ops[i].do = "cursor" => ops[i].id \in 0..Len(log)
        /\ stream.pos \in 0..Len(log)
    BY Places DEF TypeOK
  <2>2. \A s \in UpStream : s.pos \in Nat /\ s.mark \in Nat
    BY DEF UpStream
  <2>3. QED
    BY <2>1, <2>2
<1>2. p \in 0..Len(log) /\ p >= stream'.pos /\ stream'.pos >= stream.pos /\ stream'.pos <= Len(log)
  BY <1>1
<1>3. /\ cursor <= stream.pos
      /\ \A i \in DOMAIN ops : ops[i].do = "cursor" => stream.done /\ ops[i].id \in 0..p
  <2>1. cursor <= stream.pos
    BY DEF QueueInv, Moved
  <2>2. ASSUME NEW i \in DOMAIN ops, ops[i].do = "cursor" PROVE stream.done /\ ops[i].id \in 0..p
    <3>1. stream.done /\ ops[i].id <= stream.mark /\ ops[i].id \in 0..Len(log)
      BY <1>1, <2>2 DEF QueueInv, Moved
    <3>2. stream.mark <= stream.pos
      BY <1>1, <3>1 DEF QueueInv, Moved
    <3>3. QED
      BY <1>1, <1>2, <3>1, <3>2
  <2>3. QED
    BY <2>1, <2>2
<1>4. \A c \in 0..p : Fresh(k, Val(k, p), c)
  BY <1>1, <1>2, FreshIs
<1>5. /\ \A j, v : \A c \in 0..Len(log) : Fresh(j, v, c) => Fresh(j, v, c)'
      /\ Tame' \subseteq Tame /\ Heeded' \subseteq Heeded /\ Tame \subseteq Keys /\ Heeded \subseteq Keys
  <2>1. Tame \subseteq Keys /\ Heeded \subseteq Keys
    BY DEF Tame, Heeded
  <2>2. QED
    BY <2>1, Onward
\* What is fresh where the connection was is fresh where it is.
<1>6. ASSUME NEW j \in Keys \ {k}, NEW v, Fresh(j, v, stream.pos)
      PROVE  Fresh(j, v, stream'.pos)
  <2>1. CASE stream'.pos = stream.pos
    BY <1>6, <2>1
  <2>2. CASE stream'.pos = stream.pos + 1
    <3>1. PICK c \in Nat : c = stream.pos
      BY <1>1
    <3>2. (c < Len(log) /\ log[c + 1].key # j) \/ stream'.pos = stream.pos
      BY <1>1, <2>2, <3>1
    <3>3. Fresh(j, v, c + 1) \/ stream'.pos = stream.pos
      BY <1>1, <1>6, <3>1, <3>2, FreshNext
    <3>4. QED
      BY <1>6, <2>2, <3>1, <3>3
  <2>3. QED
    BY <2>1, <2>2
<1>7. ASSUME Available(cursor)', NEW j \in Tame' PROVE Fresh(j, W.now[j], cursor)'
  <2>1. PICK c \in 0..Len(log) : c = cursor
    BY <1>1
  <2>2. Available(cursor)
    BY <1>7 DEF Available
  <2>3. Fresh(j, V.now[j], c)
    BY <1>5, <2>1, <2>2 DEF UpToDate
  <2>4. c \in 0..p
    BY <1>1, <1>2, <1>3, <2>1
  <2>5. Fresh(j, W.now[j], c)
    BY <1>4, <1>5, <2>3, <2>4
  <2>6. QED
    BY <1>5, <2>1, <2>5
<1>8. ASSUME ~failedWrites', ~stream'.done, NEW j \in Tame' \ stream'.left PROVE Fresh(j, W.ahead[j], Reach)'
  <2>1. PICK c \in 0..Len(log) : c = Reach' /\ c <= stream'.pos
    <3>1. stream'.pos \in Nat /\ stream'.mark \in Nat
      BY <1>1
    <3>2. QED
      BY <1>1, <1>2, <3>1 DEF Reach
  <2>2. CASE j = k
    <3>1. W.ahead[j] = Val(k, p)
      BY <1>8, <2>2
    <3>2. c \in 0..p
      BY <1>1, <1>2, <2>1
    <3>3. Fresh(j, W.ahead[j], c)
      BY <1>4, <2>2, <3>1, <3>2
    <3>4. QED
      BY <1>5, <2>1, <3>3
  <2>3. CASE j # k
    <3>1. j \in Tame \ stream.left /\ j \in Keys \ {k}
      BY <1>5, <1>8, <2>3
    <3>2. Fresh(j, V.ahead[j], Reach)
      BY <1>8, <3>1 DEF UpToDate
    <3>3. Fresh(j, V.ahead[j], c)
      <4>1. CASE stream.pos < stream.mark
        <5>1. Reach = stream.pos /\ Fresh(j, V.ahead[j], stream'.pos)
          BY <1>6, <3>1, <3>2, <4>1 DEF Reach
        <5>2. QED
          BY <1>1, <1>2, <2>1, <5>1, FreshDown
      <4>2. CASE ~(stream.pos < stream.mark)
        <5>1. Reach = stream.mark /\ c = stream.mark
          BY <1>1, <1>2, <2>1, <4>2 DEF Reach
        <5>2. QED
          BY <3>2, <5>1
      <4>3. QED
        BY <4>1, <4>2
    <3>4. Fresh(j, W.ahead[j], c)
      BY <3>1, <3>3
    <3>5. QED
      BY <1>5, <2>1, <3>4
  <2>4. QED
    BY <2>2, <2>3
<1>9. ASSUME ~failedWrites', NEW i \in DOMAIN ops', ops'[i].do = "cursor", ops'[i].id # 0, NEW j \in Tame'
      PROVE  Fresh(j, W.ahead[j], ops[i].id)'
  <2>1. i \in DOMAIN ops /\ ops'[i] = ops[i]
    BY <1>9
  <2>2. PICK c \in 0..p : c = ops[i].id
    BY <1>3, <1>9, <2>1
  <2>3. Fresh(j, V.ahead[j], c)
    BY <1>5, <1>9, <2>1, <2>2 DEF UpToDate
  <2>4. Fresh(j, W.ahead[j], c)
    BY <1>4, <1>5, <2>3
  <2>5. c \in 0..Len(log)
    BY <1>2
  <2>6. QED
    BY <1>5, <2>1, <2>2, <2>4, <2>5
<1>10. ASSUME scenario'.faults = {}, NEW j \in Heeded' \ stream'.left PROVE Fresh(j, W.all[j], stream.pos)'
  <2>1. PICK c \in 0..Len(log) : c = stream'.pos
    BY <1>1, <1>2
  <2>2. CASE j = k
    <3>1. c \in 0..p
      BY <1>1, <1>2, <2>1
    <3>2. Fresh(j, W.all[j], c)
      BY <1>4, <2>2, <3>1
    <3>3. QED
      BY <1>5, <2>1, <3>2
  <2>3. CASE j # k
    <3>1. j \in Heeded \ stream.left /\ j \in Keys \ {k}
      BY <1>5, <1>10, <2>3
    <3>2. Fresh(j, V.all[j], stream.pos)
      BY <1>10, <3>1 DEF UpToDate
    <3>3. Fresh(j, W.all[j], c)
      BY <1>6, <2>1, <3>1, <3>2
    <3>4. QED
      BY <1>5, <2>1, <3>3
  <2>4. QED
    BY <2>2, <2>3
<1>11. QED
  BY <1>7, <1>8, <1>9, <1>10 DEF UpToDate

\* An entry that has no live frame passes.
LEMMA SkippedUpToDate ==
  ASSUME TypeOK, TypeOK', [Next]_vars, QueueInv, stream.at = "up", stream'.at = "up",
         UNCHANGED <<log, floor, cursor, failedWrites, scenario, ops>>,
         stream'.mark = stream.mark, stream'.done = stream.done, stream'.left = stream.left,
         stream'.pos = stream.pos + 1, stream.pos < Len(log), stream.pos >= stream.mark,
         ~log[stream.pos + 1].live, NEW V, UpToDate(V)
  PROVE  UpToDate(V)'
<1>1. /\ cursor \in 0..Len(log) /\ Len(log) \in Nat /\ log \in Seq(Entry)
      /\ \A i \in DOMAIN ops : ops[i].do = "cursor" => ops[i].id \in 0..Len(log)
      /\ stream \in UpStream /\ stream.pos \in Nat /\ stream.mark \in 0..Len(log)
  BY Places DEF TypeOK, UpStream
<1>2. Reach = stream.mark /\ Reach' = stream.mark
  BY <1>1 DEF Reach
<1>3. \A j, v : \A c \in 0..Len(log) : Fresh(j, v, c) => Fresh(j, v, c)'
  BY Onward
<1>4. Tame' = Tame /\ Heeded' = Heeded /\ (Available(cursor)' => Available(cursor))
  BY DEF Tame, Heeded, Broadcast, Available
<1>5. ASSUME NEW j \in Heeded, NEW v, Fresh(j, v, stream.pos) PROVE Fresh(j, v, stream.pos)'
  <2>1. stream.pos + 1 \in DOMAIN log /\ stream.pos + 1 \in 0..Len(log)
    BY <1>1, LogType
  <2>2. log[stream.pos + 1].key # j
    BY <2>1 DEF Heeded, Broadcast
  <2>3. Fresh(j, v, stream.pos + 1)
    BY <1>1, <1>5, <2>2, FreshNext
  <2>4. PICK c \in 0..Len(log) : c = stream.pos + 1
    BY <2>1
  <2>5. QED
    BY <1>3, <2>3, <2>4
<1>6. Available(cursor)' => \A k \in Tame' : Fresh(k, V.now[k], cursor)'
  <2>1. PICK c \in 0..Len(log) : c = cursor
    BY <1>1
  <2>2. Available(cursor)' => \A k \in Tame : Fresh(k, V.now[k], c)'
    BY <1>3, <1>4, <2>1 DEF UpToDate
  <2>3. QED
    BY <1>4, <2>1, <2>2
<1>7. ~failedWrites' /\ ~stream'.done => \A k \in Tame' \ stream'.left : Fresh(k, V.ahead[k], Reach)'
  <2>1. PICK c \in 0..Len(log) : c = Reach
    BY <1>1, <1>2
  <2>2. ~failedWrites' /\ ~stream'.done => \A k \in Tame \ stream.left : Fresh(k, V.ahead[k], c)'
    BY <1>3, <2>1 DEF UpToDate
  <2>3. QED
    BY <1>2, <1>4, <2>1, <2>2
<1>8. ASSUME ~failedWrites', NEW i \in DOMAIN ops', ops'[i].do = "cursor", ops'[i].id # 0, NEW j \in Tame'
      PROVE  Fresh(j, V.ahead[j], ops[i].id)'
  <2>1. PICK c \in 0..Len(log) : c = ops[i].id
    BY <1>1, <1>8
  <2>2. Fresh(j, V.ahead[j], c)
    BY <1>4, <1>8, <2>1 DEF UpToDate
  <2>3. QED
    BY <1>3, <2>1, <2>2
<1>9. scenario'.faults = {} => \A k \in Heeded' \ stream'.left : Fresh(k, V.all[k], stream.pos)'
  BY <1>4, <1>5 DEF UpToDate
<1>10. QED
  BY <1>6, <1>7, <1>8, <1>9 DEF UpToDate

\* SyncComplete: the cursor that is queued claims what has been brought.
LEMMA CompletedUpToDate ==
  ASSUME TypeOK, TypeOK', [Next]_vars, QueueInv, stream.at = "up", stream'.at = "up",
         UNCHANGED <<log, floor, cursor, failedWrites, scenario>>,
         ~stream.done, stream'.done, stream.left = {}, stream'.left = {}, stream'.pos = stream.pos, stream.pos >= stream.mark,
         \A i \in DOMAIN ops' : ops'[i].do = "cursor" => ops'[i].id = stream.claim,
         NEW V, UpToDate(V)
  PROVE  UpToDate(V)'
<1>1. /\ cursor \in 0..Len(log) /\ stream.pos \in 0..Len(log) /\ stream.mark \in 0..Len(log) /\ Len(log) \in Nat
      /\ stream.claim \in {0, stream.mark}
  BY Places DEF QueueInv, Moved
<1>2. Reach = stream.mark
  BY <1>1 DEF Reach
<1>3. \A j, v : \A c \in 0..Len(log) : Fresh(j, v, c) => Fresh(j, v, c)'
  BY Onward
<1>4. Tame' = Tame /\ Heeded' = Heeded /\ (Available(cursor)' => Available(cursor))
  BY DEF Tame, Heeded, Broadcast, Available
<1>5. Available(cursor)' => \A k \in Tame' : Fresh(k, V.now[k], cursor)'
  <2>1. PICK c \in 0..Len(log) : c = cursor
    BY <1>1
  <2>2. Available(cursor)' => \A k \in Tame : Fresh(k, V.now[k], c)'
    BY <1>3, <1>4, <2>1 DEF UpToDate
  <2>3. QED
    BY <1>4, <2>1, <2>2
<1>6. ASSUME ~failedWrites', NEW i \in DOMAIN ops', ops'[i].do = "cursor", ops'[i].id # 0, NEW j \in Tame'
      PROVE  Fresh(j, V.ahead[j], ops[i].id)'
  <2>1. PICK c \in 0..Len(log) : c = ops'[i].id /\ c = Reach
    BY <1>1, <1>2, <1>6
  <2>2. Fresh(j, V.ahead[j], c)
    BY <1>4, <1>6, <2>1 DEF UpToDate
  <2>3. QED
    BY <1>3, <2>1, <2>2
<1>7. scenario'.faults = {} => \A k \in Heeded' \ stream'.left : Fresh(k, V.all[k], stream.pos)'
  <2>1. PICK c \in 0..Len(log) : c = stream.pos
    BY <1>1
  <2>2. scenario'.faults = {} => \A k \in Heeded : Fresh(k, V.all[k], c)'
    BY <1>3, <2>1 DEF UpToDate
  <2>3. QED
    BY <1>4, <2>1, <2>2
<1>8. QED
  BY <1>5, <1>6, <1>7 DEF UpToDate

\* A connection resumes from the cursor, with nothing in the queue.
LEMMA ResumedUpToDate ==
  ASSUME TypeOK, TypeOK', [Next]_vars, QueueInv, stream'.at = "up", Available(cursor),
         UNCHANGED <<log, floor, cursor>>, stream'.pos = cursor, stream'.mark = Len(log), ops' = <<>>,
         NEW V, NEW W, UpToDate(V), \A k \in Keys : W.now[k] = V.now[k] /\ W.ahead[k] = V.now[k] /\ W.all[k] = V.now[k]
  PROVE  UpToDate(W)'
<1>1. PICK c \in 0..Len(log) : c = cursor
  BY Places
<1>2. Len(log) \in Nat /\ DOMAIN ops' = {} /\ cursor' = c /\ stream'.pos = c
  BY <1>1, Places
<1>3. Reach' = c
  BY <1>1, <1>2 DEF Reach
<1>4. \A k \in Tame' : Fresh(k, V.now[k], c)'
  BY <1>1, Onward DEF UpToDate
<1>5. Tame' \subseteq Keys /\ Heeded' \subseteq Tame'
  BY DEF Tame, Heeded, Broadcast
<1>6. QED
  BY <1>2, <1>3, <1>4, <1>5 DEF UpToDate

\* The wipe is done, and a bootstrap begins from what nobody shows any more.
LEMMA FlushedUpToDate ==
  ASSUME TypeOK, TypeOK', [Next]_vars, QueueInv, UNCHANGED <<log, floor, cursor>>, ~Available(cursor),
         stream'.at = "up", stream'.pos = Len(log), stream'.mark = Len(log),
         \A k \in Keys : k \notin stream'.left => Current(k) = Absent,
         \A i \in DOMAIN ops' : ops'[i].do # "cursor",
         NEW W, \A k \in Keys : W.ahead[k] = Absent /\ W.all[k] = Absent
  PROVE  UpToDate(W)'
<1>1. PICK c \in Nat : c = Len(log) /\ c = Len(log')
  BY Places
<1>2. Reach' = c /\ stream'.pos = c
  BY <1>1 DEF Reach
<1>3. \A k \in Keys : k \notin stream'.left => Fresh(k, Absent, c)'
  <2>1. log \in Seq(Entry) /\ c \in 0..Len(log) /\ c \in 0..c
    BY <1>1 DEF TypeOK
  <2>2. \A k \in Keys : Val(k, c) = Current(k) /\ Fresh(k, Val(k, c), c)
    BY <1>1, <2>1, FreshIs DEF Current
  <2>3. \A k \in Keys : k \notin stream'.left => Fresh(k, Absent, c)
    BY <2>2
  <2>4. QED
    BY <2>1, <2>3, Onward
<1>4. Tame' \subseteq Keys /\ Heeded' \subseteq Keys /\ ~Available(cursor)'
  BY DEF Tame, Heeded, Available
<1>5. QED
  BY <1>2, <1>3, <1>4 DEF UpToDate

\* A write is done, or has failed; a broadcast is sent.
LEMMA PoppedUpToDate ==
  ASSUME TypeOK, TypeOK', [Next]_vars, QueueInv, ops # <<>>, ops' = Tail(ops),
         UNCHANGED <<log, floor, cursor, stream, scenario>>, failedWrites => failedWrites',
         failedWrites' => scenario.faults # {}, NEW V, NEW W, UpToDate(V),
         \A k \in Keys : (k \in Tame /\ Available(cursor)) => W.now[k] = V.now[k] \/ Fresh(k, W.now[k], cursor),
         ~failedWrites' => \A k \in Keys : Eases(k, V.ahead[k], W.ahead[k]) /\ Eases(k, V.all[k], W.all[k])
  PROVE  UpToDate(W)'
<1>1. /\ cursor \in 0..Len(log) /\ Len(log) \in Nat
      /\ \A i \in DOMAIN ops : ops[i].do = "cursor" => ops[i].id \in 0..Len(log)
      /\ stream.at = "up" => Reach \in 0..Len(log) /\ stream.pos \in 0..Len(log)
      /\ \A i \in DOMAIN ops' : ops'[i] = ops[i + 1] /\ i + 1 \in DOMAIN ops
  BY Places, PopFacts
<1>2. \A j, v : \A c \in 0..Len(log) : Fresh(j, v, c) => Fresh(j, v, c)'
  BY Onward
<1>3. /\ Tame' = Tame /\ Heeded' = Heeded /\ (Available(cursor)' => Available(cursor)) /\ Reach' = Reach
      /\ Tame \subseteq Keys /\ Heeded \subseteq Tame
  BY DEF Tame, Heeded, Broadcast, Available, Reach
<1>4. ASSUME Available(cursor)', NEW k \in Tame' PROVE Fresh(k, W.now[k], cursor)'
  <2>1. PICK c \in 0..Len(log) : c = cursor
    BY <1>1
  <2>2. Fresh(k, W.now[k], c)
    BY <1>3, <1>4, <2>1 DEF UpToDate
  <2>3. QED
    BY <1>2, <2>1, <2>2
<1>5. ASSUME ~failedWrites', stream'.at = "up", ~stream'.done, NEW k \in Tame' \ stream'.left
      PROVE  Fresh(k, W.ahead[k], Reach)'
  <2>1. PICK c \in 0..Len(log) : c = Reach
    BY <1>1, <1>5
  <2>2. Fresh(k, V.ahead[k], c)
    BY <1>3, <1>5, <2>1 DEF UpToDate
  <2>3. Fresh(k, W.ahead[k], c)'
    BY <1>3, <1>5, <2>2, EasesFresh
  <2>4. QED
    BY <1>3, <2>1, <2>3
<1>6. ASSUME ~failedWrites', NEW i \in DOMAIN ops', ops'[i].do = "cursor", ops'[i].id # 0, NEW k \in Tame'
      PROVE  Fresh(k, W.ahead[k], ops[i].id)'
  <2>1. PICK c \in 0..Len(log) : c = ops'[i].id
    BY <1>1, <1>6
  <2>2. Fresh(k, V.ahead[k], c)
    BY <1>1, <1>3, <1>6, <2>1 DEF UpToDate
  <2>3. Fresh(k, W.ahead[k], c)'
    BY <1>3, <1>6, <2>2, EasesFresh
  <2>4. QED
    BY <2>1, <2>3
<1>7. ASSUME scenario'.faults = {}, stream'.at = "up", NEW k \in Heeded' \ stream'.left
      PROVE  Fresh(k, W.all[k], stream.pos)'
  <2>1. PICK c \in 0..Len(log) : c = stream.pos
    BY <1>1, <1>7
  <2>2. Fresh(k, V.all[k], c)
    BY <1>3, <1>7, <2>1 DEF UpToDate
  <2>3. Fresh(k, W.all[k], c)'
    BY <1>3, <1>7, <2>2, EasesFresh
  <2>4. QED
    BY <2>1, <2>3
<1>8. QED
  BY <1>4, <1>5, <1>6, <1>7 DEF UpToDate

\* The cursor is put on record, unless a write before it failed.
LEMMA ClaimedUpToDate ==
  ASSUME TypeOK, TypeOK', [Next]_vars, QueueInv, ops # <<>>, ops' = Tail(ops), ops[1].do = "cursor",
         UNCHANGED <<log, floor, stream, scenario>>, cursor' = IF failedWrites THEN cursor ELSE ops[1].id,
         NEW V, NEW W, UpToDate(V), \A k \in Keys : W.now[k] = V.now[k] /\ W.all[k] = V.all[k] /\ V.ahead[k] = V.now[k]
  PROVE  UpToDate(W)'
<1>1. /\ cursor \in 0..Len(log) /\ Len(log) \in Nat /\ 1 \in DOMAIN ops /\ ops[1].id \in 0..Len(log)
      /\ stream.at = "up" => stream.pos \in 0..Len(log)
      /\ \A i \in DOMAIN ops' : ops'[i] = ops[i + 1] /\ i + 1 \in DOMAIN ops
      /\ DOMAIN ops = 1..Len(ops) /\ DOMAIN ops' = 1..(Len(ops) - 1) /\ Len(ops) \in Nat
  <2>1. 1 \in DOMAIN ops
    BY PopFacts
  <2>2. QED
    BY <2>1, Places, PopFacts
<1>2. \A j, v : \A c \in 0..Len(log) : Fresh(j, v, c) => Fresh(j, v, c)'
  BY Onward
<1>3. /\ Tame' = Tame /\ Heeded' = Heeded /\ Tame \subseteq Keys /\ Heeded \subseteq Tame
  BY DEF Tame, Heeded, Broadcast
<1>4. ASSUME Available(cursor)', NEW k \in Tame' PROVE Fresh(k, W.now[k], cursor)'
  <2>1. PICK c \in 0..Len(log) : c = cursor'
    BY <1>1
  <2>2. Fresh(k, V.now[k], c)
    <3>1. CASE failedWrites
      BY <1>3, <1>4, <2>1, <3>1 DEF UpToDate, Available
    <3>2. CASE ~failedWrites
      <4>1. c = ops[1].id /\ c # 0
        BY <1>4, <2>1, <3>2, Unavailable DEF Available
      <4>2. Fresh(k, V.ahead[k], c)
        BY <1>1, <1>3, <1>4, <3>2, <4>1 DEF UpToDate
      <4>3. QED
        BY <1>3, <1>4, <4>2
    <3>3. QED
      BY <3>1, <3>2
  <2>3. QED
    BY <1>2, <1>3, <1>4, <2>1, <2>2
<1>5. \A i \in DOMAIN ops' : ops'[i].do # "cursor"
  <2>1. SUFFICES ASSUME NEW i \in DOMAIN ops', ops'[i].do = "cursor" PROVE FALSE
    OBVIOUS
  <2>2. i + 1 = 1
    BY <1>1, <2>1 DEF QueueInv, Items
  <2>3. QED
    BY <1>1, <2>2
<1>6. stream'.at = "up" => stream'.done
  BY <1>1 DEF QueueInv, Moved
<1>7. ASSUME scenario'.faults = {}, stream'.at = "up", NEW k \in Heeded' \ stream'.left
      PROVE  Fresh(k, W.all[k], stream.pos)'
  <2>1. PICK c \in 0..Len(log) : c = stream.pos
    BY <1>1, <1>7
  <2>2. Fresh(k, W.all[k], c)
    BY <1>3, <1>7, <2>1 DEF UpToDate
  <2>3. QED
    BY <1>2, <2>1, <2>2
<1>8. QED
  BY <1>4, <1>5, <1>6, <1>7 DEF UpToDate

-----------------------------------------------------------------------------
(***************************************************************************)
(* What the steps do to the view of f, of somebody who hears the queue q.  *)
(***************************************************************************)
View(f, q) ==
  [now   |-> f,
   ahead |-> [k \in Keys |-> Heard(f[k], q, k, {"cursor"})],
   all   |-> [k \in Keys |-> Heard(f[k], q, k, {})]]

\* The cache and the other tabs hear the queue; the tab that writes it does not.
Hears(q, r) == (q = ops /\ r = ops') \/ (q = <<>> /\ r = <<>>)

LEMMA HeardEmpty ==
  ASSUME NEW v, NEW k, NEW B
  PROVE  Heard(v, <<>>, k, B) = v
<1>1. PICK q : q = <<>> /\ DOMAIN q = {}
  OBVIOUS
<1>2. QED
  BY <1>1, HeardNothing

LEMMA EvictsUnheard ==
  ASSUME TypeOK, EvictStep, NEW q, NEW r, Hears(q, r), NEW v, NEW k, NEW B
  PROVE  Heard(v, r, k, B) = Heard(v, q, k, B)
<1>1. PICK w \in Seq(Op) : ops' = ops \o w /\ \A n \in DOMAIN w : Evicts(w[n])
  BY DEF EvictStep
<1>2. \A n \in DOMAIN w : w[n].do = "notify" => ~Touches(w[n].msg, k)
  BY <1>1 DEF Evicts
<1>5. ops' = Joined(ops, w) /\ ops \in Seq(Op)
  BY <1>1 DEF Joined, TypeOK
<1>3. CASE q = ops /\ r = ops'
  BY <1>2, <1>3, <1>5, HeardSilent
<1>4. CASE q = <<>> /\ r = <<>>
  BY <1>4
<1>6. QED
  BY <1>3, <1>4 DEF Hears

LEMMA HeardEases ==
  ASSUME NEW k, NEW u, NEW v, Eases(k, u, v), NEW q, NEW B
  PROVE  Eases(k, Heard(u, q, k, B), Heard(v, q, k, B))
BY DEF Eases, Heard

LEMMA ViewKept ==
  ASSUME TypeOK, TypeOK', [Next]_vars, QueueInv, EvictStep, NEW q, NEW r, Hears(q, r), NEW f, NEW g,
         UpToDate(View(f, q)), \A k \in Keys : Eases(k, f[k], g[k])
  PROVE  UpToDate(View(g, r))'
<1>1. ASSUME NEW k \in Keys
      PROVE  /\ Eases(k, Heard(f[k], q, k, {"cursor"}), Heard(g[k], r, k, {"cursor"}))
             /\ Eases(k, Heard(f[k], q, k, {}), Heard(g[k], r, k, {}))
  <2>1. Heard(g[k], r, k, {"cursor"}) = Heard(g[k], q, k, {"cursor"}) /\ Heard(g[k], r, k, {}) = Heard(g[k], q, k, {})
    BY EvictsUnheard
  <2>2. /\ Eases(k, Heard(f[k], q, k, {"cursor"}), Heard(g[k], q, k, {"cursor"}))
        /\ Eases(k, Heard(f[k], q, k, {}), Heard(g[k], q, k, {}))
    BY HeardEases
  <2>3. QED
    BY <2>1, <2>2
<1>2. PICK V : V = View(f, q)
  OBVIOUS
<1>3. PICK W : W = View(g, r)
  OBVIOUS
<1>4. \A k \in Keys : Eases(k, V.now[k], W.now[k]) /\ Eases(k, V.ahead[k], W.ahead[k]) /\ Eases(k, V.all[k], W.all[k])
  BY <1>1, <1>2, <1>3 DEF View
<1>5. UpToDate(W)'
  BY <1>2, <1>4, KeptUpToDate
<1>6. QED
  BY <1>3, <1>5 DEF View, Heard, Told, Touches, Brings

LEMMA ViewDropped ==
  ASSUME TypeOK, TypeOK', [Next]_vars, QueueInv, UNCHANGED <<cursor, log, floor>>, ops' = <<>>, stream' = Down,
         NEW q, NEW r, NEW f, UpToDate(View(f, q))
  PROVE  UpToDate(View(f, r))'
<1>1. PICK V : V = View(f, q)
  OBVIOUS
<1>2. PICK W : W = View(f, r)
  OBVIOUS
<1>3. \A k \in Keys : Eases(k, V.now[k], W.now[k])
  BY <1>1, <1>2 DEF View, Eases
<1>4. UpToDate(W)'
  BY <1>1, <1>3, DroppedUpToDate
<1>5. QED
  BY <1>2, <1>4 DEF View, Heard, Told, Touches, Brings

LEMMA TwoOps ==
  ASSUME NEW a \in Op, NEW b \in Op
  PROVE  <<a, b>> \in Seq(Op) /\ \A n \in DOMAIN <<a, b>> : <<a, b>>[n] = a \/ <<a, b>>[n] = b
<1> DEFINE w == <<a, b>>
<1>1. w \in Seq(Op) /\ DOMAIN w = 1..2 /\ w[1] = a /\ w[2] = b
  OBVIOUS
<1>2. \A n \in 1..2 : n = 1 \/ n = 2
  OBVIOUS
<1> HIDE DEF w
<1>3. w \in Seq(Op) /\ \A n \in DOMAIN w : w[n] = a \/ w[n] = b
  BY <1>1, <1>2
<1>4. QED
  BY <1>3 DEF w

\* The pair that a frame appends.
LEMMA PairUnheard ==
  ASSUME TypeOK, NEW t, NEW k \in Keys, NEW x \in Nat, ReceiveAction(t, k, x), NEW v, NEW j, NEW B, "write" \notin B, "notify" \notin B
  PROVE  /\ j # k => Heard(v, ops', j, B) = Heard(v, ops, j, B)
         /\ ~Passes(ops, B) => Heard(v, ops', k, B) = Heard(v, ops, k, B)
<1>1. /\ WriteOp(k, x) \in Op /\ Action(k, x) \in Message /\ NotifyOp(Action(k, x)) \in Op
      /\ WriteOp(k, x).do = "write" /\ NotifyOp(Action(k, x)).do = "notify" /\ NotifyOp(Action(k, x)).msg = Action(k, x)
      /\ Action(k, x).is = "action" /\ Action(k, x).key = k /\ Action(k, x).val = x
  BY OpTypes, MessageTypes, OpsDiffer
<1>2. PICK m \in Message : m = Action(k, x)
  BY <1>1
<1>3. PICK o \in Op : o = WriteOp(k, x)
  BY <1>1
<1>11. PICK b \in Op : b = NotifyOp(m)
  BY <1>1, <1>2
<1>4. PICK w \in Seq(Op) : w = <<o, b>> /\ \A n \in DOMAIN w : w[n] = o \/ w[n] = b
  BY TwoOps
<1>5. ops \in Seq(Op) /\ ops' = ops \o w
  BY <1>2, <1>3, <1>4, <1>11 DEF TypeOK, ReceiveAction
<1>6. ASSUME j # k PROVE \A n \in DOMAIN w : w[n].do = "notify" => ~Touches(w[n].msg, j)
  BY <1>1, <1>2, <1>3, <1>4, <1>6, <1>11 DEF Touches
<1>12. ops' = Joined(ops, w)
  BY <1>5 DEF Joined
<1>7. j # k => Heard(v, ops', j, B) = Heard(v, ops, j, B)
  BY <1>5, <1>6, <1>12, HeardSilent
<1>8. ~Passes(ops, B) => Heard(v, ops', k, B) = Heard(v, ops, k, B)
  BY <1>5, <1>12, HeardSilent
<1>9. QED
  BY <1>7, <1>8

LEMMA PairHeard ==
  ASSUME TypeOK, NEW t, NEW k \in Keys, NEW x \in Nat, ReceiveAction(t, k, x), NEW v, NEW B,
         "write" \notin B, "notify" \notin B, Passes(ops, B)
  PROVE  Heard(v, ops', k, B) = x
<1>1. /\ WriteOp(k, x) \in Op /\ Action(k, x) \in Message /\ NotifyOp(Action(k, x)) \in Op
      /\ WriteOp(k, x).do = "write" /\ NotifyOp(Action(k, x)).do = "notify" /\ NotifyOp(Action(k, x)).msg = Action(k, x)
      /\ Action(k, x).is = "action" /\ Action(k, x).key = k /\ Action(k, x).val = x
  BY OpTypes, MessageTypes, OpsDiffer
<1>2. PICK m \in Message : m = Action(k, x)
  BY <1>1
<1>3. PICK o \in Op : o = WriteOp(k, x)
  BY <1>1
<1>11. PICK b \in Op : b = NotifyOp(m)
  BY <1>1, <1>2
<1>4. PICK w \in Seq(Op) : w = <<o, b>> /\ \A n \in DOMAIN w : w[n] = o \/ w[n] = b
  BY TwoOps
<1>5. ops \in Seq(Op) /\ ops' = ops \o w
  BY <1>2, <1>3, <1>4, <1>11 DEF TypeOK, ReceiveAction
<1>6. Heard(v, ops', k, B) = x
  <2>1. PICK q \in Seq(Op) : q = Append(ops, o)
    BY <1>5, AppendFacts
  <2>2. ops' = Append(q, b)
    <3>1. \A x1, x2 : ops \o <<x1, x2>> = Append(Append(ops, x1), x2)
      BY <1>5
    <3>2. QED
      BY <1>4, <1>5, <2>1, <3>1
  <2>3. Passes(q, B)
    <3>1. \A h \in DOMAIN q : (h \in DOMAIN ops /\ q[h] = ops[h]) \/ q[h] = o
      <4>1. PICK L \in Nat : L = Len(ops)
        BY <1>5, SeqFacts
      <4>2. DOMAIN ops = 1..L /\ DOMAIN q = 1..(L + 1) /\ q[L + 1] = o /\ \A h \in 1..L : q[h] = ops[h]
        BY <1>5, <2>1, <4>1, AppendFacts
      <4>3. QED
        BY <4>2
    <3>2. QED
      BY <1>1, <1>3, <3>1 DEF Passes
  <2>4. b.do = "notify" /\ Touches(b.msg, k) /\ Brings(b.msg) = x
    BY <1>1, <1>2, <1>11 DEF Touches, Brings
  <2>5. Heard(v, ops', k, B) = Brings(b.msg)
    <3>1. ops' = Extended(q, b)
      BY <2>2 DEF Extended
    <3>2. QED
      BY <2>3, <2>4, <3>1, HeardLast
  <2>6. QED
    BY <2>4, <2>5
<1>7. QED
  BY <1>6

LEMMA ViewReceived ==
  ASSUME TypeOK, TypeOK', [Next]_vars, QueueInv, NEW t \in Tabs, Streaming(t), stream'.at = "up",
         NEW k \in Keys, NEW p \in stream'.pos..Len(log), ReceiveAction(t, k, Val(k, p)), floor' = floor,
         stream' \in UpStream, stream'.mark = stream.mark, stream'.done = stream.done,
         stream'.pos = stream.pos \/ (stream'.pos = stream.pos + 1 /\ stream'.pos <= Len(log) /\ log[stream.pos + 1].key = k),
         stream.left \ {k} \subseteq stream'.left,
         NEW q, NEW r, NEW f, NEW g, UpToDate(View(f, q)), \A j \in Keys \ {k} : g[j] = f[j],
         (q = ops /\ r = ops' /\ g[k] = f[k]) \/ (q = <<>> /\ r = <<>> /\ g[k] = Val(k, p))
  PROVE  UpToDate(View(g, r))'
<1>1. PICK x \in Nat : x = Val(k, p)
  <2>1. p \in Nat
    BY DEF UpStream
  <2>2. QED
    BY <2>1, ValType
<1>2. x \in Nat
  OBVIOUS
<1>12. ReceiveAction(t, k, x)
  BY <1>1
<1>3. /\ ops' = ops \o <<WriteOp(k, x), NotifyOp(Action(k, x))>> /\ stream.at = "up"
      /\ UNCHANGED <<log, floor, cursor, failedWrites, scenario>>
  BY <1>1 DEF ReceiveAction, EngineStep, serverVars, idbVars, Streaming
<1>4. \A i \in DOMAIN ops' : ops'[i].do = "cursor" => i \in DOMAIN ops /\ ops'[i] = ops[i]
  <2>1. WriteOp(k, x) \in Op /\ NotifyOp(Action(k, x)) \in Op
        /\ WriteOp(k, x).do # "cursor" /\ NotifyOp(Action(k, x)).do # "cursor"
    BY <1>2, OpTypes, MessageTypes, OpsDiffer
  <2>2. PICK a \in Op : a = WriteOp(k, x)
    BY <2>1
  <2>3. PICK b \in Op : b = NotifyOp(Action(k, x))
    BY <2>1
  <2>4. PICK w \in Seq(Op) : w = <<a, b>> /\ \A n \in DOMAIN w : w[n] = a \/ w[n] = b
    BY TwoOps
  <2>5. ops' = ops \o w
    BY <1>3, <2>2, <2>3, <2>4
  <2>6. QED
    BY <2>1, <2>2, <2>3, <2>4, <2>5, AppendStill
<1>5. PICK V : V = View(f, q)
  OBVIOUS
<1>6. PICK W : W = View(g, r)
  OBVIOUS
<1>7. \A j \in Keys : /\ V.now[j] = f[j] /\ V.ahead[j] = Heard(f[j], q, j, {"cursor"}) /\ V.all[j] = Heard(f[j], q, j, {})
                     /\ W.now[j] = g[j] /\ W.ahead[j] = Heard(g[j], r, j, {"cursor"}) /\ W.all[j] = Heard(g[j], r, j, {})
  BY <1>5, <1>6 DEF View
<1>8. \A j \in Keys \ {k} : W.now[j] = V.now[j] /\ W.ahead[j] = V.ahead[j] /\ W.all[j] = V.all[j]
  <2>1. ASSUME NEW j \in Keys \ {k}, NEW B, "write" \notin B, "notify" \notin B, NEW v
        PROVE  Heard(v, r, j, B) = Heard(v, q, j, B)
    <3>1. Heard(v, ops', j, B) = Heard(v, ops, j, B)
      BY <1>12, <2>1, PairUnheard
    <3>2. QED
      BY <3>1
  <2>2. "write" \notin {} /\ "notify" \notin {} /\ "write" \notin {"cursor"} /\ "notify" \notin {"cursor"}
    OBVIOUS
  <2>3. ASSUME NEW j \in Keys \ {k} PROVE W.now[j] = V.now[j] /\ W.ahead[j] = V.ahead[j] /\ W.all[j] = V.all[j]
    <3>1. Heard(g[j], r, j, {"cursor"}) = Heard(g[j], q, j, {"cursor"}) /\ Heard(g[j], r, j, {}) = Heard(g[j], q, j, {})
      BY <2>1, <2>2
    <3>2. QED
      BY <1>7, <3>1
  <2>4. QED
    BY <2>3
<1>9. /\ W.now[k] \in {V.now[k], Val(k, p)} /\ W.all[k] = Val(k, p)
      /\ W.ahead[k] = Val(k, p) \/ (stream.done /\ W.ahead[k] = V.ahead[k])
  <2>1. CASE q = <<>> /\ r = <<>> /\ g[k] = x
    BY <1>1, <1>7, <2>1, HeardEmpty
  <2>2. CASE q = ops /\ r = ops' /\ g[k] = f[k]
    <3>1. Heard(g[k], ops', k, {}) = x
      <4>1. PICK B : B = {}
        OBVIOUS
      <4>2. Passes(ops, B) /\ "write" \notin B /\ "notify" \notin B
        BY <4>1 DEF Passes
      <4>3. Heard(g[k], ops', k, B) = x
        BY <1>12, <4>2, PairHeard
      <4>4. QED
        BY <4>1, <4>3
    <3>5. PICK B : B = {"cursor"} /\ "write" \notin B /\ "notify" \notin B
      <4>1. "write" \notin {"cursor"} /\ "notify" \notin {"cursor"}
        OBVIOUS
      <4>2. QED
        BY <4>1
    <3>2. CASE Passes(ops, {"cursor"})
      <4>1. Heard(g[k], ops', k, {"cursor"}) = x
        <5>1. Passes(ops, B)
          BY <3>2, <3>5
        <5>2. Heard(g[k], ops', k, B) = x
          BY <1>12, <3>5, <5>1, PairHeard
        <5>3. QED
          BY <3>5, <5>2
      <4>2. QED
        BY <1>1, <1>7, <2>2, <3>1, <4>1
    <3>3. CASE ~Passes(ops, {"cursor"})
      <4>1. Heard(g[k], ops', k, {"cursor"}) = Heard(g[k], ops, k, {"cursor"})
        <5>1. ~Passes(ops, B)
          BY <3>3, <3>5
        <5>2. Heard(g[k], ops', k, B) = Heard(g[k], ops, k, B)
          BY <1>12, <3>5, <5>1, PairUnheard
        <5>3. QED
          BY <3>5, <5>2
      <4>2. stream.done
        BY <1>3, <3>3 DEF QueueInv, Moved, Passes
      <4>3. QED
        BY <1>1, <1>7, <2>2, <3>1, <4>1, <4>2
    <3>4. QED
      BY <3>2, <3>3
  <2>3. QED
    BY <1>1, <2>1, <2>2
<1>10. UpToDate(W)'
  BY ZenonT(60), <1>3, <1>4, <1>5, <1>8, <1>9, ReceivedUpToDate
<1>11. QED
  BY <1>6, <1>10 DEF View, Heard, Told, Touches, Brings

LEMMA ViewCompleted ==
  ASSUME TypeOK, TypeOK', [Next]_vars, QueueInv, NEW t \in Tabs, CompleteStream(t), NEW q, NEW r, Hears(q, r),
         NEW f, UpToDate(View(f, q))
  PROVE  UpToDate(View(f, r))'
<1>1. /\ stream.at = "up" /\ stream \in UpStream /\ stream.left = {} /\ stream.pos >= stream.mark
      /\ ~stream.done /\ stream' = [stream EXCEPT !.done = TRUE] /\ stream.claim \in Nat
      /\ ops' = ops \o <<CursorOp(stream.claim), NotifyOp(Complete)>>
      /\ UNCHANGED <<cursor, floor, failedWrites, scenario, log>>
  BY StreamParts DEF CompleteStream, EngineStep, serverVars, idbVars, Streaming, TypeOK, UpStream
<1>2. stream'.at = "up" /\ stream'.done /\ stream'.left = {} /\ stream'.pos = stream.pos
  BY <1>1 DEF UpStream
<1>3. /\ CursorOp(stream.claim) \in Op /\ NotifyOp(Complete) \in Op
      /\ CursorOp(stream.claim).do = "cursor" /\ CursorOp(stream.claim).id = stream.claim
      /\ NotifyOp(Complete).do = "notify" /\ NotifyOp(Complete).msg.is = "complete"
  BY <1>1, OpTypes, MessageTypes, OpsDiffer
<1>4. PICK a \in Op : a = CursorOp(stream.claim)
  BY <1>3
<1>5. PICK b \in Op : b = NotifyOp(Complete)
  BY <1>3
<1>6. PICK w \in Seq(Op) : w = <<a, b>> /\ \A n \in DOMAIN w : w[n] = a \/ w[n] = b
  BY TwoOps
<1>7. ops' = ops \o w
  BY <1>1, <1>4, <1>5, <1>6
<1>8. \A i \in DOMAIN ops' : ops'[i].do = "cursor" => ops'[i].id = stream.claim
  <2>1. \A i \in DOMAIN ops : ops[i].do # "cursor"
    BY <1>1 DEF QueueInv, Moved
  <2>2. QED
    BY <1>3, <1>4, <1>5, <1>6, <1>7, <2>1, AppendStill
<1>9. \A k, B, v : Heard(v, r, k, B) = Heard(v, q, k, B)
  <2>1. \A k : \A n \in DOMAIN w : w[n].do = "notify" => ~Touches(w[n].msg, k)
    BY <1>3, <1>4, <1>5, <1>6 DEF Touches
  <2>2. ASSUME NEW k, NEW B, NEW v PROVE Heard(v, ops', k, B) = Heard(v, ops, k, B)
    <3>1. ops' = Joined(ops, w) /\ ops \in Seq(Op)
      BY <1>7 DEF Joined, TypeOK
    <3>2. \A n \in DOMAIN w : w[n].do = "notify" => ~Touches(w[n].msg, k)
      BY <2>1
    <3>3. QED
      BY <3>1, <3>2, HeardSilent
  <2>3. QED
    BY <2>2 DEF Hears
<1>10. PICK V : V = View(f, q)
  OBVIOUS
<1>11. V = View(f, r)
  BY <1>9, <1>10 DEF View
<1>12. UpToDate(V)'
  BY <1>1, <1>2, <1>8, <1>10, CompletedUpToDate
<1>13. QED
  BY <1>11, <1>12 DEF View, Heard, Told, Touches, Brings

LEMMA ViewResumed ==
  ASSUME TypeOK, TypeOK', [Next]_vars, QueueInv, NEW t \in Tabs, Resume(t), NEW f, UpToDate(View(f, <<>>))
  PROVE  UpToDate(View(f, <<>>))'
<1>1. /\ ops' = <<>> /\ stream' = Catching(cursor, {}) /\ Available(cursor) /\ UNCHANGED <<cursor, log, floor>>
      /\ cursor \in Nat /\ floor \in Nat /\ log \in Seq(Entry) /\ {} \in SUBSET Keys
  BY LogType DEF Resume, MayDial, EngineStep, serverVars, idbVars, TypeOK
<1>2. stream'.at = "up" /\ stream'.pos = cursor /\ stream'.mark = Len(log)
  BY ZenonT(60), <1>1, CatchingIs
<1>3. PICK V : V = View(f, <<>>)
  OBVIOUS
<1>4. \A k \in Keys : V.ahead[k] = V.now[k] /\ V.all[k] = V.now[k]
  BY <1>3, HeardEmpty DEF View
<1>5. UpToDate(V)'
  BY <1>1, <1>2, <1>3, <1>4, ResumedUpToDate
<1>6. QED
  BY <1>3, <1>5 DEF View, Heard, Told, Touches, Brings

\* What is being cleared answers for no cursor.
LEMMA ClearingIds ==
  ASSUME TypeOK, Clearing
  PROVE  /\ \A i \in DOMAIN ops : ops[i].do = "cursor" => ops[i].id = 0
         /\ \A i \in DOMAIN ops : ops[i].do = "notify" => ops[i].msg = Reset
<1>1. PICK f \in DOMAIN ops : ClearingTo(f)
  BY DEF Clearing
<1>2. PICK L \in Nat : L = Len(ops) /\ DOMAIN ops = 1..L
  BY SeqFacts DEF TypeOK
<1>3. SUFFICES ASSUME NEW i \in DOMAIN ops
               PROVE  (ops[i].do = "cursor" => ops[i].id = 0) /\ (ops[i].do = "notify" => ops[i].msg = Reset)
  OBVIOUS
<1>4. CASE i \in 1..(f - 1)
  <2>1. ops[i] \in Opening
    BY <1>1, <1>4 DEF ClearingTo
  <2>2. QED
    BY <2>1, OpsDiffer DEF Opening
<1>5. CASE i = f
  BY <1>1, <1>5, OpsDiffer DEF ClearingTo
<1>6. CASE i \in (f + 1)..Len(ops)
  BY <1>1, <1>6 DEF ClearingTo
<1>7. QED
  BY <1>2, <1>4, <1>5, <1>6

LEMMA ViewIdle ==
  ASSUME TypeOK, QueueInv, Clearing, ops # <<>>, ops' = Tail(ops), UNCHANGED <<log, floor, cursor>>, stream' = stream, NEW W
  PROVE  UpToDate(W)'
<1>1. ~Available(cursor)' /\ stream'.at # "up"
  BY DEF QueueInv, Shape, Clearing, Available
<1>2. \A i \in DOMAIN ops' : ops'[i].do = "cursor" => ops'[i].id = 0
  <2>1. \A i \in DOMAIN ops' : ops'[i] = ops[i + 1] /\ i + 1 \in DOMAIN ops
    BY PopFacts
  <2>2. \A i \in DOMAIN ops : ops[i].do = "cursor" => ops[i].id = 0
    BY ClearingIds
  <2>3. QED
    BY <2>1, <2>2
<1>3. QED
  BY <1>1, <1>2, Unclaimed

LEMMA ViewStartedOver ==
  ASSUME TypeOK, NEW t \in Tabs, StartOver(t), NEW W
  PROVE  UpToDate(W)'
<1> DEFINE a == <<WipeOp, NotifyOp(Reset), FlushOp>>
           b == <<WipeOp, CursorOp(0), NotifyOp(Reset), FlushOp>>
<1>1. (ops' = a \/ ops' = b) /\ stream' = Flushing /\ ~Available(cursor) /\ UNCHANGED <<cursor, log, floor>>
  BY DEF StartOver, MayDial, EngineStep, serverVars, idbVars
<1>2. /\ \A n \in DOMAIN a : a[n] \in {WipeOp, NotifyOp(Reset), FlushOp}
      /\ \A n \in DOMAIN b : b[n] \in {WipeOp, CursorOp(0), NotifyOp(Reset), FlushOp}
  OBVIOUS
<1> HIDE DEF a, b
<1>3. \A n \in DOMAIN ops' : ops'[n].do = "cursor" => ops'[n].id = 0
  BY <1>1, <1>2, OpsDiffer
<1>4. ~Available(cursor)' /\ stream'.at # "up"
  BY <1>1, StreamTypes DEF Available
<1>5. QED
  BY <1>3, <1>4, Unclaimed

\* The first operation of the queue is done, and it was no broadcast.
LEMMA TailHeard ==
  ASSUME TypeOK, ops # <<>>, ops' = Tail(ops), ops[1].do # "notify", NEW B, ops[1].do \notin B, NEW k, NEW v
  PROVE  Heard(v, ops', k, B) = Heard(v, ops, k, B)
<1>1. ops \in Seq(Op)
  BY DEF TypeOK
<1>2. PICK o : o = ops[1]
  OBVIOUS
<1>3. Heard(IF o.do = "notify" /\ Touches(o.msg, k) THEN Brings(o.msg) ELSE v, Tail(ops), k, B) = Heard(v, ops, k, B)
  BY <1>1, <1>2, HeardTail
<1>4. (IF o.do = "notify" /\ Touches(o.msg, k) THEN Brings(o.msg) ELSE v) = v
  BY <1>2
<1>5. QED
  BY <1>3, <1>4

LEMMA ToldHeard ==
  ASSUME TypeOK, ops # <<>>, ops' = Tail(ops), ops[1].do = "notify", NEW B, "notify" \notin B, NEW k, NEW v, NEW u,
         u = IF Touches(ops[1].msg, k) THEN Brings(ops[1].msg) ELSE v
  PROVE  Heard(u, ops', k, B) = Heard(v, ops, k, B)
<1>1. ops \in Seq(Op)
  BY DEF TypeOK
<1>2. PICK o : o = ops[1]
  OBVIOUS
<1>3. Heard(IF o.do = "notify" /\ Touches(o.msg, k) THEN Brings(o.msg) ELSE v, Tail(ops), k, B) = Heard(v, ops, k, B)
  BY <1>1, <1>2, HeardTail
<1>4. (IF o.do = "notify" /\ Touches(o.msg, k) THEN Brings(o.msg) ELSE v) = u
  BY <1>2
<1>5. QED
  BY <1>3, <1>4

LEMMA ViewClaimed ==
  ASSUME TypeOK, TypeOK', [Next]_vars, QueueInv, SetCursor, NEW q, NEW r, Hears(q, r), NEW f, UpToDate(View(f, q))
  PROVE  UpToDate(View(f, r))'
<1>1. /\ ops # <<>> /\ ops' = Tail(ops) /\ UNCHANGED <<log, floor, stream, scenario>>
  BY DEF SetCursor, Pop, serverVars
<1>2. Head(ops) = ops[1] /\ DOMAIN ops \subseteq Nat \ {0}
  BY <1>1, PopFacts
<1>3. ops[1].do = "cursor" /\ cursor' = IF failedWrites THEN cursor ELSE ops[1].id
  BY <1>2 DEF SetCursor, Pop
<1>4. \A k : Heard(f[k], r, k, {}) = Heard(f[k], q, k, {}) /\ Heard(f[k], q, k, {"cursor"}) = f[k]
  <2>1. CASE q = ops /\ r = ops'
    <3>1. ASSUME NEW k PROVE Heard(f[k], ops', k, {}) = Heard(f[k], ops, k, {})
      BY <1>1, <1>3, TailHeard
    <3>2. ASSUME NEW k PROVE Heard(f[k], ops, k, {"cursor"}) = f[k]
      BY <1>2, <1>3, HeardStop
    <3>3. QED
      BY <2>1, <3>1, <3>2
  <2>2. CASE q = <<>> /\ r = <<>>
    BY <2>2, HeardEmpty
  <2>3. QED
    BY <2>1, <2>2 DEF Hears
<1>5. PICK V : V = View(f, q)
  OBVIOUS
<1>6. PICK W : W = View(f, r)
  OBVIOUS
<1>7. \A k \in Keys : W.now[k] = V.now[k] /\ W.all[k] = V.all[k] /\ V.ahead[k] = V.now[k]
  BY <1>4, <1>5, <1>6 DEF View
<1>8. UpToDate(W)'
  BY <1>1, <1>3, <1>5, <1>7, ClaimedUpToDate
<1>9. QED
  BY <1>6, <1>8 DEF View, Heard, Told, Touches, Brings

LEMMA ViewFlushed ==
  ASSUME TypeOK, TypeOK', [Next]_vars, QueueInv, Flush, stream = Flushing, NEW q, NEW r, Hears(q, r),
         NEW f, \A k \in Keys : View(f, q).all[k] = Absent
  PROVE  UpToDate(View(f, r))'
<1>1. /\ ops # <<>> /\ ops' = Tail(ops) /\ UNCHANGED <<log, floor, cursor>> /\ floor \in Nat /\ log \in Seq(Entry)
      /\ stream' = Catching(Len(log), {k \in Keys : Current(k) # Absent})
  BY LogType DEF Flush, Pop, serverVars, idbVars, TypeOK
<1>2. Head(ops) = ops[1] /\ 1 \in DOMAIN ops /\ \A i \in DOMAIN ops' : ops'[i] = ops[i + 1] /\ i + 1 \in DOMAIN ops
      /\ DOMAIN ops = 1..Len(ops) /\ Len(ops) \in Nat /\ DOMAIN ops' = 1..(Len(ops) - 1) /\ ops[1] \in Op
  BY <1>1, PopFacts
<1>3. ops[1].do = "flush" /\ ops[1] = FlushOp
  <2>1. ops[1].do = "flush"
    BY <1>2 DEF Flush, Pop
  <2>2. PICK o \in Op : o = ops[1]
    <3>1. ops[1] \in Op
      BY <1>1, PopFacts
    <3>2. QED
      BY <3>1
  <2>3. o.do = "flush" => o = FlushOp
    BY OpParts
  <2>4. QED
    BY <2>1, <2>2, <2>3
<1>4. PICK S \in SUBSET Keys : S = {k \in Keys : Current(k) # Absent} /\ stream' = Catching(Len(log), S)
  BY <1>1
<1>5. /\ stream'.at = "up" /\ stream'.pos = Len(log) /\ stream'.mark = Len(log)
      /\ \A k \in Keys : k \notin stream'.left => Current(k) = Absent
  <2>1. Len(log) \in Nat
    BY <1>1, LogType
  <2>2. /\ stream'.at = "up" /\ stream'.pos = Len(log) /\ stream'.mark = Len(log) /\ stream'.left = S
    <3>1. floor \in Nat /\ log \in Seq(Entry)
      BY <1>1
    <3>2. stream' = Catching(Len(log), S)
      BY <1>4
    <3>3. QED
      BY <2>1, <3>1, <3>2, CatchingIs
  <2>3. QED
    BY <1>4, <2>2
<1>6. ~Available(cursor) /\ \A i \in DOMAIN ops' : ops'[i].do = "write"
  <2>1. ~Available(cursor)
    BY DEF QueueInv, Shape, Clearing
  <2>2. PICK g \in DOMAIN ops : ClearingTo(g)
    BY DEF QueueInv, Shape, Clearing
  <2>3. g = 1
    <3>1. CASE g # 1
      <4>1. 1 \in 1..(g - 1)
        BY <1>2, <3>1
      <4>2. FlushOp \in Opening
        BY <1>3, <2>2, <4>1 DEF ClearingTo
      <4>3. QED
        BY <4>2, OpsDiffer DEF Opening
    <3>2. QED
      BY <3>1
  <2>4. \A i \in DOMAIN ops' : i + 1 \in (1 + 1)..Len(ops)
    BY <1>2
  <2>5. QED
    BY <1>2, <2>1, <2>2, <2>3, <2>4 DEF ClearingTo
<1>7. ASSUME NEW k \in Keys PROVE Heard(f[k], r, k, {}) = Absent /\ Heard(f[k], r, k, {"cursor"}) = Absent
  <2>1. Heard(f[k], q, k, {}) = Absent
    BY DEF View
  <2>2. CASE q = ops /\ r = ops'
    <3>1. Heard(f[k], ops', k, {}) = Heard(f[k], ops, k, {})
      BY <1>1, <1>3, TailHeard
    <3>2. \A i \in DOMAIN ops' : ops'[i].do = "notify" => FALSE
      BY <1>6
    <3>3. \A B : Heard(f[k], ops', k, B) = f[k]
      BY <3>2, HeardNothing
    <3>4. QED
      BY <2>1, <2>2, <3>1, <3>3
  <2>3. CASE q = <<>> /\ r = <<>>
    BY <2>1, <2>3, HeardEmpty
  <2>4. QED
    BY <2>2, <2>3 DEF Hears
<1>8. PICK W : W = View(f, r)
  OBVIOUS
<1>9. \A k \in Keys : W.ahead[k] = Absent /\ W.all[k] = Absent
  BY <1>7, <1>8 DEF View
<1>10. UpToDate(W)'
  BY <1>1, <1>5, <1>6, <1>9, FlushedUpToDate
<1>11. QED
  BY <1>8, <1>10 DEF View, Heard, Told, Touches, Brings

LEMMA ViewWritten ==
  ASSUME TypeOK, TypeOK', [Next]_vars, QueueInv, WriteRow, NEW q, NEW r, Hears(q, r), NEW f, NEW g, UpToDate(View(f, q)),
         \A k \in Keys : g[k] = f[k] \/ (rows' # rows /\ k = ops[1].key /\ g[k] = ops[1].val),
         ~failedWrites' => failedWrites' = failedWrites,
         q = <<>> => (\A k \in Keys : g[k] = f[k]) \/ Evicts(ops[1])
  PROVE  UpToDate(View(g, r))'
<1>1. /\ ops # <<>> /\ ops' = Tail(ops) /\ UNCHANGED <<log, floor, stream, scenario, cursor>>
      /\ (failedWrites => failedWrites')
  BY DEF WriteRow, Pop, serverVars
<1>2. /\ Head(ops) = ops[1] /\ 1 \in DOMAIN ops /\ ops[1] \in Op /\ DOMAIN ops = 1..Len(ops) /\ Len(ops) \in Nat
      /\ DOMAIN ops' = 1..(Len(ops) - 1) /\ \A i \in DOMAIN ops' : ops'[i] = ops[i + 1] /\ i + 1 \in DOMAIN ops
  BY <1>1, PopFacts
<1>3. ops[1].do = "write"
  BY <1>2 DEF WriteRow, Pop
<1>4. failedWrites' => scenario.faults # {}
  BY DEF WriteRow, QueueInv, Items
<1>5. PICK o : o = ops[1]
  OBVIOUS
<1>6. /\ Passed(1)
      /\ o.key \in Tame => Fresh(o.key, o.val, cursor)
  <2>1. Passed(1) /\ Covers(1)
    BY <1>2 DEF QueueInv, Items
  <2>2. Speaks(o) /\ What(o) = [key |-> o.key, val |-> o.val]
    BY <1>3, <1>5 DEF Speaks, What
  <2>3. QED
    BY <1>5, <2>1, <2>2 DEF Covers
<1>7. ASSUME NEW k \in Keys, k \in Tame, Available(cursor) PROVE g[k] = f[k] \/ Fresh(k, g[k], cursor)
  BY <1>5, <1>6, <1>7
\* A write that a broadcast follows is told of anyway.
<1>8. ASSUME ~Evicts(o), NEW v, NEW u, NEW B, "write" \notin B, "notify" \notin B
      PROVE  Heard(v, ops', o.key, B) = Heard(u, ops', o.key, B)
  <2>1. 1 + 1 \in DOMAIN ops /\ ops[1 + 1] = NotifyOp(Action(o.key, o.val))
    BY <1>3, <1>5, <1>6, <1>8 DEF Passed
  <2>2. 1 \in DOMAIN ops' /\ ops'[1] = NotifyOp(Action(o.key, o.val))
    BY <1>2, <2>1
  <2>3. ops'[1].do = "notify" /\ Touches(ops'[1].msg, o.key)
    BY <2>2, OpsDiffer DEF Touches
  <2>4. \A h \in 1..1 : ops'[h].do \notin B
    BY <1>8, <2>3
  <2>5. 1 \in Told(ops', o.key, B)
    BY <2>2, <2>3, <2>4 DEF Told
  <2>6. QED
    BY <2>5 DEF Heard
<1>9. ASSUME NEW k \in Keys, NEW B, "write" \notin B, "notify" \notin B
      PROVE  Eases(k, Heard(f[k], q, k, B), Heard(g[k], r, k, B))
  <2>1. CASE q = ops /\ r = ops'
    <3>1. Heard(f[k], ops', k, B) = Heard(f[k], ops, k, B)
      BY <1>1, <1>3, <1>9, TailHeard
    <3>2. CASE g[k] = f[k]
      BY <2>1, <3>1, <3>2 DEF Eases
    <3>3. CASE g[k] # f[k] /\ ~Evicts(o)
      <4>1. k = o.key
        BY <1>5, <3>3
      <4>2. Heard(g[k], ops', k, B) = Heard(f[k], ops', k, B)
        BY <1>8, <1>9, <3>3, <4>1
      <4>3. QED
        BY <2>1, <3>1, <4>2 DEF Eases
    <3>4. CASE g[k] # f[k] /\ Evicts(o)
      <4>1. Eases(k, f[k], g[k])
        BY <1>5, <3>4 DEF Eases, Evicts
      <4>2. Eases(k, Heard(f[k], ops', k, B), Heard(g[k], ops', k, B))
        BY <4>1, HeardEases
      <4>3. QED
        BY <2>1, <3>1, <4>2
    <3>5. QED
      BY <3>2, <3>3, <3>4
  <2>2. CASE q = <<>> /\ r = <<>>
    <3>1. Heard(f[k], <<>>, k, B) = f[k] /\ Heard(g[k], <<>>, k, B) = g[k]
      BY HeardEmpty
    <3>2. Eases(k, f[k], g[k])
      BY <1>5, <2>2 DEF Eases, Evicts
    <3>3. QED
      BY <2>2, <3>1, <3>2
  <2>3. QED
    BY <2>1, <2>2 DEF Hears
<1>10. PICK V : V = View(f, q)
  OBVIOUS
<1>11. PICK W : W = View(g, r)
  OBVIOUS
<1>12. \A k \in Keys : Eases(k, V.ahead[k], W.ahead[k]) /\ Eases(k, V.all[k], W.all[k])
  <2>1. "write" \notin {} /\ "notify" \notin {} /\ "write" \notin {"cursor"} /\ "notify" \notin {"cursor"}
    OBVIOUS
  <2>2. ASSUME NEW k \in Keys
        PROVE  /\ Eases(k, Heard(f[k], q, k, {"cursor"}), Heard(g[k], r, k, {"cursor"}))
               /\ Eases(k, Heard(f[k], q, k, {}), Heard(g[k], r, k, {}))
    BY <1>9, <2>1
  <2>3. QED
    BY <1>10, <1>11, <2>2 DEF View
<1>13. \A k \in Keys : (k \in Tame /\ Available(cursor)) => W.now[k] = V.now[k] \/ Fresh(k, W.now[k], cursor)
  BY <1>7, <1>10, <1>11 DEF View
<1>14. UpToDate(W)'
  BY <1>1, <1>4, <1>10, <1>12, <1>13, PoppedUpToDate
<1>15. QED
  BY <1>11, <1>14 DEF View, Heard, Told, Touches, Brings

\* A broadcast is sent, and is of what the cache already holds.
LEMMA ViewTold ==
  ASSUME TypeOK, TypeOK', [Next]_vars, QueueInv, Notify, NEW q, NEW r, Hears(q, r), NEW f, NEW g, UpToDate(View(f, q)),
         q = <<>> => \A k \in Keys : g[k] = f[k],
         \A k \in Keys : ~Touches(ops[1].msg, k) => g[k] = f[k],
         \A k \in Keys : Touches(ops[1].msg, k) => g[k] \in {f[k], Brings(ops[1].msg)},
         q # <<>> /\ ~failedWrites => \A k \in Keys : Touches(ops[1].msg, k) /\ ops[1].msg.is = "action"
                                                  => g[k] = Brings(ops[1].msg)
  PROVE  UpToDate(View(g, r))'
<1>1. /\ ops # <<>> /\ ops' = Tail(ops) /\ UNCHANGED <<log, floor, stream, scenario, cursor, failedWrites>>
  BY DEF Notify, Pop, serverVars, idbVars
<1>2. Head(ops) = ops[1] /\ 1 \in DOMAIN ops /\ ops[1] \in Op
  BY <1>1, PopFacts
<1>3. ops[1].do = "notify"
  BY <1>2 DEF Notify, Pop
<1>4. PICK m \in Message : m = ops[1].msg
  BY <1>2, <1>3, OpParts
<1>5. CASE m = Reset
  <2>1. Clearing
    <3>1. ops[1] = NotifyOp(Reset)
      <4>1. PICK o \in Op : o = ops[1]
        BY <1>2
      <4>2. o.do = "notify" => o = NotifyOp(o.msg)
        BY OpParts
      <4>3. QED
        BY <1>3, <1>4, <1>5, <4>1, <4>2
    <3>2. QED
      BY <1>2, <3>1 DEF QueueInv, Shape
  <2>2. PICK W : W = View(g, r)
    OBVIOUS
  <2>3. UpToDate(W)'
    BY <1>1, <2>1, ViewIdle
  <2>4. QED
    BY <2>2, <2>3 DEF View, Heard, Told, Touches, Brings
<1>6. CASE m # Reset
  <2>1. \A k : Touches(m, k) <=> m.is = "action" /\ m.key = k
    BY <1>6, MessageParts DEF Touches
  <2>2. failedWrites' => scenario.faults # {}
    BY <1>1 DEF QueueInv, Items
  <2>3. m.is = "action" /\ m.key \in Tame => Fresh(m.key, m.val, cursor)
    <3>1. Covers(1)
      BY <1>2 DEF QueueInv, Items
    <3>2. ASSUME m.is = "action" PROVE Speaks(ops[1]) /\ What(ops[1]) = [key |-> m.key, val |-> m.val]
      BY <1>3, <1>4, <3>2 DEF Speaks, What, IsAction
    <3>3. QED
      BY <3>1, <3>2 DEF Covers
  <2>4. ASSUME NEW k \in Keys, k \in Tame PROVE g[k] = f[k] \/ Fresh(k, g[k], cursor)
    BY <1>4, <2>1, <2>3, <2>4 DEF Brings
  <2>5. ASSUME ~failedWrites', NEW k \in Keys, NEW B, "notify" \notin B
        PROVE  Heard(g[k], r, k, B) = Heard(f[k], q, k, B)
    <3>1. CASE q = ops /\ r = ops'
      <4>1. g[k] = IF Touches(ops[1].msg, k) THEN Brings(ops[1].msg) ELSE f[k]
        BY <1>1, <1>4, <2>1, <2>5, <3>1
      <4>2. Heard(g[k], ops', k, B) = Heard(f[k], ops, k, B)
        BY <1>1, <1>3, <2>5, <4>1, ToldHeard
      <4>3. QED
        BY <3>1, <4>2
    <3>2. CASE q = <<>> /\ r = <<>>
      BY <3>2
    <3>3. QED
      BY <3>1, <3>2 DEF Hears
  <2>6. PICK V : V = View(f, q)
    OBVIOUS
  <2>7. PICK W : W = View(g, r)
    OBVIOUS
  <2>8. ~failedWrites' => \A k \in Keys : Eases(k, V.ahead[k], W.ahead[k]) /\ Eases(k, V.all[k], W.all[k])
    <3>1. "notify" \notin {} /\ "notify" \notin {"cursor"}
      OBVIOUS
    <3>2. ASSUME ~failedWrites', NEW k \in Keys
          PROVE  /\ Heard(g[k], r, k, {"cursor"}) = Heard(f[k], q, k, {"cursor"})
                 /\ Heard(g[k], r, k, {}) = Heard(f[k], q, k, {})
      BY <2>5, <3>1, <3>2
    <3>3. QED
      BY <2>6, <2>7, <3>2 DEF View, Eases
  <2>9. \A k \in Keys : (k \in Tame /\ Available(cursor)) => W.now[k] = V.now[k] \/ Fresh(k, W.now[k], cursor)
    BY <2>4, <2>6, <2>7 DEF View
  <2>10. UpToDate(W)'
    BY <1>1, <2>2, <2>6, <2>8, <2>9, PoppedUpToDate
  <2>11. QED
    BY <2>7, <2>10 DEF View, Heard, Told, Touches, Brings
<1>7. QED
  BY <1>5, <1>6

-----------------------------------------------------------------------------
(***************************************************************************)
(* The cache on disk.                                                      *)
(***************************************************************************)
LEMMA ViewRenamed ==
  ASSUME NEW g, NEW r, g = rows', r = ops', UpToDate(View(g, r))'
  PROVE  UpToDate(View(rows, ops))'
BY ZenonT(60) DEF View, Heard, Told, Touches, Brings

\* Every list has the value that the first broadcast of the queue brings, unless a
\* write of it has failed.
LEMMA NotifiedIsCached ==
  ASSUME TypeOK, QueueInv, Notify, ~failedWrites, NEW k \in Keys, Touches(ops[1].msg, k), ops[1].msg.is = "action"
  PROVE  rows[k] = Brings(ops[1].msg)
<1>1. ops # <<>> /\ Head(ops).do = "notify"
  BY DEF Notify, Pop
<1>2. 1 \in DOMAIN ops /\ Head(ops) = ops[1]
  BY <1>1, HeadFacts DEF TypeOK
<1>3. Backed(1)
  BY <1>2 DEF QueueInv, Items
<1>4. QED
  BY <1>1, <1>2, <1>3 DEF Backed, IsAction, Touches, Brings

\* What the tab that syncs shows is what its engine has received; the cache and the
\* other tabs hear of it from the queue.
Receives(t, q, r, f, g) ==
  \/ q = ops /\ r = ops' /\ \A j \in Keys : g[j] = f[j]
  \/ q = <<>> /\ r = <<>> /\ \A j \in Keys : f[j] = memory[t][j] /\ g[j] = memory'[t][j]

LEMMA ReceivesPair ==
  ASSUME TypeOK, NEW t \in Tabs, NEW k \in Keys, NEW x, ReceiveAction(t, k, x), NEW q, NEW r, NEW f, NEW g,
         Receives(t, q, r, f, g)
  PROVE  /\ \A j \in Keys \ {k} : g[j] = f[j]
         /\ (q = ops /\ r = ops' /\ g[k] = f[k]) \/ (q = <<>> /\ r = <<>> /\ g[k] = x)
<1>1. memory' = [memory EXCEPT ![t][k] = x] /\ memory \in [Tabs -> [Keys -> Nat]]
  BY DEF ReceiveAction, TypeOK
<1>2. memory'[t][k] = x /\ \A j \in Keys \ {k} : memory'[t][j] = memory[t][j]
  BY <1>1
<1>3. QED
  BY <1>2 DEF Receives

LEMMA ReceivesNothing ==
  ASSUME NEW t, NEW q, NEW r, NEW f, NEW g, Receives(t, q, r, f, g), memory' = memory
  PROVE  Hears(q, r) /\ \A j \in Keys : g[j] = f[j]
BY DEF Receives, Hears

LEMMA ViewFollow ==
  ASSUME TypeOK, TypeOK', [Next]_vars, QueueInv, NEW t \in Tabs, Follow(t), NEW q, NEW r, NEW f, NEW g,
         UpToDate(View(f, q)), Receives(t, q, r, f, g)
  PROVE  UpToDate(View(g, r))'
<1>1. CASE NextEntry(t)
  <2>1. /\ stream.at = "up" /\ stream \in UpStream /\ stream.pos + 1 \in 1..Len(log)
        /\ stream' \in UpStream /\ stream'.mark = stream.mark
        /\ stream'.done = stream.done /\ stream'.pos = stream.pos + 1 /\ stream'.left = {} /\ stream.left = {}
        /\ stream.pos \in Nat /\ stream.mark \in Nat /\ log' = log /\ Len(log) \in Nat
    BY <1>1, NextEntryIs
  <2>2. Streaming(t) /\ stream'.at = "up" /\ stream.pos < Len(log)
    BY <1>1, <2>1 DEF NextEntry, UpStream
  <2>3. CASE ReceiveAction(t, log[stream.pos + 1].key, Val(log[stream.pos + 1].key, stream.pos + 1))
    <3>1. PICK k \in Keys : k = log[stream.pos + 1].key
      BY <2>1, LogType DEF TypeOK
    <3>2. PICK p \in stream'.pos..Len(log) : p = stream.pos + 1
      BY <2>1
    <3>3. ReceiveAction(t, k, Val(k, p)) /\ floor' = floor
      BY <2>3, <3>1, <3>2 DEF ReceiveAction, EngineStep, serverVars
    <3>4. /\ \A j \in Keys \ {k} : g[j] = f[j]
          /\ (q = ops /\ r = ops' /\ g[k] = f[k]) \/ (q = <<>> /\ r = <<>> /\ g[k] = Val(k, p))
      BY <3>3, ReceivesPair
    <3>5. /\ stream'.pos = stream.pos + 1 /\ stream'.pos <= Len(log) /\ log[stream.pos + 1].key = k
          /\ stream.left \ {k} \subseteq stream'.left
      BY <2>1, <3>1
    <3>6. QED
      BY <2>1, <2>2, <3>3, <3>4, <3>5, ViewReceived
  <2>4. CASE stream.pos + 1 > stream.mark /\ ~log[stream.pos + 1].live /\ UNCHANGED <<storeVars, ops, boundVars>> /\ EngineStep
    <3>1. UNCHANGED <<log, floor, cursor, failedWrites, scenario, ops>> /\ memory' = memory
      BY <2>4 DEF EngineStep, serverVars, idbVars, storeVars
    <3>2. stream.pos >= stream.mark
      BY <2>1, <2>4
    <3>3. Hears(q, r) /\ (\A j \in Keys : g[j] = f[j]) /\ q = r
      BY <3>1, ReceivesNothing DEF Hears
    <3>4. PICK V : V = View(f, q)
      OBVIOUS
    <3>5. UpToDate(V)'
      BY <2>1, <2>2, <2>4, <3>1, <3>2, <3>4, SkippedUpToDate
    <3>6. PICK W : W = View(g, r)
      OBVIOUS
    <3>7. \A k \in Keys : W.now[k] = V.now[k] /\ W.ahead[k] = V.ahead[k] /\ W.all[k] = V.all[k]
      BY <3>3, <3>4, <3>6 DEF View
    <3>8. UpToDate(W)'
      BY <3>5, <3>7 DEF UpToDate, Tame, Heeded
    <3>9. QED
      BY <3>6, <3>8 DEF View, Heard, Told, Touches, Brings
  <2>5. QED
    BY <1>1, <2>3, <2>4 DEF NextEntry
<1>2. CASE NextRow(t)
  <2>1. /\ stream.at = "up" /\ stream \in UpStream /\ stream.pos \in Nat /\ stream.mark \in Nat
        /\ Streaming(t) /\ Len(log) \in Nat
    BY <1>2, StreamParts, LogType DEF NextRow, Streaming, TypeOK, UpStream
  <2>2. PICK k \in stream.left : /\ stream' = [stream EXCEPT !.left = @ \ {k}]
                                 /\ ReceiveAction(t, k, Val(k, stream.mark))
    BY <1>2 DEF NextRow
  <2>3. k \in Keys /\ stream.pos = stream.mark /\ stream.pos <= Len(log) /\ stream.mark \in stream.pos..Len(log)
    BY <2>1, <2>2 DEF QueueInv, Moved, UpStream
  <2>4. /\ stream' \in UpStream /\ stream'.mark = stream.mark /\ stream'.at = "up"
        /\ stream'.done = stream.done /\ stream'.pos = stream.pos /\ stream.left \ {k} \subseteq stream'.left
    BY <2>1, <2>2 DEF UpStream
  <2>5. PICK p \in stream'.pos..Len(log) : p = stream.mark
    BY <2>3, <2>4
  <2>6. ReceiveAction(t, k, Val(k, p)) /\ floor' = floor
    BY <2>2, <2>5 DEF ReceiveAction, EngineStep, serverVars
  <2>7. /\ \A j \in Keys \ {k} : g[j] = f[j]
        /\ (q = ops /\ r = ops' /\ g[k] = f[k]) \/ (q = <<>> /\ r = <<>> /\ g[k] = Val(k, p))
    BY <2>3, <2>6, ReceivesPair
  <2>8. QED
    BY <2>1, <2>3, <2>4, <2>6, <2>7, ViewReceived
<1>3. CASE CompleteStream(t)
  <2>1. memory' = memory
    BY <1>3 DEF CompleteStream
  <2>2. Hears(q, r) /\ \A j \in Keys : g[j] = f[j]
    BY <2>1, ReceivesNothing
  <2>3. UpToDate(View(f, r))'
    BY <1>3, <2>2, ViewCompleted
  <2>4. PICK V : V = View(f, r)
    OBVIOUS
  <2>5. PICK W : W = View(g, r)
    OBVIOUS
  <2>6. UpToDate(V)'
    BY <2>3, <2>4 DEF View, Heard, Told, Touches, Brings
  <2>7. \A k \in Keys : W.now[k] = V.now[k] /\ W.ahead[k] = V.ahead[k] /\ W.all[k] = V.all[k]
    BY <2>2, <2>4, <2>5 DEF View
  <2>8. UpToDate(W)'
    BY <2>6, <2>7 DEF UpToDate, Tame, Heeded
  <2>9. QED
    BY <2>5, <2>8 DEF View, Heard, Told, Touches, Brings
<1>4. QED
  BY <1>1, <1>2, <1>3 DEF Follow

\* The writer's steps, to the cache and the tabs that hear the queue.
LEMMA ViewWriter ==
  ASSUME TypeOK, TypeOK', [Next]_vars, QueueInv, WriterNext, NEW q, NEW r, q = ops, r = ops', NEW f, f = rows, NEW g, g = rows',
         UpToDate(View(f, q))
  PROVE  UpToDate(View(g, r))'
<1>1. /\ ops # <<>> /\ ops' = Tail(ops) /\ UNCHANGED <<log, floor>> /\ Hears(q, r) /\ q # <<>>
  BY DEF WriterNext, WriteRow, Wipe, SetCursor, Notify, Flush, Pop, serverVars, Hears
<1>2. Head(ops) = ops[1] /\ 1 \in DOMAIN ops /\ ops[1] \in Op
  BY <1>1, PopFacts
<1>3. CASE WriteRow
  <2>1. ops[1].do = "write"
    BY <1>2, <1>3 DEF WriteRow, Pop
  <2>2. \A k \in Keys : g[k] = f[k] \/ (rows' # rows /\ k = ops[1].key /\ g[k] = ops[1].val)
    <3>1. rows' = rows \/ rows' = [rows EXCEPT ![ops[1].key] = ops[1].val]
      BY <1>2, <1>3 DEF WriteRow
    <3>2. rows \in [Keys -> Nat]
      BY DEF TypeOK
    <3>3. \A k \in Keys : rows'[k] = rows[k] \/ (k = ops[1].key /\ rows'[k] = ops[1].val)
      BY <3>1, <3>2
    <3>4. QED
      BY <3>3
  <2>3. ~failedWrites' => failedWrites' = failedWrites
    BY <1>3 DEF WriteRow
  <2>4. QED
    BY <1>1, <1>3, <2>2, <2>3, ViewWritten
<1>4. CASE Wipe \/ (Flush /\ stream # Flushing)
  <2>1. PICK o \in Op : o = ops[1]
    BY <1>2
  <2>2. o.do \in {"wipe", "flush"}
    BY <1>2, <1>4, <2>1 DEF Wipe, Flush, Pop
  <2>3. o = WipeOp \/ o = FlushOp
    BY <2>2, OpParts
  <2>4. Clearing
    BY <1>2, <2>1, <2>3 DEF QueueInv, Shape
  <2>5. cursor' = cursor /\ stream' = stream
    BY <1>4 DEF Wipe, Flush, idbVars
  <2>6. PICK W : W = View(g, r)
    OBVIOUS
  <2>7. UpToDate(W)'
    BY <1>1, <2>4, <2>5, ViewIdle
  <2>8. QED
    BY <2>6, <2>7 DEF View, Heard, Told, Touches, Brings
<1>5. CASE SetCursor
  <2>1. g = f
    BY <1>5 DEF SetCursor
  <2>2. QED
    BY <1>1, <1>5, <2>1, ViewClaimed
<1>6. CASE Notify
  <2>1. \A k \in Keys : g[k] = f[k]
    BY <1>6 DEF Notify, idbVars
  <2>2. ~failedWrites => \A k \in Keys : Touches(ops[1].msg, k) /\ ops[1].msg.is = "action" => g[k] = Brings(ops[1].msg)
    BY <1>6, <2>1, NotifiedIsCached
  <2>3. QED
    BY <1>1, <1>6, <2>1, <2>2, ViewTold
<1>7. CASE Flush /\ stream = Flushing
  <2>1. \A k \in Keys : View(f, q).all[k] = Absent
    <3>1. Clearing /\ ops[1].do = "flush"
      BY <1>2, <1>7 DEF QueueInv, Shape, Flush, Pop
    <3>2. rows = EmptyStore
      BY <1>2, <3>1, OpsDiffer DEF Clearing, ClearingTo
    <3>3. \A i \in DOMAIN ops : ops[i].do = "notify" => ops[i].msg = Reset
      BY <3>1, ClearingIds
    <3>4. \A k \in Keys : Told(q, k, {}) # {} => Last(Told(q, k, {})) \in Told(q, k, {})
      <4>1. PICK n \in Nat : n = Len(ops) /\ DOMAIN ops = 1..n
        BY SeqFacts DEF TypeOK
      <4>2. \A k \in Keys : Told(q, k, {}) \subseteq 0..n
        BY <4>1 DEF Told
      <4>3. QED
        BY <4>2, LastOf
    <3>5. \A k \in Keys : \A i \in Told(q, k, {}) : Brings(q[i].msg) = Absent
      BY <3>3 DEF Told, Brings, Reset
    <3>6. \A k \in Keys : f[k] = Absent
      BY <3>2 DEF EmptyStore
    <3>7. \A k \in Keys : Heard(f[k], q, k, {}) = Absent
      BY <3>4, <3>5, <3>6 DEF Heard
    <3>8. QED
      BY <3>7 DEF View
  <2>2. g = f
    BY <1>7 DEF Flush, idbVars
  <2>3. QED
    BY <1>1, <1>7, <2>1, <2>2, ViewFlushed
<1>8. QED
  BY <1>3, <1>4, <1>5, <1>6, <1>7 DEF WriterNext

LEMMA DiskInit == Init => UpToDate(View(rows, ops))
<1>1. SUFFICES ASSUME Init PROVE UpToDate(View(rows, ops))
  OBVIOUS
<1>2. DOMAIN ops = {} /\ stream = Down /\ Len(log) = 0 /\ cursor = 0 /\ floor = 0
  BY <1>1 DEF Init
<1>3. ~Available(cursor)
  BY <1>2 DEF Available
<1>4. QED
  BY <1>2, <1>3, StreamTypes DEF UpToDate

LEMMA DiskNext ==
  ASSUME TypeOK, TypeOK', [Next]_vars, QueueInv, UpToDate(View(rows, ops))
  PROVE  UpToDate(View(rows, ops))'
<1>1. PICK f : f = rows
  OBVIOUS
<1>2. PICK q : q = ops
  OBVIOUS
<1>3. PICK g : g = rows'
  OBVIOUS
<1>4. PICK r : r = ops'
  OBVIOUS
<1>5. UpToDate(View(f, q)) /\ Hears(q, r)
  BY <1>1, <1>2, <1>4 DEF Hears
<1>6. SUFFICES UpToDate(View(g, r))'
  BY <1>3, <1>4, ViewRenamed
<1>7. CASE EvictStep
  <2>1. \A k \in Keys : Eases(k, f[k], g[k])
    BY <1>1, <1>3, <1>7 DEF EvictStep, Eases
  <2>2. QED
    BY <1>5, <1>7, <2>1, ViewKept
<1>8. CASE WriterNext
  BY <1>1, <1>2, <1>3, <1>4, <1>5, <1>8, ViewWriter
<1>9. ASSUME NEW t \in Tabs, Follow(t) PROVE UpToDate(View(g, r))'
  <2>1. rows' = rows
    BY <1>9 DEF Follow, NextEntry, NextRow, CompleteStream, ReceiveAction, EngineStep, idbVars
  <2>2. Receives(t, q, r, f, g)
    BY <1>1, <1>2, <1>3, <1>4, <2>1 DEF Receives
  <2>3. QED
    BY <1>5, <1>9, <2>2, ViewFollow
<1>10. ASSUME NEW t \in Tabs, Resume(t) PROVE UpToDate(View(g, r))'
  <2>1. g = f /\ q = <<>> /\ r = <<>>
    BY <1>1, <1>2, <1>3, <1>4, <1>10 DEF Resume, MayDial, EngineStep, idbVars
  <2>2. QED
    BY <1>5, <1>10, <2>1, ViewResumed
<1>11. ASSUME NEW t \in Tabs, StartOver(t) PROVE UpToDate(View(g, r))'
  <2>1. PICK W : W = View(g, r)
    OBVIOUS
  <2>2. UpToDate(W)'
    BY <1>11, ViewStartedOver
  <2>3. QED
    BY <2>1, <2>2 DEF View, Heard, Told, Touches, Brings
<1>12. ASSUME NEW t \in Tabs, Close(t), engine = t PROVE UpToDate(View(g, r))'
  <2>1. g = f /\ UNCHANGED <<cursor, log, floor>> /\ ops' = <<>> /\ stream' = Down
    BY <1>1, <1>3, <1>12 DEF Close, idbVars, serverVars
  <2>2. r = <<>>
    BY <1>4, <2>1
  <2>3. QED
    BY <1>5, <2>1, <2>2, ViewDropped
<1>13. QED
  BY <1>7, <1>8, <1>9, <1>10, <1>11, <1>12, RestEvicts DEF Next, Dial

LEMMA Caching == Spec => []UpToDate(View(rows, ops))
<1>1. TypeOK /\ TypeOK' /\ QueueInv /\ UpToDate(View(rows, ops)) /\ [Next]_vars => UpToDate(View(rows, ops))'
  BY DiskNext
<1>2. QED
  BY DiskInit, <1>1, Typing, Queueing, PTL DEF Spec

\* Unless users rejoin teams, every row that is set was so with a live frame.
Joins == "rejoin" \notin scenario.gestures => \A n \in 1..Len(log) : log[n].op = "set" => log[n].live

LEMMA Joining == Spec => []Joins
<1>1. Init => Joins
  <2>1. SUFFICES ASSUME Init PROVE Joins
    OBVIOUS
  <2>2. Len(log) = 0
    BY <2>1 DEF Init
  <2>3. QED
    BY <2>2 DEF Joins
<1>2. ASSUME TypeOK, Joins, [Next]_vars PROVE Joins'
  <2>1. scenario' = scenario
    BY ZenonT(60), <1>2 DEF Next, ServerNext, Commit, Rejoin, Click, Record, Prune, Open, Close, Hydrate, FetchList, SkipList, SetList,
                HydrationStep, FinishHydration, Deliver, Lead, Grant, StartEngine, Dial, Resume, StartOver, Follow, NextEntry,
                NextRow, CompleteStream, ReceiveAction, Disconnect, UiRemove, EngineStep, WriterNext, WriteRow, Wipe,
                SetCursor, Notify, Flush, Pop, vars, serverVars
  <2>2. CASE log' = log
    BY <1>2, <2>1, <2>2 DEF Joins
  <2>3. CASE \E k \in Keys, o \in {"set", "del"}, l \in BOOLEAN :
               log' = Append(log, [key |-> k, op |-> o, live |-> l]) /\ (o = "set" /\ "rejoin" \notin scenario.gestures => l)
    <3>1. PICK k \in Keys, o \in {"set", "del"}, l \in BOOLEAN :
            log' = Append(log, [key |-> k, op |-> o, live |-> l]) /\ (o = "set" /\ "rejoin" \notin scenario.gestures => l)
      BY <2>3
    <3>2. PICK e : e = [key |-> k, op |-> o, live |-> l]
      OBVIOUS
    <3>3. log' = Append(log, e) /\ log \in Seq(Entry) /\ e \in Entry
      <4>1. e \in Entry
        BY <3>2 DEF Entry
      <4>2. log' = Append(log, e)
        BY <3>1, <3>2
      <4>3. log \in Seq(Entry)
        BY <1>2 DEF TypeOK
      <4>4. QED
        BY <4>1, <4>2, <4>3
    <3>4. PICK N \in Nat : N = Len(log) /\ Len(log') = N + 1 /\ log'[N + 1] = e /\ \A n \in 1..N : log'[n] = log[n]
      BY <3>3, AppendFacts
    <3>5. \A n \in 1..(N + 1) : n \in 1..N \/ n = N + 1
      BY <3>4
    <3>6. QED
      BY <1>2, <2>1, <3>1, <3>2, <3>4, <3>5 DEF Joins
  <2>4. ASSUME NEW k \in Keys, NEW o \in {"set", "del"}, NEW l \in BOOLEAN, Record(k, o, l),
               (Commit(k) /\ l) \/ (o = "set" /\ ~l /\ "rejoin" \in scenario.gestures) \/ o = "del"
        PROVE  Joins'
    <3>1. log' = Append(log, [key |-> k, op |-> o, live |-> l])
      BY <2>4 DEF Record
    <3>2. o = "set" /\ "rejoin" \notin scenario.gestures => l
      BY <2>4
    <3>3. QED
      BY <2>3, <3>1, <3>2
  <2>5. QED
    BY <1>2, <2>2, <2>4, LogStep
<1>3. QED
  BY <1>1, <1>2, Typing, PTL DEF Spec

\* The cursor on disk claims no more than the cache on disk holds, whichever tabs
\* wrote them and wherever in its queue each of them died (tab_leader.rs, idb_writer.rs).
THEOREM Honest == Spec => []DiskHonest
<1>1. TypeOK /\ Joins /\ UpToDate(View(rows, ops)) => DiskHonest
  <2>1. SUFFICES ASSUME TypeOK, Joins, UpToDate(View(rows, ops)), "rejoin" \notin scenario.gestures, Available(cursor)
                 PROVE  \A k \in Keys : Fresh(k, rows[k], cursor)
    BY DEF DiskHonest
  <2>2. \A k \in Tame : Fresh(k, rows[k], cursor)
    BY <2>1 DEF UpToDate, View
  <2>3. Keys \subseteq Tame
    BY <2>1, LogType DEF Joins, Tame, TypeOK
  <2>4. QED
    BY <2>2, <2>3
<1>2. QED
  BY <1>1, Typing, Joining, Caching, PTL

-----------------------------------------------------------------------------
(***************************************************************************)
(* What a row shows after messages.                                        *)
(***************************************************************************)
Touching(s, k) == {i \in DOMAIN s : Touches(s[i], k)}

Shows(v, s, k) == IF Touching(s, k) = {} THEN v ELSE Brings(s[Last(Touching(s, k))])

LEMMA ReplayShows ==
  ASSUME NEW mem, NEW s, NEW k \in Keys
  PROVE  Replay(mem, s)[k] = Shows(mem[k], s, k)
BY DEF Replay, Shows, Touching, Touches, Brings

LEMMA ShowsNothing ==
  ASSUME NEW s, NEW k, \A i \in DOMAIN s : ~Touches(s[i], k), NEW v
  PROVE  Shows(v, s, k) = v
BY DEF Shows, Touching

LEMMA ShowsEmpty ==
  ASSUME NEW k, NEW v
  PROVE  Shows(v, <<>>, k) = v
<1>1. PICK s : s = <<>> /\ DOMAIN s = {}
  OBVIOUS
<1>2. QED
  BY <1>1, ShowsNothing

LEMMA ShowsEvicts ==
  ASSUME NEW s, \A i \in DOMAIN s : s[i].is = "cache_delete", NEW k, NEW v
  PROVE  Shows(v, s, k) = v
BY ShowsNothing DEF Touches

\* The last message counts if it touches the row.
LEMMA ShowsLast ==
  ASSUME NEW s \in Seq(Message), NEW m \in Message, NEW k, NEW v, NEW r, r = Append(s, m)
  PROVE  Shows(v, r, k) = IF Touches(m, k) THEN Brings(m) ELSE Shows(v, s, k)
<1>1. PICK L \in Nat : /\ L = Len(s) /\ DOMAIN s = 1..L /\ DOMAIN r = 1..(L + 1) /\ r[L + 1] = m
                       /\ \A i \in 1..L : r[i] = s[i]
  BY AppendFacts
<1> DEFINE S == Touching(s, k)
           T == Touching(r, k)
<1>2. \A i \in 1..(L + 1) : i \in 1..L \/ i = L + 1
  BY <1>1
<1>3. CASE Touches(m, k)
  <2>1. L + 1 \in T /\ T \subseteq Nat /\ \A x \in T : x <= L + 1
    BY <1>1, <1>3 DEF Touching
  <2>2. Last(T) = L + 1
    BY <2>1, LastIs
  <2>3. QED
    BY <1>1, <1>3, <2>1, <2>2 DEF Shows
<1>4. CASE ~Touches(m, k)
  <2>1. S = T
    BY <1>1, <1>2, <1>4 DEF Touching
  <2>2. S # {} => Last(S) \in S
    <3>1. S \subseteq 0..L
      BY <1>1 DEF Touching
    <3>2. QED
      BY <3>1, LastOf
  <2>3. S # {} => s[Last(S)] = r[Last(S)]
    BY <1>1, <2>2 DEF Touching
  <2>4. QED
    BY <1>4, <2>1, <2>3 DEF Shows
<1>5. QED
  BY <1>3, <1>4

LEMMA ShowsOne ==
  ASSUME NEW m \in Message, NEW k, NEW v
  PROVE  Shows(v, <<m>>, k) = IF Touches(m, k) THEN Brings(m) ELSE v
<1>1. PICK s \in Seq(Message) : s = <<>>
  BY EmptySeq
<1>2. PICK r : r = <<m>>
  OBVIOUS
<1>3. r = Append(s, m)
  BY <1>1, <1>2
<1>4. Shows(v, r, k) = IF Touches(m, k) THEN Brings(m) ELSE Shows(v, s, k)
  BY <1>3, ShowsLast
<1>5. QED
  BY <1>1, <1>2, <1>4, ShowsEmpty

\* One message, and then the others.
LEMMA ShowsTail ==
  ASSUME NEW s \in Seq(Message), s # <<>>, NEW k, NEW v, NEW u,
         u = IF Touches(s[1], k) THEN Brings(s[1]) ELSE v
  PROVE  Shows(u, Tail(s), k) = Shows(v, s, k)
<1>1. PICK r \in Seq(Message) : r = Tail(s)
  BY HeadFacts
<1>2. PICK L \in Nat : L = Len(s)
  BY HeadFacts
<1>3. /\ L > 0 /\ DOMAIN s = 1..L /\ DOMAIN r = 1..(L - 1)
      /\ \A i \in 1..(L - 1) : r[i] = s[i + 1] /\ i + 1 \in 1..L
  BY <1>1, <1>2, HeadFacts, SeqFacts
<1> DEFINE S == Touching(s, k)
           T == Touching(r, k)
<1>4. S \subseteq 1..L /\ T \subseteq 1..(L - 1) /\ S \subseteq 0..L /\ T \subseteq 0..(L - 1)
  BY <1>3 DEF Touching
<1>5. \A i \in 1..(L - 1) : i \in T <=> i + 1 \in S
  BY <1>3 DEF Touching
<1>6. 1 \in S <=> Touches(s[1], k)
  BY <1>3 DEF Touching
<1>7. CASE T = {}
  <2>1. \A x \in S : x = 1
    <3>1. ASSUME NEW x \in S, x # 1 PROVE x - 1 \in 1..(L - 1) /\ (x - 1) + 1 = x
      BY <1>4, <3>1
    <3>2. QED
      BY <1>5, <1>7, <3>1
  <2>2. CASE 1 \in S
    <3>1. Last(S) = 1
      <4>1. S \subseteq Nat /\ \A x \in S : x <= 1
        BY <2>1
      <4>2. QED
        BY <2>2, <4>1, LastIs
    <3>2. QED
      BY <1>1, <1>6, <1>7, <2>2, <3>1 DEF Shows
  <2>3. CASE 1 \notin S
    <3>1. S = {}
      BY <2>1, <2>3
    <3>2. QED
      BY <1>1, <1>6, <1>7, <2>3, <3>1 DEF Shows
  <2>4. QED
    BY <2>2, <2>3
<1>8. CASE T # {}
  <2>1. PICK m \in T : m = Last(T) /\ \A x \in T : x <= m
    <3>1. L - 1 \in Nat
      BY <1>3
    <3>2. QED
      BY <1>4, <1>8, <3>1, LastOf
  <2>2. m \in 1..(L - 1) /\ m + 1 \in S /\ r[m] = s[m + 1]
    BY <1>3, <1>4, <1>5
  <2>3. ASSUME NEW x \in S PROVE x <= m + 1
    <3>1. CASE x = 1
      BY <2>2, <3>1
    <3>2. CASE x # 1
      <4>1. x - 1 \in 1..(L - 1) /\ (x - 1) + 1 = x
        BY <1>4, <3>2
      <4>2. x - 1 <= m
        BY <1>5, <2>1, <4>1
      <4>3. QED
        BY <2>2, <4>1, <4>2
    <3>3. QED
      BY <3>1, <3>2
  <2>4. Last(S) = m + 1
    <3>1. S \subseteq Nat
      BY <1>4
    <3>2. QED
      BY <2>2, <2>3, <3>1, LastIs
  <2>5. QED
    BY <1>1, <1>8, <2>1, <2>2, <2>4 DEF Shows
<1>9. QED
  BY <1>7, <1>8

LEMMA ShowsEases ==
  ASSUME NEW k, NEW u, NEW v, Eases(k, u, v), NEW s
  PROVE  Eases(k, Shows(u, s, k), Shows(v, s, k))
BY DEF Eases, Shows

-----------------------------------------------------------------------------
(***************************************************************************)
(* What the tabs show, or will when they have read the cache and applied   *)
(* what was posted to them.                                                *)
(***************************************************************************)
\* A list that is still to be read counts with what the cache holds of it.
Base(t) ==
  [k \in Keys |->
     IF k \notin unread[t] THEN memory[t][k]
     ELSE IF fetched[t] # Nothing /\ fetched[t][1] = k THEN fetched[t][2]
     ELSE rows[k]]

Screen(t) == [k \in Keys |-> Shows(Shows(Base(t)[k], held[t], k), inbox[t], k)]

\* Lists are read, and read once, by pages that hydrate.
Pages ==
  /\ \A t \in Tabs : life[t] # "hydrating" => unread[t] = {} /\ fetched[t] = Nothing
  /\ \A t \in Tabs : fetched[t] # Nothing => fetched[t][1] \in unread[t]

\* A page that still hydrates has no connection, and nothing to tell.
Novice ==
  (engine # NoTab /\ life[engine] # "open") =>
    stream = Down /\ \A i \in DOMAIN ops : ops[i].do = "write"

\* The tab that syncs has received what the one before it broadcast.
Attentive ==
  stream # Down => \A i \in DOMAIN inbox[engine] : inbox[engine][i].is = "cache_delete"

LEMMA PagesInit == Init => Pages /\ Novice /\ Attentive
<1>1. SUFFICES ASSUME Init PROVE Pages /\ Novice /\ Attentive
  OBVIOUS
<1>2. QED
  BY <1>1 DEF Init, Pages, Novice, Attentive

LEMMA PagesNext ==
  ASSUME TypeOK, TypeOK', [Next]_vars, Pages
  PROVE  Pages'
<1>0. /\ life \in [Tabs -> {"closed", "hydrating", "open"}] /\ unread \in [Tabs -> SUBSET Keys]
      /\ fetched \in [Tabs -> {Nothing} \cup (Keys \X Nat)]
  BY DEF TypeOK
<1>1. ASSUME NEW t \in Tabs, Open(t) PROVE Pages'
  BY <1>0, <1>1 DEF Open, Pages
<1>2. ASSUME NEW t \in Tabs, Close(t) PROVE Pages'
  BY <1>0, <1>2 DEF Close, Pages
<1>3. ASSUME NEW t \in Tabs, NEW k \in Keys, FetchList(t, k) PROVE Pages'
  <2>1. /\ k \in unread[t] /\ fetched' = [fetched EXCEPT ![t] = <<k, rows[k]>>] /\ UNCHANGED <<life, unread>>
    BY <1>3 DEF FetchList, HydrationStep
  <2>2. \A u \in Tabs : fetched'[u] = IF u = t THEN <<k, rows[k]>> ELSE fetched[u]
    BY <1>0, <2>1
  <2>3. life[t] = "hydrating"
    BY <2>1 DEF Pages
  <2>4. QED
    BY <2>1, <2>2, <2>3 DEF Pages
<1>4. ASSUME NEW t \in Tabs, NEW k \in Keys, SkipList(t, k) PROVE Pages'
  BY <1>0, <1>4 DEF SkipList, HydrationStep, Pages
<1>5. ASSUME NEW t \in Tabs, SetList(t) PROVE Pages'
  BY <1>0, <1>5 DEF SetList, HydrationStep, Pages
<1>6. ASSUME NEW t \in Tabs, FinishHydration(t) PROVE Pages'
  <2>1. /\ life' = [life EXCEPT ![t] = "open"] /\ UNCHANGED <<unread, fetched>> /\ unread[t] = {}
    BY <1>6 DEF FinishHydration, Hydrated
  <2>2. fetched[t] = Nothing
    BY <2>1 DEF Pages
  <2>3. QED
    BY <1>0, <2>1, <2>2 DEF Pages
<1>7. CASE UNCHANGED pageVars
  BY <1>7 DEF Pages, pageVars
<1>8. UNCHANGED pageVars \/ \E t \in Tabs : Open(t) \/ Close(t) \/ SetList(t) \/ FinishHydration(t)
                                              \/ \E k \in Keys : FetchList(t, k) \/ SkipList(t, k)
  BY DEF Next, ServerNext, Commit, Rejoin, Click, Record, Prune, Hydrate, Deliver, Lead, Grant, StartEngine,
         Dial, Resume, StartOver, Follow, NextEntry, NextRow, CompleteStream, ReceiveAction, Disconnect, UiRemove,
         EngineStep, WriterNext, WriteRow, Wipe, SetCursor, Notify, Flush, Pop, vars
<1>9. QED
  BY <1>1, <1>2, <1>3, <1>4, <1>5, <1>6, <1>7, <1>8

LEMMA NoviceNext ==
  ASSUME TypeOK, TypeOK', [Next]_vars, QueueInv, Novice
  PROVE  Novice'
<1>0. life \in [Tabs -> {"closed", "hydrating", "open"}] /\ engine \in Tabs \cup {NoTab}
  BY DEF TypeOK
<1>1. ASSUME NEW t \in Tabs, Follow(t) \/ Dial(t) PROVE Novice'
  <2>1. engine = t /\ engine' = engine /\ life' = life /\ engine # NoTab
    BY <1>1, TabSyncAssumption DEF Follow, NextEntry, NextRow, CompleteStream, ReceiveAction, Dial, Resume, StartOver, MayDial,
                      Streaming, EngineStep, roleVars, pageVars
  <2>2. CASE life[t] = "open"
    BY <2>1, <2>2 DEF Novice
  <2>3. CASE life[t] # "open"
    BY <1>1, <2>1, <2>3, StreamTypes DEF Follow, NextEntry, NextRow, CompleteStream, Streaming, Dial, Resume, StartOver, MayDial,
                                         Novice
  <2>4. QED
    BY <2>2, <2>3
<1>2. CASE WriterNext
  <2>1. /\ ops # <<>> /\ ops' = Tail(ops) /\ UNCHANGED <<life, engine>>
    BY <1>2 DEF WriterNext, WriteRow, Wipe, SetCursor, Notify, Flush, Pop, roleVars, pageVars
  <2>2. \A i \in DOMAIN ops' : ops'[i] = ops[i + 1] /\ i + 1 \in DOMAIN ops
    BY <2>1, PopFacts
  <2>3. stream = Down => stream' = Down
    BY <1>2, StreamTypes DEF WriterNext, WriteRow, Wipe, SetCursor, Notify, Flush, Flushing, Down
  <2>4. QED
    BY <2>1, <2>2, <2>3 DEF Novice
<1>3. ASSUME NEW t \in Tabs, Close(t), engine = t PROVE Novice'
  BY <1>3 DEF Close, Novice
<1>4. CASE EvictStep /\ engine' # NoTab /\ engine' = engine /\ (life[engine] = "open" => life'[engine] = "open")
  <2>1. /\ \A i \in DOMAIN ops' : \/ i \in DOMAIN ops /\ ops'[i] = ops[i]
                                  \/ ops'[i].do = "write"
        /\ stream' \in {stream, Down}
    <3>1. PICK w \in Seq(Op) : ops' = ops \o w /\ \A n \in DOMAIN w : Evicts(w[n])
      BY <1>4 DEF EvictStep
    <3>2. \A i \in DOMAIN ops' : \/ i \in DOMAIN ops /\ ops'[i] = ops[i]
                                 \/ \E n \in DOMAIN w : ops'[i] = w[n]
      BY <3>1, AppendStill
    <3>3. \A n \in DOMAIN w : w[n].do = "write"
      BY <3>1 DEF Evicts
    <3>4. stream' \in {stream, Down}
      BY <1>4 DEF EvictStep
    <3>5. QED
      BY <3>2, <3>3, <3>4
  <2>2. QED
    BY <1>4, <2>1 DEF Novice
<1>5. CASE EvictStep /\ (engine' = NoTab \/ (engine = NoTab /\ UNCHANGED <<ops, stream>>))
  <2>1. engine = NoTab => DOMAIN ops = {} /\ stream = Down
    BY DEF TypeOK
  <2>2. QED
    BY <1>5, <2>1 DEF Novice
<1>6. ASSUME ~WriterNext, ~\E t \in Tabs : Follow(t) \/ Dial(t) \/ (Close(t) /\ engine = t)
      PROVE  EvictStep
  BY <1>6, RestEvicts DEF Next
<1>7. ASSUME ~WriterNext, ~\E t \in Tabs : Follow(t) \/ Dial(t) \/ (Close(t) /\ engine = t)
      PROVE  \/ engine' = engine /\ (life[engine] = "open" => life'[engine] = "open")
             \/ engine = NoTab /\ UNCHANGED <<ops, stream>>
  <2>1. CASE \E t \in Tabs : StartEngine(t)
    BY <2>1 DEF StartEngine, queueVars
  <2>2. CASE \E t \in Tabs : Close(t) /\ engine # t
    BY <1>0, <2>2 DEF Close
  <2>3. ASSUME NEW t \in Tabs, Open(t) \/ FinishHydration(t)
        PROVE  \/ engine' = engine /\ (life[engine] = "open" => life'[engine] = "open")
               \/ engine = NoTab /\ UNCHANGED <<ops, stream>>
    <3>1. engine' = engine /\ stream' = stream /\ (engine # t => ops' = ops) /\ t # NoTab
      BY <2>3, TabSyncAssumption DEF Open, FinishHydration, Apply, roleVars, queueVars
    <3>2. CASE engine = NoTab
      BY <3>1, <3>2
    <3>3. CASE engine \in Tabs
      BY <1>0, <2>3, <3>1, <3>3 DEF Open, FinishHydration
    <3>4. QED
      BY <1>0, <3>2, <3>3
  <2>4. CASE UNCHANGED <<engine, life>>
    BY <2>4
  <2>5. QED
    BY <1>7, <2>1, <2>2, <2>3, <2>4
       DEF Next, ServerNext, Commit, Rejoin, Click, Record, Prune, Hydrate, FetchList, SkipList, SetList, HydrationStep,
           Deliver, Lead, Grant, Disconnect, UiRemove, EngineStep, vars, pageVars, roleVars
<1>8. QED
  BY <1>1, <1>2, <1>3, <1>4, <1>5, <1>6, <1>7

LEMMA AttentiveNext ==
  ASSUME TypeOK, TypeOK', [Next]_vars, QueueInv, Attentive, Novice, "slow" \notin scenario.races
  PROVE  Attentive'
<1>0. inbox \in [Tabs -> Seq(Message)] /\ engine \in Tabs \cup {NoTab}
  BY DEF TypeOK
<1>1. ASSUME NEW t \in Tabs, Dial(t) PROVE Attentive'
  BY <1>1 DEF Dial, Resume, StartOver, MayDial, EngineStep, roleVars, Attentive
<1>2. ASSUME NEW t \in Tabs, Close(t) PROVE Attentive'
  BY <1>0, <1>2 DEF Close, Attentive
<1>3. ASSUME NEW t \in Tabs, Deliver(t) PROVE Attentive'
  <2>1. inbox[t] # <<>> /\ inbox' = [inbox EXCEPT ![t] = Tail(@)] /\ UNCHANGED <<engine, stream>>
    BY <1>3 DEF Deliver, roleVars
  <2>2. \A i \in DOMAIN Tail(inbox[t]) : Tail(inbox[t])[i] = inbox[t][i + 1] /\ i + 1 \in DOMAIN inbox[t]
    BY <1>0, <2>1, HeadFacts
  <2>3. QED
    BY <1>0, <2>1, <2>2 DEF Attentive
<1>4. ASSUME NEW t \in Tabs, NEW k \in Keys, UiRemove(t, k) PROVE Attentive'
  <2>1. \A u \in Tabs : inbox'[u] = inbox[u] \/ inbox'[u] = Append(inbox[u], CacheDelete(k))
    BY <1>0, <1>4 DEF UiRemove, Posted
  <2>2. \A u \in Tabs : (\A i \in DOMAIN inbox[u] : inbox[u][i].is = "cache_delete")
                          => \A i \in DOMAIN inbox'[u] : inbox'[u][i].is = "cache_delete"
    <3>1. SUFFICES ASSUME NEW u \in Tabs, \A i \in DOMAIN inbox[u] : inbox[u][i].is = "cache_delete",
                          inbox'[u] = Append(inbox[u], CacheDelete(k)), NEW i \in DOMAIN inbox'[u]
                   PROVE  inbox'[u][i].is = "cache_delete"
      BY <2>1
    <3>2. CacheDelete(k) \in Message /\ CacheDelete(k).is = "cache_delete"
      BY MessageTypes DEF CacheDelete
    <3>3. PICK L \in Nat : /\ L = Len(inbox[u]) /\ DOMAIN inbox[u] = 1..L /\ DOMAIN inbox'[u] = 1..(L + 1)
                           /\ inbox'[u][L + 1] = CacheDelete(k) /\ \A j \in 1..L : inbox'[u][j] = inbox[u][j]
      BY <1>0, <3>1, <3>2, AppendFacts
    <3>4. i \in 1..L \/ i = L + 1
      BY <3>3
    <3>5. QED
      BY <3>1, <3>2, <3>3, <3>4
  <2>3. UNCHANGED <<engine, stream>>
    BY <1>4 DEF UiRemove, roleVars
  <2>4. stream # Down => engine \in Tabs
    BY <1>0 DEF TypeOK
  <2>5. QED
    BY <2>2, <2>3, <2>4 DEF Attentive
<1>5. CASE Notify
  <2>1. inbox' = Posted(engine, Head(ops).msg) /\ UNCHANGED <<engine, stream>>
    BY <1>5 DEF Notify, Pop, roleVars
  <2>2. engine \in Tabs => inbox'[engine] = inbox[engine]
    BY <1>0, <2>1 DEF Posted
  <2>3. stream # Down => engine \in Tabs
    BY <1>0 DEF TypeOK
  <2>4. QED
    BY <2>1, <2>2, <2>3 DEF Attentive
<1>6. ASSUME NEW t \in Tabs, StartEngine(t) PROVE Attentive'
  <2>1. stream = Down
    BY <1>6 DEF StartEngine, TypeOK
  <2>2. QED
    BY <1>6, <2>1 DEF StartEngine, Attentive
<1>7. CASE inbox' = inbox /\ engine' = engine /\ (stream = Down => stream' = Down)
  BY <1>7 DEF Attentive
<1>8. ASSUME ~Notify, ~\E t \in Tabs : Dial(t) \/ Close(t) \/ Deliver(t) \/ StartEngine(t) \/ \E k \in Keys : UiRemove(t, k)
      PROVE  inbox' = inbox /\ engine' = engine /\ (stream = Down => stream' = Down)
  <2>1. CASE WriterNext
    BY <1>8, <2>1, StreamTypes DEF WriterNext, WriteRow, Wipe, SetCursor, Flush, Pop, roleVars, Down, Flushing
  <2>2. CASE \E t \in Tabs : Follow(t)
    BY <2>2, StreamTypes DEF Follow, NextEntry, NextRow, CompleteStream, Streaming, ReceiveAction, EngineStep, roleVars
  <2>3. QED
    BY <1>8, <2>1, <2>2 DEF Next, ServerNext, Commit, Rejoin, Click, Record, Prune, Open, Hydrate, FetchList, SkipList, SetList,
                            HydrationStep, FinishHydration, Lead, Grant, Disconnect, EngineStep, vars, roleVars
<1>9. QED
  BY <1>1, <1>2, <1>3, <1>4, <1>5, <1>6, <1>7, <1>8

-----------------------------------------------------------------------------
(***************************************************************************)
(* What the steps do to what a tab shows.                                  *)
(***************************************************************************)
LEMMA Seen ==
  ASSUME NEW t, NEW k \in Keys
  PROVE  /\ Screen(t)[k] = Shows(Shows(Base(t)[k], held[t], k), inbox[t], k)
         /\ Screen(t)'[k] = Shows(Shows(Base(t)'[k], held'[t], k), inbox'[t], k)
BY DEF Screen

LEMMA Based ==
  ASSUME NEW t, NEW k \in Keys
  PROVE  /\ Base(t)[k] = IF k \notin unread[t] THEN memory[t][k]
                         ELSE IF fetched[t] # Nothing /\ fetched[t][1] = k THEN fetched[t][2]
                         ELSE rows[k]
         /\ Base(t)'[k] = IF k \notin unread'[t] THEN memory'[t][k]
                          ELSE IF fetched'[t] # Nothing /\ fetched'[t][1] = k THEN fetched'[t][2]
                          ELSE rows'[k]
BY DEF Base

LEMMA BaseStill ==
  ASSUME NEW t, rows' = rows, unread'[t] = unread[t], fetched'[t] = fetched[t], memory'[t] = memory[t], NEW k \in Keys
  PROVE  Base(t)'[k] = Base(t)[k]
BY Based

LEMMA ScreenStill ==
  ASSUME NEW t, rows' = rows, unread'[t] = unread[t], fetched'[t] = fetched[t], memory'[t] = memory[t],
         held'[t] = held[t], inbox'[t] = inbox[t], NEW k \in Keys
  PROVE  Screen(t)'[k] = Screen(t)[k]
BY Seen, BaseStill

LEMMA SameBase ==
  ASSUME NEW t, NEW k \in Keys, Base(t)'[k] = Base(t)[k], held'[t] = held[t], inbox'[t] = inbox[t]
  PROVE  Screen(t)'[k] = Screen(t)[k]
BY Seen

LEMMA ScreenHydrates ==
  ASSUME TypeOK, TypeOK', Pages, "hydrate" \notin scenario.faults, NEW t \in Tabs, Hydrate(t), NEW k \in Keys
  PROVE  Screen(t)'[k] = Screen(t)[k]
<1>0. /\ memory \in [Tabs -> [Keys -> Nat]] /\ unread \in [Tabs -> SUBSET Keys]
      /\ fetched \in [Tabs -> {Nothing} \cup (Keys \X Nat)] /\ held \in [Tabs -> Seq(Message)]
      /\ life \in [Tabs -> {"closed", "hydrating", "open"}]
  BY DEF TypeOK
<1>1. ASSUME NEW j \in Keys, FetchList(t, j) PROVE Screen(t)'[k] = Screen(t)[k]
  <2>1. /\ fetched[t] = Nothing /\ fetched'[t] = <<j, rows[j]>> /\ UNCHANGED <<unread, memory, rows, held, inbox>>
    BY <1>0, <1>1 DEF FetchList, HydrationStep, idbVars
  <2>2. <<j, rows[j]>> # Nothing /\ <<j, rows[j]>>[1] = j /\ <<j, rows[j]>>[2] = rows[j]
    BY DEF Nothing
  <2>3. Base(t)'[k] = Base(t)[k]
    BY <2>1, <2>2, Based
  <2>4. QED
    BY <2>1, <2>3, SameBase
<1>2. ASSUME SetList(t) PROVE Screen(t)'[k] = Screen(t)[k]
  <2>1. /\ fetched[t] # Nothing /\ fetched'[t] = Nothing /\ unread'[t] = unread[t] \ {fetched[t][1]}
        /\ UNCHANGED <<rows, held, inbox>> /\ fetched[t][1] \in unread[t] /\ fetched[t][1] \in Keys
    BY <1>0, <1>2 DEF SetList, HydrationStep, idbVars, Pages
  <2>2. memory[t] \in [Keys -> Nat] /\ memory'[t] = [memory[t] EXCEPT ![fetched[t][1]] = fetched[t][2]]
    BY <1>0, <1>2 DEF SetList
  <2>3. memory'[t][k] = IF k = fetched[t][1] THEN fetched[t][2] ELSE memory[t][k]
    BY <2>1, <2>2
  <2>4. Base(t)'[k] = Base(t)[k]
    <3>1. CASE k = fetched[t][1]
      <4>1. Base(t)[k] = fetched[t][2]
        BY <2>1, <3>1, Based
      <4>2. Base(t)'[k] = memory'[t][k]
        BY <2>1, <3>1, Based
      <4>3. QED
        BY <2>3, <3>1, <4>1, <4>2
    <3>2. CASE k # fetched[t][1]
      <4>1. Base(t)[k] = IF k \notin unread[t] THEN memory[t][k] ELSE rows[k]
        BY <3>2, Based
      <4>2. Base(t)'[k] = IF k \notin unread'[t] THEN memory'[t][k] ELSE rows'[k]
        BY <2>1, Based
      <4>3. k \in unread'[t] <=> k \in unread[t]
        BY <2>1, <3>2
      <4>4. QED
        BY <2>1, <2>3, <3>2, <4>1, <4>2, <4>3
    <3>3. QED
      BY <3>1, <3>2
  <2>5. QED
    BY <2>1, <2>4, SameBase
<1>3. ASSUME FinishHydration(t) PROVE Screen(t)'[k] = Screen(t)[k]
  <2>1. /\ UNCHANGED <<unread, inbox>> /\ unread[t] = {} /\ held'[t] = <<>>
        /\ memory'[t] = Replay(memory[t], held[t])
    BY <1>0, <1>3 DEF FinishHydration, Hydrated, Apply
  <2>2. Base(t)[k] = memory[t][k] /\ Base(t)'[k] = memory'[t][k]
    BY <2>1, Based
  <2>3. memory'[t][k] = Shows(memory[t][k], held[t], k)
    BY <2>1, ReplayShows
  <2>4. Shows(memory'[t][k], held'[t], k) = memory'[t][k]
    BY <2>1, ShowsEmpty
  <2>5. QED
    BY <2>1, <2>2, <2>3, <2>4, Seen
<1>4. QED
  BY <1>1, <1>2, <1>3 DEF Hydrate, SkipList

LEMMA ScreenDelivers ==
  ASSUME TypeOK, Pages, NEW t \in Tabs, Deliver(t), NEW k \in Keys
  PROVE  Screen(t)'[k] = Screen(t)[k]
<1>1. PICK i \in Seq(Message) : i = inbox[t]
  BY DEF TypeOK
<1>2. PICK h \in Seq(Message) : h = held[t]
  BY DEF TypeOK
<1>3. i # <<>> /\ inbox'[t] = Tail(i) /\ UNCHANGED <<rows, unread, fetched>>
  BY <1>1 DEF Deliver, TypeOK, idbVars, pageVars
<1>4. Head(i) = i[1] /\ i[1] \in Message
  BY <1>3, HeadFacts
<1>5. PICK b : b = Base(t)[k]
  OBVIOUS
<1>6. Screen(t)[k] = Shows(Shows(b, h, k), i, k)
  BY <1>1, <1>2, <1>5, Seen
<1>7. PICK m \in Message : m = i[1]
  BY <1>4
<1>8. \A v, u : u = (IF Touches(m, k) THEN Brings(m) ELSE v) => Shows(u, Tail(i), k) = Shows(v, i, k)
  BY <1>3, <1>7, ShowsTail
<1>9. CASE life[t] = "hydrating" /\ held' = [held EXCEPT ![t] = Append(@, Head(inbox[t]))] /\ UNCHANGED storeVars
  <2>1. held'[t] = Append(h, m) /\ memory' = memory
    BY <1>1, <1>2, <1>4, <1>7, <1>9 DEF TypeOK, storeVars
  <2>2. Shows(b, held'[t], k) = IF Touches(m, k) THEN Brings(m) ELSE Shows(b, h, k)
    <3>1. \A v, r : r = Append(h, m) => Shows(v, r, k) = IF Touches(m, k) THEN Brings(m) ELSE Shows(v, h, k)
      BY ShowsLast
    <3>2. QED
      BY <2>1, <3>1
  <2>3. Base(t)'[k] = b
    BY <1>3, <1>5, <2>1, BaseStill
  <2>4. Screen(t)'[k] = Shows(Shows(b, held'[t], k), Tail(i), k)
    BY <1>3, <2>3, Seen
  <2>5. QED
    BY <1>6, <1>8, <2>2, <2>4
<1>10. CASE life[t] = "open" /\ Apply(t, memory[t], initialized[t], <<Head(inbox[t])>>) /\ UNCHANGED held
  <2>1. h = <<>> /\ held'[t] = <<>> /\ unread[t] = {}
    BY <1>2, <1>10 DEF TypeOK, Pages
  <2>2. memory'[t] = Replay(memory[t], <<m>>)
    BY <1>1, <1>4, <1>7, <1>10 DEF Apply, TypeOK
  <2>3. b = memory[t][k] /\ Base(t)'[k] = memory'[t][k]
    BY <1>3, <1>5, <2>1, Based
  <2>4. memory'[t][k] = IF Touches(m, k) THEN Brings(m) ELSE b
    BY <2>2, <2>3, ReplayShows, ShowsOne
  <2>5. Shows(b, h, k) = b /\ Shows(memory'[t][k], held'[t], k) = memory'[t][k]
    BY <2>1, ShowsEmpty
  <2>6. Screen(t)'[k] = Shows(memory'[t][k], Tail(i), k)
    BY <1>3, <2>3, <2>5, Seen
  <2>7. QED
    BY <1>6, <1>8, <2>4, <2>5, <2>6
<1>11. QED
  BY <1>9, <1>10 DEF Deliver

\* A message is posted by tab t.
LEMMA ScreenPosted ==
  ASSUME TypeOK, NEW t, NEW m \in Message, inbox' = Posted(t, m), UNCHANGED <<rows, held, memory, pageVars>>,
         NEW u \in Tabs, life[u] # "closed", NEW k \in Keys
  PROVE  Screen(u)'[k] = IF u # t /\ Touches(m, k) THEN Brings(m) ELSE Screen(u)[k]
<1>1. PICK i \in Seq(Message) : i = inbox[u]
  BY DEF TypeOK
<1>2. inbox'[u] = IF u # t THEN Append(i, m) ELSE i
  BY <1>1 DEF Posted
<1>3. Base(u)'[k] = Base(u)[k]
  BY BaseStill DEF pageVars
<1>4. \A v : Shows(v, Append(i, m), k) = IF Touches(m, k) THEN Brings(m) ELSE Shows(v, i, k)
  BY ZenonT(60), ShowsLast
<1>5. QED
  BY <1>1, <1>2, <1>3, <1>4, Seen

LEMMA ScreenRemoved ==
  ASSUME TypeOK, QueueInv, NEW u \in Tabs, NEW j \in Keys, UiRemove(u, j), NEW t \in Tabs, life[t] # "closed", NEW k \in Keys
  PROVE  Eases(k, Screen(t)[k], Screen(t)'[k])
<1>1. CASE t = u
  <2>1. inbox'[t] = inbox[t]
    BY <1>1 DEF UiRemove, Posted, TypeOK
  <2>2. /\ UNCHANGED <<rows, unread, fetched, held>> /\ (j \in Tame => Over(j))
    BY <1>1 DEF UiRemove, idbVars, pageVars, QueueInv, Ended, TypeOK
  <2>3. memory[t] \in [Keys -> Nat] /\ memory'[t] = [memory[t] EXCEPT ![j] = Absent]
    BY <1>1 DEF UiRemove, TypeOK
  <2>4. memory'[t][k] = memory[t][k] \/ (k = j /\ memory'[t][k] = Absent)
    BY <2>3
  <2>5. Eases(k, Base(t)[k], Base(t)'[k])
    <3>1. CASE k \in unread[t]
      <4>1. Base(t)'[k] = Base(t)[k]
        BY <2>2, <3>1, Based
      <4>2. QED
        BY <4>1 DEF Eases
    <3>2. CASE k \notin unread[t]
      <4>1. Base(t)[k] = memory[t][k] /\ Base(t)'[k] = memory'[t][k]
        BY <2>2, <3>2, Based
      <4>2. QED
        BY <2>2, <2>4, <4>1 DEF Eases
    <3>3. QED
      BY <3>1, <3>2
  <2>6. PICK v : v = Base(t)[k]
    OBVIOUS
  <2>7. PICK w : w = Base(t)'[k]
    OBVIOUS
  <2>8. Eases(k, Shows(Shows(v, held[t], k), inbox[t], k), Shows(Shows(w, held[t], k), inbox[t], k))
    BY <2>5, <2>6, <2>7, ShowsEases
  <2>9. Screen(t)[k] = Shows(Shows(v, held[t], k), inbox[t], k) /\ Screen(t)'[k] = Shows(Shows(w, held[t], k), inbox[t], k)
    <3>1. held'[t] = held[t]
      BY <2>2
    <3>2. QED
      BY <2>1, <2>6, <2>7, <3>1, Seen
  <2>10. QED
    BY <2>8, <2>9
<1>2. CASE t # u
  <2>1. UNCHANGED <<rows, pageVars, held>> /\ memory'[t] = memory[t]
    BY <1>2 DEF UiRemove, idbVars, TypeOK
  <2>2. PICK i \in Seq(Message) : i = inbox[t]
    BY DEF TypeOK
  <2>3. inbox'[t] = i \/ inbox'[t] = Append(i, CacheDelete(j))
    BY <2>2 DEF UiRemove, Posted
  <2>4. CacheDelete(j) \in Message /\ ~Touches(CacheDelete(j), k)
    BY MessageTypes DEF Touches, CacheDelete
  <2>5. \A v : Shows(v, inbox'[t], k) = Shows(v, i, k)
    BY <2>3, <2>4, ShowsLast
  <2>6. Base(t)'[k] = Base(t)[k]
    BY <2>1, BaseStill DEF pageVars
  <2>7. Screen(t)'[k] = Screen(t)[k]
    BY <2>1, <2>2, <2>5, <2>6, Seen
  <2>8. QED
    BY <2>7 DEF Eases
<1>3. QED
  BY <1>1, <1>2

\* The tab that writes the cache does not hear its own broadcasts.
Heeds(t) == IF t = engine THEN <<>> ELSE ops

LEMMA HeedsStill ==
  ASSUME NEW t, engine' = engine
  PROVE  Hears(Heeds(t), Heeds(t)')
BY DEF Heeds, Hears

LEMMA ScreenKept ==
  ASSUME TypeOK, TypeOK', QueueInv, Pages, "hydrate" \notin scenario.faults,
         NEW t \in Tabs, life[t] # "closed", life'[t] # "closed",
         ServerNext \/ UNCHANGED vars
         \/ \E u \in Tabs : \/ Open(u) \/ Hydrate(u) \/ Deliver(u) \/ Lead(u) \/ Disconnect(u)
                            \/ (Close(u) /\ engine # u) \/ \E k \in Keys : UiRemove(u, k)
  PROVE  Hears(Heeds(t), Heeds(t)') /\ \A k \in Keys : Eases(k, Screen(t)[k], Screen(t)'[k])
<1>0. \A k \in Keys : Screen(t)'[k] = Screen(t)[k] => Eases(k, Screen(t)[k], Screen(t)'[k])
  BY DEF Eases
<1>1. CASE /\ rows' = rows /\ unread'[t] = unread[t] /\ fetched'[t] = fetched[t] /\ memory'[t] = memory[t]
           /\ held'[t] = held[t] /\ inbox'[t] = inbox[t] /\ engine' = engine
  BY <1>0, <1>1, ScreenStill, HeedsStill
<1>2. CASE ServerNext \/ UNCHANGED vars
  BY <1>1, <1>2 DEF ServerNext, Commit, Rejoin, Click, Record, Prune, vars, idbVars, pageVars, storeVars, roleVars
<1>3. ASSUME NEW u \in Tabs, Lead(u) \/ Disconnect(u)
      PROVE  Hears(Heeds(t), Heeds(t)') /\ \A k \in Keys : Eases(k, Screen(t)[k], Screen(t)'[k])
  <2>1. /\ UNCHANGED <<rows, unread, fetched, memory, held, inbox, ops>>
        /\ engine' = engine \/ engine = NoTab
    BY <1>3 DEF Lead, Grant, StartEngine, Disconnect, EngineStep, idbVars, pageVars, storeVars, roleVars, queueVars
  <2>2. engine = NoTab => ops = <<>>
    BY DEF TypeOK
  <2>3. Hears(Heeds(t), Heeds(t)')
    BY <2>1, <2>2 DEF Heeds, Hears
  <2>4. QED
    BY <1>0, <2>1, <2>3, ScreenStill
<1>4. ASSUME NEW u \in Tabs, Open(u) \/ (Close(u) /\ engine # u)
      PROVE  Hears(Heeds(t), Heeds(t)') /\ \A k \in Keys : Eases(k, Screen(t)[k], Screen(t)'[k])
  <2>1. u # t
    BY <1>4 DEF Open, Close, TypeOK
  <2>2. rows' = rows /\ engine' = engine
    BY <1>4 DEF Open, Close, idbVars, roleVars
  <2>3. /\ unread'[t] = unread[t] /\ fetched'[t] = fetched[t] /\ memory'[t] = memory[t]
        /\ held'[t] = held[t] /\ inbox'[t] = inbox[t]
    <3>1. CASE Open(u)
      BY <2>1, <3>1 DEF Open, TypeOK, storeVars
    <3>2. CASE Close(u)
      BY <2>1, <3>2 DEF Close, TypeOK
    <3>3. QED
      BY <1>4, <3>1, <3>2
  <2>4. QED
    BY <1>1, <2>2, <2>3
<1>5. ASSUME NEW u \in Tabs, Hydrate(u)
      PROVE  Hears(Heeds(t), Heeds(t)') /\ \A k \in Keys : Eases(k, Screen(t)[k], Screen(t)'[k])
  <2>1. engine' = engine
    BY <1>5 DEF Hydrate, FetchList, SkipList, SetList, HydrationStep, FinishHydration, roleVars
  <2>2. CASE u = t
    BY <1>0, <1>5, <2>1, <2>2, ScreenHydrates, HeedsStill
  <2>3. CASE u # t
    BY ZenonT(60), <1>1, <1>5, <2>1, <2>3
       DEF Hydrate, FetchList, SkipList, SetList, HydrationStep, FinishHydration, Apply, TypeOK, idbVars
  <2>4. QED
    BY <2>2, <2>3
<1>6. ASSUME NEW u \in Tabs, Deliver(u)
      PROVE  Hears(Heeds(t), Heeds(t)') /\ \A k \in Keys : Eases(k, Screen(t)[k], Screen(t)'[k])
  <2>1. engine' = engine
    BY <1>6 DEF Deliver, roleVars
  <2>2. CASE u = t
    BY <1>0, <1>6, <2>1, <2>2, ScreenDelivers, HeedsStill
  <2>3. CASE u # t
    <3>1. rows' = rows /\ unread'[t] = unread[t] /\ fetched'[t] = fetched[t]
      BY <1>6 DEF Deliver, idbVars, pageVars
    <3>2. inbox'[t] = inbox[t] /\ held'[t] = held[t]
      BY <1>6, <2>3 DEF Deliver, TypeOK
    <3>3. memory'[t] = memory[t]
      BY <1>6, <2>3 DEF Deliver, Apply, TypeOK, storeVars
    <3>4. QED
      BY <1>1, <2>1, <3>1, <3>2, <3>3
  <2>4. QED
    BY <2>2, <2>3
<1>7. ASSUME NEW u \in Tabs, NEW j \in Keys, UiRemove(u, j)
      PROVE  Hears(Heeds(t), Heeds(t)') /\ \A k \in Keys : Eases(k, Screen(t)[k], Screen(t)'[k])
  <2>1. engine' = engine
    BY <1>7 DEF UiRemove, roleVars
  <2>2. QED
    BY <1>7, <2>1, ScreenRemoved, HeedsStill
<1>8. QED
  BY <1>2, <1>3, <1>4, <1>5, <1>6, <1>7

\* An open tab that is only asked for deletes shows what its lists hold.
LEMMA ScreenOwn ==
  ASSUME TypeOK, Pages, NEW t \in Tabs, life[t] = "open", \A i \in DOMAIN inbox[t] : inbox[t][i].is = "cache_delete",
         NEW k \in Keys
  PROVE  /\ Screen(t)[k] = memory[t][k]
         /\ UNCHANGED <<pageVars, held, inbox>> => Screen(t)'[k] = memory'[t][k]
<1>1. unread[t] = {} /\ held[t] = <<>>
  BY DEF TypeOK, Pages
<1>2. \A v : Shows(Shows(v, held[t], k), inbox[t], k) = v
  BY <1>1, ShowsEmpty, ShowsEvicts
<1>3. Base(t)[k] = memory[t][k]
  BY <1>1, Based
<1>4. UNCHANGED <<pageVars, held, inbox>> => Base(t)'[k] = memory'[t][k]
  BY <1>1, Based DEF pageVars
<1>5. QED
  BY <1>2, <1>3, <1>4, Seen

LEMMA ScreenFollow ==
  ASSUME TypeOK, Pages, Novice, Attentive, NEW u \in Tabs, Follow(u), NEW t \in Tabs, life[t] # "closed",
         NEW q, NEW r, NEW f, NEW g, q = Heeds(t), r = Heeds(t)', f = Screen(t), g = Screen(t)'
  PROVE  Receives(u, q, r, f, g)
<1>1. /\ engine = u /\ UNCHANGED <<engine, rows, pageVars, held, inbox>> /\ stream # Down
      /\ \A v \in Tabs : v # u => memory'[v] = memory[v]
  BY StreamTypes DEF Follow, NextEntry, NextRow, CompleteStream, Streaming, ReceiveAction, EngineStep, roleVars, idbVars,
                     storeVars, TypeOK
<1>2. CASE t = u
  <2>1. life[u] = "open" /\ \A i \in DOMAIN inbox[u] : inbox[u][i].is = "cache_delete"
    BY <1>1, TabSyncAssumption DEF Novice, Attentive
  <2>2. \A k \in Keys : Screen(u)[k] = memory[u][k] /\ Screen(u)'[k] = memory'[u][k]
    BY <1>1, <2>1, ScreenOwn
  <2>3. q = <<>> /\ r = <<>>
    BY <1>1, <1>2 DEF Heeds
  <2>4. QED
    BY <1>2, <2>2, <2>3 DEF Receives
<1>3. CASE t # u
  <2>1. \A k \in Keys : Screen(t)'[k] = Screen(t)[k]
    BY <1>1, <1>3, ScreenStill DEF pageVars
  <2>2. q = ops /\ r = ops'
    BY <1>1, <1>3 DEF Heeds
  <2>3. QED
    BY <2>1, <2>2 DEF Receives
<1>4. QED
  BY <1>2, <1>3

\* The cache has been written.
LEMMA ScreenWritten ==
  ASSUME UNCHANGED <<memory, held, inbox, pageVars>>, NEW t, NEW k \in Keys
  PROVE  \/ Screen(t)'[k] = Screen(t)[k]
         \/ k \in unread[t] /\ Screen(t)'[k] = rows'[k] /\ rows'[k] # rows[k]
<1>1. Base(t)'[k] = Base(t)[k] \/ (k \in unread[t] /\ Base(t)'[k] = rows'[k] /\ rows'[k] # rows[k])
  BY Based DEF pageVars
<1>2. \A v, w : Shows(Shows(w, held[t], k), inbox[t], k) = Shows(Shows(v, held[t], k), inbox[t], k)
                \/ Shows(Shows(w, held[t], k), inbox[t], k) = w
  BY DEF Shows
<1>3. QED
  BY <1>1, <1>2, Seen

LEMMA ViewSame ==
  ASSUME NEW r, NEW f, NEW g, UpToDate(View(f, r))', \A k \in Keys : g[k] = f[k]
  PROVE  UpToDate(View(g, r))'
<1>1. PICK V : V = View(f, r)
  OBVIOUS
<1>2. PICK W : W = View(g, r)
  OBVIOUS
<1>3. UpToDate(V)'
  BY <1>1 DEF View, Heard, Told, Touches, Brings
<1>4. \A k \in Keys : W.now[k] = V.now[k] /\ W.ahead[k] = V.ahead[k] /\ W.all[k] = V.all[k]
  BY <1>1, <1>2 DEF View
<1>5. UpToDate(W)'
  BY <1>3, <1>4 DEF UpToDate, Tame, Heeded
<1>6. QED
  BY <1>2, <1>5 DEF View, Heard, Told, Touches, Brings

LEMMA ScreenWriter ==
  ASSUME TypeOK, TypeOK', [Next]_vars, QueueInv, Pages, Novice, WriterNext, NEW t \in Tabs, life[t] # "closed",
         NEW q, NEW r, NEW f, NEW g, q = Heeds(t), r = Heeds(t)', f = Screen(t), g = Screen(t)',
         UpToDate(View(f, q)), stream = Flushing => \A k \in Keys : View(f, q).all[k] = Absent
  PROVE  UpToDate(View(g, r))'
<1>1. /\ ops # <<>> /\ ops' = Tail(ops) /\ UNCHANGED <<log, floor, engine, memory, held, pageVars>>
  BY DEF WriterNext, WriteRow, Wipe, SetCursor, Notify, Flush, Pop, serverVars, roleVars, storeVars
<1>2. Head(ops) = ops[1] /\ 1 \in DOMAIN ops /\ ops[1] \in Op
  BY <1>1, PopFacts
<1>3. Hears(q, r) /\ (q = <<>> => t = engine)
  <2>1. Hears(q, r)
    BY <1>1, HeedsStill
  <2>2. q = <<>> => t = engine
    BY <1>1 DEF Heeds
  <2>3. QED
    BY <2>1, <2>2
<1>4. CASE WriteRow
  <2>1. ops[1].do = "write"
    BY <1>2, <1>4 DEF WriteRow, Pop
  <2>2. \A k \in Keys : rows'[k] = rows[k] \/ (k = ops[1].key /\ rows'[k] = ops[1].val /\ rows' # rows)
    <3>1. rows' = rows \/ rows' = [rows EXCEPT ![ops[1].key] = ops[1].val]
      BY <1>2, <1>4 DEF WriteRow
    <3>2. rows \in [Keys -> Nat]
      BY DEF TypeOK
    <3>3. QED
      BY <3>1, <3>2
  <2>3. \A k \in Keys : g[k] = f[k] \/ (k \in unread[t] /\ g[k] = rows'[k] /\ rows'[k] # rows[k])
    <3>1. inbox' = inbox
      BY <1>4 DEF WriteRow
    <3>2. QED
      BY <1>1, <3>1, ScreenWritten
  <2>4. \A k \in Keys : g[k] = f[k] \/ (rows' # rows /\ k = ops[1].key /\ g[k] = ops[1].val)
    BY <2>2, <2>3
  <2>5. ~failedWrites' => failedWrites' = failedWrites
    BY <1>4 DEF WriteRow
  <2>6. q = <<>> => (\A k \in Keys : g[k] = f[k]) \/ Evicts(ops[1])
    <3>1. SUFFICES ASSUME t = engine PROVE (\A k \in Keys : g[k] = f[k]) \/ Evicts(ops[1])
      BY <1>3
    <3>2. CASE life[t] = "open"
      <4>1. unread[t] = {}
        BY <3>2 DEF Pages
      <4>2. QED
        BY <2>3, <4>1
    <3>3. CASE life[t] # "open"
      <4>1. \A i \in DOMAIN ops : ops[i].do = "write"
        BY <3>1, <3>3, TabSyncAssumption DEF Novice
      <4>2. \A k \in Keys : NotifyOp(Action(ops[1].key, ops[1].val)).do # "write"
        BY DEF NotifyOp
      <4>3. Passed(1)
        BY <1>2 DEF QueueInv, Items
      <4>4. QED
        BY <2>1, <4>1, <4>3 DEF Passed, NotifyOp
    <3>4. QED
      BY <3>2, <3>3
  <2>7. QED
    BY <1>3, <1>4, <2>4, <2>5, <2>6, ViewWritten
<1>5. CASE Wipe \/ (Flush /\ stream # Flushing)
  <2>1. PICK o \in Op : o = ops[1]
    BY <1>2
  <2>2. o.do \in {"wipe", "flush"}
    BY <1>2, <1>5, <2>1 DEF Wipe, Flush, Pop
  <2>3. o = WipeOp \/ o = FlushOp
    BY <2>2, OpParts
  <2>4. Clearing
    BY <1>2, <2>1, <2>3 DEF QueueInv, Shape
  <2>5. cursor' = cursor /\ stream' = stream
    BY <1>5 DEF Wipe, Flush, idbVars
  <2>6. PICK W : W = View(g, r)
    OBVIOUS
  <2>7. UpToDate(W)'
    BY <1>1, <2>4, <2>5, ViewIdle
  <2>8. QED
    BY <2>6, <2>7 DEF View, Heard, Told, Touches, Brings
<1>6. CASE SetCursor \/ Flush
  <2>1. inbox' = inbox /\ rows' = rows
    BY <1>6 DEF SetCursor, Flush, idbVars
  <2>2. \A k \in Keys : g[k] = f[k]
    BY <1>1, <2>1, ScreenWritten
  <2>3. CASE SetCursor
    <3>1. UpToDate(View(f, r))'
      BY <1>3, <2>3, ViewClaimed
    <3>2. QED
      BY <2>2, <3>1, ViewSame
  <2>4. CASE Flush /\ stream = Flushing
    <3>1. UpToDate(View(f, r))'
      BY <1>3, <2>4, ViewFlushed
    <3>2. QED
      BY <2>2, <3>1, ViewSame
  <2>5. QED
    BY <1>5, <1>6, <2>3, <2>4
<1>7. CASE Notify
  <2>1. PICK o \in Op : o = ops[1] /\ o.do = "notify"
    BY <1>2, <1>7 DEF Notify, Pop
  <2>2. PICK m \in Message : m = ops[1].msg
    BY <2>1, OpParts
  <2>3. rows' = rows /\ inbox' = Posted(engine, m)
    BY <1>2, <1>7, <2>2 DEF Notify, idbVars
  <2>4. \A k \in Keys : g[k] = IF t # engine /\ Touches(m, k) THEN Brings(m) ELSE f[k]
    BY <1>1, <2>3, ScreenPosted
  <2>5. /\ q = <<>> => \A k \in Keys : g[k] = f[k]
        /\ \A k \in Keys : ~Touches(ops[1].msg, k) => g[k] = f[k]
        /\ \A k \in Keys : Touches(ops[1].msg, k) => g[k] \in {f[k], Brings(ops[1].msg)}
    BY <1>3, <2>2, <2>4
  <2>6. q # <<>> /\ ~failedWrites => \A k \in Keys : Touches(ops[1].msg, k) /\ ops[1].msg.is = "action"
                                                   => g[k] = Brings(ops[1].msg)
    BY <2>2, <2>4 DEF Heeds
  <2>7. QED
    BY <1>3, <1>7, <2>5, <2>6, ViewTold
<1>8. QED
  BY <1>4, <1>5, <1>6, <1>7 DEF WriterNext

-----------------------------------------------------------------------------
(***************************************************************************)
(* The screens.                                                            *)
(***************************************************************************)
ScreensUp == \A t \in Tabs : life[t] # "closed" => UpToDate(View(Screen(t), Heeds(t)))

\* While the cache is being cleared, every tab shows nothing or will be told to.
Blank(t) == \A k \in Keys : Heard(Screen(t)[k], Heeds(t), k, {}) = Absent

Cleared == stream = Flushing => \A t \in Tabs : life[t] # "closed" => Blank(t)

LEMMA ScreensRenamed ==
  ASSUME NEW t, NEW g, NEW r, g = Screen(t)', r = Heeds(t)', UpToDate(View(g, r))'
  PROVE  UpToDate(View(Screen(t), Heeds(t)))'
BY ZenonT(60) DEF View, Heard, Told, Touches, Brings

LEMMA ScreenOpened ==
  ASSUME TypeOK, Pages, NEW t \in Tabs, Open(t)
  PROVE  /\ Heeds(t)' = ops' /\ ops' = ops /\ rows' = rows /\ stream' = stream
         /\ \A k \in Keys : Screen(t)'[k] = rows[k]
<1>1. /\ unread'[t] = Keys /\ UNCHANGED <<fetched, inbox, held, engine, ops, rows, stream>> /\ life[t] = "closed"
  BY DEF Open, TypeOK, idbVars, roleVars, queueVars
<1>2. fetched[t] = Nothing /\ inbox[t] = <<>> /\ held[t] = <<>> /\ engine # t
  BY <1>1, TabSyncAssumption DEF TypeOK, Pages
<1>3. \A k \in Keys : Base(t)'[k] = rows[k]
  BY <1>1, <1>2, Based
<1>4. \A v : \A k \in Keys : Shows(Shows(v, held'[t], k), inbox'[t], k) = v
  BY <1>1, <1>2, ShowsEmpty
<1>5. \A k \in Keys : Screen(t)'[k] = rows[k]
  BY <1>3, <1>4, Seen
<1>6. Heeds(t)' = ops'
  BY <1>1, <1>2 DEF Heeds
<1>7. QED
  BY <1>1, <1>5, <1>6

LEMMA ScreensNext ==
  ASSUME TypeOK, TypeOK', [Next]_vars, QueueInv, Pages, Novice, Attentive, Cleared, "hydrate" \notin scenario.faults,
         UpToDate(View(rows, ops)), ScreensUp
  PROVE  ScreensUp'
<1> SUFFICES ASSUME NEW t \in Tabs, life'[t] # "closed" PROVE UpToDate(View(Screen(t), Heeds(t)))'
  BY DEF ScreensUp
<1>1. PICK g : g = Screen(t)'
  OBVIOUS
<1>2. PICK r : r = Heeds(t)'
  OBVIOUS
<1>3. SUFFICES UpToDate(View(g, r))'
  BY <1>1, <1>2, ScreensRenamed
<1>4. ASSUME Open(t) PROVE UpToDate(View(g, r))'
  <2>1. PICK f : f = rows
    OBVIOUS
  <2>2. PICK q : q = ops
    OBVIOUS
  <2>3. Hears(q, r) /\ \A k \in Keys : Eases(k, f[k], g[k])
    BY <1>1, <1>2, <1>4, <2>1, <2>2, ScreenOpened DEF Hears, Eases
  <2>4. UpToDate(View(f, q))
    BY <2>1, <2>2
  <2>5. EvictStep
    BY <1>4, RestEvicts
  <2>6. QED
    BY <2>3, <2>4, <2>5, ViewKept
<1>5. ASSUME ~Open(t) PROVE life[t] # "closed"
  BY ZenonT(60), <1>5 DEF Next, ServerNext, Commit, Rejoin, Click, Record, Prune, Open, Close, Hydrate, FetchList, SkipList, SetList,
         HydrationStep, FinishHydration, Hydrated, Deliver, Lead, Grant, StartEngine, Dial, Resume, StartOver, Follow,
         NextEntry, NextRow, CompleteStream, ReceiveAction, Disconnect, UiRemove, EngineStep, WriterNext, WriteRow, Wipe,
         SetCursor, Notify, Flush, Pop, TypeOK, vars, pageVars
<1>6. ASSUME life[t] # "closed" PROVE UpToDate(View(g, r))'
  <2>1. PICK f : f = Screen(t)
    OBVIOUS
  <2>2. PICK q : q = Heeds(t)
    OBVIOUS
  <2>3. UpToDate(View(f, q))
    BY <1>6, <2>1, <2>2 DEF ScreensUp
  <2>4. CASE WriterNext
    <3>1. stream = Flushing => \A k \in Keys : View(f, q).all[k] = Absent
      BY <1>6, <2>1, <2>2 DEF Cleared, Blank, View
    <3>2. QED
      BY <1>1, <1>2, <1>6, <2>1, <2>2, <2>3, <2>4, <3>1, ScreenWriter
  <2>5. ASSUME NEW u \in Tabs, Follow(u) PROVE UpToDate(View(g, r))'
    <3>1. Receives(u, q, r, f, g)
      BY <1>1, <1>2, <1>6, <2>1, <2>2, <2>5, ScreenFollow
    <3>2. QED
      BY <2>3, <2>5, <3>1, ViewFollow
  <2>6. ASSUME NEW u \in Tabs, Resume(u) PROVE UpToDate(View(g, r))'
    <3>1. UNCHANGED <<rows, unread, fetched, memory, held, inbox>> /\ ops = <<>> /\ ops' = <<>>
      BY <2>6 DEF Resume, MayDial, EngineStep, idbVars, pageVars, storeVars
    <3>2. \A k \in Keys : g[k] = f[k]
      BY <1>1, <2>1, <3>1, ScreenStill
    <3>3. q = <<>> /\ r = <<>>
      BY <1>2, <2>2, <3>1 DEF Heeds
    <3>4. UpToDate(View(f, r))'
      BY <2>3, <2>6, <3>3, ViewResumed
    <3>5. QED
      BY <3>2, <3>4, ViewSame
  <2>7. ASSUME NEW u \in Tabs, StartOver(u) PROVE UpToDate(View(g, r))'
    <3>1. PICK W : W = View(g, r)
      OBVIOUS
    <3>2. UpToDate(W)'
      BY <2>7, ViewStartedOver
    <3>3. QED
      BY <3>1, <3>2 DEF View, Heard, Told, Touches, Brings
  <2>8. ASSUME NEW u \in Tabs, Close(u), engine = u PROVE UpToDate(View(g, r))'
    <3>1. u # t /\ UNCHANGED <<rows, cursor, log, floor>> /\ ops' = <<>> /\ stream' = Down
      BY <2>8 DEF Close, TypeOK, idbVars, serverVars
    <3>2. /\ unread'[t] = unread[t] /\ fetched'[t] = fetched[t] /\ memory'[t] = memory[t]
          /\ held'[t] = held[t] /\ inbox'[t] = inbox[t]
      BY <2>8, <3>1 DEF Close, TypeOK
    <3>3. \A k \in Keys : g[k] = f[k]
      BY <1>1, <2>1, <3>1, <3>2, ScreenStill
    <3>4. UpToDate(View(f, r))'
      BY <2>3, <3>1, ViewDropped
    <3>5. QED
      BY <3>3, <3>4, ViewSame
  <2>9. ASSUME ServerNext \/ UNCHANGED vars
               \/ \E u \in Tabs : \/ Open(u) \/ Hydrate(u) \/ Deliver(u) \/ Lead(u) \/ Disconnect(u)
                                  \/ (Close(u) /\ engine # u) \/ \E k \in Keys : UiRemove(u, k)
        PROVE  UpToDate(View(g, r))'
    <3>1. EvictStep
      BY <2>9, RestEvicts
    <3>2. Hears(Heeds(t), Heeds(t)') /\ \A k \in Keys : Eases(k, Screen(t)[k], Screen(t)'[k])
      BY <1>6, <2>9, ScreenKept
    <3>3. Hears(q, r) /\ \A k \in Keys : Eases(k, f[k], g[k])
      BY <1>1, <1>2, <2>1, <2>2, <3>2
    <3>4. QED
      BY <2>3, <3>1, <3>3, ViewKept
  <2>10. QED
    BY <2>4, <2>5, <2>6, <2>7, <2>8, <2>9 DEF Next, Dial
<1>7. QED
  BY <1>4, <1>5, <1>6

\* Who hears nothing but resets shows nothing.
LEMMA ResetsHeard ==
  ASSUME NEW q \in Seq(Op), \A i \in DOMAIN q : q[i].do = "notify" => q[i].msg = Reset, NEW v, NEW k,
         v = Absent \/ \E i \in DOMAIN q : q[i].do = "notify"
  PROVE  Heard(v, q, k, {}) = Absent
<1>1. PICK n \in Nat : n = Len(q) /\ DOMAIN q = 1..n
  BY SeqFacts
<1>2. Told(q, k, {}) \subseteq 0..n
  BY <1>1 DEF Told
<1>3. Told(q, k, {}) # {} => Last(Told(q, k, {})) \in Told(q, k, {})
  BY <1>2, LastOf
<1>4. \A i \in Told(q, k, {}) : Brings(q[i].msg) = Absent
  BY DEF Told, Brings, Reset
<1>5. (\E i \in DOMAIN q : q[i].do = "notify") => Told(q, k, {}) # {}
  BY DEF Told, Touches, Reset
<1>6. QED
  BY <1>3, <1>4, <1>5 DEF Heard

LEMMA ClearingBlank ==
  ASSUME TypeOK, Clearing, NEW k \in Keys
  PROVE  Heard(rows[k], ops, k, {}) = Absent
<1>1. \A i \in DOMAIN ops : ops[i].do = "notify" => ops[i].msg = Reset
  BY ClearingIds
<1>2. PICK f \in DOMAIN ops : ClearingTo(f)
  BY DEF Clearing
<1>3. rows = EmptyStore \/ \E i \in 1..(f - 1) : ops[i] = NotifyOp(Reset)
  BY <1>2 DEF ClearingTo
<1>4. CASE rows = EmptyStore
  <2>1. rows[k] = Absent
    BY <1>4 DEF EmptyStore
  <2>2. QED
    BY <1>1, <2>1, ResetsHeard DEF TypeOK
<1>5. CASE \E i \in 1..(f - 1) : ops[i] = NotifyOp(Reset)
  <2>1. PICK i \in 1..(f - 1) : ops[i] = NotifyOp(Reset)
    BY <1>5
  <2>2. PICK n \in Nat : n = Len(ops) /\ DOMAIN ops = 1..n
    BY SeqFacts DEF TypeOK
  <2>3. i \in DOMAIN ops
    BY <2>2
  <2>4. \E j \in DOMAIN ops : ops[j].do = "notify"
    BY <2>1, <2>3 DEF NotifyOp
  <2>5. QED
    BY <1>1, <2>4, ResetsHeard DEF TypeOK
<1>6. QED
  BY <1>3, <1>4, <1>5

LEMMA StartedOverBlank ==
  ASSUME TypeOK, TypeOK', Pages, "slow" \notin scenario.races, NEW u \in Tabs, StartOver(u), NEW t \in Tabs, NEW k \in Keys,
         NEW r, r = Heeds(t)', NEW v, v = Screen(t)'[k]
  PROVE  Heard(v, r, k, {}) = Absent
<1>1. /\ engine' = engine /\ engine = u /\ life[u] = "open" /\ UNCHANGED <<pageVars, held, inbox>>
      /\ memory' = [memory EXCEPT ![u] = EmptyStore]
  BY DEF StartOver, MayDial, EngineStep, roleVars
<1>2. CASE t = u
  <2>1. r = <<>>
    BY <1>1, <1>2 DEF Heeds
  <2>2. v = Absent
    <3>1. \A i \in DOMAIN inbox[u] : inbox[u][i].is = "cache_delete"
      BY DEF StartOver, MayDial
    <3>2. Screen(t)'[k] = memory'[u][k]
      BY <1>1, <1>2, <3>1, ScreenOwn
    <3>3. memory'[u][k] = Absent
      BY <1>1 DEF TypeOK, EmptyStore
    <3>4. QED
      BY <3>2, <3>3
  <2>3. QED
    BY <2>1, <2>2, HeardEmpty
<1>3. CASE t # u
  <2>1. r = ops'
    BY <1>1, <1>3 DEF Heeds
  <2> DEFINE a == <<WipeOp, NotifyOp(Reset), FlushOp>>
             b == <<WipeOp, CursorOp(0), NotifyOp(Reset), FlushOp>>
  <2>2. r = a \/ r = b
    BY <2>1 DEF StartOver
  <2>3. \A i \in DOMAIN r : r[i].do = "notify" => r[i].msg = Reset
    <3>1. \A i \in DOMAIN a : a[i] \in {WipeOp, NotifyOp(Reset), FlushOp}
      OBVIOUS
    <3>2. \A i \in DOMAIN b : b[i] \in {WipeOp, CursorOp(0), NotifyOp(Reset), FlushOp}
      OBVIOUS
    <3>3. \A o \in {WipeOp, CursorOp(0), NotifyOp(Reset), FlushOp} : o.do = "notify" => o.msg = Reset
      BY DEF WipeOp, CursorOp, NotifyOp, FlushOp
    <3> HIDE DEF a, b
    <3>4. \A i \in DOMAIN r : r[i] \in {WipeOp, CursorOp(0), NotifyOp(Reset), FlushOp}
      BY <2>2, <3>1, <3>2
    <3>5. QED
      BY <3>3, <3>4
  <2>4. \E i \in DOMAIN r : r[i].do = "notify"
    <3>1. 2 \in DOMAIN a /\ a[2].do = "notify" /\ 3 \in DOMAIN b /\ b[3].do = "notify"
      BY DEF NotifyOp
    <3> HIDE DEF a, b
    <3>2. QED
      BY <2>2, <3>1
  <2>5. r \in Seq(Op)
    BY <2>1 DEF TypeOK
  <2>6. QED
    BY <2>3, <2>4, <2>5, ResetsHeard
<1>4. QED
  BY <1>2, <1>3

LEMMA WrittenBlank ==
  ASSUME TypeOK, QueueInv, WriterNext, stream = Flushing, stream' = Flushing, NEW t \in Tabs, life[t] # "closed", NEW k \in Keys,
         NEW r, r = Heeds(t)', NEW v, v = Screen(t)'[k], Heard(Screen(t)[k], Heeds(t), k, {}) = Absent
  PROVE  Heard(v, r, k, {}) = Absent
<1>1. /\ ops # <<>> /\ ops' = Tail(ops) /\ UNCHANGED <<engine, memory, held, pageVars>>
  BY DEF WriterNext, WriteRow, Wipe, SetCursor, Notify, Flush, Pop, roleVars, storeVars
<1>2. Head(ops) = ops[1] /\ 1 \in DOMAIN ops /\ ops[1] \in Op
  BY <1>1, PopFacts
<1>3. PICK q : q = Heeds(t)
  OBVIOUS
<1>4. PICK u : u = Screen(t)[k]
  OBVIOUS
<1>5. Heard(u, q, k, {}) = Absent
  BY <1>3, <1>4
<1>6. (t = engine /\ q = <<>> /\ r = <<>>) \/ (t # engine /\ q = ops /\ r = ops')
  BY <1>1, <1>3 DEF Heeds
<1>7. Clearing
  BY DEF QueueInv, Shape
<1>8. CASE Notify
  <2>1. PICK o \in Op : o = ops[1] /\ o.do = "notify"
    BY <1>2, <1>8 DEF Notify, Pop
  <2>2. PICK m \in Message : m = ops[1].msg
    BY <2>1, OpParts
  <2>3. rows' = rows /\ inbox' = Posted(engine, m)
    BY <1>2, <1>8, <2>2 DEF Notify, idbVars
  <2>4. v = IF t # engine /\ Touches(m, k) THEN Brings(m) ELSE u
    BY <1>1, <1>4, <2>3, ScreenPosted
  <2>5. CASE t = engine
    BY <1>5, <1>6, <2>4, <2>5
  <2>6. CASE t # engine
    <3>1. v = IF Touches(ops[1].msg, k) THEN Brings(ops[1].msg) ELSE u
      BY <2>2, <2>4, <2>6
    <3>2. Heard(v, ops', k, {}) = Heard(u, ops, k, {})
      BY <1>1, <2>1, <3>1, ToldHeard
    <3>3. QED
      BY <1>5, <1>6, <2>6, <3>2
  <2>7. QED
    BY <2>5, <2>6
<1>9. CASE Wipe \/ SetCursor
  <2>1. inbox' = inbox /\ ops[1].do # "notify" /\ (rows' = rows \/ rows' = EmptyStore)
    BY <1>2, <1>9 DEF Wipe, SetCursor, Pop
  <2>2. v = u \/ v = Absent
    <3>1. v = u \/ (v = rows'[k] /\ rows'[k] # rows[k])
      BY <1>1, <1>4, <2>1, ScreenWritten
    <3>2. QED
      BY <2>1, <3>1 DEF EmptyStore
  <2>3. Heard(v, q, k, {}) = Absent
    BY <1>5, <2>2 DEF Heard
  <2>4. Heard(v, ops', k, {}) = Heard(v, ops, k, {})
    BY <1>1, <2>1, TailHeard
  <2>5. QED
    BY <1>6, <2>3, <2>4
<1>10. ~WriteRow
  BY <1>2, <1>7, NotClearing DEF WriteRow, Pop, QueueInv
<1>11. ~Flush
  BY StreamTypes DEF Flush, Catching, Flushing
<1>12. QED
  BY <1>8, <1>9, <1>10, <1>11 DEF WriterNext

LEMMA ClearedNext ==
  ASSUME TypeOK, TypeOK', [Next]_vars, QueueInv, Pages, Cleared, "slow" \notin scenario.races, "hydrate" \notin scenario.faults
  PROVE  Cleared'
<1> SUFFICES ASSUME stream' = Flushing, NEW t \in Tabs, life'[t] # "closed", NEW k \in Keys
             PROVE  (Heard(Screen(t)[k], Heeds(t), k, {}) = Absent)'
  BY DEF Cleared, Blank
<1>1. PICK v : v = Screen(t)'[k]
  OBVIOUS
<1>2. PICK r : r = Heeds(t)'
  OBVIOUS
<1>3. SUFFICES Heard(v, r, k, {}) = Absent
  BY <1>1, <1>2 DEF Heard, Told, Touches, Brings
<1>4. ASSUME stream = Flushing, Open(t) PROVE Heard(v, r, k, {}) = Absent
  <2>1. v = rows[k] /\ r = ops' /\ ops' = ops
    BY <1>1, <1>2, <1>4, ScreenOpened
  <2>2. Clearing
    BY <1>4 DEF QueueInv, Shape
  <2>3. Heard(rows[k], ops, k, {}) = Absent
    BY <2>2, ClearingBlank
  <2>4. QED
    BY <2>1, <2>3
<1>5. ASSUME ~Open(t) PROVE life[t] # "closed"
  BY ZenonT(60), <1>5 DEF Next, ServerNext, Commit, Rejoin, Click, Record, Prune, Open, Close, Hydrate, FetchList, SkipList, SetList,
         HydrationStep, FinishHydration, Hydrated, Deliver, Lead, Grant, StartEngine, Dial, Resume, StartOver, Follow,
         NextEntry, NextRow, CompleteStream, ReceiveAction, Disconnect, UiRemove, EngineStep, WriterNext, WriteRow, Wipe,
         SetCursor, Notify, Flush, Pop, TypeOK, vars, pageVars
<1>6. ASSUME life[t] # "closed", stream = Flushing, WriterNext PROVE Heard(v, r, k, {}) = Absent
  <2>1. Heard(Screen(t)[k], Heeds(t), k, {}) = Absent
    BY <1>6 DEF Cleared, Blank
  <2>2. QED
    BY <1>1, <1>2, <1>6, <2>1, WrittenBlank
<1>7. ASSUME NEW u \in Tabs, StartOver(u) PROVE Heard(v, r, k, {}) = Absent
  BY <1>1, <1>2, <1>7, StartedOverBlank
<1>8. ASSUME life[t] # "closed", stream = Flushing,
             ServerNext \/ UNCHANGED vars
             \/ \E u \in Tabs : \/ Open(u) \/ Hydrate(u) \/ Deliver(u) \/ Lead(u) \/ Disconnect(u)
                                \/ (Close(u) /\ engine # u) \/ \E j \in Keys : UiRemove(u, j)
      PROVE  Heard(v, r, k, {}) = Absent
  <2>1. EvictStep
    BY <1>8, RestEvicts
  <2>2. Hears(Heeds(t), Heeds(t)') /\ \A j \in Keys : Eases(j, Screen(t)[j], Screen(t)'[j])
    BY <1>8, ScreenKept
  <2>3. PICK q : q = Heeds(t)
    OBVIOUS
  <2>4. PICK u : u = Screen(t)[k]
    OBVIOUS
  <2>5. Heard(u, q, k, {}) = Absent
    BY <1>8, <2>3, <2>4 DEF Cleared, Blank
  <2>6. Hears(q, r) /\ Eases(k, u, v)
    BY <1>1, <1>2, <2>2, <2>3, <2>4
  <2>7. Heard(v, q, k, {}) = Absent
    BY <2>5, <2>6, HeardEases DEF Eases
  <2>8. QED
    BY <2>1, <2>6, <2>7, EvictsUnheard
<1>9. ASSUME stream # Flushing PROVE \E u \in Tabs : StartOver(u)
  <2>1. ~EvictStep
    BY <1>9, StreamTypes DEF EvictStep, Flushing, Down
  <2>2. ~WriterNext
    BY <1>9, StreamTypes DEF WriterNext, WriteRow, Wipe, SetCursor, Notify, Flush
  <2>3. \A u \in Tabs : ~Follow(u) /\ ~Resume(u) /\ ~(Close(u) /\ engine = u)
    BY StreamTypes DEF Follow, NextEntry, NextRow, CompleteStream, Streaming, Resume, Close, Catching, Flushing, Down
  <2>4. QED
    BY <2>1, <2>2, <2>3, RestEvicts DEF Next, Dial
<1>10. \A u \in Tabs : ~Follow(u) /\ ~Resume(u) /\ ~(Close(u) /\ engine = u)
  BY StreamTypes DEF Follow, NextEntry, NextRow, CompleteStream, Streaming, Resume, Close, Catching, Flushing, Down
<1>11. QED
  BY <1>4, <1>5, <1>6, <1>7, <1>8, <1>9, <1>10 DEF Next, Dial

LEMMA ScreensInit == Init => ScreensUp /\ Cleared
BY StreamTypes DEF Init, ScreensUp, Cleared

-----------------------------------------------------------------------------
(***************************************************************************)
(* The scenarios in which a new leader hears from the one before it in     *)
(* time, and lists that are in the cache can be read.                      *)
(***************************************************************************)
Prompt == "slow" \notin scenario.races /\ "hydrate" \notin scenario.faults

LEMMA ScenarioKept ==
  ASSUME [Next]_vars
  PROVE  scenario' = scenario
BY ZenonT(60) DEF Next, ServerNext, Commit, Rejoin, Click, Record, Prune, Open, Close, Hydrate, FetchList, SkipList, SetList,
       HydrationStep, FinishHydration, Deliver, Lead, Grant, StartEngine, Dial, Resume, StartOver, Follow, NextEntry,
       NextRow, CompleteStream, ReceiveAction, Disconnect, UiRemove, EngineStep, WriterNext, WriteRow, Wipe,
       SetCursor, Notify, Flush, Pop, vars, serverVars

ScreenInv == Pages /\ Novice /\ (Prompt => Attentive /\ Cleared /\ ScreensUp)

LEMMA Screening == Spec => []ScreenInv
<1>1. Init => ScreenInv
  BY PagesInit, ScreensInit DEF ScreenInv
<1>2. ASSUME TypeOK, TypeOK', QueueInv, UpToDate(View(rows, ops)), ScreenInv, [Next]_vars PROVE ScreenInv'
  <2>1. Pages' /\ Novice'
    BY <1>2, PagesNext, NoviceNext DEF ScreenInv
  <2>2. ASSUME Prompt' PROVE Attentive' /\ Cleared' /\ ScreensUp'
    <3>1. "slow" \notin scenario.races /\ "hydrate" \notin scenario.faults
      BY <1>2, <2>2, ScenarioKept DEF Prompt
    <3>2. Pages /\ Novice /\ Attentive /\ Cleared /\ ScreensUp
      BY <1>2, <3>1 DEF ScreenInv, Prompt
    <3>3. QED
      BY <1>2, <3>1, <3>2, AttentiveNext, ClearedNext, ScreensNext
  <2>3. QED
    BY <2>1, <2>2 DEF ScreenInv
<1>3. QED
  BY <1>1, <1>2, Typing, Queueing, Caching, PTL DEF Spec

LEMMA ShownIs ==
  ASSUME TypeOK, Pages, NEW t \in Tabs, life[t] = "open", NEW k \in Keys
  PROVE  Shown(t)[k] = Screen(t)[k]
<1>1. held[t] = <<>> /\ unread[t] = {} /\ inbox[t] \in Seq(Message)
  BY DEF TypeOK, Pages
<1>2. held[t] \o inbox[t] = inbox[t]
  BY <1>1, ConcatEmptySeq
<1>3. Shown(t)[k] = Shows(memory[t][k], inbox[t], k)
  BY <1>2, ReplayShows DEF Shown
<1>4. Shows(memory[t][k], held[t], k) = memory[t][k]
  BY <1>1, ShowsEmpty
<1>5. Base(t)[k] = memory[t][k]
  BY <1>1, Based
<1>6. QED
  BY <1>3, <1>4, <1>5, Seen

\* The cursor on disk claims no more than any hydrated tab shows or is about to,
\* whichever tabs were opened, closed or promoted, as long as a new leader hears of
\* what the one before it broadcast before it dials (hydration_gate.rs,
\* broadcast_queue.rs: "Why this exists").
THEOREM ScreensFollow == Spec => []("slow" \notin scenario.races => ScreensCurrent)
<1>1. TypeOK /\ Joins /\ ScreenInv => ("slow" \notin scenario.races => ScreensCurrent)
  <2>1. SUFFICES ASSUME TypeOK, Joins, ScreenInv, "slow" \notin scenario.races, "rejoin" \notin scenario.gestures,
                        "hydrate" \notin scenario.faults, Available(cursor), NEW t \in Tabs, life[t] = "open", NEW k \in Keys
                 PROVE  Fresh(k, Shown(t)[k], cursor)
    BY DEF ScreensCurrent
  <2>2. Pages /\ ScreensUp
    BY <2>1 DEF ScreenInv, Prompt
  <2>3. k \in Tame
    BY <2>1, LogType DEF Joins, Tame, TypeOK
  <2>4. UpToDate(View(Screen(t), Heeds(t)))
    BY <2>1, <2>2 DEF ScreensUp
  <2>5. Fresh(k, Screen(t)[k], cursor)
    BY <2>1, <2>3, <2>4 DEF UpToDate, View
  <2>6. QED
    BY <2>1, <2>2, <2>5, ShownIs
<1>2. QED
  BY <1>1, Typing, Joining, Screening, PTL

\* What a view that is up to date holds once everything has been said.
LEMMA Settled ==
  ASSUME TypeOK, QueueInv, Quiet, scenario.faults = {}, NEW f, UpToDate(View(f, <<>>)), NEW k \in Keys, Broadcast(k)
  PROVE  f[k] = Current(k)
<1>1. stream.at = "up" /\ stream.pos = Len(log) /\ stream.left = {} /\ Len(log) \in Nat
  BY LogType DEF Quiet, QueueInv, Moved, TypeOK
<1>2. k \in Heeded \ stream.left
  BY <1>1 DEF Heeded
<1>3. Fresh(k, View(f, <<>>).all[k], Len(log))
  BY <1>1, <1>2 DEF UpToDate
<1>4. View(f, <<>>).all[k] = f[k]
  BY HeardEmpty DEF View
<1>5. \A p \in Len(log)..Len(log) : p = Len(log)
  BY <1>1
<1>6. QED
  BY <1>3, <1>4, <1>5 DEF Fresh, Current

\* When nothing is on its way any more, the cache and every open tab hold what the
\* server holds, if nothing failed and a new leader heard of what the one before it
\* broadcast before it dialled (apply.rs, apply_broadcast_to_memory).
THEOREM ScreensSettle == Spec => []("slow" \notin scenario.races => ScreensAgree)
<1>1. TypeOK /\ QueueInv /\ UpToDate(View(rows, ops)) /\ ScreenInv => ("slow" \notin scenario.races => ScreensAgree)
  <2>1. SUFFICES ASSUME TypeOK, QueueInv, UpToDate(View(rows, ops)), ScreenInv, "slow" \notin scenario.races,
                        scenario.faults = {}, Quiet, NEW k \in Keys, Broadcast(k)
                 PROVE  rows[k] = Current(k) /\ \A t \in Tabs : life[t] = "open" => memory[t][k] = Current(k)
    BY DEF ScreensAgree
  <2>2. Pages /\ ScreensUp
    BY <2>1 DEF ScreenInv, Prompt
  <2>3. ops = <<>> /\ \A t \in Tabs : inbox[t] = <<>>
    BY <2>1 DEF Quiet
  <2>4. rows[k] = Current(k)
    <3>1. UpToDate(View(rows, <<>>))
      BY <2>1, <2>3
    <3>2. QED
      BY <2>1, <3>1, Settled
  <2>5. ASSUME NEW t \in Tabs, life[t] = "open" PROVE memory[t][k] = Current(k)
    <3>1. Heeds(t) = <<>>
      BY <2>3 DEF Heeds
    <3>2. UpToDate(View(Screen(t), <<>>))
      BY <2>2, <2>5, <3>1 DEF ScreensUp
    <3>3. Screen(t)[k] = Current(k)
      BY <2>1, <3>2, Settled
    <3>4. \A i \in DOMAIN inbox[t] : FALSE
      BY <2>3
    <3>5. Screen(t)[k] = memory[t][k]
      BY <2>1, <2>2, <2>5, <3>4, ScreenOwn
    <3>6. QED
      BY <3>3, <3>5
  <2>6. QED
    BY <2>4, <2>5
<1>2. QED
  BY <1>1, Typing, Queueing, Caching, Screening, PTL

=============================================================================
