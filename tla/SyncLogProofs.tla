--------------------------- MODULE SyncLogProofs ---------------------------
(***************************************************************************)
(* What SyncLog.tla keeps for every value of its constants: any users,     *)
(* teams and views.  Types and entitlement on both databases and with      *)
(* every race; then, from "Catching up" on, what clients are told, on      *)
(* SQLite without the races, each of which breaks it.                      *)
(***************************************************************************)
EXTENDS SyncLog, WellFoundedInduction, FiniteSetTheorems, SequenceTheorems, TLAPS

-----------------------------------------------------------------------------
(***************************************************************************)
(* The inductive invariant.                                                *)
(***************************************************************************)
Contents == 0..MaxLog

EntryType == [item : Items, to : {"workspace", "team"} \cup Users, n : Contents,
              live : BOOLEAN, state : {"open", "in", "void"}]

Names == Items \cup (Teams \X Users)

Rows == UNION {[D -> Contents] : D \in SUBSET Items}

EffectType == [set : Rows,
               join : SUBSET (Teams \X Users), leave : SUBSET (Teams \X Users),
               share : SUBSET Views, unshare : SUBSET Views]

RequestType == [at : {"idle", "looked", "open", "deliver"}, call : CallKinds \cup {"none"},
                item : Items \cup {"none"}, user : Users \cup {"none"}, seen : Contents,
                ids : SUBSET Nat, locks : SUBSET Names,
                fx : EffectType]

ClientType == [phase : {"down", "asked", "teams", "views", "delta", "stream", "current"},
               holds : [Items -> Contents], cursor : Nat, mark : Nat,
               page : SUBSET [place : Nat, item : Items, n : Contents], short : BOOLEAN]

Types ==
  /\ calls \in Scenarios
  /\ content \in [Items -> Contents] /\ members \subseteq Teams \X Users /\ shared \subseteq Views
  /\ log \in Seq(EntryType)
  /\ reqs \in [Requests -> RequestType]
  /\ watched \in Users /\ client \in ClientType
  /\ strays \cup behind \cup entitled \subseteq Items

\* A handler that has looked a team or a view up works on that.
Resolved(q) ==
  q.at = "looked" =>
    /\ q.call \in {"added", "role", "removed"} => q.item \in Teams /\ q.user \in Users
    /\ q.call = "delete_team" => q.item \in Teams
    /\ q.call = "delete_view" => q.item \in Views

\* Who an entry can be for: payloads of teams go by membership, views to all or
\* to their owner.
Addressed(e) ==
  /\ e.item \in Teams /\ e.to # "team" => e.n = 0
  /\ e.item \in Views => e.to \in {"workspace", Owner}

\* An entry with a view in it describes a row that its transaction sets, holds the
\* lock of and shares as far as the entry goes; and the team it is in stays.
Describes(e, locks, fx) ==
  (e.item \in Views /\ e.n # 0) =>
    /\ e.item \in locks
    /\ DOMAIN fx.set = {e.item} /\ fx.set[e.item] # 0
    /\ e.to = "workspace" => e.item \in fx.share \ fx.unshare
    /\ \A x \in Scoped : x[1] = e.item => content[x[2]] # 0

\* Who removes a team has the locks of its views.
HoldsCascade(locks, fx) ==
  \A x \in Scoped : (x[2] \in DOMAIN fx.set /\ fx.set[x[2]] = 0) => x[1] \in locks

\* Members and views go with their team.
Cascaded ==
  /\ \A m \in members : content[m[1]] # 0
  /\ \A x \in Scoped : content[x[1]] # 0 => content[x[2]] # 0

Transactions ==
  /\ \A r \in Requests : Open(r) =>
       /\ reqs[r].ids # {} /\ reqs[r].ids \subseteq DOMAIN log
       /\ \A k \in reqs[r].ids : /\ log[k].state = "open"
                                 /\ Describes(log[k], reqs[r].locks, reqs[r].fx)
       /\ HoldsCascade(reqs[r].locks, reqs[r].fx)
  /\ \A r \in Requests : reqs[r].at = "deliver" =>
       /\ reqs[r].ids # {} /\ reqs[r].ids \subseteq DOMAIN log
       /\ \A k \in reqs[r].ids : log[k].state = "in"
  /\ \A k \in DOMAIN log : log[k].state = "open" => \E r \in Requests : Open(r) /\ k \in reqs[r].ids
  /\ \A q, r \in Requests : q # r =>
       /\ reqs[q].locks \cap reqs[r].locks = {}
       /\ Open(q) /\ Open(r) => reqs[q].ids \cap reqs[r].ids = {}

\* SQLite has one transaction, and its entries are the last.
OneWriter ==
  Backend = "sqlite" =>
    \A r \in Requests : Open(r) =>
      /\ \A q \in Requests : Open(q) => q = r
      /\ \A k \in reqs[r].ids, j \in DOMAIN log : j >= k => j \in reqs[r].ids

\* A claim of a client is 0 or the id of an entry that is visible.
Claim(c) == c = 0 \/ (c \in DOMAIN log /\ log[c].state = "in")

\* What can reach a client, and what it has, its user has been entitled to.
Reach ==
  /\ \A i \in Items : content[i] # 0 /\ MaySee(watched, i, members, shared) => i \in entitled
  /\ \A k \in DOMAIN log :
       (log[k].state = "in" /\ log[k].item \in Views /\ log[k].n # 0
          /\ (log[k].to = "workspace" \/ log[k].to = watched)) => log[k].item \in entitled
  /\ \A f \in client.page : f.n # 0 => f.item \in entitled

Inv ==
  /\ Types
  /\ \A r \in Requests : Resolved(reqs[r])
  /\ \A k \in DOMAIN log : Addressed(log[k])
  /\ Cascaded
  /\ Transactions
  /\ OneWriter
  /\ Claim(client.cursor) /\ Claim(client.mark)
  /\ Reach
  /\ OnlyEntitled

-----------------------------------------------------------------------------
(***************************************************************************)
(* Sets of numbers, and the records that requests are made of.             *)
(***************************************************************************)
\* A set of numbers has a least, and a bounded one a greatest.
LEMMA MinOf ==
  ASSUME NEW S, S \subseteq Nat, S # {}
  PROVE  Min(S) \in S /\ \A x \in S : Min(S) <= x
<1>1. PICK m \in S : \A x \in S : ~ (<<x, m>> \in OpToRel(<, Nat))
  BY NatLessThanWellFounded, WFMin, Zenon
<1>2. \A x \in S : ~(x < m)
  BY <1>1, Zenon DEF OpToRel
<1>3. \A x \in S : m <= x
  BY <1>2
<1>4. QED
  BY <1>3 DEF Min

LEMMA MaxOf ==
  ASSUME NEW S, S # {}, NEW b \in Nat, S \subseteq 0..b
  PROVE  Max(S) \in S /\ \A x \in S : x <= Max(S)
<1> DEFINE T == {b - x : x \in S}
<1>0. \A x \in S : x \in Nat /\ x <= b
  OBVIOUS
<1>1. T \subseteq Nat /\ T # {}
  <2>1. \A x \in S : b - x \in Nat
    BY <1>0
  <2>2. QED
    BY <2>1
<1>2. Min(T) \in T /\ \A y \in T : Min(T) <= y
  BY <1>1, MinOf
<1>3. PICK m \in S : Min(T) = b - m
  BY <1>2
<1>4. ASSUME NEW x \in S PROVE x <= m
  <2>1. b - m <= b - x
    BY <1>2, <1>3
  <2>2. QED
    BY <1>0, <2>1
<1>5. QED
  BY <1>4 DEF Max

LEMMA Prefix ==
  ASSUME NEW S, NEW s \in Seq(S), NEW n \in 1..Len(s)
  PROVE  /\ SubSeq(s, 1, n - 1) \in Seq(S) /\ DOMAIN SubSeq(s, 1, n - 1) = 1..(n - 1)
         /\ \A k \in 1..(n - 1) : SubSeq(s, 1, n - 1)[k] = s[k]
<1>1. n - 1 \in 0..Len(s)
  OBVIOUS
<1>2. SubSeq(s, 1, n - 1) = [k \in 1..(n - 1) |-> s[k]]
  BY <1>1, SubSeqRestrict DEF Restrict
<1>3. n - 1 \in Nat /\ \A k \in 1..(n - 1) : s[k] \in S
  OBVIOUS
<1>4. [k \in 1..(n - 1) |-> s[k]] \in Seq(S)
  BY <1>3, IsASeq
<1>5. QED
  BY <1>2, <1>4

LEMMA Appended ==
  ASSUME NEW n \in Nat, NEW m \in Nat, m > 0
  PROVE  /\ (n + 1)..(n + m) \in SUBSET Nat /\ (n + 1)..(n + m) # {}
         /\ 1..(n + m) = (1..n) \cup ((n + 1)..(n + m))
<1>1. n + 1 \in (n + 1)..(n + m)
  OBVIOUS
<1>2. QED
  BY <1>1

LEMMA PutType ==
  ASSUME NEW i \in Items, NEW n \in Contents
  PROVE  Put(i, n) \in Rows
<1>1. Put(i, n) \in [{i} -> Contents]
  BY DEF Put
<1>2. QED
  BY <1>1 DEF Rows

LEMMA NoEffectType == NoEffect \in EffectType
<1>1. [x \in {} |-> 0] \in [{} -> Contents]
  OBVIOUS
<1>2. [x \in {} |-> 0] \in Rows
  BY <1>1 DEF Rows
<1>3. QED
  BY <1>2 DEF NoEffect, EffectType

\* The effects of the calls are those of NoEffect with a row put, and members or
\* views added.
LEMMA EffectTypes ==
  ASSUME NEW i \in Items, NEW n \in Contents, NEW J \in SUBSET (Teams \X Users),
         NEW S \in SUBSET Views, NEW U \in SUBSET Views
  PROVE  /\ [NoEffect EXCEPT !.set = Put(i, n)] \in EffectType
         /\ [NoEffect EXCEPT !.set = Put(i, n), !.join = J] \in EffectType
         /\ [NoEffect EXCEPT !.set = Put(i, n), !.share = S, !.unshare = U] \in EffectType
         /\ [NoEffect EXCEPT !.join = J] \in EffectType
         /\ [NoEffect EXCEPT !.leave = J] \in EffectType
BY PutType, NoEffectType DEF EffectType

LEMMA IdleType ==
  /\ Idle \in RequestType
  /\ Idle.at = "idle" /\ Idle.locks = {} /\ Idle.ids = {} /\ Idle.fx = NoEffect
<1>1. 0 \in Contents
  BY SyncLogAssumption DEF SyncLogAssumption, Contents
<1>2. QED
  BY <1>1, NoEffectType DEF Idle, RequestType

LEMMA DownType == Down \in ClientType /\ Down.phase = "down" /\ Down.page = {}
<1>1. 0 \in Contents
  BY SyncLogAssumption DEF SyncLogAssumption, Contents
<1>2. QED
  BY <1>1 DEF Down, ClientType

\* The invariant holds where the system starts.
LEMMA InitInv == Init => Inv
<1> SUFFICES ASSUME Init PROVE Inv
  OBVIOUS
<1>1. 0 \in Contents
  BY SyncLogAssumption DEF SyncLogAssumption, Contents
<1>2. Types
  BY <1>1, IdleType, DownType DEF Init, Types
<1>3. \A r \in Requests : reqs[r] = Idle
  BY DEF Init
<1>4. Transactions
  BY <1>3, IdleType DEF Init, Transactions, Open
<1>5. OneWriter
  BY <1>3, IdleType DEF OneWriter, Open
<1>6. Cascaded
  BY SyncLogAssumption DEF Init, Cascaded, SyncLogAssumption, Items
<1>7. Reach
  BY DownType DEF Init, Reach
<1>8. Claim(client.cursor) /\ Claim(client.mark) /\ OnlyEntitled
  BY DEF Init, Claim, OnlyEntitled, Down
<1>9. \A k \in DOMAIN log : Addressed(log[k])
  BY DEF Init
<1>10. \A r \in Requests : Resolved(reqs[r])
  BY <1>3, IdleType DEF Resolved
<1>11. QED
  BY <1>2, <1>4, <1>5, <1>6, <1>7, <1>8, <1>9, <1>10 DEF Inv

-----------------------------------------------------------------------------
(***************************************************************************)
(* Requests.                                                               *)
(***************************************************************************)
LEMMA LogType ==
  ASSUME Inv
  PROVE  /\ Len(log) \in Nat /\ DOMAIN log = 1..Len(log)
         /\ \A k \in DOMAIN log :
              /\ log[k] \in EntryType
              /\ log[k].item \in Items /\ log[k].to \in {"workspace", "team"} \cup Users
              /\ log[k].n \in Contents /\ log[k].state \in {"open", "in", "void"}
<1>1. log \in Seq(EntryType)
  BY DEF Inv, Types
<1>2. Len(log) \in Nat /\ DOMAIN log = 1..Len(log) /\ \A k \in DOMAIN log : log[k] \in EntryType
  BY <1>1
<1>3. QED
  BY <1>2 DEF EntryType

\* What stays when only requests change: everything but the invariants on them.
LEMMA SameTables ==
  ASSUME Inv, reqs' \in [Requests -> RequestType], UNCHANGED <<calls, tables, log, watched, client>>,
         strays' = strays, entitled' = entitled, behind' \subseteq Items
  PROVE  /\ Types' /\ Cascaded' /\ Reach' /\ OnlyEntitled'
         /\ (\A k \in DOMAIN log : Addressed(log[k]))'
         /\ Claim(client.cursor)' /\ Claim(client.mark)'
<1>1. Types'
  BY DEF Inv, Types, tables
<1>2. Cascaded' /\ OnlyEntitled'
  BY DEF Inv, Cascaded, OnlyEntitled, tables
<1>3. Reach'
  BY DEF Inv, Reach, MaySee, tables
<1>4. (\A k \in DOMAIN log : Addressed(log[k]))' /\ Claim(client.cursor)' /\ Claim(client.mark)'
  BY DEF Inv, Addressed, Claim
<1>5. QED
  BY <1>1, <1>2, <1>3, <1>4

\* A request that is neither in a transaction nor sending keeps what the others have.
LEMMA SameTransactions ==
  ASSUME Inv, NEW r \in Requests, NEW q \in RequestType, q.at \in {"idle", "looked"}, q.locks = {},
         Resolved(q), ~Open(r), reqs' = [reqs EXCEPT ![r] = q], UNCHANGED <<content, log>>
  PROVE  /\ Transactions' /\ OneWriter' /\ reqs' \in [Requests -> RequestType]
         /\ (\A p \in Requests : Resolved(reqs[p]))'
<1>1. /\ reqs' \in [Requests -> RequestType] /\ reqs'[r] = q
      /\ \A p \in Requests \ {r} : reqs'[p] = reqs[p]
  BY DEF Inv, Types
<1>2. \A p \in Requests : Open(p)' <=> (Open(p) /\ p # r)
  BY <1>1 DEF Open
<1>3. Transactions'
  BY <1>1, <1>2 DEF Inv, Transactions, Describes, HoldsCascade, Open
<1>4. OneWriter'
  BY <1>1, <1>2 DEF Inv, OneWriter
<1>5. (\A p \in Requests : Resolved(reqs[p]))'
  BY <1>1 DEF Inv, Resolved
<1>6. QED
  BY <1>1, <1>3, <1>4, <1>5

LEMMA LookInv ==
  ASSUME Inv, NEW r \in Requests, NEW call \in CallKinds, NEW i \in Items,
         NEW u \in Users \cup {"none"}, NEW seen \in Contents, Look(r, call, i, u, seen),
         call \in {"added", "role", "removed"} => i \in Teams /\ u \in Users,
         call = "delete_team" => i \in Teams, call = "delete_view" => i \in Views
  PROVE  Inv'
<1> DEFINE q == [Idle EXCEPT !.at = "looked", !.call = call, !.item = i, !.user = u, !.seen = seen]
<1>1. /\ q \in RequestType /\ q.at = "looked" /\ q.locks = {}
      /\ q.call = call /\ q.item = i /\ q.user = u
  BY IdleType DEF RequestType
<1>2. Resolved(q)
  BY <1>1 DEF Resolved
<1>3. /\ ~Open(r) /\ reqs' = [reqs EXCEPT ![r] = q]
      /\ UNCHANGED <<calls, tables, log, watched, client, history>>
  BY DEF Look, Open
<1> HIDE DEF q
<1>4. /\ Transactions' /\ OneWriter' /\ reqs' \in [Requests -> RequestType]
      /\ (\A p \in Requests : Resolved(reqs[p]))'
  BY <1>1, <1>2, <1>3, SameTransactions DEF tables
<1>5. behind' \subseteq Items
  BY <1>3 DEF Inv, Types, history
<1>6. QED
  BY <1>3, <1>4, <1>5, SameTables DEF Inv, history

LEMMA RefuseInv ==
  ASSUME Inv, NEW r \in Requests, Refuse(r)
  PROVE  Inv'
<1>1. /\ ~Open(r) /\ reqs' = [reqs EXCEPT ![r] = Idle]
      /\ UNCHANGED <<calls, tables, log, watched, client, history>>
  BY DEF Refuse, Open
<1>2. /\ Transactions' /\ OneWriter' /\ reqs' \in [Requests -> RequestType]
      /\ (\A p \in Requests : Resolved(reqs[p]))'
  <2>1. Resolved(Idle)
    BY IdleType DEF Resolved
  <2>2. QED
    BY <1>1, <2>1, IdleType, SameTransactions DEF tables
<1>3. behind' \subseteq Items
  BY <1>1 DEF Inv, Types, history
<1>4. QED
  BY <1>1, <1>2, <1>3, SameTables DEF Inv, history

\* Frames that are not sent change what the client is promised, and nothing else.
LEMMA SilenceInv ==
  ASSUME Inv, NEW r \in Requests, Silence(r)
  PROVE  Inv'
<1>1. /\ ~Open(r) /\ reqs' = [reqs EXCEPT ![r] = Idle]
      /\ UNCHANGED <<calls, tables, log, watched, client, entitled, strays>>
      /\ behind' = behind \cup {log[k].item : k \in reqs[r].ids}
  BY DEF Silence, Open
<1>2. /\ Transactions' /\ OneWriter' /\ reqs' \in [Requests -> RequestType]
      /\ (\A p \in Requests : Resolved(reqs[p]))'
  <2>1. Resolved(Idle)
    BY IdleType DEF Resolved
  <2>2. QED
    BY <1>1, <2>1, IdleType, SameTransactions DEF tables
<1>3. \A k \in reqs[r].ids : log[k].item \in Items
  <2>1. reqs[r].ids \subseteq DOMAIN log
    BY DEF Inv, Transactions, Silence
  <2>2. QED
    BY <2>1, LogType
<1>4. behind' \subseteq Items
  BY <1>1, <1>3 DEF Inv, Types
<1>5. QED
  BY <1>1, <1>2, <1>4, SameTables DEF Inv

\* The statements of a transaction: entries that are addressed as they should be,
\* and tell what the transaction is going to do.
LEMMA StageInv ==
  ASSUME Inv, NEW r \in Requests, NEW from \in {"idle", "looked"}, NEW call \in CallKinds,
         NEW names \in SUBSET Names, NEW entries \in Seq(EntryType),
         NEW fx \in EffectType, Stage(r, from, call, names, entries, fx),
         entries # <<>>, HoldsCascade(names, fx),
         \A k \in DOMAIN entries : /\ entries[k].state = "open"
                                   /\ Addressed(entries[k])
                                   /\ Describes(entries[k], names, fx)
  PROVE  Inv'
<1> DEFINE new == New..Len(log) + Len(entries)
<1>1. /\ log' = log \o entries
      /\ UNCHANGED <<calls, tables, watched, client, history>>
      /\ reqs' = [reqs EXCEPT ![r] = [@ EXCEPT !.at = "open", !.call = call, !.locks = names,
                                               !.fx = fx, !.ids = new]]
      /\ reqs[r].at = from /\ Pool /\ Unlocked(names)
  BY DEF Stage
<1>2. /\ log \in Seq(EntryType) /\ Len(log) \in Nat /\ DOMAIN log = 1..Len(log)
      /\ Len(entries) \in Nat /\ Len(entries) > 0 /\ DOMAIN entries = 1..Len(entries)
      /\ reqs \in [Requests -> RequestType]
  BY LogType DEF Inv, Types
<1>3. /\ log' \in Seq(EntryType)
      /\ DOMAIN log' = 1..Len(log) + Len(entries)
      /\ \A k \in DOMAIN log : k \in DOMAIN log' /\ log'[k] = log[k]
      /\ \A k \in new : k \notin DOMAIN log /\ \E e \in DOMAIN entries : log'[k] = entries[e]
      /\ new \in SUBSET Nat /\ new # {} /\ DOMAIN log' = DOMAIN log \cup new
  <2>1. /\ log' \in Seq(EntryType) /\ Len(log') = Len(log) + Len(entries)
        /\ DOMAIN log' = 1..Len(log')
    BY <1>1, <1>2
  <2>2. \A k \in 1..Len(log') : log'[k] = IF k <= Len(log) THEN log[k] ELSE entries[k - Len(log)]
    BY <1>1, <1>2
  <2>3. ASSUME NEW k \in new
        PROVE  k \notin DOMAIN log /\ \E e \in DOMAIN entries : log'[k] = entries[e]
    <3>1. k \in Nat /\ k > Len(log) /\ k <= Len(log) + Len(entries)
      BY <1>2 DEF New
    <3>2. k - Len(log) \in DOMAIN entries /\ log'[k] = entries[k - Len(log)]
      BY <3>1, <2>1, <2>2, <1>2
    <3>3. QED
      BY <3>1, <3>2, <1>2
  <2>4. new \in SUBSET Nat /\ new # {} /\ DOMAIN log' = DOMAIN log \cup new
    <3>1. New = Len(log) + 1
      BY DEF New
    <3>2. QED
      BY <3>1, <2>1, <1>2, Appended
  <2>5. ASSUME NEW k \in DOMAIN log PROVE k \in DOMAIN log' /\ log'[k] = log[k]
    BY <2>1, <2>2, <1>2
  <2> HIDE DEF new
  <2>6. DOMAIN log' = 1..Len(log) + Len(entries)
    BY <2>1
  <2>7. QED
    BY <2>1, <2>3, <2>4, <2>5, <2>6
<1> HIDE DEF new
<1>4. /\ reqs' \in [Requests -> RequestType]
      /\ reqs'[r].at = "open" /\ reqs'[r].locks = names /\ reqs'[r].fx = fx /\ reqs'[r].ids = new
      /\ \A q \in Requests \ {r} : reqs'[q] = reqs[q]
  <2> DEFINE q == [reqs[r] EXCEPT !.at = "open", !.call = call, !.locks = names, !.fx = fx,
                                  !.ids = new]
  <2>1. /\ q \in RequestType
        /\ q.at = "open" /\ q.locks = names /\ q.fx = fx /\ q.ids = new
    <3>1. reqs[r] \in RequestType /\ new \in SUBSET Nat
      BY <1>2, <1>3
    <3>2. QED
      BY <3>1 DEF RequestType
  <2>2. reqs' = [reqs EXCEPT ![r] = q]
    BY <1>1
  <2> HIDE DEF q
  <2>3. QED
    BY <2>1, <2>2, <1>2
<1>5. \A q \in Requests : Open(q)' <=> (Open(q) \/ q = r)
  BY <1>4 DEF Open
<1>6. ~Open(r) /\ reqs[r].at # "deliver"
  BY <1>1 DEF Open
<1>7. \A k \in new : /\ log'[k].state = "open" /\ Addressed(log'[k])
                     /\ Describes(log[k], names, fx)'
  <2>1. SUFFICES ASSUME NEW k \in new
                 PROVE  /\ log'[k].state = "open" /\ Addressed(log'[k])
                        /\ Describes(log[k], names, fx)'
    OBVIOUS
  <2>2. PICK e \in DOMAIN entries : log'[k] = entries[e]
    BY <1>3
  <2>3. content' = content
    BY <1>1 DEF tables
  <2>4. QED
    BY <2>2, <2>3 DEF Describes, Addressed
<1>8. Types'
  BY <1>1, <1>3, <1>4 DEF Inv, Types, tables, history
<1>9. (\A k \in DOMAIN log : Addressed(log[k]))'
  BY <1>3, <1>7 DEF Inv, Addressed
<1>10. Cascaded' /\ OnlyEntitled'
  BY <1>1 DEF Inv, Cascaded, OnlyEntitled, tables, history
<1>11. Transactions'
  <2>1. ASSUME NEW q \in Requests, Open(q)'
        PROVE  (/\ reqs[q].ids # {} /\ reqs[q].ids \subseteq DOMAIN log
                /\ \A k \in reqs[q].ids : /\ log[k].state = "open"
                                          /\ Describes(log[k], reqs[q].locks, reqs[q].fx)
                /\ HoldsCascade(reqs[q].locks, reqs[q].fx))'
    <3>1. CASE q = r
      <4>1. HoldsCascade(names, fx)'
        BY DEF HoldsCascade
      <4>2. QED
        BY <3>1, <4>1, <1>3, <1>4, <1>7
    <3>2. CASE q # r
      BY <3>2, <2>1, <1>1, <1>3, <1>4, <1>5 DEF Inv, Transactions, HoldsCascade, Describes, tables
    <3>3. QED
      BY <3>1, <3>2
  <2>2. ASSUME NEW q \in Requests, reqs'[q].at = "deliver"
        PROVE  /\ reqs'[q].ids # {} /\ reqs'[q].ids \subseteq DOMAIN log'
               /\ \A k \in reqs'[q].ids : log'[k].state = "in"
    BY <2>2, <1>3, <1>4 DEF Inv, Transactions
  <2>3. ASSUME NEW k \in DOMAIN log', log'[k].state = "open"
        PROVE  \E q \in Requests : Open(q)' /\ k \in reqs'[q].ids
    <3>1. CASE k \in new
      BY <3>1, <1>4, <1>5
    <3>2. CASE k \in DOMAIN log
      <4>1. log[k].state = "open"
        BY <2>3, <3>2, <1>3
      <4>2. PICK q \in Requests : Open(q) /\ k \in reqs[q].ids
        BY <4>1, <3>2 DEF Inv, Transactions
      <4>3. q # r
        BY <4>2, <1>6
      <4>4. QED
        BY <4>2, <4>3, <1>4, <1>5
    <3>3. QED
      BY <3>1, <3>2, <1>3
  <2>4. ASSUME NEW p \in Requests, NEW q \in Requests, p # q
        PROVE  /\ reqs'[p].locks \cap reqs'[q].locks = {}
               /\ Open(p)' /\ Open(q)' => reqs'[p].ids \cap reqs'[q].ids = {}
    <3>1. \A x \in Requests : x # r => reqs[x].locks \cap names = {}
      BY <1>1 DEF Unlocked
    <3>2. \A x \in Requests : Open(x) => reqs[x].ids \cap new = {}
      BY <1>3 DEF Inv, Transactions
    <3>3. QED
      BY <2>4, <3>1, <3>2, <1>4, <1>5, <1>6 DEF Inv, Transactions
  <2>5. QED
    BY <2>1, <2>2, <2>3, <2>4 DEF Transactions, Open
<1>12. OneWriter'
  <2>1. SUFFICES ASSUME Backend = "sqlite", NEW q \in Requests, Open(q)'
        PROVE (/\ \A p \in Requests : Open(p) => p = q
               /\ \A k \in reqs[q].ids, j \in DOMAIN log : j >= k => j \in reqs[q].ids)'
    BY DEF OneWriter
  <2>2. \A p \in Requests : ~Open(p)
    BY <2>1, <1>1 DEF Pool
  <2>3. q = r /\ \A p \in Requests : Open(p)' => p = r
    BY <2>1, <2>2, <1>5
  <2>4. \A k \in new, j \in DOMAIN log' : j >= k => j \in new
    BY <1>2, <1>3 DEF new, New
  <2>5. QED
    BY <2>3, <2>4, <1>4
<1>13. Claim(client.cursor)' /\ Claim(client.mark)'
  BY <1>1, <1>3 DEF Inv, Claim
<1>14. Reach'
  <2>1. \A k \in DOMAIN log' : log'[k].state = "in" => k \in DOMAIN log /\ log[k] = log'[k]
    BY <1>3, <1>7
  <2>2. QED
    BY <2>1, <1>1 DEF Inv, Reach, MaySee, tables, history
<1>15. (\A q \in Requests : Resolved(reqs[q]))'
  BY <1>4 DEF Inv, Resolved
<1>16. QED
  BY <1>8, <1>9, <1>10, <1>11, <1>12, <1>13, <1>14, <1>15 DEF Inv

\* A commit makes entries visible together with what they tell of.
LEMMA CommitInv ==
  ASSUME Inv, NEW r \in Requests, Commit(r)
  PROVE  Inv'
<1> DEFINE fx == reqs[r].fx
           ids == reqs[r].ids
           set == [i \in Items |-> IF i \in DOMAIN fx.set THEN fx.set[i] ELSE content[i]]
           gone == {v \in Views : \E x \in Scoped : x[1] = v /\ set[x[2]] = 0}
           left == Deliverable(ids)
           next == IF left = {} THEN Idle ELSE [Idle EXCEPT !.at = "deliver", !.ids = left]
<1>1. /\ Open(r)
      /\ content' = [i \in Items |-> IF i \in gone THEN 0 ELSE set[i]]
      /\ members' = {m \in (members \cup fx.join) \ fx.leave : content'[m[1]] # 0}
      /\ shared' = (shared \cup fx.share) \ fx.unshare
      /\ log' = [k \in DOMAIN log |-> IF k \in ids THEN [log[k] EXCEPT !.state = "in"] ELSE log[k]]
      /\ reqs' = [reqs EXCEPT ![r] = next]
      /\ entitled' = entitled \cup
           {i \in Items : content'[i] # 0 /\ MaySee(watched, i, members', shared')}
      /\ strays' = (strays \cup (fx.unshare \cap shared)) \ fx.share
      /\ behind' \in SUBSET (behind \cup Teams)
      /\ UNCHANGED <<calls, watched, client>>
  BY DEF Commit
<1>2. /\ reqs[r] \in RequestType /\ fx \in EffectType /\ Types
      /\ Len(log) \in Nat /\ DOMAIN log = 1..Len(log)
      /\ ids # {} /\ ids \subseteq DOMAIN log /\ ids \in SUBSET Nat
      /\ \A k \in ids : log[k].state = "open" /\ Describes(log[k], reqs[r].locks, fx)
      /\ HoldsCascade(reqs[r].locks, fx)
  <2>1. reqs[r] \in RequestType /\ Types
    BY DEF Inv, Types
  <2>2. fx \in EffectType /\ ids \in SUBSET Nat
    BY <2>1 DEF RequestType
  <2>3. QED
    BY <1>1, <2>1, <2>2, LogType DEF Inv, Transactions
<1>3. /\ fx.set \in Rows /\ DOMAIN fx.set \subseteq Items
      /\ \A i \in DOMAIN fx.set : fx.set[i] \in Contents
      /\ fx.join \subseteq Teams \X Users /\ fx.share \subseteq Views /\ fx.unshare \subseteq Views
  BY <1>2 DEF EffectType, Rows
<1>4. /\ log' \in Seq(EntryType) /\ DOMAIN log' = DOMAIN log
      /\ \A k \in DOMAIN log \ ids : log'[k] = log[k]
      /\ \A k \in ids : /\ log'[k].state = "in" /\ log'[k].item = log[k].item
                        /\ log'[k].n = log[k].n /\ log'[k].to = log[k].to
                        /\ log'[k].live = log[k].live
  <2>1. \A k \in DOMAIN log : log[k] \in EntryType
    BY LogType
  <2>2. ASSUME NEW k \in ids
        PROVE  /\ log'[k] \in EntryType
               /\ log'[k].state = "in" /\ log'[k].item = log[k].item
               /\ log'[k].n = log[k].n /\ log'[k].to = log[k].to
               /\ log'[k].live = log[k].live
    <3>1. log'[k] = [log[k] EXCEPT !.state = "in"] /\ log[k] \in EntryType
      BY <1>1, <1>2, <2>1
    <3>2. QED
      BY <3>1 DEF EntryType
  <2>3. \A k \in DOMAIN log \ ids : log'[k] = log[k]
    BY <1>1
  <2>4. log' \in [1..Len(log) -> EntryType]
    <3>1. \A k \in DOMAIN log : log'[k] \in EntryType
      BY <2>1, <2>2, <2>3
    <3>2. log' = [k \in DOMAIN log |-> log'[k]] /\ DOMAIN log = 1..Len(log)
      BY <1>1, <1>2
    <3>3. QED
      BY <3>1, <3>2
  <2>5. log' \in Seq(EntryType) /\ DOMAIN log' = DOMAIN log
    BY <1>2, <2>4
  <2>6. QED
    BY <2>2, <2>3, <2>5
<1>5. /\ reqs' \in [Requests -> RequestType]
      /\ reqs'[r].at \in {"idle", "deliver"} /\ reqs'[r].locks = {}
      /\ reqs'[r].at = "deliver" => reqs'[r].ids # {} /\ reqs'[r].ids \subseteq ids
      /\ \A q \in Requests \ {r} : reqs'[q] = reqs[q]
  <2>1. left \subseteq ids
    BY DEF Deliverable
  <2>2. /\ next \in RequestType /\ next.at \in {"idle", "deliver"} /\ next.locks = {}
        /\ next.at = "deliver" => next.ids # {} /\ next.ids \subseteq ids
    <3> HIDE DEF left, ids
    <3>1. left \in SUBSET Nat
      BY <1>2, <2>1
    <3>2. QED
      BY <2>1, <3>1, IdleType DEF RequestType
  <2> HIDE DEF next
  <2>3. QED
    BY <1>1, <2>2 DEF Inv, Types
<1> HIDE DEF next, left
<1>6. /\ \A q \in Requests : Open(q)' <=> (Open(q) /\ q # r)
      /\ \A q \in Requests \ {r} : Open(q) => reqs[q].ids \cap ids = {}
      /\ \A q \in Requests \ {r} : reqs[q].locks \cap reqs[r].locks = {}
  BY <1>1, <1>5 DEF Inv, Transactions, Open
<1>7. /\ content' \in [Items -> Contents]
      /\ \A t \in Teams : content'[t] = IF t \in DOMAIN fx.set THEN fx.set[t] ELSE content[t]
      /\ \A v \in Views : content'[v] # 0 => v \notin gone
      /\ \A i \in Items : content'[i] = IF i \in gone THEN 0 ELSE set[i]
  <2>1. 0 \in Contents
    BY SyncLogAssumption DEF SyncLogAssumption, Contents
  <2>2. set \in [Items -> Contents]
    BY <1>2, <1>3 DEF Types
  <2>3. gone \cap Teams = {}
    BY SyncLogAssumption DEF SyncLogAssumption
  <2>4. QED
    BY <1>1, <2>1, <2>2, <2>3 DEF Items
<1>8. Types'
  <2>1. members' \subseteq Teams \X Users /\ shared' \subseteq Views
    BY <1>1, <1>2, <1>3 DEF Types
  <2>2. strays' \cup behind' \cup entitled' \subseteq Items
    BY <1>1, <1>2, <1>3 DEF Types, Items
  <2>3. QED
    BY <1>1, <1>2, <1>4, <1>5, <1>7, <2>1, <2>2 DEF Types
<1>9. (\A k \in DOMAIN log : Addressed(log[k]))'
  <2>1. \A k \in DOMAIN log : /\ log'[k].item = log[k].item /\ log'[k].to = log[k].to
                              /\ log'[k].n = log[k].n
    BY <1>4
  <2>2. QED
    BY <1>4, <2>1 DEF Inv, Addressed
<1>10. Cascaded'
  <2>1. ASSUME NEW x \in Scoped, content'[x[1]] # 0
        PROVE  content'[x[2]] # 0
    <3>1. x[1] \in Views /\ x[2] \in Teams /\ x[2] \in Items
      BY SyncLogAssumption DEF SyncLogAssumption, Items
    <3>2. x[1] \notin gone
      BY <2>1, <3>1, <1>7
    <3>3. set[x[2]] # 0
      BY <3>1, <3>2
    <3>4. QED
      BY <3>1, <3>3, <1>7
  <2>2. QED
    BY <2>1, <1>1 DEF Cascaded
<1>11. Transactions'
  <2>1. ASSUME NEW q \in Requests, Open(q)'
        PROVE  (/\ reqs[q].ids # {} /\ reqs[q].ids \subseteq DOMAIN log
                /\ \A k \in reqs[q].ids : /\ log[k].state = "open"
                                          /\ Describes(log[k], reqs[q].locks, reqs[q].fx)
                /\ HoldsCascade(reqs[q].locks, reqs[q].fx))'
    <3>1. q # r /\ Open(q) /\ reqs'[q] = reqs[q]
      BY <2>1, <1>5, <1>6
    <3>2. /\ reqs[q].ids # {} /\ reqs[q].ids \subseteq DOMAIN log
          /\ \A k \in reqs[q].ids : /\ log[k].state = "open" /\ log'[k] = log[k]
                                    /\ Describes(log[k], reqs[q].locks, reqs[q].fx)
          /\ HoldsCascade(reqs[q].locks, reqs[q].fx)
      BY <3>1, <1>4, <1>6 DEF Inv, Transactions
    <3>3. ASSUME NEW k \in reqs[q].ids, log[k].item \in Views, log[k].n # 0,
                 NEW x \in Scoped, x[1] = log[k].item
          PROVE  content'[x[2]] # 0
      <4>1. content[x[2]] # 0 /\ x[1] \in reqs[q].locks /\ x[2] \in Teams
        BY <3>2, <3>3, SyncLogAssumption DEF Describes, SyncLogAssumption
      <4>2. ~(x[2] \in DOMAIN fx.set /\ fx.set[x[2]] = 0)
        BY <4>1, <3>1, <1>2, <1>6 DEF HoldsCascade
      <4>3. QED
        BY <4>1, <4>2, <1>7
    <3>4. \A k \in reqs[q].ids : Describes(log[k], reqs[q].locks, reqs[q].fx)'
      BY <3>1, <3>2, <3>3 DEF Describes
    <3>5. QED
      BY <3>1, <3>2, <3>4, <1>4 DEF HoldsCascade
  <2>2. ASSUME NEW q \in Requests, reqs'[q].at = "deliver"
        PROVE  /\ reqs'[q].ids # {} /\ reqs'[q].ids \subseteq DOMAIN log'
               /\ \A k \in reqs'[q].ids : log'[k].state = "in"
    <3>1. CASE q = r
      BY <2>2, <3>1, <1>2, <1>4, <1>5
    <3>2. CASE q # r
      BY <2>2, <3>2, <1>4, <1>5 DEF Inv, Transactions
    <3>3. QED
      BY <3>1, <3>2
  <2>3. ASSUME NEW k \in DOMAIN log', log'[k].state = "open"
        PROVE  \E q \in Requests : Open(q)' /\ k \in reqs'[q].ids
    <3>1. k \in DOMAIN log /\ k \notin ids /\ log[k].state = "open"
      BY <2>3, <1>4
    <3>2. PICK q \in Requests : Open(q) /\ k \in reqs[q].ids
      BY <3>1 DEF Inv, Transactions
    <3>3. QED
      BY <3>1, <3>2, <1>5, <1>6
  <2>4. ASSUME NEW p \in Requests, NEW q \in Requests, p # q
        PROVE  /\ reqs'[p].locks \cap reqs'[q].locks = {}
               /\ Open(p)' /\ Open(q)' => reqs'[p].ids \cap reqs'[q].ids = {}
    BY <2>4, <1>5, <1>6 DEF Inv, Transactions
  <2>5. QED
    BY <2>1, <2>2, <2>3, <2>4 DEF Transactions, Open
<1>12. OneWriter'
  BY <1>4, <1>5, <1>6 DEF Inv, OneWriter
<1>13. Claim(client.cursor)' /\ Claim(client.mark)'
  BY <1>1, <1>4 DEF Inv, Claim
<1>14. Reach'
  <2>1. (\A i \in Items : content[i] # 0 /\ MaySee(watched, i, members, shared) => i \in entitled)'
    BY <1>1 DEF MaySee
  <2>2. ASSUME NEW k \in DOMAIN log, log'[k].state = "in", log[k].item \in Views, log[k].n # 0,
               log[k].to = "workspace" \/ log[k].to = watched
        PROVE  log[k].item \in entitled'
    <3>1. CASE k \notin ids
      BY <3>1, <2>2, <1>1, <1>4 DEF Inv, Reach
    <3>2. CASE k \in ids
      <4> DEFINE v == log[k].item
      <4>1. /\ DOMAIN fx.set = {v} /\ fx.set[v] # 0
            /\ log[k].to = "workspace" => v \in fx.share \ fx.unshare
            /\ \A x \in Scoped : x[1] = v => content[x[2]] # 0
        BY <3>2, <2>2, <1>2 DEF Describes
      <4>2. \A x \in Scoped : x[1] = v => set[x[2]] # 0
        <5>1. SUFFICES ASSUME NEW x \in Scoped, x[1] = v PROVE set[x[2]] # 0
          OBVIOUS
        <5>2. x[2] \in Items /\ x[2] # v /\ content[x[2]] # 0
          BY <5>1, <4>1, <2>2, SyncLogAssumption DEF SyncLogAssumption, Items
        <5>3. QED
          BY <5>2, <4>1
      <4>3. v \in Items /\ v \notin gone
        BY <4>2, <2>2 DEF Items
      <4>4. content'[v] # 0
        BY <4>1, <4>3, <1>7
      <4>5. MaySee(watched, v, members', shared')
        <5>1. v \notin Teams
          BY <2>2, SyncLogAssumption DEF SyncLogAssumption
        <5>2. log[k].to \in {"workspace", Owner}
          BY <2>2 DEF Inv, Addressed
        <5>3. CASE log[k].to = "workspace"
          BY <5>1, <5>3, <4>1, <1>1 DEF MaySee
        <5>4. CASE log[k].to = Owner /\ log[k].to # "workspace"
          BY <5>1, <5>4, <2>2 DEF MaySee
        <5>5. QED
          BY <5>2, <5>3, <5>4
      <4>6. QED
        BY <4>3, <4>4, <4>5, <1>1
    <3>3. QED
      BY <3>1, <3>2
  <2>3. \A k \in DOMAIN log : /\ log'[k].item = log[k].item /\ log'[k].to = log[k].to
                              /\ log'[k].n = log[k].n
    BY <1>4
  <2>4. ASSUME NEW k \in DOMAIN log', log'[k].state = "in", log'[k].item \in Views, log'[k].n # 0,
               log'[k].to = "workspace" \/ log'[k].to = watched'
        PROVE  log'[k].item \in entitled'
    <3>1. k \in DOMAIN log /\ watched' = watched
      BY <1>1, <1>4
    <3>2. log'[k].item = log[k].item /\ log'[k].to = log[k].to /\ log'[k].n = log[k].n
      BY <2>3, <3>1
    <3>3. QED
      BY <2>2, <2>4, <3>1, <3>2
  <2>5. (\A f \in client.page : f.n # 0 => f.item \in entitled)'
    BY <1>1 DEF Inv, Reach
  <2>6. QED
    BY <2>1, <2>4, <2>5 DEF Reach
<1>15. OnlyEntitled'
  BY <1>1 DEF Inv, OnlyEntitled
<1>16. (\A q \in Requests : Resolved(reqs[q]))'
  BY <1>5 DEF Inv, Resolved
<1>17. QED
  BY <1>8, <1>9, <1>10, <1>11, <1>12, <1>13, <1>14, <1>15, <1>16 DEF Inv

\* SQLite forgets the entries of a transaction that fails: they are the last.
LEMMA Truncated ==
  ASSUME Inv, NEW r \in Requests, Open(r), Backend = "sqlite",
         log' = SubSeq(log, 1, Min(reqs[r].ids) - 1)
  PROVE  /\ log' \in Seq(EntryType)
         /\ DOMAIN log' = DOMAIN log \ reqs[r].ids
         /\ \A k \in DOMAIN log' : log'[k] = log[k]
<1> DEFINE ids == reqs[r].ids
           first == Min(ids)
<1>1. /\ ids # {} /\ ids \subseteq DOMAIN log
      /\ \A k \in ids, j \in DOMAIN log : j >= k => j \in ids
  BY DEF Inv, Transactions, OneWriter
<1>2. Len(log) \in Nat /\ DOMAIN log = 1..Len(log) /\ log \in Seq(EntryType)
  BY LogType DEF Inv, Types
<1>3. first \in ids /\ \A k \in ids : first <= k
  BY <1>1, <1>2, MinOf
<1>4. first \in 1..Len(log) /\ log' = SubSeq(log, 1, first - 1)
  BY <1>1, <1>2, <1>3
<1> HIDE DEF first
<1>5. /\ log' \in Seq(EntryType) /\ DOMAIN log' = 1..(first - 1)
      /\ \A k \in 1..(first - 1) : log'[k] = log[k]
  BY <1>2, <1>4, Prefix
<1>6. 1..(first - 1) = DOMAIN log \ ids
  BY <1>1, <1>2, <1>3, <1>4
<1>7. QED
  BY <1>5, <1>6

\* A transaction that fails leaves no trace, or entries that nobody reads.
LEMMA RollbackInv ==
  ASSUME Inv, NEW r \in Requests, Rollback(r)
  PROVE  Inv'
<1> DEFINE ids == reqs[r].ids
<1>1. /\ Open(r) /\ reqs' = [reqs EXCEPT ![r] = Idle]
      /\ UNCHANGED <<calls, tables, watched, client, history>>
  BY DEF Rollback
<1>2. /\ reqs' \in [Requests -> RequestType]
      /\ reqs'[r] = Idle
      /\ \A q \in Requests \ {r} : reqs'[q] = reqs[q]
  BY <1>1, IdleType DEF Inv, Types
<1>3. /\ log' \in Seq(EntryType) /\ DOMAIN log' \subseteq DOMAIN log
      /\ DOMAIN log \ ids \subseteq DOMAIN log'
      /\ \A k \in DOMAIN log \ ids : log'[k] = log[k]
      /\ \A k \in DOMAIN log' \cap ids : log'[k].state = "void" /\ Addressed(log'[k])
  <2>1. CASE Backend = "sqlite"
    <3>1. log' = SubSeq(log, 1, Min(reqs[r].ids) - 1)
      BY <2>1 DEF Rollback
    <3>2. QED
      BY <1>1, <2>1, <3>1, Truncated
  <2>2. CASE Backend # "sqlite"
    <3>1. log' = [k \in DOMAIN log |-> IF k \in ids THEN [log[k] EXCEPT !.state = "void"]
                                       ELSE log[k]]
      BY <2>2 DEF Rollback
    <3>2. \A k \in DOMAIN log : log[k] \in EntryType /\ Addressed(log[k])
      BY LogType DEF Inv
    <3>3. ASSUME NEW k \in DOMAIN log \cap ids
          PROVE  log'[k] \in EntryType /\ log'[k].state = "void" /\ Addressed(log'[k])
      <4>1. log'[k] = [log[k] EXCEPT !.state = "void"] /\ log[k] \in EntryType /\ Addressed(log[k])
        BY <3>1, <3>2
      <4>2. QED
        BY <4>1 DEF EntryType, Addressed
    <3>4. \A k \in DOMAIN log \ ids : log'[k] = log[k]
      BY <3>1
    <3>5. Len(log) \in Nat /\ DOMAIN log = 1..Len(log)
      BY LogType
    <3>6. log' \in [1..Len(log) -> EntryType]
      BY <3>1, <3>2, <3>3, <3>4, <3>5
    <3>7. QED
      BY <3>1, <3>3, <3>4, <3>5, <3>6
  <2>3. QED
    BY <2>1, <2>2
<1>4. /\ ids \subseteq DOMAIN log
      /\ \A k \in ids : log[k].state = "open"
      /\ \A q \in Requests \ {r} : Open(q) => reqs[q].ids \cap ids = {}
      /\ \A q \in Requests : Open(q)' <=> (Open(q) /\ q # r)
  BY <1>1, <1>2, IdleType DEF Inv, Transactions, Open
<1> HIDE DEF ids
<1>5. \A k \in DOMAIN log' : log'[k].state # "void" => k \in DOMAIN log \ ids /\ log'[k] = log[k]
  BY <1>3
<1>6. \A k \in DOMAIN log : log[k].state = "in" => k \in DOMAIN log' /\ log'[k] = log[k]
  BY <1>3, <1>4
<1>7. Types'
  BY <1>1, <1>2, <1>3 DEF Inv, Types, tables, history
<1>8. (\A k \in DOMAIN log : Addressed(log[k]))'
  <2>1. ASSUME NEW k \in DOMAIN log' PROVE Addressed(log'[k])
    BY <1>3 DEF Inv
  <2>2. QED
    BY <2>1 DEF Addressed
<1>9. Cascaded' /\ OnlyEntitled'
  BY <1>1 DEF Inv, Cascaded, OnlyEntitled, tables, history
<1>10. Transactions'
  <2>1. ASSUME NEW q \in Requests, Open(q)'
        PROVE  (/\ reqs[q].ids # {} /\ reqs[q].ids \subseteq DOMAIN log
                /\ \A k \in reqs[q].ids : /\ log[k].state = "open"
                                          /\ Describes(log[k], reqs[q].locks, reqs[q].fx)
                /\ HoldsCascade(reqs[q].locks, reqs[q].fx))'
    <3>1. q # r /\ Open(q) /\ reqs'[q] = reqs[q] /\ content' = content
      BY <2>1, <1>1, <1>2, <1>4 DEF tables
    <3>2. /\ reqs[q].ids # {} /\ reqs[q].ids \subseteq DOMAIN log \ ids
          /\ \A k \in reqs[q].ids : /\ log[k].state = "open" /\ log'[k] = log[k]
                                    /\ Describes(log[k], reqs[q].locks, reqs[q].fx)
          /\ HoldsCascade(reqs[q].locks, reqs[q].fx)
      BY <3>1, <1>3, <1>4 DEF Inv, Transactions
    <3>3. \A k \in reqs[q].ids : Describes(log[k], reqs[q].locks, reqs[q].fx)'
      BY <3>1, <3>2 DEF Describes
    <3>4. QED
      BY <3>1, <3>2, <3>3, <1>3 DEF HoldsCascade
  <2>2. ASSUME NEW q \in Requests, reqs'[q].at = "deliver"
        PROVE  /\ reqs'[q].ids # {} /\ reqs'[q].ids \subseteq DOMAIN log'
               /\ \A k \in reqs'[q].ids : log'[k].state = "in"
    BY <2>2, <1>2, <1>6, IdleType DEF Inv, Transactions
  <2>3. ASSUME NEW k \in DOMAIN log', log'[k].state = "open"
        PROVE  \E q \in Requests : Open(q)' /\ k \in reqs'[q].ids
    <3>1. k \in DOMAIN log \ ids /\ log[k].state = "open"
      BY <2>3, <1>5
    <3>2. PICK q \in Requests : Open(q) /\ k \in reqs[q].ids
      BY <3>1 DEF Inv, Transactions
    <3>3. q # r
      BY <3>1, <3>2 DEF ids
    <3>4. QED
      BY <3>2, <3>3, <1>2, <1>4
  <2>4. ASSUME NEW p \in Requests, NEW q \in Requests, p # q
        PROVE  /\ reqs'[p].locks \cap reqs'[q].locks = {}
               /\ Open(p)' /\ Open(q)' => reqs'[p].ids \cap reqs'[q].ids = {}
    BY <2>4, <1>2, <1>4, IdleType DEF Inv, Transactions
  <2>5. QED
    BY <2>1, <2>2, <2>3, <2>4 DEF Transactions, Open
<1>11. OneWriter'
  BY <1>1, <1>4 DEF Inv, OneWriter
<1>12. Claim(client.cursor)' /\ Claim(client.mark)'
  BY <1>1, <1>6 DEF Inv, Claim
<1>13. Reach'
  BY <1>1, <1>5 DEF Inv, Reach, MaySee, tables, history
<1>14. (\A q \in Requests : Resolved(reqs[q]))'
  BY <1>2, IdleType DEF Inv, Resolved
<1>15. QED
  BY <1>7, <1>8, <1>9, <1>10, <1>11, <1>12, <1>13, <1>14 DEF Inv

\* A live frame goes to those the entry concerns when it is sent.
LEMMA DeliverInv ==
  ASSUME Inv, NEW r \in Requests, Deliver(r)
  PROVE  Inv'
<1> DEFINE k == Min(reqs[r].ids)
           e == log[k]
           gets == client.phase # "down" /\ watched \in Recipients(e)
           left == reqs[r].ids \ {k}
           next == IF left = {} THEN Idle ELSE [reqs[r] EXCEPT !.ids = left]
<1>1. /\ reqs[r].at = "deliver"
      /\ reqs' = [reqs EXCEPT ![r] = next]
      /\ client' = IF gets THEN [client EXCEPT !.holds[e.item] = e.n] ELSE client
      /\ behind' = IF gets /\ client.phase # "current" THEN behind \cup {e.item} ELSE behind
      /\ UNCHANGED <<calls, tables, log, watched, entitled, strays>>
  BY DEF Deliver
<1>2. /\ reqs[r] \in RequestType /\ reqs[r].ids # {} /\ reqs[r].ids \subseteq DOMAIN log
      /\ \A j \in reqs[r].ids : log[j].state = "in"
  BY <1>1 DEF Inv, Types, Transactions
<1>3. k \in reqs[r].ids
  <2>1. reqs[r].ids \subseteq Nat
    BY <1>2 DEF RequestType
  <2>2. QED
    BY <1>2, <2>1, MinOf
<1> HIDE DEF k
<1>4. /\ e \in EntryType /\ e.state = "in" /\ Addressed(e)
      /\ e.item \in Items /\ e.n \in Contents /\ e.to \in {"workspace", "team"} \cup Users
  BY <1>2, <1>3, LogType DEF Inv
<1>5. gets /\ e.n # 0 => e.item \in entitled
  <2>1. SUFFICES ASSUME watched \in Recipients(e), e.n # 0 PROVE e.item \in entitled
    OBVIOUS
  <2>2. CASE e.item \in Teams
    <3>1. e.to = "team"
      BY <2>1, <2>2, <1>4 DEF Addressed
    <3>2. <<e.item, watched>> \in members
      BY <3>1, <2>1 DEF Recipients
    <3>3. content[e.item] # 0
      BY <3>2 DEF Inv, Cascaded
    <3>4. QED
      BY <2>2, <3>2, <3>3, <1>4 DEF Inv, Reach, MaySee
  <2>3. CASE e.item \in Views
    <3>1. e.to \in {"workspace", Owner}
      BY <2>3, <1>4 DEF Addressed
    <3>2. e.to = "workspace" \/ e.to = watched
      BY <3>1, <2>1, SyncLogAssumption DEF Recipients, SyncLogAssumption
    <3>3. QED
      BY <3>2, <2>1, <2>3, <1>2, <1>3 DEF Inv, Reach
  <2>4. QED
    BY <2>2, <2>3, <1>4 DEF Items
<1>6. /\ client' \in ClientType /\ client'.cursor = client.cursor /\ client'.mark = client.mark
      /\ client'.page = client.page
      /\ \A i \in Items : client'.holds[i] # 0 => i \in entitled
  <2>1. client \in ClientType /\ \A i \in Items : client.holds[i] # 0 => i \in entitled
    BY DEF Inv, Types, OnlyEntitled
  <2>2. CASE gets
    <3>1. client' = [client EXCEPT !.holds[e.item] = e.n]
      BY <2>2, <1>1
    <3> HIDE DEF e
    <3>2. client.holds \in [Items -> Contents]
      BY <2>1 DEF ClientType
    <3>3. client'.holds = [client.holds EXCEPT ![e.item] = e.n]
      BY <2>1, <3>1 DEF ClientType
    <3>4. client'.holds \in [Items -> Contents]
      BY <3>2, <3>3, <1>4
    <3>5. \A i \in Items : client'.holds[i] = IF i = e.item THEN e.n ELSE client.holds[i]
      BY <3>2, <3>3
    <3>6. client' \in ClientType /\ client'.cursor = client.cursor /\ client'.mark = client.mark
          /\ client'.page = client.page
      BY <2>1, <3>1, <3>3, <3>4 DEF ClientType
    <3>7. QED
      BY <2>1, <2>2, <3>5, <3>6, <1>5
  <2>3. CASE ~gets
    BY <2>1, <2>3, <1>1
  <2>4. QED
    BY <2>2, <2>3
<1>7. /\ reqs' \in [Requests -> RequestType]
      /\ reqs'[r].at \in {"idle", "deliver"} /\ reqs'[r].locks \subseteq reqs[r].locks
      /\ reqs'[r].at = "deliver" => reqs'[r].ids # {} /\ reqs'[r].ids \subseteq reqs[r].ids
      /\ \A q \in Requests \ {r} : reqs'[q] = reqs[q]
  <2>1. /\ next \in RequestType /\ next.at \in {"idle", "deliver"} /\ next.locks \subseteq reqs[r].locks
        /\ next.at = "deliver" => next.ids # {} /\ next.ids \subseteq reqs[r].ids
    <3>1. left \in SUBSET reqs[r].ids
      OBVIOUS
    <3>2. reqs[r].ids \in SUBSET Nat
      BY <1>2 DEF RequestType
    <3> HIDE DEF left
    <3>3. QED
      BY <3>1, <3>2, <1>1, <1>2, IdleType DEF RequestType
  <2> HIDE DEF next
  <2>2. QED
    BY <1>1, <2>1 DEF Inv, Types
<1>8. \A q \in Requests : Open(q)' <=> (Open(q) /\ q # r)
  BY <1>1, <1>7 DEF Open
<1>9. Types'
  BY <1>1, <1>4, <1>6, <1>7 DEF Inv, Types, tables
<1>10. Transactions' /\ OneWriter'
  <2>1. Transactions'
    BY <1>1, <1>2, <1>7, <1>8 DEF Inv, Transactions, Describes, HoldsCascade, tables
  <2>2. OneWriter'
    BY <1>1, <1>7, <1>8 DEF Inv, OneWriter
  <2>3. QED
    BY <2>1, <2>2
<1>11. (\A j \in DOMAIN log : Addressed(log[j]))' /\ Cascaded'
  BY <1>1 DEF Inv, Addressed, Cascaded, tables
<1>12. Claim(client.cursor)' /\ Claim(client.mark)'
  BY <1>1, <1>6 DEF Inv, Claim
<1>13. Reach' /\ OnlyEntitled'
  BY <1>1, <1>6 DEF Inv, Reach, OnlyEntitled, MaySee, tables
<1>14. (\A q \in Requests : Resolved(reqs[q]))'
  BY <1>7 DEF Inv, Resolved
<1>15. QED
  BY <1>9, <1>10, <1>11, <1>12, <1>13, <1>14 DEF Inv

-----------------------------------------------------------------------------
(***************************************************************************)
(* The client and its handler.                                             *)
(***************************************************************************)
\* What a step of the client's handler has to keep.
LEMMA ClientInv ==
  ASSUME Inv, UNCHANGED <<calls, tables, log, reqs, watched, entitled, strays>>,
         behind' \subseteq Items, client' \in ClientType,
         Claim(client'.cursor), Claim(client'.mark),
         \A f \in client'.page : f.n # 0 => f.item \in entitled,
         \A i \in Items : client'.holds[i] # 0 => i \in entitled
  PROVE  Inv'
<1>1. Types'
  BY DEF Inv, Types, tables
<1>2. Transactions' /\ OneWriter'
  <2>1. Transactions'
    BY DEF Inv, Transactions, Describes, HoldsCascade, Open, tables
  <2>2. OneWriter'
    BY DEF Inv, OneWriter, Open
  <2>3. QED
    BY <2>1, <2>2
<1>3. (\A k \in DOMAIN log : Addressed(log[k]))' /\ Cascaded'
  BY DEF Inv, Addressed, Cascaded, tables
<1>4. Claim(client.cursor)' /\ Claim(client.mark)'
  BY DEF Claim
<1>5. Reach' /\ OnlyEntitled'
  BY DEF Inv, Reach, OnlyEntitled, MaySee, tables
<1>6. (\A r \in Requests : Resolved(reqs[r]))'
  BY DEF Inv, Resolved
<1>7. QED
  BY <1>1, <1>2, <1>3, <1>4, <1>5, <1>6 DEF Inv

\* What ClientInv asks, of the client as it is.
LEMMA ClientNow ==
  ASSUME Inv
  PROVE  /\ client \in ClientType /\ behind \subseteq Items
         /\ Claim(client.cursor) /\ Claim(client.mark) /\ Claim(0)
         /\ \A f \in client.page : f.n # 0 => f.item \in entitled
         /\ \A i \in Items : client.holds[i] # 0 => i \in entitled
BY DEF Inv, Types, Claim, Reach, OnlyEntitled

\* A watermark is 0 or the id of an entry that is visible.
LEMMA LatestIsVisible == Inv => Latest \in Nat /\ Claim(Latest)
<1> SUFFICES ASSUME Inv PROVE Latest \in Nat /\ Claim(Latest)
  OBVIOUS
<1> DEFINE S == {0} \cup {k \in DOMAIN log : log[k].state = "in"}
<1>1. S # {} /\ S \subseteq 0..Len(log) /\ Len(log) \in Nat
  BY LogType
<1>2. Max(S) \in S
  BY <1>1, MaxOf
<1>3. QED
  BY <1>1, <1>2 DEF Latest, Claim

LEMMA ConnectInv == Inv /\ Connect => Inv'
<1> SUFFICES ASSUME Inv, Connect PROVE Inv'
  OBVIOUS
<1>1. /\ UNCHANGED <<calls, tables, log, reqs, watched, entitled, strays>> /\ behind' = {}
      /\ client' = IF client.cursor = 0 THEN [Down EXCEPT !.phase = "asked"]
                   ELSE [client EXCEPT !.phase = "delta", !.mark = client.cursor]
  BY DEF Connect
<1>2. CASE client.cursor = 0
  <2>1. /\ client' \in ClientType /\ client'.cursor = 0 /\ client'.mark = 0
        /\ client'.page = {} /\ \A i \in Items : client'.holds[i] = 0
    BY <1>1, <1>2, DownType DEF Down, ClientType
  <2>2. QED
    BY <1>1, <2>1, ClientInv, ClientNow
<1>3. CASE client.cursor # 0
  <2>1. /\ client' \in ClientType /\ client'.cursor = client.cursor /\ client'.mark = client.cursor
        /\ client'.page = client.page /\ client'.holds = client.holds
    BY <1>1, <1>3, ClientNow DEF ClientType
  <2>2. QED
    BY <1>1, <2>1, ClientInv, ClientNow
<1>4. QED
  BY <1>2, <1>3

LEMMA StartBootstrapInv == Inv /\ StartBootstrap => Inv'
<1> SUFFICES ASSUME Inv, StartBootstrap PROVE Inv'
  OBVIOUS
<1>1. /\ UNCHANGED <<calls, tables, log, reqs, watched, history>>
      /\ client' = [client EXCEPT !.phase = "teams", !.mark = Latest]
  BY DEF StartBootstrap, ServerOnly
<1>2. /\ client' \in ClientType /\ client'.cursor = client.cursor /\ client'.mark = Latest
      /\ client'.page = client.page /\ client'.holds = client.holds
  BY <1>1, ClientNow, LatestIsVisible DEF ClientType
<1>3. behind' \subseteq Items
  BY <1>1, ClientNow DEF history
<1>4. QED
  BY <1>1, <1>2, <1>3, ClientInv, ClientNow, LatestIsVisible DEF history

\* What a bootstrap reads its user may see.
LEMMA ReadListInv ==
  ASSUME Inv, NEW place \in Nat, NEW phase, NEW kind \in SUBSET Items,
         NEW next \in {"views", "stream"}, ReadList(place, phase, kind, next)
  PROVE  Inv'
<1> DEFINE shown == {x \in kind : Bootstrap(watched)[x] # 0}
           frames == {Frame(place, i, content[i]) : i \in shown}
<1>1. /\ UNCHANGED <<calls, tables, log, reqs, watched, history>>
      /\ client' = [client EXCEPT !.phase = next, !.short = TRUE, !.page = @ \cup frames]
  BY DEF ReadList, ServerOnly
<1>2. \A i \in shown : i \in Items /\ content[i] \in Contents /\ i \in entitled
  <2>1. SUFFICES ASSUME NEW i \in shown PROVE content[i] \in Contents /\ i \in entitled
    OBVIOUS
  <2>2. i \in Items /\ Bootstrap(watched)[i] # 0
    OBVIOUS
  <2>3. content[i] # 0 /\ MaySee(watched, i, members, shared)
    BY <2>2 DEF Bootstrap, Exists
  <2>4. QED
    BY <2>2, <2>3 DEF Inv, Types, Reach
<1> HIDE DEF shown
<1>3. frames \subseteq [place : Nat, item : Items, n : Contents]
  BY <1>2 DEF Frame
<1>4. \A f \in frames : f.item \in entitled
  BY <1>2 DEF Frame
<1> HIDE DEF frames
<1>5. /\ client' \in ClientType /\ client'.cursor = client.cursor /\ client'.mark = client.mark
      /\ client'.page = client.page \cup frames /\ client'.holds = client.holds
  BY <1>1, <1>3, ClientNow DEF ClientType
<1>6. behind' \subseteq Items
  BY <1>1, ClientNow DEF history
<1>7. QED
  BY <1>1, <1>4, <1>5, <1>6, ClientInv, ClientNow DEF history

\* An entry of a delta is about something its user has been entitled to, or is a
\* delete.
LEMMA ConcernsEntitled ==
  ASSUME Inv, NEW k \in DOMAIN log, Concerns(log[k], watched), log[k].n # 0
  PROVE  log[k].item \in entitled
<1>1. /\ log[k].item \in Items /\ log[k].to \in {"workspace", "team"} \cup Users
      /\ Addressed(log[k]) /\ log[k].state = "in"
  BY LogType DEF Inv, Concerns
<1>2. CASE log[k].item \in Teams
  <2>1. <<log[k].item, watched>> \in members
    BY <1>2 DEF Concerns
  <2>2. content[log[k].item] # 0
    BY <2>1 DEF Inv, Cascaded
  <2>3. QED
    BY <1>1, <1>2, <2>1, <2>2 DEF Inv, Reach, MaySee
<1>3. CASE log[k].item \in Views
  <2>1. log[k].to \in {"workspace", Owner}
    BY <1>1, <1>3 DEF Addressed
  <2>2. log[k].to = "workspace" \/ log[k].to = watched
    BY <2>1, SyncLogAssumption DEF Concerns, SyncLogAssumption
  <2>3. QED
    BY <1>1, <1>3, <2>2 DEF Inv, Reach
<1>4. QED
  BY <1>1, <1>2, <1>3 DEF Items

LEMMA ReadPageInv == Inv /\ ReadPage => Inv'
<1> SUFFICES ASSUME Inv, ReadPage PROVE Inv'
  OBVIOUS
<1> DEFINE above == Above(client.mark)
           page == {k \in above : Cardinality({j \in above : j < k}) < BatchSize}
           frames == {Frame(k, log[k].item, log[k].n) : k \in page}
           mark == Max({client.mark} \cup page)
           short == Cardinality(above) < BatchSize
<1>1. /\ UNCHANGED <<calls, tables, log, reqs, watched, history>>
      /\ client' = [client EXCEPT !.phase = "stream", !.short = short, !.page = frames,
                                  !.mark = mark]
  BY ClientNow DEF ReadPage, ServerOnly
<1>2. page \subseteq DOMAIN log /\ \A k \in page : Concerns(log[k], watched)
  BY DEF Above
<1> HIDE DEF page
<1>3. mark \in {client.mark} \cup page
  <2>1. {client.mark} \cup page \subseteq 0..Len(log) /\ Len(log) \in Nat
    BY <1>2, LogType, ClientNow DEF Claim
  <2>2. QED
    BY <2>1, MaxOf
<1> HIDE DEF mark
<1>4. mark \in Nat /\ Claim(mark)
  <2>1. CASE mark = client.mark
    BY <2>1, ClientNow DEF ClientType
  <2>2. CASE mark \in page
    <3>1. mark \in DOMAIN log /\ log[mark].state = "in"
      BY <2>2, <1>2 DEF Concerns
    <3>2. QED
      BY <3>1, LogType DEF Claim
  <2>3. QED
    BY <1>3, <2>1, <2>2
<1>5. frames \subseteq [place : Nat, item : Items, n : Contents]
  BY <1>2, LogType DEF Frame
<1>6. \A f \in frames : f.n # 0 => f.item \in entitled
  BY <1>2, ConcernsEntitled DEF Frame
<1>7. short \in BOOLEAN
  OBVIOUS
<1> HIDE DEF frames, short
<1>8. /\ client' \in ClientType /\ client'.cursor = client.cursor /\ client'.mark = mark
      /\ client'.page = frames /\ client'.holds = client.holds
  BY <1>1, <1>4, <1>5, <1>7, ClientNow DEF ClientType
<1>9. behind' \subseteq Items
  BY <1>1, ClientNow DEF history
<1>10. QED
  BY <1>1, <1>4, <1>6, <1>8, <1>9, ClientInv, ClientNow DEF history

LEMMA SendNextInv == Inv /\ SendNext => Inv'
<1> SUFFICES ASSUME Inv, SendNext PROVE Inv'
  OBVIOUS
<1>1. PICK f \in client.page : client' = [client EXCEPT !.holds[f.item] = f.n, !.page = @ \ {f}]
  BY DEF SendNext
<1>2. UNCHANGED <<calls, tables, log, reqs, watched, history>>
  BY DEF SendNext, ServerOnly
<1>3. /\ f \in [place : Nat, item : Items, n : Contents] /\ f.item \in Items /\ f.n \in Contents
      /\ f.n # 0 => f.item \in entitled
      /\ client.holds \in [Items -> Contents]
  BY ClientNow DEF ClientType
<1>4. client'.holds = [client.holds EXCEPT ![f.item] = f.n]
  BY <1>1, ClientNow DEF ClientType
<1>5. /\ client'.holds \in [Items -> Contents]
      /\ \A i \in Items : client'.holds[i] = IF i = f.item THEN f.n ELSE client.holds[i]
  BY <1>3, <1>4
<1>6. /\ client' \in ClientType /\ client'.cursor = client.cursor /\ client'.mark = client.mark
      /\ client'.page \subseteq client.page
  BY <1>1, <1>4, <1>5, ClientNow DEF ClientType
<1>7. \A i \in Items : client'.holds[i] # 0 => i \in entitled
  BY <1>3, <1>5, ClientNow
<1>8. behind' \subseteq Items
  BY <1>2, ClientNow DEF history
<1>9. QED
  BY <1>2, <1>6, <1>7, <1>8, ClientInv, ClientNow DEF history

LEMMA CompleteInv == Inv /\ Complete => Inv'
<1> SUFFICES ASSUME Inv, Complete PROVE Inv'
  OBVIOUS
<1>1. /\ UNCHANGED <<calls, tables, log, reqs, watched, history>>
      /\ client' = [client EXCEPT !.phase = "current", !.cursor = client.mark, !.mark = 0,
                                  !.short = FALSE]
  BY DEF Complete, ServerOnly
<1>2. /\ client' \in ClientType /\ client'.cursor = client.mark /\ client'.mark = 0
      /\ client'.page = client.page /\ client'.holds = client.holds
  BY <1>1, ClientNow DEF ClientType
<1>3. behind' \subseteq Items
  BY <1>1, ClientNow DEF history
<1>4. QED
  BY <1>1, <1>2, <1>3, ClientInv, ClientNow DEF history

LEMMA DisconnectInv == Inv /\ Disconnect => Inv'
<1> SUFFICES ASSUME Inv, Disconnect PROVE Inv'
  OBVIOUS
<1>1. /\ UNCHANGED <<calls, tables, log, reqs, watched, history>>
      /\ client' = [Down EXCEPT !.holds = client.holds, !.cursor = client.cursor]
  BY DEF Disconnect, ServerOnly
<1>2. /\ client' \in ClientType /\ client'.cursor = client.cursor /\ client'.mark = 0
      /\ client'.page = {} /\ client'.holds = client.holds
  BY <1>1, ClientNow, DownType DEF Down, ClientType
<1>3. behind' \subseteq Items
  BY <1>1, ClientNow DEF history
<1>4. QED
  BY <1>1, <1>2, <1>3, ClientInv, ClientNow DEF history

-----------------------------------------------------------------------------
(***************************************************************************)
(* The calls.                                                              *)
(***************************************************************************)
\* A transaction with one entry, or with two.
LEMMA OneEntry ==
  ASSUME NEW e \in EntryType
  PROVE  /\ <<e>> \in Seq(EntryType) /\ <<e>> # <<>>
         /\ \A k \in DOMAIN <<e>> : <<e>>[k] = e
OBVIOUS

LEMMA TwoEntries ==
  ASSUME NEW e \in EntryType, NEW f \in EntryType
  PROVE  /\ <<e, f>> \in Seq(EntryType) /\ <<e, f>> # <<>>
         /\ \A k \in DOMAIN <<e, f>> : <<e, f>>[k] \in {e, f}
OBVIOUS

\* The id a transaction takes is within the bound.
LEMMA NewContent ==
  ASSUME Inv, NEW r, NEW from, NEW call, NEW names, NEW entries, NEW fx,
         Len(entries) \in Nat \ {0}, Stage(r, from, call, names, entries, fx)
  PROVE  New \in Contents /\ New # 0
<1>1. Len(log) \in Nat /\ MaxLog \in Nat
  BY LogType, SyncLogAssumption DEF SyncLogAssumption
<1>2. Len(log) + Len(entries) <= MaxLog
  BY DEF Stage
<1>3. QED
  BY <1>1, <1>2 DEF New, Contents

\* Teams and views are two kinds of thing.
LEMMA Kinds ==
  /\ \A t \in Teams : t \in Items /\ t \notin Views
  /\ \A v \in Views : v \in Items /\ v \notin Teams
  /\ \A x \in Scoped : x[1] \in Views /\ x[2] \in Teams
  /\ "none" \in CallKinds \cup {"none"} /\ Owner \in Users /\ Owner \notin {"workspace", "team"}
BY SyncLogAssumption DEF SyncLogAssumption, Items

LEMMA CreateTeamInv ==
  ASSUME Inv, NEW r \in Requests, NEW t \in Teams, NEW u \in Users, CreateTeam(r, t, u)
  PROVE  Inv'
<1> DEFINE e == Entry(t, "team", New, TRUE)
           fx == [NoEffect EXCEPT !.set = Put(t, New), !.join = {<<t, u>>}]
<1>1. Stage(r, "idle", "create_team", {t}, <<e, e>>, fx)
  BY DEF CreateTeam
<1>2. New \in Contents /\ New # 0
  <2>1. Len(<<e, e>>) \in Nat \ {0}
    OBVIOUS
  <2>2. QED
    BY <1>1, <2>1, NewContent
<1>0. t \in Items /\ "team" \in {"workspace", "team"} \cup Users /\ TRUE \in BOOLEAN
  BY Kinds
<1>3. e \in EntryType /\ e.item = t /\ e.to = "team" /\ e.state = "open"
  BY <1>0, <1>2 DEF Entry, EntryType
<1>4. fx \in EffectType /\ DOMAIN fx.set = {t} /\ fx.set[t] = New
  <2>1. {<<t, u>>} \in SUBSET (Teams \X Users)
    OBVIOUS
  <2>2. fx \in EffectType
    BY <1>0, <1>2, <2>1, EffectTypes
  <2>3. fx.set = Put(t, New)
    BY DEF NoEffect
  <2>4. QED
    BY <2>2, <2>3 DEF Put
<1> HIDE DEF e, fx
<1>5. Addressed(e) /\ Describes(e, {t}, fx)
  BY <1>3, Kinds DEF Addressed, Describes
<1>6. HoldsCascade({t}, fx)
  BY <1>2, <1>4 DEF HoldsCascade
<1>7. {t} \in SUBSET Names /\ "create_team" \in CallKinds
  BY Kinds DEF Names, CallKinds
<1>8. /\ <<e, e>> \in Seq(EntryType) /\ <<e, e>> # <<>>
      /\ \A k \in DOMAIN <<e, e>> : <<e, e>>[k] = e
  BY <1>3, TwoEntries
<1>9. QED
  BY <1>1, <1>3, <1>4, <1>5, <1>6, <1>7, <1>8, StageInv

LEMMA UpdateTeamInv ==
  ASSUME Inv, NEW r \in Requests, NEW t \in Teams, UpdateTeam(r, t)
  PROVE  Inv'
<1> DEFINE e == Entry(t, "team", New, TRUE)
           fx == [NoEffect EXCEPT !.set = Put(t, New)]
<1>1. Stage(r, "idle", "update_team", {t}, <<e>>, fx)
  BY DEF UpdateTeam
<1>2. New \in Contents /\ New # 0
  <2>1. Len(<<e>>) \in Nat \ {0}
    OBVIOUS
  <2>2. QED
    BY <1>1, <2>1, NewContent
<1>3. t \in Items /\ "team" \in {"workspace", "team"} \cup Users /\ TRUE \in BOOLEAN
  BY Kinds
<1>4. e \in EntryType /\ e.item = t /\ e.to = "team" /\ e.state = "open"
  BY <1>2, <1>3 DEF Entry, EntryType
<1>5. fx \in EffectType /\ DOMAIN fx.set = {t} /\ fx.set[t] = New
  <2>1. fx \in EffectType
    BY <1>2, <1>3, EffectTypes
  <2>2. fx.set = Put(t, New)
    BY DEF NoEffect
  <2>3. QED
    BY <2>1, <2>2 DEF Put
<1> HIDE DEF e, fx
<1>6. Addressed(e) /\ Describes(e, {t}, fx)
  BY <1>4, Kinds DEF Addressed, Describes
<1>7. HoldsCascade({t}, fx)
  BY <1>2, <1>5 DEF HoldsCascade
<1>8. {t} \in SUBSET Names /\ "update_team" \in CallKinds
  BY Kinds DEF Names, CallKinds
<1>9. /\ <<e>> \in Seq(EntryType) /\ <<e>> # <<>>
      /\ \A k \in DOMAIN <<e>> : <<e>>[k] = e
  BY <1>4, OneEntry
<1>10. QED
  BY <1>1, <1>4, <1>5, <1>6, <1>7, <1>8, <1>9, StageInv

\* A change of a membership describes a team to its members, and at most tells
\* one user that it is gone.
LEMMA ChangeMembershipInv ==
  ASSUME Inv, NEW r \in Requests, reqs[r].at = "looked", ChangeMembership(r)
  PROVE  Inv'
<1> DEFINE t == reqs[r].item
           u == reqs[r].user
           told == Entry(t, "team", reqs[r].seen, FALSE)
           gone == Entry(t, u, 0, FALSE)
           touched == IF <<t, u>> \in members \/ reqs[r].call = "added" THEN {<<t, u>>} ELSE {}
           joined == [NoEffect EXCEPT !.join = {<<t, u>>}]
           left == [NoEffect EXCEPT !.leave = touched]
<1>1. \/ Stage(r, "looked", "added", touched, <<told>>, joined)
      \/ Stage(r, "looked", "role", touched, <<told>>, NoEffect)
      \/ Stage(r, "looked", "removed", touched, <<told, gone>>, left)
  BY DEF ChangeMembership
<1>2. reqs[r].call \in {"added", "role", "removed"}
  BY <1>1 DEF Stage
<1>3. t \in Teams /\ u \in Users /\ t \in Items /\ reqs[r].seen \in Contents
  <2>1. t \in Teams /\ u \in Users
    BY <1>2 DEF Inv, Resolved
  <2>2. reqs[r] \in RequestType
    BY DEF Inv, Types
  <2>3. QED
    BY <2>1, <2>2, Kinds DEF RequestType
<1>4. touched \in SUBSET (Teams \X Users) /\ {<<t, u>>} \in SUBSET (Teams \X Users)
  BY <1>3
<1>5. touched \in SUBSET Names
  BY <1>4 DEF Names
<1>6. FALSE \in BOOLEAN /\ 0 \in Contents /\ {"team", u} \subseteq {"workspace", "team"} \cup Users
  BY <1>3, SyncLogAssumption DEF SyncLogAssumption, Contents
<1>7. told \in EntryType /\ told.item = t /\ told.to = "team" /\ told.state = "open"
  BY <1>3, <1>6 DEF Entry, EntryType
<1>8. gone \in EntryType /\ gone.item = t /\ gone.n = 0 /\ gone.state = "open"
  BY <1>3, <1>6 DEF Entry, EntryType
<1>9. \A fx \in {joined, NoEffect, left} : DOMAIN fx.set = {}
  <2>1. joined.set = NoEffect.set /\ left.set = NoEffect.set
    BY DEF NoEffect
  <2>2. DOMAIN NoEffect.set = {}
    BY DEF NoEffect
  <2>3. QED
    BY <2>1, <2>2
<1>10. joined \in EffectType /\ NoEffect \in EffectType /\ left \in EffectType
  BY <1>4, NoEffectType DEF EffectType
<1> HIDE DEF told, gone, touched, joined, left, t, u
<1>11. Addressed(told) /\ Addressed(gone)
  BY <1>3, <1>7, <1>8, Kinds DEF Addressed
<1>12. \A fx \in {joined, NoEffect, left} :
          Describes(told, touched, fx) /\ Describes(gone, touched, fx) /\ HoldsCascade(touched, fx)
  BY <1>3, <1>7, <1>8, <1>9, Kinds DEF Describes, HoldsCascade
<1>13. {"added", "role", "removed"} \subseteq CallKinds
  BY DEF CallKinds
<1>14. /\ <<told>> \in Seq(EntryType) /\ <<told>> # <<>>
       /\ \A k \in DOMAIN <<told>> : <<told>>[k] = told
  BY <1>7, OneEntry
<1>15. /\ <<told, gone>> \in Seq(EntryType) /\ <<told, gone>> # <<>>
       /\ \A k \in DOMAIN <<told, gone>> : <<told, gone>>[k] \in {told, gone}
  BY <1>7, <1>8, TwoEntries
<1>16. CASE Stage(r, "looked", "added", touched, <<told>>, joined)
  BY <1>16, <1>5, <1>7, <1>10, <1>11, <1>12, <1>13, <1>14, StageInv
<1>17. CASE Stage(r, "looked", "role", touched, <<told>>, NoEffect)
  BY <1>17, <1>5, <1>7, <1>10, <1>11, <1>12, <1>13, <1>14, StageInv
<1>18. CASE Stage(r, "looked", "removed", touched, <<told, gone>>, left)
  <2>1. \A k \in DOMAIN <<told, gone>> :
          /\ <<told, gone>>[k].state = "open" /\ Addressed(<<told, gone>>[k])
          /\ Describes(<<told, gone>>[k], touched, left)
    BY <1>7, <1>8, <1>11, <1>12, <1>15
  <2>2. QED
    BY <1>18, <2>1, <1>5, <1>10, <1>12, <1>13, <1>15, StageInv
<1>19. QED
  BY <1>1, <1>16, <1>17, <1>18

\* Who deletes a team has the locks of its views.
LEMMA DeleteTeamInv ==
  ASSUME Inv, NEW r \in Requests, reqs[r].at = "looked", DeleteTeam(r)
  PROVE  Inv'
<1> DEFINE t == reqs[r].item
           views == {v \in Views : <<v, t>> \in Scoped}
           names == {t} \cup ({t} \X Users) \cup views
           e == Entry(t, "workspace", 0, TRUE)
           fx == [NoEffect EXCEPT !.set = Put(t, 0)]
<1>1. Stage(r, "looked", "delete_team", names, <<e>>, fx)
  BY DEF DeleteTeam
<1>2. t \in Teams /\ t \in Items
  <2>1. reqs[r].call = "delete_team"
    BY <1>1 DEF Stage
  <2>2. QED
    BY <2>1, Kinds DEF Inv, Resolved
<1>3. 0 \in Contents /\ "workspace" \in {"workspace", "team"} \cup Users /\ TRUE \in BOOLEAN
  BY SyncLogAssumption DEF SyncLogAssumption, Contents
<1>4. e \in EntryType /\ e.item = t /\ e.n = 0 /\ e.state = "open"
  BY <1>2, <1>3 DEF Entry, EntryType
<1>5. fx \in EffectType /\ DOMAIN fx.set = {t}
  <2>1. fx \in EffectType
    BY <1>2, <1>3, EffectTypes
  <2>2. fx.set = Put(t, 0)
    BY DEF NoEffect
  <2>3. QED
    BY <2>1, <2>2 DEF Put
<1> HIDE DEF e, fx, t
<1>6. Addressed(e) /\ Describes(e, names, fx)
  BY <1>2, <1>4, Kinds DEF Addressed, Describes
<1>7. HoldsCascade(names, fx)
  <2>1. ASSUME NEW x \in Scoped, x[2] = t PROVE x[1] \in views
    BY <2>1, SyncLogAssumption DEF SyncLogAssumption
  <2>2. QED
    BY <2>1, <1>5 DEF HoldsCascade
<1>8. names \in SUBSET Names /\ "delete_team" \in CallKinds
  BY <1>2, Kinds DEF Names, CallKinds
<1> HIDE DEF names
<1>9. /\ <<e>> \in Seq(EntryType) /\ <<e>> # <<>>
      /\ \A k \in DOMAIN <<e>> : <<e>>[k] = e
  BY <1>4, OneEntry
<1>10. QED
  BY <1>1, <1>4, <1>5, <1>6, <1>7, <1>8, <1>9, StageInv

\* A view is told to those it is shared with, as it is saved.
LEMMA SaveViewInv ==
  ASSUME Inv, NEW r \in Requests, NEW call \in {"create_view", "update_view"}, NEW v \in Views,
         NEW isShared \in BOOLEAN, SaveView(r, call, v, isShared)
  PROVE  Inv'
<1> DEFINE to == Audience(isShared)
           e == Entry(v, to, New, TRUE)
           fx == [NoEffect EXCEPT !.set = Put(v, New), !.share = IF isShared THEN {v} ELSE {},
                                  !.unshare = IF isShared THEN {} ELSE {v}]
<1>1. Stage(r, "idle", call, {v}, <<e>>, fx)
  BY DEF SaveView
<1>2. New \in Contents /\ New # 0
  <2>1. Len(<<e>>) \in Nat \ {0}
    OBVIOUS
  <2>2. QED
    BY <1>1, <2>1, NewContent
<1>3. /\ v \in Items /\ TRUE \in BOOLEAN
      /\ to = IF isShared THEN "workspace" ELSE Owner
      /\ to \in {"workspace", "team"} \cup Users /\ to \in {"workspace", Owner}
  BY Kinds DEF Audience
<1> HIDE DEF to
<1>4. e \in EntryType /\ e.item = v /\ e.to = to /\ e.state = "open"
  BY <1>2, <1>3 DEF Entry, EntryType
<1>5. /\ fx \in EffectType /\ DOMAIN fx.set = {v} /\ fx.set[v] = New
      /\ to = "workspace" => v \in fx.share \ fx.unshare
  <2> DEFINE S == IF isShared THEN {v} ELSE {}
             U == IF isShared THEN {} ELSE {v}
  <2>1. S \in SUBSET Views /\ U \in SUBSET Views
    OBVIOUS
  <2>2. fx \in EffectType
    BY <1>2, <1>3, <2>1, PutType, NoEffectType DEF EffectType
  <2>3. fx.set = Put(v, New) /\ fx.share = S /\ fx.unshare = U
    BY DEF NoEffect
  <2>4. to = "workspace" => isShared
    BY <1>3, Kinds
  <2>5. QED
    BY <2>2, <2>3, <2>4 DEF Put
<1>6. \A x \in Scoped : x[1] = v => content[x[2]] # 0
  BY DEF SaveView, Exists, Inv, Cascaded
<1> HIDE DEF e, fx
<1>7. Addressed(e) /\ Describes(e, {v}, fx)
  BY <1>2, <1>3, <1>4, <1>5, <1>6, Kinds DEF Addressed, Describes
<1>8. HoldsCascade({v}, fx)
  BY <1>2, <1>5 DEF HoldsCascade
<1>9. {v} \in SUBSET Names /\ call \in CallKinds
  BY Kinds DEF Names, CallKinds
<1>10. /\ <<e>> \in Seq(EntryType) /\ <<e>> # <<>>
       /\ \A k \in DOMAIN <<e>> : <<e>>[k] = e
  BY <1>4, OneEntry
<1>11. QED
  BY <1>1, <1>4, <1>5, <1>7, <1>8, <1>9, <1>10, StageInv

LEMMA DeleteViewInv ==
  ASSUME Inv, NEW r \in Requests, reqs[r].at = "looked", DeleteView(r)
  PROVE  Inv'
<1> DEFINE v == reqs[r].item
           to == Audience(reqs[r].seen = 1)
           e == Entry(v, to, 0, TRUE)
           fx == [NoEffect EXCEPT !.set = Put(v, 0)]
<1>1. Stage(r, "looked", "delete_view", {v}, <<e>>, fx)
  BY DEF DeleteView
<1>2. v \in Views /\ v \in Items
  <2>1. reqs[r].call = "delete_view"
    BY <1>1 DEF Stage
  <2>2. QED
    BY <2>1, Kinds DEF Inv, Resolved
<1>3. /\ 0 \in Contents /\ TRUE \in BOOLEAN
      /\ to \in {"workspace", "team"} \cup Users /\ to \in {"workspace", Owner}
  BY Kinds, SyncLogAssumption DEF SyncLogAssumption, Contents, Audience
<1> HIDE DEF to
<1>4. e \in EntryType /\ e.item = v /\ e.to = to /\ e.n = 0 /\ e.state = "open"
  BY <1>2, <1>3 DEF Entry, EntryType
<1>5. fx \in EffectType /\ DOMAIN fx.set = {v}
  <2>1. fx \in EffectType
    BY <1>2, <1>3, EffectTypes
  <2>2. fx.set = Put(v, 0)
    BY DEF NoEffect
  <2>3. QED
    BY <2>1, <2>2 DEF Put
<1> HIDE DEF e, fx, v
<1>6. Addressed(e) /\ Describes(e, {v}, fx)
  BY <1>2, <1>3, <1>4, Kinds DEF Addressed, Describes
<1>7. HoldsCascade({v}, fx)
  BY <1>2, <1>5, Kinds DEF HoldsCascade
<1>8. {v} \in SUBSET Names /\ "delete_view" \in CallKinds
  BY <1>2 DEF Names, CallKinds
<1>9. /\ <<e>> \in Seq(EntryType) /\ <<e>> # <<>>
      /\ \A k \in DOMAIN <<e>> : <<e>>[k] = e
  BY <1>4, OneEntry
<1>10. QED
  BY <1>1, <1>4, <1>5, <1>6, <1>7, <1>8, <1>9, StageInv

LEMMA RequestInv ==
  ASSUME Inv, NEW r \in Requests, Request(r)
  PROVE  Inv'
<1>1. ASSUME NEW t \in Teams, UpdateTeam(r, t) PROVE Inv'
  BY <1>1, UpdateTeamInv
<1>2. ASSUME NEW t \in Teams, LookAtDoomedTeam(r, t) PROVE Inv'
  <2>1. Look(r, "delete_team", t, "none", 0)
    BY <1>2 DEF LookAtDoomedTeam
  <2>2. "delete_team" \in CallKinds /\ 0 \in Contents /\ t \in Items
    BY Kinds, SyncLogAssumption DEF SyncLogAssumption, Contents, CallKinds
  <2>3. QED
    BY <2>1, <2>2, LookInv
<1>3. ASSUME NEW t \in Teams, NEW u \in Users, CreateTeam(r, t, u) PROVE Inv'
  BY <1>3, CreateTeamInv
<1>4. ASSUME NEW t \in Teams, NEW u \in Users, NEW c \in CallKinds, LookAtTeam(r, c, t, u)
      PROVE  Inv'
  <2>1. c \in {"added", "role", "removed"} /\ Look(r, c, t, u, content[t])
    BY <1>4 DEF LookAtTeam
  <2>2. content[t] \in Contents /\ t \in Items
    BY Kinds DEF Inv, Types
  <2>3. QED
    BY <2>1, <2>2, LookInv
<1>5. ASSUME NEW v \in Views, LookAtView(r, v) PROVE Inv'
  <2> DEFINE seen == IF v \in shared THEN 1 ELSE 0
  <2>1. Look(r, "delete_view", v, "none", seen)
    BY <1>5 DEF LookAtView
  <2>2. "delete_view" \in CallKinds /\ v \in Items
    BY Kinds DEF CallKinds
  <2>3. content[v] # 0 /\ content[v] \in Contents
    BY <2>1, <2>2 DEF Look, Exists, Inv, Types
  <2>4. seen \in Contents
    BY <2>3, SyncLogAssumption DEF SyncLogAssumption, Contents
  <2> HIDE DEF seen
  <2>5. QED
    BY <2>1, <2>2, <2>4, LookInv
<1>6. ASSUME NEW v \in Views, NEW s \in BOOLEAN, NEW c \in {"create_view", "update_view"},
             SaveView(r, c, v, s)
      PROVE  Inv'
  BY <1>6, SaveViewInv
<1>7. ASSUME reqs[r].at = "looked", ChangeMembership(r) \/ DeleteTeam(r) \/ DeleteView(r)
      PROVE  Inv'
  BY <1>7, ChangeMembershipInv, DeleteTeamInv, DeleteViewInv
<1>8. ASSUME Refuse(r) \/ Commit(r) \/ Rollback(r) \/ Deliver(r) \/ Silence(r)
      PROVE  Inv'
  BY <1>8, RefuseInv, CommitInv, RollbackInv, DeliverInv, SilenceInv
<1>9. QED
  BY <1>1, <1>2, <1>3, <1>4, <1>5, <1>6, <1>7, <1>8 DEF Request

LEMMA HandlerInv == Inv /\ Handler => Inv'
<1> SUFFICES ASSUME Inv, Handler PROVE Inv'
  OBVIOUS
<1>1. CASE StartBootstrap
  BY <1>1, StartBootstrapInv
<1>2. CASE ReadList(1, "teams", Teams, "views")
  <2>1. Teams \in SUBSET Items /\ 1 \in Nat
    BY DEF Items
  <2>2. QED
    BY <1>2, <2>1, ReadListInv
<1>3. CASE ReadList(2, "views", Views, "stream")
  <2>1. Views \in SUBSET Items /\ 2 \in Nat
    BY DEF Items
  <2>2. QED
    BY <1>3, <2>1, ReadListInv
<1>4. CASE ReadPage
  BY <1>4, ReadPageInv
<1>5. CASE SendNext
  BY <1>5, SendNextInv
<1>6. CASE Complete
  BY <1>6, CompleteInv
<1>7. QED
  BY <1>1, <1>2, <1>3, <1>4, <1>5, <1>6 DEF Handler

LEMMA NextInv == Inv /\ [Next]_vars => Inv'
<1> SUFFICES ASSUME Inv, [Next]_vars PROVE Inv'
  OBVIOUS
<1>1. CASE \E r \in Requests : Request(r)
  BY <1>1, RequestInv
<1>2. CASE Connect
  BY <1>2, ConnectInv
<1>3. CASE Handler
  BY <1>3, HandlerInv
<1>4. CASE Disconnect
  BY <1>4, DisconnectInv
<1>5. CASE UNCHANGED vars
  <2>1. /\ UNCHANGED <<calls, tables, log, reqs, watched, entitled, strays>>
        /\ client' = client /\ behind' = behind
    BY <1>5 DEF vars, history
  <2>2. QED
    BY <2>1, ClientInv, ClientNow
<1>6. QED
  BY <1>1, <1>2, <1>3, <1>4, <1>5 DEF Next

\* No path brings a client a team or a view that its user was never allowed to see,
\* whatever is committed between the reads and the sending of get_entries_since,
\* the bootstrap and commit_and_deliver.
THEOREM Entitlement == Spec => []OnlyEntitled
<1>1. Inv => OnlyEntitled
  BY DEF Inv
<1>2. QED
  BY <1>1, InitInv, NextInv, PTL DEF Spec

LEMMA InvTypeOK == Inv => TypeOK
<1> SUFFICES ASSUME Inv PROVE TypeOK
  OBVIOUS
<1> DEFINE W == {r \in Requests : Open(r)}
<1>1. Types
  BY DEF Inv
<1>2. log \in Seq([item : Items, to : {"workspace", "team"} \cup Users, n : 0..MaxLog,
                   live : BOOLEAN, state : {"open", "in", "void"}])
  BY <1>1 DEF Types, EntryType, Contents
<1>3. \A k \in DOMAIN log :
        log[k].state = "open" <=> \E r \in Requests : Open(r) /\ k \in reqs[r].ids
  BY DEF Inv, Transactions
<1>4. Backend = "sqlite" => Cardinality(W) <= 1
  <2>1. SUFFICES ASSUME Backend = "sqlite" PROVE Cardinality(W) <= 1
    OBVIOUS
  <2>2. \A q, r \in W : q = r
    BY <2>1 DEF Inv, OneWriter
  <2>3. CASE W = {}
    BY <2>3, FS_EmptySet
  <2>4. CASE \E r \in W : TRUE
    <3>1. PICK r \in W : TRUE
      BY <2>4
    <3>2. W = {r}
      BY <2>2, <3>1
    <3>3. Cardinality(W) = 1
      BY <3>2, FS_Singleton
    <3>4. QED
      BY <3>3
  <2>5. QED
    BY <2>3, <2>4
<1>5. \A r \in Requests : reqs[r].at \in {"idle", "looked", "open", "deliver"}
  BY <1>1 DEF Types, RequestType
<1>6. client.cursor \in 0..Len(log)
  BY LogType DEF Inv, Claim
<1>7. /\ client.holds \in [Items -> 0..MaxLog]
      /\ client.phase \in {"down", "asked", "teams", "views", "delta", "stream", "current"}
  BY <1>1 DEF Types, ClientType, Contents
<1>8. QED
  BY <1>1, <1>2, <1>3, <1>4, <1>5, <1>6, <1>7 DEF TypeOK, Types, Contents

\* Entries of open transactions belong to a request, SQLite has one writer, and a
\* client's cursor lies in the log (sync_log, SyncBatch, DbPool), in every state.
THEOREM LogTyping == Spec => []TypeOK
<1>1. QED
  BY InitInv, NextInv, InvTypeOK, PTL DEF Spec

-----------------------------------------------------------------------------
(***************************************************************************)
(* Catching up.  What the log tells a user is what a bootstrap shows it,   *)
(* and a client either has that, or has yet to be told.                    *)
(***************************************************************************)
\* No team that has views is deleted.
NoOrphans == Scoped = {} \/ \A S \in Scenarios : "delete_team" \notin S

Calm == Backend = "sqlite" /\ Races = {} /\ NoOrphans

Shown(i) == Bootstrap(watched)[i]

\* The tables once fx is committed, no row going with another.
RowsAfter(fx) == [i \in Items |-> IF i \in DOMAIN fx.set THEN fx.set[i] ELSE content[i]]
MembersAfter(fx) == {m \in (members \cup fx.join) \ fx.leave : RowsAfter(fx)[m[1]] # 0}
SharedAfter(fx) == (shared \cup fx.share) \ fx.unshare
LingeringAfter(fx) ==
  IF watched = Owner THEN {} ELSE (strays \cup (fx.unshare \cap shared)) \ fx.share
ShownAfter(fx, i) ==
  IF RowsAfter(fx)[i] # 0 /\ MaySee(watched, i, MembersAfter(fx), SharedAfter(fx))
  THEN RowsAfter(fx)[i] ELSE 0

\* With members M, the entry e is in a delta of the user; its live frame goes to the user.
Regards(e, M) ==
  /\ e.to \in Users => e.to = watched
  /\ e.item \in Teams /\ e.n # 0 => <<e.item, watched>> \in M
Reaches(e, M) ==
  \/ e.to \in {"workspace", watched}
  \/ e.to = "team" /\ <<e.item, watched>> \in M
Live(E) == {e \in E : e.live}

\* The entries E tell the user what the effects fx change for it: in a delta, ...
TellsItem(E, fx, i) ==
  /\ \A e \in E : e.item = i /\ Regards(e, MembersAfter(fx)) => e.n = ShownAfter(fx, i)
  /\ (\A e \in E : e.item = i => ~Regards(e, MembersAfter(fx))) =>
       /\ ShownAfter(fx, i) = Shown(i) /\ i \notin Lingering
       /\ <<i, watched>> \in MembersAfter(fx) <=> <<i, watched>> \in members
  /\ ShownAfter(fx, i) # Shown(i) \/ i \in Lingering =>
       \/ \E e \in Live(E) : e.item = i /\ Reaches(e, MembersAfter(fx))
       \/ Live(E) = {} /\ i \in Teams /\ <<i, watched>> \in fx.join \cup fx.leave
Tells(E, fx) == \A i \in Items \ LingeringAfter(fx) : TellsItem(E, fx, i)

\* ... and live, unless it is the user's own membership.
Effective(E, fx) ==
  /\ \A e \in Live(E) : e.item \in DOMAIN fx.set /\ e.n = fx.set[e.item]
  /\ fx.unshare \subseteq DOMAIN fx.set
  /\ \A i \in DOMAIN fx.set : fx.set[i] # 0 => \E e \in E : e.item = i /\ e.n = fx.set[i]
  /\ \A m \in fx.join \cup fx.leave : m[1] \in DOMAIN fx.set \/ Live(E) = {}
Deletes(call, fx) ==
  /\ call \in {"delete_team", "delete_view"} =>
       /\ fx.join = {} /\ fx.leave = {} /\ fx.share = {} /\ fx.unshare = {}
       /\ \A i \in DOMAIN fx.set : fx.set[i] = 0
  /\ call # "delete_team" => \A t \in Teams \cap DOMAIN fx.set : fx.set[t] # 0

Said(r) == {log[k] : k \in reqs[r].ids}

Spoken ==
  \A r \in Requests : Open(r) =>
    /\ reqs[r].call \in calls
    /\ Tells(Said(r), reqs[r].fx) /\ Effective(Said(r), reqs[r].fx)
    /\ Deletes(reqs[r].call, reqs[r].fx)

\* What a handler has read holds until its transaction, unless the row goes.
UpToDate(q) ==
  q.at = "looked" =>
    /\ q.call \in {"added", "role", "removed"} => content[q.item] \in {q.seen, 0}
    /\ q.call = "delete_view" => (q.seen = 1 <=> q.item \in shared)
Undisturbing ==
  \A q, r \in Requests : reqs[q].at = "looked" /\ Open(r)
                           => reqs[r].call \in {"delete_team", "delete_view"}
Recorded ==
  \A i \in Items : content[i] # 0 => \E k \in DOMAIN log : log[k].item = i /\ log[k].state = "in"

\* The last entry about something says what there is.
Final(k) ==
  /\ Concerns(log[k], watched)
  /\ \A j \in DOMAIN log : j > k /\ log[j].item = log[k].item => ~Concerns(log[j], watched)
LogTold == \A k \in DOMAIN log : Final(k) /\ log[k].item \notin Lingering => log[k].n = Shown(log[k].item)

\* A frame that has not been sent is still true.
StillTrue(e) ==
  /\ e.n = content[e.item]
  /\ e.item \in Views /\ e.n # 0 /\ e.to = "workspace" => e.item \in shared
Sending == \A r \in Requests : reqs[r].at = "deliver" => \A k \in reqs[r].ids : StillTrue(log[k])

Records ==
  /\ Spoken /\ Undisturbing /\ Recorded /\ LogTold /\ Sending
  /\ \A r \in Requests : UpToDate(reqs[r])

\* Who has h for i has what there is, or an entry above c will tell it.
Fresh(i, c, h) == h = Shown(i) \/ \E k \in Above(c) : log[k].item = i

\* What the client c will have for i when its page is sent.
Lasts(page, i) == {f \in page : f.item = i /\ \A g \in page : g.item = i => g.place <= f.place}
Due(c, i) == IF \E f \in c.page : f.item = i THEN {f.n : f \in Lasts(c.page, i)} ELSE {c.holds[i]}

\* The stream has yet to read i; it has read all of i that it will.
Unread(c, i) == c.phase \in {"asked", "teams"} \/ (c.phase = "views" /\ i \in Views)
HasRead(c, i) ==
  \/ c.phase = "current"
  \/ c.phase = "stream" /\ c.short
  \/ c.phase = "views" /\ i \in Teams

Paged(c) ==
  /\ c.phase \in {"down", "asked", "teams", "delta", "current"} => c.page = {}
  /\ c.phase = "views" => \A f \in c.page : f.item \in Teams
  /\ c.phase \in {"delta", "stream"} => c.cursor <= c.mark
  /\ c.phase \in {"asked", "teams", "views"} => c.cursor = 0
  /\ c.phase = "asked" => \A i \in Items : c.holds[i] = 0

Claimed(c, i) ==
  c.cursor # 0 => /\ Fresh(i, c.cursor, c.holds[i])
                  /\ \A f \in c.page : f.item = i => Fresh(i, c.cursor, f.n)
Covered(c, i) ==
  c.phase \in {"teams", "views", "delta", "stream"} =>
    \A h \in Due(c, i) : (Unread(c, i) /\ h = 0) \/ Fresh(i, c.mark, h)

\* A live frame about i is on its way to the user.
Awaits(i) == \E q \in Requests : /\ reqs[q].at = "deliver"
                                 /\ \E k \in reqs[q].ids : log[k].item = i /\ Reaches(log[k], members)
Settled(c, i) == HasRead(c, i) => \A h \in Due(c, i) : h = Shown(i) \/ Awaits(i)
Untouched(c, b) == \A i \in Items \ b : Unread(c, i) => c.holds[i] = 0

Told(c) ==
  /\ Paged(c)
  /\ \A i \in Items \ Lingering : Claimed(c, i) /\ Covered(c, i)
  /\ \A i \in Items \ (Lingering \cup behind) : Settled(c, i)
  /\ Untouched(c, behind)

CatchInv == Inv /\ Records /\ Told(client)

\* What a client holds after its page, when it holds it alone.
LEMMA DueAlone ==
  ASSUME NEW c, NEW i, c.page = {}
  PROVE  Due(c, i) = {c.holds[i]}
BY DEF Due

LEMMA InitCatch == Init => CatchInv
<1> SUFFICES ASSUME Init PROVE CatchInv
  OBVIOUS
<1>1. Inv
  BY InitInv
<1>2. /\ log = <<>> /\ \A r \in Requests : reqs[r] = Idle
      /\ \A i \in Items : content[i] = 0
  BY DEF Init
<1>3. \A r \in Requests : reqs[r].at = "idle"
  BY <1>2, IdleType
<1>4. Records
  BY <1>2, <1>3 DEF Records, Spoken, Undisturbing, Recorded, LogTold, Sending, UpToDate, Open
<1>5. /\ client.page = {} /\ client.phase = "down" /\ client.cursor = 0
  BY DEF Init, Down
<1>6. Told(client)
  BY <1>5 DEF Told, Paged, Claimed, Covered, Settled, Untouched, Unread, HasRead
<1>7. QED
  BY <1>1, <1>4, <1>6 DEF CatchInv

\* The two properties, from the invariant.
LEMMA CatchEnough == CatchInv => CatchUpIsEnough
<1> SUFFICES ASSUME CatchInv, client.cursor # 0, NEW i \in Items \ Lingering
             PROVE  Replayed(i) = Shown(i)
  BY DEF CatchUpIsEnough, Shown
<1> DEFINE about == {k \in Above(client.cursor) : log[k].item = i}
<1>0. Inv /\ LogTold
  BY DEF CatchInv, Records
<1>1. Fresh(i, client.cursor, client.holds[i])
  BY DEF CatchInv, Told, Claimed
<1>2. CASE about = {}
  <2>1. Replayed(i) = client.holds[i]
    BY <1>2 DEF Replayed
  <2>2. QED
    BY <2>1, <1>1, <1>2 DEF Fresh
<1>3. CASE about # {}
  <2>1. Replayed(i) = log[Max(about)].n
    BY <1>3 DEF Replayed
  <2>2. about \subseteq 0..Len(log) /\ Len(log) \in Nat /\ DOMAIN log = 1..Len(log)
    BY <1>0, LogType DEF Above
  <2>3. Max(about) \in about /\ \A k \in about : k <= Max(about)
    BY <1>3, <2>2, MaxOf
  <2> DEFINE m == Max(about)
  <2> HIDE DEF m
  <2>4. m \in DOMAIN log /\ m > client.cursor /\ log[m].item = i /\ Concerns(log[m], watched)
    BY <2>3 DEF Above, m
  <2>5. ASSUME NEW j \in DOMAIN log, j > m, log[j].item = i PROVE ~Concerns(log[j], watched)
    <3>1. client.cursor \in Nat
      BY <1>0 DEF Inv, Types, ClientType
    <3>2. j > client.cursor
      BY <2>2, <2>4, <2>5, <3>1
    <3>3. SUFFICES ASSUME Concerns(log[j], watched) PROVE FALSE
      OBVIOUS
    <3>4. j \in about
      BY <2>5, <3>2, <3>3 DEF Above
    <3>5. j <= m
      BY <2>3, <3>4 DEF m
    <3>6. QED
      BY <2>2, <2>4, <2>5, <3>5
  <2>6. Final(m)
    BY <2>4, <2>5 DEF Final
  <2>7. log[m].n = Shown(i)
    BY <1>0, <2>4, <2>6 DEF LogTold
  <2>8. QED
    BY <2>1, <2>7 DEF m
<1>4. QED
  BY <1>2, <1>3

LEMMA CatchSettles == CatchInv => ScreenSettles
<1> SUFFICES ASSUME CatchInv, client.phase = "current", NEW i \in Items \ (behind \cup Lingering)
             PROVE  Unsent(i) \/ client.holds[i] = Shown(i)
  BY DEF ScreenSettles, Shown
<1>1. client.page = {} /\ Settled(client, i)
  BY DEF CatchInv, Told, Paged
<1>2. client.holds[i] = Shown(i) \/ Awaits(i)
  BY <1>1, DueAlone DEF Settled, HasRead
<1>3. QED
  BY <1>2 DEF Awaits, Unsent

-----------------------------------------------------------------------------
(***************************************************************************)
(* Steps that are not commits: what is there, and what the log tells of    *)
(* it, stays.                                                              *)
(***************************************************************************)
Visible(s, k) == k \in DOMAIN s /\ s[k].state = "in"
SameVisible == \A k \in Nat : /\ Visible(log', k) <=> Visible(log, k)
                              /\ Visible(log, k) => log'[k] = log[k]
Still == Inv /\ Inv' /\ UNCHANGED <<tables, watched, strays>> /\ SameVisible

LEMMA StillShown ==
  ASSUME Still
  PROVE  /\ Lingering' = Lingering
         /\ \A i : Shown(i)' = Shown(i)
         /\ \A c : Above(c)' = Above(c) /\ \A k \in Above(c) : log'[k] = log[k]
         /\ \A i, c, h : Fresh(i, c, h)' <=> Fresh(i, c, h)
<1>0. UNCHANGED <<content, members, shared, watched, strays>>
  BY DEF Still, tables
<1>1. Lingering' = Lingering
  BY <1>0 DEF Lingering
<1>2. Bootstrap(watched)' = Bootstrap(watched)
  BY <1>0 DEF Bootstrap, Exists, MaySee
<1>3. ASSUME NEW k
      PROVE  /\ k \in DOMAIN log /\ Concerns(log[k], watched) => Visible(log, k)
             /\ k \in DOMAIN log' /\ (Concerns(log[k], watched))' => Visible(log', k)
  BY DEF Concerns, Visible
<1>4. DOMAIN log \subseteq Nat /\ DOMAIN log' \subseteq Nat
  BY DEF Still, Inv, Types
<1>5. ASSUME NEW c, NEW k
      PROVE  /\ k \in Above(c)' <=> k \in Above(c)
             /\ k \in Above(c) => log'[k] = log[k]
  <2>1. k \in Above(c)' <=> k \in DOMAIN log' /\ k > c /\ (Concerns(log[k], watched))'
    BY DEF Above
  <2>2. k \in Above(c) <=> k \in DOMAIN log /\ k > c /\ Concerns(log[k], watched)
    BY DEF Above
  <2>3. Visible(log, k) \/ Visible(log', k) =>
          Visible(log, k) /\ Visible(log', k) /\ log'[k] = log[k] /\ k \in DOMAIN log /\ k \in DOMAIN log'
    BY <1>4 DEF Still, SameVisible, Visible
  <2>4. log'[k] = log[k] => ((Concerns(log[k], watched))' <=> Concerns(log[k], watched))
    BY <1>0 DEF Concerns
  <2>5. QED
    BY <1>3, <2>1, <2>2, <2>3, <2>4
<1>6. \A c : Above(c)' = Above(c) /\ \A k \in Above(c) : log'[k] = log[k]
  <2>1. ASSUME NEW c PROVE Above(c)' = Above(c) /\ \A k \in Above(c) : log'[k] = log[k]
    <3>1. \A k : k \in Above(c)' <=> k \in Above(c)
      BY <1>5
    <3>2. QED
      BY <1>5, <3>1
  <2>2. QED
    BY <2>1
<1>7. \A i : Shown(i)' = Shown(i)
  BY <1>2 DEF Shown
<1>8. ASSUME NEW i, NEW c, NEW h PROVE Fresh(i, c, h)' <=> Fresh(i, c, h)
  <2>1. Fresh(i, c, h)' <=> h = Shown(i)' \/ \E k \in Above(c)' : log'[k].item = i
    BY DEF Fresh
  <2>2. QED
    BY <2>1, <1>6, <1>7 DEF Fresh
<1>9. QED
  BY <1>1, <1>6, <1>7, <1>8

LEMMA StillTold ==
  ASSUME Still, Recorded, LogTold
  PROVE  Recorded' /\ LogTold'
<1>0. UNCHANGED <<content, members, shared, watched, strays>>
  BY DEF Still, tables
<1>1. DOMAIN log \subseteq Nat /\ DOMAIN log' \subseteq Nat
  BY DEF Still, Inv, Types
<1>2. \A k : Visible(log, k) \/ Visible(log', k) =>
        Visible(log, k) /\ Visible(log', k) /\ log'[k] = log[k] /\ k \in DOMAIN log /\ k \in DOMAIN log'
  BY <1>1 DEF Still, SameVisible, Visible
<1>3. Recorded'
  <2>1. SUFFICES ASSUME NEW i \in Items, content'[i] # 0
                 PROVE  \E k \in DOMAIN log' : log'[k].item = i /\ log'[k].state = "in"
    BY DEF Recorded
  <2>2. PICK k \in DOMAIN log : log[k].item = i /\ log[k].state = "in"
    BY <2>1, <1>0 DEF Recorded
  <2>3. QED
    BY <2>2, <1>2 DEF Visible
<1>4. LogTold'
  <2>1. SUFFICES ASSUME NEW k \in DOMAIN log', Final(k)', log'[k].item \notin Lingering'
                 PROVE  (log[k].n = Shown(log[k].item))'
    BY DEF LogTold
  <2>2. Visible(log', k)
    BY <2>1 DEF Final, Concerns, Visible
  <2>3. k \in DOMAIN log /\ log'[k] = log[k]
    BY <2>2, <1>2
  <2>4. \A j \in DOMAIN log : Concerns(log[j], watched) => j \in DOMAIN log' /\ (Concerns(log[j], watched))'
                                                           /\ log'[j] = log[j]
    BY <1>0, <1>2 DEF Concerns, Visible
  <2>5. Concerns(log[k], watched)
    BY <2>1, <2>3, <1>0 DEF Final, Concerns
  <2>6. Final(k)
    BY <2>1, <2>3, <2>4, <2>5 DEF Final
  <2>7. log[k].n = Shown(log[k].item)
    BY <2>1, <2>3, <2>6, StillShown DEF LogTold
  <2>8. Bootstrap(watched)' = Bootstrap(watched)
    BY <1>0 DEF Bootstrap, Exists, MaySee
  <2>9. QED
    BY <2>3, <2>7, <2>8 DEF Shown
<1>5. QED
  BY <1>3, <1>4

\* A client keeps what it was told, where nothing is sent to it.
LEMMA ToldKept ==
  ASSUME Still, Told(client), client' = client, behind \subseteq behind',
         \A i \in Items \ behind' : Awaits(i) => Awaits(i)'
  PROVE  Told(client)'
<1>1. Paged(client)'
  BY DEF Told, Paged
<1>2. ASSUME NEW i \in Items \ Lingering' PROVE Claimed(client, i)' /\ Covered(client, i)'
  <2>1. Claimed(client, i) /\ Covered(client, i)
    BY <1>2, StillShown DEF Told
  <2>2. Due(client, i)' = Due(client, i) /\ (Unread(client, i)' <=> Unread(client, i))
    BY DEF Due, Lasts, Unread
  <2>3. \A c, h : Fresh(i, c, h)' <=> Fresh(i, c, h)
    BY StillShown
  <2>4. Claimed(client, i)'
    BY <2>1, <2>3 DEF Claimed
  <2>5. Covered(client, i)'
    BY <2>1, <2>2, <2>3 DEF Covered
  <2>6. QED
    BY <2>4, <2>5
<1>3. ASSUME NEW i \in Items \ (Lingering' \cup behind') PROVE Settled(client, i)'
  <2>1. Settled(client, i) /\ (Awaits(i) => Awaits(i)') /\ Shown(i)' = Shown(i)
    BY <1>3, StillShown DEF Told
  <2>2. /\ Due(client, i)' = Due(client, i) /\ (Unread(client, i)' <=> Unread(client, i))
        /\ HasRead(client, i)' <=> HasRead(client, i)
    BY DEF Due, Lasts, Unread, HasRead
  <2>3. QED
    BY <2>1, <2>2 DEF Settled
<1>4. Untouched(client, behind)'
  BY DEF Told, Untouched, Unread
<1>5. QED
  BY <1>1, <1>2, <1>3, <1>4 DEF Told

-----------------------------------------------------------------------------
Spoke(q, E) == /\ q.call \in calls /\ Tells(E, q.fx) /\ Effective(E, q.fx) /\ Deletes(q.call, q.fx)

LEMMA TellsKept ==
  ASSUME UNCHANGED <<tables, watched, strays>>, NEW E, NEW fx
  PROVE  Tells(E, fx)' <=> Tells(E, fx)
<1>0. UNCHANGED <<content, members, shared, watched, strays>>
  BY DEF tables
<1>1. /\ RowsAfter(fx)' = RowsAfter(fx) /\ SharedAfter(fx)' = SharedAfter(fx)
      /\ Lingering' = Lingering /\ LingeringAfter(fx)' = LingeringAfter(fx)
  BY <1>0 DEF RowsAfter, SharedAfter, Lingering, LingeringAfter
<1>2. MembersAfter(fx)' = MembersAfter(fx)
  BY <1>0, <1>1 DEF MembersAfter
<1>3. \A i : ShownAfter(fx, i)' = ShownAfter(fx, i)
  BY <1>0, <1>1, <1>2 DEF ShownAfter, MaySee
<1>4. Bootstrap(watched)' = Bootstrap(watched)
  BY <1>0 DEF Bootstrap, Exists, MaySee
<1>5. \A e, M : /\ Regards(e, M)' <=> Regards(e, M)
                /\ Reaches(e, M)' <=> Reaches(e, M)
  BY <1>0 DEF Regards, Reaches
<1>6. \A i : TellsItem(E, fx, i)' <=> TellsItem(E, fx, i)
  BY <1>0, <1>1, <1>2, <1>3, <1>4, <1>5 DEF TellsItem, Shown
<1>7. QED
  BY <1>1, <1>6 DEF Tells

\* Request r takes a step, and nothing is committed.
LEMMA RecordsKept ==
  ASSUME Still, Records, calls' = calls, NEW r \in Requests,
         \A q \in Requests \ {r} : reqs'[q] = reqs[q],
         \A q \in Requests \ {r} : reqs[q].at \in {"open", "deliver"} =>
           \A k \in reqs[q].ids : log'[k] = log[k],
         Open(r)' => Spoke(reqs'[r], Said(r)'),
         UpToDate(reqs[r])',
         reqs'[r].at = "looked" =>
           \A q \in Requests \ {r} : Open(q) => reqs[q].call \in {"delete_team", "delete_view"},
         Open(r)' /\ reqs'[r].call \notin {"delete_team", "delete_view"} =>
           \A q \in Requests \ {r} : reqs[q].at # "looked",
         reqs'[r].at = "deliver" => (\A k \in reqs[r].ids : StillTrue(log[k]))'
  PROVE  Records'
<1>0. UNCHANGED <<content, members, shared, watched, strays, tables>>
  BY DEF Still, tables
<1>1. Recorded' /\ LogTold'
  BY StillTold DEF Records
<1>2. Spoken'
  <2>1. SUFFICES ASSUME NEW q \in Requests, Open(q)'
                 PROVE  (Spoke(reqs[q], Said(q)))'
    BY <1>0 DEF Spoken, Spoke
  <2>2. CASE q = r
    <3>1. Spoke(reqs'[r], Said(r)')
      BY <2>1, <2>2
    <3>2. QED
      BY <3>1, <2>2, <1>0, TellsKept DEF Spoke
  <2>3. CASE q # r
    <3>1. Open(q) /\ reqs'[q] = reqs[q] /\ Said(q)' = Said(q)
      BY <2>1, <2>3 DEF Open, Said
    <3>2. Spoke(reqs[q], Said(q))
      BY <3>1 DEF Records, Spoken, Spoke
    <3>3. QED
      BY <3>1, <3>2, <1>0, TellsKept DEF Spoke
  <2>4. QED
    BY <2>2, <2>3
<1>3. Undisturbing'
  <2>1. SUFFICES ASSUME NEW p \in Requests, NEW q \in Requests, reqs'[p].at = "looked", Open(q)'
                 PROVE  reqs'[q].call \in {"delete_team", "delete_view"}
    BY DEF Undisturbing
  <2>2. p # q
    BY <2>1 DEF Open
  <2>3. CASE p # r /\ q # r
    BY <2>1, <2>3 DEF Open, Records, Undisturbing
  <2>4. CASE p = r
    BY <2>1, <2>2, <2>4 DEF Open
  <2>5. CASE q = r
    BY <2>1, <2>2, <2>5 DEF Open
  <2>6. QED
    BY <2>3, <2>4, <2>5
<1>4. Sending'
  <2>1. SUFFICES ASSUME NEW q \in Requests, reqs'[q].at = "deliver", NEW k \in reqs'[q].ids
                 PROVE  (StillTrue(log[k]))'
    BY DEF Sending
  <2>2. CASE q = r
    BY <2>1, <2>2
  <2>3. CASE q # r
    <3>1. StillTrue(log[k]) /\ log'[k] = log[k]
      BY <2>1, <2>3 DEF Records, Sending
    <3>2. QED
      BY <3>1, <1>0 DEF StillTrue
  <2>4. QED
    BY <2>2, <2>3
<1>5. (\A q \in Requests : UpToDate(reqs[q]))'
  <2>1. SUFFICES ASSUME NEW q \in Requests PROVE UpToDate(reqs[q])'
    OBVIOUS
  <2>2. CASE q # r
    BY <2>2, <1>0 DEF Records, UpToDate
  <2>3. QED
    BY <2>2
<1>6. QED
  BY <1>1, <1>2, <1>3, <1>4, <1>5 DEF Records

\* Frames that are on their way stay so, where only other requests change.
LEMMA AwaitsKept ==
  ASSUME Inv, NEW r \in Requests, reqs[r].at # "deliver",
         \A q \in Requests \ {r} : reqs'[q] = reqs[q], members' = members, watched' = watched,
         \A k \in DOMAIN log : log[k].state = "in" => log'[k] = log[k],
         NEW i, Awaits(i)
  PROVE  Awaits(i)'
<1>1. PICK q \in Requests : /\ reqs[q].at = "deliver"
                            /\ \E k \in reqs[q].ids : log[k].item = i /\ Reaches(log[k], members)
  BY DEF Awaits
<1>2. PICK k \in reqs[q].ids : log[k].item = i /\ Reaches(log[k], members)
  BY <1>1
<1>3. log'[k] = log[k] /\ reqs'[q] = reqs[q]
  BY <1>1, <1>2 DEF Inv, Transactions
<1>4. QED
  BY <1>1, <1>2, <1>3 DEF Awaits, Reaches

LEMMA LookCatch ==
  ASSUME CatchInv, Calm, Inv', NEW r \in Requests, NEW call, NEW i, NEW u, NEW seen,
         Look(r, call, i, u, seen),
         call \in {"added", "role", "removed"} => seen = content[i],
         call = "delete_view" => (seen = 1 <=> i \in shared)
  PROVE  CatchInv'
<1> DEFINE q == [Idle EXCEPT !.at = "looked", !.call = call, !.item = i, !.user = u, !.seen = seen]
<1>1. q.at = "looked" /\ q.call = call /\ q.item = i /\ q.seen = seen
  BY DEF Idle
<1>2. /\ reqs' = [reqs EXCEPT ![r] = q] /\ reqs[r].at = "idle"
      /\ UNCHANGED <<calls, tables, log, watched, client, history>>
      /\ \A p \in Requests : ~(Open(p) /\ Disturbs(reqs[p].call))
  BY DEF Look
<1> HIDE DEF q
<1>3. reqs'[r] = q /\ \A p \in Requests \ {r} : reqs'[p] = reqs[p]
  BY <1>2 DEF CatchInv, Inv, Types
<1>4. /\ Inv /\ Records /\ Told(client)
      /\ UNCHANGED <<content, members, shared, log, watched, strays, behind>>
  BY <1>2 DEF CatchInv, tables, history
<1>5. Still
  BY <1>2, <1>4 DEF Still, SameVisible, Visible, tables
<1>6. ~Open(r)' /\ reqs'[r].at # "deliver"
  BY <1>1, <1>3 DEF Open
<1>7. UpToDate(reqs[r])'
  BY <1>1, <1>3, <1>4 DEF UpToDate
<1>8. \A p \in Requests \ {r} : Open(p) => reqs[p].call \in {"delete_team", "delete_view"}
  BY <1>2 DEF Disturbs, Calm
<1>9. Records'
  BY <1>2, <1>3, <1>4, <1>5, <1>6, <1>7, <1>8, RecordsKept
<1>10. Told(client)'
  BY <1>2, <1>3, <1>4, <1>5, AwaitsKept, ToldKept
<1>11. QED
  BY <1>9, <1>10 DEF CatchInv

\* A request that gives up.
LEMMA IdleCatch ==
  ASSUME CatchInv, Calm, Inv', NEW r \in Requests, reqs' = [reqs EXCEPT ![r] = Idle],
         UNCHANGED <<calls, tables, watched, client, entitled, strays>>, behind \subseteq behind',
         SameVisible,
         \A q \in Requests \ {r} : reqs[q].at \in {"open", "deliver"} =>
           \A k \in reqs[q].ids : log'[k] = log[k],
         \A i \in Items \ behind' : Awaits(i) => Awaits(i)'
  PROVE  CatchInv'
<1>1. reqs'[r] = Idle /\ \A p \in Requests \ {r} : reqs'[p] = reqs[p]
  BY DEF CatchInv, Inv, Types
<1>2. /\ Inv /\ Records /\ Told(client)
      /\ Still
  BY DEF CatchInv, Still
<1>3. ~Open(r)' /\ reqs'[r].at = "idle"
  BY <1>1, IdleType DEF Open
<1>4. UpToDate(reqs[r])'
  BY <1>3 DEF UpToDate
<1>5. Records'
  BY <1>1, <1>2, <1>3, <1>4, RecordsKept
<1>6. Told(client)'
  BY <1>2, ToldKept
<1>7. QED
  BY <1>5, <1>6 DEF CatchInv

LEMMA RefuseCatch ==
  ASSUME CatchInv, Calm, Inv', NEW r \in Requests, Refuse(r)
  PROVE  CatchInv'
<1>1. /\ reqs' = [reqs EXCEPT ![r] = Idle] /\ reqs[r].at = "looked"
      /\ UNCHANGED <<calls, tables, log, watched, client, history>>
  BY DEF Refuse
<1>2. UNCHANGED <<members, entitled, strays, behind>>
  BY <1>1 DEF tables, history
<1>3. \A p \in Requests \ {r} : reqs'[p] = reqs[p]
  BY <1>1 DEF CatchInv, Inv, Types
<1>4. \A i \in Items \ behind' : Awaits(i) => Awaits(i)'
  BY <1>1, <1>2, <1>3, AwaitsKept DEF CatchInv
<1>5. SameVisible
  BY <1>1 DEF SameVisible, Visible
<1>6. QED
  BY <1>1, <1>2, <1>4, <1>5, IdleCatch

LEMMA SilenceCatch ==
  ASSUME CatchInv, Calm, Inv', NEW r \in Requests, Silence(r)
  PROVE  CatchInv'
<1>1. /\ reqs' = [reqs EXCEPT ![r] = Idle] /\ reqs[r].at = "deliver"
      /\ behind' = behind \cup {log[k].item : k \in reqs[r].ids}
      /\ UNCHANGED <<calls, tables, log, watched, client, entitled, strays>>
  BY DEF Silence
<1>2. UNCHANGED <<members, watched>>
  BY <1>1 DEF tables
<1>3. \A p \in Requests \ {r} : reqs'[p] = reqs[p]
  BY <1>1 DEF CatchInv, Inv, Types
<1>4. ASSUME NEW i \in Items \ behind', Awaits(i) PROVE Awaits(i)'
  <2>1. PICK q \in Requests : /\ reqs[q].at = "deliver"
                              /\ \E k \in reqs[q].ids : log[k].item = i /\ Reaches(log[k], members)
    BY <1>4 DEF Awaits
  <2>2. q # r
    BY <1>1, <1>4, <2>1
  <2>3. QED
    BY <1>1, <1>2, <1>3, <2>1, <2>2 DEF Awaits, Reaches
<1>5. SameVisible
  BY <1>1 DEF SameVisible, Visible
<1>6. QED
  BY <1>1, <1>4, <1>5, IdleCatch

LEMMA RollbackCatch ==
  ASSUME CatchInv, Calm, Inv', NEW r \in Requests, Rollback(r)
  PROVE  CatchInv'
<1>1. /\ reqs' = [reqs EXCEPT ![r] = Idle] /\ Open(r)
      /\ UNCHANGED <<calls, tables, watched, client, history>>
      /\ log' = SubSeq(log, 1, Min(reqs[r].ids) - 1)
  BY DEF Rollback, Calm
<1>2. UNCHANGED <<members, entitled, strays, behind>>
  BY <1>1 DEF tables, history
<1>3. \A p \in Requests \ {r} : reqs'[p] = reqs[p]
  BY <1>1 DEF CatchInv, Inv, Types
<1>4. DOMAIN log' = DOMAIN log \ reqs[r].ids /\ \A k \in DOMAIN log' : log'[k] = log[k]
  BY <1>1, Truncated DEF CatchInv, Calm
<1>5. \A k \in reqs[r].ids : log[k].state = "open"
  BY <1>1 DEF CatchInv, Inv, Transactions
<1>6. SameVisible
  BY <1>4, <1>5 DEF SameVisible, Visible
<1>7. \A k \in DOMAIN log : log[k].state = "in" => log'[k] = log[k]
  BY <1>4, <1>5
<1>8. \A i \in Items \ behind' : Awaits(i) => Awaits(i)'
  BY <1>1, <1>2, <1>3, <1>7, AwaitsKept DEF CatchInv, Open
<1>9. ASSUME NEW q \in Requests \ {r}, reqs[q].at \in {"open", "deliver"}, NEW k \in reqs[q].ids
      PROVE  log'[k] = log[k]
  <2>1. k \in DOMAIN log /\ k \notin reqs[r].ids
    BY <1>1, <1>5, <1>9 DEF CatchInv, Inv, Transactions, Open
  <2>2. QED
    BY <2>1, <1>4
<1>10. QED
  BY <1>1, <1>2, <1>6, <1>8, <1>9, IdleCatch

\* The statements of a transaction that tells what it is going to do.
LEMMA StageCatch ==
  ASSUME CatchInv, Calm, Inv', NEW r \in Requests, NEW from \in {"idle", "looked"}, NEW call,
         NEW names, NEW entries \in Seq(EntryType), NEW fx, NEW E,
         Stage(r, from, call, names, entries, fx),
         E = {entries[k] : k \in DOMAIN entries}, \A e \in E : e.state = "open",
         Tells(E, fx), Effective(E, fx), Deletes(call, fx)
  PROVE  CatchInv'
<1> DEFINE new == New..Len(log) + Len(entries)
           q == [reqs[r] EXCEPT !.at = "open", !.call = call, !.locks = names, !.fx = fx, !.ids = new]
<1>1. /\ log' = log \o entries /\ call \in calls
      /\ UNCHANGED <<calls, tables, watched, client, history>>
      /\ reqs' = [reqs EXCEPT ![r] = q]
      /\ reqs[r].at = from /\ Pool /\ Undisturbed(r, call)
  BY DEF Stage
<1>2. /\ log \in Seq(EntryType) /\ Len(log) \in Nat /\ DOMAIN log = 1..Len(log)
      /\ Len(entries) \in Nat /\ DOMAIN entries = 1..Len(entries)
      /\ reqs \in [Requests -> RequestType]
  BY LogType DEF CatchInv, Inv, Types
<1>3. /\ q.at = "open" /\ q.call = call /\ q.fx = fx /\ q.ids = new
  <2>1. reqs[r] \in RequestType
    BY <1>2
  <2> HIDE DEF new
  <2>2. QED
    BY <2>1 DEF RequestType
<1> HIDE DEF q
<1>4. reqs'[r] = q /\ \A p \in Requests \ {r} : reqs'[p] = reqs[p]
  BY <1>1, <1>2
<1>5. /\ DOMAIN log' = 1..(Len(log) + Len(entries))
      /\ \A k \in DOMAIN log : log'[k] = log[k]
      /\ \A k \in new : k - Len(log) \in DOMAIN entries /\ log'[k] = entries[k - Len(log)] /\ k \notin DOMAIN log
      /\ \A j \in DOMAIN entries : Len(log) + j \in new /\ log'[Len(log) + j] = entries[j]
  <2>1. /\ Len(log') = Len(log) + Len(entries) /\ DOMAIN log' = 1..Len(log')
    BY <1>1, <1>2
  <2>2. \A k \in 1..Len(log') : log'[k] = IF k <= Len(log) THEN log[k] ELSE entries[k - Len(log)]
    BY <1>1, <1>2
  <2>3. \A k \in DOMAIN log : log'[k] = log[k]
    BY <2>1, <2>2, <1>2
  <2>4. ASSUME NEW k \in new
        PROVE  k - Len(log) \in DOMAIN entries /\ log'[k] = entries[k - Len(log)] /\ k \notin DOMAIN log
    <3>1. k \in Nat /\ k > Len(log) /\ k <= Len(log) + Len(entries)
      BY <1>2 DEF New
    <3>2. k - Len(log) \in 1..Len(entries) /\ k \in 1..Len(log')
      BY <3>1, <2>1, <1>2
    <3>3. QED
      BY <3>1, <3>2, <2>2, <1>2
  <2>5. ASSUME NEW j \in DOMAIN entries
        PROVE  Len(log) + j \in new /\ log'[Len(log) + j] = entries[j]
    <3>1. j \in Nat /\ 1 <= j /\ j <= Len(entries)
      BY <1>2
    <3> DEFINE k == Len(log) + j
    <3>2. k \in Nat /\ k > Len(log) /\ k <= Len(log) + Len(entries) /\ k - Len(log) = j
      BY <3>1, <1>2
    <3>3. k \in new
      BY <3>2, <1>2 DEF New
    <3> HIDE DEF k
    <3>4. log'[k] = entries[j]
      BY <3>3, <3>2, <2>4
    <3>5. QED
      BY <3>3, <3>4 DEF k
  <2>6. QED
    BY <2>1, <2>3, <2>4, <2>5
<1>6. Said(r)' = E
  <2>1. \A k \in new : log'[k] \in E
    BY <1>5
  <2>2. \A e \in E : \E k \in new : log'[k] = e
    <3>1. SUFFICES ASSUME NEW j \in DOMAIN entries PROVE \E k \in new : log'[k] = entries[j]
      OBVIOUS
    <3>2. Len(log) + j \in new /\ log'[Len(log) + j] = entries[j]
      BY <1>5
    <3> HIDE DEF new
    <3>3. QED
      BY <3>2
  <2>3. Said(r)' = {log'[k] : k \in new}
    BY <1>3, <1>4 DEF Said
  <2> HIDE DEF new
  <2>4. QED
    BY <2>1, <2>2, <2>3
<1>7. \A k \in new : log'[k].state = "open"
  BY <1>5
<1>8. SameVisible
  <2>1. SUFFICES ASSUME NEW k \in Nat
                 PROVE  /\ Visible(log', k) <=> Visible(log, k)
                        /\ Visible(log, k) => log'[k] = log[k]
    BY DEF SameVisible
  <2>2. CASE k \in DOMAIN log
    BY <2>2, <1>2, <1>5 DEF Visible
  <2>3. CASE k \notin DOMAIN log
    <3>1. k \in DOMAIN log' => k \in new
      BY <2>3, <1>2, <1>5 DEF New
    <3>2. QED
      BY <2>3, <3>1, <1>7 DEF Visible
  <2>4. QED
    BY <2>2, <2>3
<1> HIDE DEF new
<1>9. Still
  BY <1>1, <1>8 DEF Still, CatchInv, history
<1>10. UNCHANGED <<members, strays, behind>>
  BY <1>1 DEF tables, history
<1>11. Spoke(reqs'[r], Said(r)')
  BY <1>1, <1>3, <1>4, <1>6 DEF Spoke
<1>12. reqs'[r].at = "open" /\ reqs[r].at # "deliver" /\ UpToDate(reqs[r])'
  BY <1>1, <1>3, <1>4 DEF UpToDate
<1>13. call \notin {"delete_team", "delete_view"} => \A p \in Requests \ {r} : reqs[p].at # "looked"
  BY <1>1 DEF Undisturbed, Disturbs, Others, Calm
<1>14. ASSUME NEW p \in Requests \ {r}, reqs[p].at \in {"open", "deliver"}, NEW k \in reqs[p].ids
       PROVE  log'[k] = log[k]
  BY <1>14, <1>5 DEF CatchInv, Inv, Transactions, Open
<1>15. Records'
  BY <1>1, <1>3, <1>4, <1>9, <1>11, <1>12, <1>13, <1>14, RecordsKept DEF CatchInv
<1>16. \A i \in Items \ behind' : Awaits(i) => Awaits(i)'
  BY <1>1, <1>4, <1>5, <1>10, <1>12, AwaitsKept DEF CatchInv
<1>17. Told(client)'
  BY <1>1, <1>9, <1>10, <1>16, ToldKept DEF CatchInv
<1>18. QED
  BY <1>15, <1>17 DEF CatchInv

-----------------------------------------------------------------------------
(***************************************************************************)
(* The client and its handler.                                             *)
(***************************************************************************)
LEMMA ToldStill ==
  ASSUME Still, NEW c, client' = c, Paged(c),
         \A i \in Items \ Lingering : Claimed(c, i) /\ Covered(c, i),
         Untouched(c, behind'),
         \A i \in Items \ (Lingering \cup behind') :
           HasRead(c, i) => \A h \in Due(c, i) : h = Shown(i) \/ Awaits(i)'
  PROVE  Told(client)'
<1>1. Paged(client)'
  BY DEF Paged
<1>2. ASSUME NEW i \in Items \ Lingering' PROVE Claimed(client, i)' /\ Covered(client, i)'
  <2>1. Claimed(c, i) /\ Covered(c, i)
    BY <1>2, StillShown
  <2>2. Due(client, i)' = Due(c, i) /\ (Unread(client, i)' <=> Unread(c, i))
    BY DEF Due, Lasts, Unread
  <2>3. \A x, h : Fresh(i, x, h)' <=> Fresh(i, x, h)
    BY StillShown
  <2>4. Claimed(client, i)'
    BY <2>1, <2>3 DEF Claimed
  <2>5. Covered(client, i)'
    BY <2>1, <2>2, <2>3 DEF Covered
  <2>6. QED
    BY <2>4, <2>5
<1>3. ASSUME NEW i \in Items \ (Lingering' \cup behind') PROVE Settled(client, i)'
  <2>1. /\ HasRead(c, i) => \A h \in Due(c, i) : h = Shown(i) \/ Awaits(i)'
        /\ Shown(i)' = Shown(i)
    BY <1>3, StillShown
  <2>2. /\ Due(client, i)' = Due(c, i) /\ (Unread(client, i)' <=> Unread(c, i))
        /\ HasRead(client, i)' <=> HasRead(c, i)
    BY DEF Due, Lasts, Unread, HasRead
  <2>3. QED
    BY <2>1, <2>2 DEF Settled
<1>4. Untouched(client, behind)'
  BY DEF Untouched, Unread
<1>5. QED
  BY <1>1, <1>2, <1>3, <1>4 DEF Told

LEMMA ClientCatch ==
  ASSUME CatchInv, Inv', UNCHANGED <<calls, tables, log, reqs, watched, strays>>,
         NEW c, client' = c, Paged(c), Untouched(c, behind'),
         \A i \in Items \ Lingering : Claimed(c, i) /\ Covered(c, i),
         \A i \in Items \ (Lingering \cup behind') : Settled(c, i)
  PROVE  CatchInv'
<1>0. UNCHANGED <<content, members, shared>>
  BY DEF tables
<1>1. Still
  BY DEF Still, SameVisible, Visible, CatchInv
<1>2. \A i : Awaits(i)' <=> Awaits(i)
  BY <1>0 DEF Awaits, Reaches
<1>3. Told(client)'
  BY <1>1, <1>2, ToldStill DEF Settled
<1>4. Recorded' /\ LogTold'
  BY <1>1, StillTold DEF CatchInv, Records
<1>5. Spoken'
  <2>1. \A E, fx : Tells(E, fx)' <=> Tells(E, fx)
    BY TellsKept
  <2>2. \A r \in Requests : Said(r)' = Said(r)
    BY DEF Said
  <2>3. QED
    BY <2>1, <2>2 DEF CatchInv, Records, Spoken, Open
<1>6. Undisturbing' /\ Sending' /\ (\A r \in Requests : UpToDate(reqs[r]))'
  BY <1>0 DEF CatchInv, Records, Undisturbing, Sending, UpToDate, Open, StillTrue
<1>7. QED
  BY <1>3, <1>4, <1>5, <1>6 DEF CatchInv, Records

LEMMA ConnectCatch ==
  ASSUME CatchInv, Inv', Connect
  PROVE  CatchInv'
<1> DEFINE c == IF client.cursor = 0 THEN [Down EXCEPT !.phase = "asked"]
                ELSE [client EXCEPT !.phase = "delta", !.mark = client.cursor]
<1>1. /\ client.phase = "down" /\ client' = c
      /\ UNCHANGED <<calls, tables, log, reqs, watched, strays>>
  BY DEF Connect
<1>2. client \in ClientType /\ Told(client)
  BY DEF CatchInv, Inv, Types
<1>3. client.page = {}
  BY <1>1, <1>2 DEF Told, Paged
<1>4. CASE client.cursor = 0
  <2>1. c.phase = "asked" /\ c.page = {} /\ c.cursor = 0 /\ \A i \in Items : c.holds[i] = 0
    BY <1>4 DEF Down
  <2> HIDE DEF c
  <2>2. /\ Paged(c) /\ Untouched(c, behind')
        /\ \A i \in Items : Claimed(c, i) /\ Covered(c, i) /\ Settled(c, i)
    BY <2>1 DEF Paged, Untouched, Claimed, Covered, Settled, HasRead
  <2>3. QED
    BY <1>1, <2>2, ClientCatch
<1>5. CASE client.cursor # 0
  <2>1. /\ c.phase = "delta" /\ c.page = {} /\ c.cursor = client.cursor /\ c.mark = client.cursor
        /\ c.holds = client.holds /\ c.cursor \in Nat
    BY <1>2, <1>3, <1>5 DEF ClientType
  <2> HIDE DEF c
  <2>2. Paged(c) /\ Untouched(c, behind')
    BY <2>1 DEF Paged, Untouched, Unread
  <2>3. ASSUME NEW i \in Items \ Lingering PROVE Claimed(c, i) /\ Covered(c, i)
    <3>1. Fresh(i, c.cursor, c.holds[i])
      BY <1>2, <1>5, <2>1 DEF Told, Claimed
    <3>2. QED
      BY <3>1, <2>1, DueAlone DEF Claimed, Covered
  <2>4. \A i \in Items : Settled(c, i)
    BY <2>1 DEF Settled, Unread, HasRead
  <2>5. QED
    BY <1>1, <2>2, <2>3, <2>4, ClientCatch
<1>6. QED
  BY <1>4, <1>5

LEMMA StartBootstrapCatch ==
  ASSUME CatchInv, Inv', StartBootstrap
  PROVE  CatchInv'
<1> DEFINE c == [client EXCEPT !.phase = "teams", !.mark = Latest]
<1>1. /\ client.phase = "asked" /\ client' = c
      /\ UNCHANGED <<calls, tables, log, reqs, watched, strays, behind>>
  BY DEF StartBootstrap, ServerOnly, history
<1>2. client \in ClientType /\ Told(client)
  BY DEF CatchInv, Inv, Types
<1>3. /\ c.phase = "teams" /\ c.page = {} /\ c.cursor = 0 /\ \A i \in Items : c.holds[i] = 0
  BY <1>1, <1>2 DEF ClientType, Told, Paged
<1> HIDE DEF c
<1>4. /\ Paged(c) /\ Untouched(c, behind')
      /\ \A i \in Items : Claimed(c, i) /\ Covered(c, i) /\ Settled(c, i)
  BY <1>3, DueAlone DEF Paged, Untouched, Claimed, Covered, Settled, Unread, HasRead
<1>5. QED
  BY <1>1, <1>4, ClientCatch

\* A list is read as it is, and what is not in it is not there.
LEMMA ReadListCatch ==
  ASSUME CatchInv, Inv', NEW place \in Nat, NEW phase, NEW kind, NEW next,
         ReadList(place, phase, kind, next),
         \/ phase = "teams" /\ kind = Teams /\ next = "views"
         \/ phase = "views" /\ kind = Views /\ next = "stream"
  PROVE  CatchInv'
<1> DEFINE shown == {x \in kind : Bootstrap(watched)[x] # 0}
           frames == {Frame(place, i, content[i]) : i \in shown}
           c == [client EXCEPT !.phase = next, !.short = TRUE, !.page = @ \cup frames]
<1>1. /\ client.phase = phase /\ client' = c
      /\ UNCHANGED <<calls, tables, log, reqs, watched, strays, behind>>
  BY DEF ReadList, ServerOnly, history
<1>2. client \in ClientType /\ Told(client)
  BY DEF CatchInv, Inv, Types
<1>3. \A i \in Items : Shown(i) # 0 => content[i] = Shown(i)
  BY DEF Shown, Bootstrap
<1>4. kind \subseteq Items
  BY DEF Items
<1>5. \A f \in frames : f.item \in kind /\ f.n = Shown(f.item) /\ Shown(f.item) # 0
  BY <1>3, <1>4 DEF Frame, Shown
<1>6. \A i \in kind : Shown(i) # 0 => \E f \in frames : f.item = i
  <2>1. SUFFICES ASSUME NEW i \in kind, Shown(i) # 0 PROVE \E f \in frames : f.item = i
    OBVIOUS
  <2>2. Frame(place, i, content[i]) \in frames /\ Frame(place, i, content[i]).item = i
    BY <2>1 DEF Shown, Frame
  <2>3. QED
    BY <2>2
<1> HIDE DEF frames
<1>7. /\ c.phase = next /\ c.short = TRUE /\ c.page = client.page \cup frames
      /\ c.holds = client.holds /\ c.cursor = client.cursor /\ c.mark = client.mark
  BY <1>2 DEF ClientType
<1> HIDE DEF c
<1>8. Paged(c)
  BY <1>1, <1>2, <1>5, <1>7 DEF Told, Paged, ClientType
<1>9. \A f \in client.page : f.item \notin kind
  <2>1. CASE phase = "teams"
    BY <2>1, <1>1, <1>2 DEF Told, Paged
  <2>2. CASE phase = "views"
    BY <2>2, <1>1, <1>2, Kinds DEF Told, Paged
  <2>3. QED
    BY <2>1, <2>2
<1>10. ASSUME NEW i \in Items \ Lingering PROVE Claimed(c, i)
  <2>1. Claimed(client, i)
    BY <1>2 DEF Told
  <2>2. \A f \in frames : f.item = i => Fresh(i, c.cursor, f.n)
    BY <1>5 DEF Fresh
  <2>3. QED
    BY <2>1, <2>2, <1>7 DEF Claimed
<1>11. \A i \in kind : Due(client, i) = {client.holds[i]}
  BY <1>9 DEF Due
<1>12. ASSUME NEW i \in kind, NEW h \in Due(c, i)
       PROVE  h = Shown(i) \/ (Shown(i) = 0 /\ h = client.holds[i])
  <2>1. CASE \E f \in c.page : f.item = i
    <3>1. PICK f \in c.page : f.item = i /\ f.n = h
      BY <1>12, <2>1 DEF Due, Lasts
    <3>2. f \in frames
      BY <3>1, <1>7, <1>9
    <3>3. QED
      BY <3>1, <3>2, <1>5
  <2>2. CASE ~ \E f \in c.page : f.item = i
    <3>1. h = client.holds[i]
      BY <1>12, <2>2, <1>7 DEF Due
    <3>2. Shown(i) = 0
      BY <2>2, <1>6, <1>7
    <3>3. QED
      BY <3>1, <3>2
  <2>3. QED
    BY <2>1, <2>2
<1>13. ASSUME NEW i \in Items, i \notin kind PROVE Due(c, i) = Due(client, i)
  <2>1. \A f : f \in c.page /\ f.item = i <=> f \in client.page /\ f.item = i
    BY <1>13, <1>5, <1>7
  <2>2. Lasts(c.page, i) = Lasts(client.page, i)
    BY <2>1 DEF Lasts
  <2>3. QED
    BY <2>1, <2>2, <1>7 DEF Due
<1>14. \A i \in kind : Unread(client, i)
  BY <1>1 DEF Unread
<1>15. \A i \in Items : i \notin kind => /\ Unread(c, i) <=> Unread(client, i)
                                         /\ HasRead(c, i) => HasRead(client, i)
  BY <1>1, <1>7, Kinds DEF Unread, HasRead, Items
<1>16. \A i \in kind : ~Unread(c, i)
  BY <1>7, Kinds DEF Unread
<1>17. ASSUME NEW i \in Items \ Lingering PROVE Covered(c, i)
  <2>1. \A h \in Due(client, i) : (Unread(client, i) /\ h = 0) \/ Fresh(i, client.mark, h)
    BY <1>1, <1>2, <1>17 DEF Told, Covered
  <2>2. CASE i \in kind
    <3>1. client.holds[i] = 0 \/ Fresh(i, client.mark, client.holds[i])
      BY <2>1, <2>2, <1>11
    <3>2. \A h \in Due(c, i) : Fresh(i, client.mark, h)
      BY <2>2, <3>1, <1>12 DEF Fresh
    <3>3. QED
      BY <3>2, <1>7 DEF Covered
  <2>3. CASE i \notin kind
    BY <2>1, <2>3, <1>7, <1>13, <1>15 DEF Covered
  <2>4. QED
    BY <2>2, <2>3
<1>18. ASSUME NEW i \in Items \ (Lingering \cup behind') PROVE Settled(c, i)
  <2>1. Settled(client, i)
    BY <1>1, <1>2, <1>18 DEF Told
  <2>2. CASE i \in kind
    <3>1. client.holds[i] = 0
      BY <2>2, <1>1, <1>2, <1>14, <1>18 DEF Told, Untouched
    <3>2. \A h \in Due(c, i) : h = Shown(i)
      BY <2>2, <3>1, <1>12
    <3>3. QED
      BY <3>2 DEF Settled
  <2>3. CASE i \notin kind
    BY <2>1, <2>3, <1>7, <1>13, <1>15 DEF Settled
  <2>4. QED
    BY <2>2, <2>3
<1>19. Untouched(c, behind')
  BY <1>1, <1>2, <1>7, <1>15, <1>16 DEF Told, Untouched
<1>20. QED
  BY <1>1, <1>8, <1>10, <1>17, <1>18, <1>19, ClientCatch

PageOf(above) == {k \in above : Cardinality({j \in above : j < k}) < BatchSize}

\* A page has the least entries above the mark.
LEMMA PageFacts ==
  ASSUME Inv, NEW above, NEW page, NEW mark,
         above = Above(client.mark),
         page = PageOf(above),
         mark = Max({client.mark} \cup page)
  PROVE  /\ mark \in Nat /\ client.mark <= mark
         /\ \A k \in page : k <= mark
         /\ above \ page \subseteq Above(mark) /\ Above(mark) \subseteq above
         /\ Above(mark) \cap page = {}
         /\ Cardinality(above) < BatchSize => Above(mark) = {}
<1>1. Len(log) \in Nat /\ DOMAIN log = 1..Len(log)
  BY LogType
<1>2. above \subseteq 1..Len(log) /\ page \subseteq above /\ \A k \in above : k > client.mark
  BY <1>1 DEF Above, PageOf
<1>3. client.mark \in 0..Len(log)
  BY <1>1, ClientNow DEF Claim
<1>4. /\ mark \in {client.mark} \cup page /\ \A x \in {client.mark} \cup page : x <= mark
  <2>1. {client.mark} \cup page \subseteq 0..Len(log)
    BY <1>1, <1>2, <1>3
  <2>2. QED
    BY <2>1, <1>1, MaxOf
<1>5. mark \in Nat /\ client.mark <= mark /\ \A k \in page : k <= mark
  <2>1. \A x \in {client.mark} \cup page : x \in Nat
    <3>1. \A x \in page : x \in 1..Len(log)
      BY <1>2
    <3>2. QED
      BY <3>1, <1>1, <1>3
  <2>2. QED
    BY <1>4, <2>1
<1>6. IsFiniteSet(above) /\ BatchSize \in Nat
  <2>1. IsFiniteSet(1..Len(log))
    BY <1>1, FS_Interval
  <2>2. IsFiniteSet(above)
    BY <1>2, <2>1, FS_Subset
  <2>3. QED
    BY <2>2, SyncLogAssumption DEF SyncLogAssumption
<1>7. ASSUME NEW k \in above, k \notin page, NEW p \in page PROVE p < k
  <2>1. SUFFICES ASSUME k <= p PROVE FALSE
    BY <1>1, <1>2
  <2> DEFINE K == {j \in above : j < k}
             P == {j \in above : j < p}
  <2>2. K \subseteq P
    BY <2>1, <1>1, <1>2
  <2>3. P \subseteq above
    OBVIOUS
  <2>4. Cardinality(P) < BatchSize /\ ~(Cardinality(K) < BatchSize)
    BY <1>7 DEF PageOf
  <2> HIDE DEF K, P
  <2>5. IsFiniteSet(P)
    BY <2>3, <1>6, FS_Subset
  <2>6. Cardinality(K) <= Cardinality(P) /\ IsFiniteSet(K)
    BY <2>2, <2>5, FS_Subset
  <2>7. Cardinality(K) \in Nat /\ Cardinality(P) \in Nat
    BY <2>5, <2>6, FS_CardinalityType
  <2>8. QED
    BY <2>4, <2>6, <2>7, <1>6
<1>8. above \ page \subseteq Above(mark)
  <2>1. SUFFICES ASSUME NEW k \in above, k \notin page PROVE k \in Above(mark)
    OBVIOUS
  <2>2. k > mark
    BY <2>1, <1>1, <1>2, <1>4, <1>7
  <2>3. QED
    BY <2>1, <2>2 DEF Above
<1>9. Above(mark) \subseteq above
  <2>1. SUFFICES ASSUME NEW k \in Above(mark) PROVE k \in above
    OBVIOUS
  <2>2. k \in DOMAIN log /\ k > mark /\ Concerns(log[k], watched)
    BY <2>1 DEF Above
  <2>3. k \in Nat /\ client.mark \in Nat
    BY <2>2, <1>1, <1>3
  <2>4. k > client.mark
    BY <2>2, <2>3, <1>5
  <2>5. QED
    BY <2>2, <2>4 DEF Above
<1>10. Above(mark) \cap page = {}
  <2>1. SUFFICES ASSUME NEW k \in page, k \in Above(mark) PROVE FALSE
    OBVIOUS
  <2>2. k \in Nat /\ k <= mark
    <3>1. k \in 1..Len(log)
      BY <2>1, <1>2
    <3>2. k \in Nat
      BY <3>1, <1>1
    <3>3. k <= mark
      BY <2>1, <1>5
    <3>4. QED
      BY <3>2, <3>3
  <2>4. k > mark
    BY <2>1 DEF Above
  <2>3. QED
    BY <2>2, <2>4, <1>5
<1>11. ASSUME Cardinality(above) < BatchSize PROVE Above(mark) = {}
  <2>1. ASSUME NEW k \in above PROVE k \in page
    <3> DEFINE K == {j \in above : j < k}
    <3>1. K \subseteq above
      OBVIOUS
    <3> HIDE DEF K
    <3>2. Cardinality(K) <= Cardinality(above) /\ IsFiniteSet(K)
      BY <3>1, <1>6, FS_Subset
    <3>3. Cardinality(K) \in Nat /\ Cardinality(above) \in Nat
      BY <3>2, <1>6, FS_CardinalityType
    <3>4. Cardinality(K) < BatchSize
      BY <3>2, <3>3, <1>6, <1>11
    <3>5. QED
      BY <3>4, <2>1 DEF K, PageOf
  <2>2. QED
    BY <2>1, <1>9, <1>10
<1>12. QED
  BY <1>5, <1>8, <1>9, <1>10, <1>11

LEMMA ReadPageCatch ==
  ASSUME CatchInv, Inv', ReadPage
  PROVE  CatchInv'
<1> DEFINE above == Above(client.mark)
           page == {k \in above : Cardinality({j \in above : j < k}) < BatchSize}
           frames == {Frame(k, log[k].item, log[k].n) : k \in page}
           mark == Max({client.mark} \cup page)
           short == Cardinality(above) < BatchSize
           c == [client EXCEPT !.phase = "stream", !.short = short, !.page = frames, !.mark = mark]
<1>1. /\ client.phase = "delta" \/ (client.phase = "stream" /\ client.page = {})
      /\ UNCHANGED <<calls, tables, log, reqs, watched, strays, behind>>
  BY DEF ReadPage, ServerOnly, history
<1>2. client \in ClientType /\ Told(client) /\ Inv /\ LogTold
  BY DEF CatchInv, Inv, Types, Records
<1>3. client' = c
  BY <1>2 DEF ReadPage
<1>4. client.page = {} /\ client.cursor <= client.mark /\ client.cursor \in Nat /\ client.mark \in Nat
  BY <1>1, <1>2 DEF Told, Paged, ClientType
<1>5. /\ mark \in Nat /\ client.mark <= mark
      /\ \A k \in page : k <= mark
      /\ above \ page \subseteq Above(mark) /\ Above(mark) \subseteq above
      /\ Above(mark) \cap page = {}
      /\ short => Above(mark) = {}
  <2>1. /\ above = Above(client.mark)
        /\ page = PageOf(above)
        /\ mark = Max({client.mark} \cup page)
        /\ short <=> Cardinality(above) < BatchSize
    BY DEF PageOf
  <2> HIDE DEF above, page, mark, short
  <2>2. QED
    BY <2>1, <1>2, PageFacts
<1>6. page \subseteq above
  OBVIOUS
<1>7. \A f \in frames : \E k \in page : f.place = k /\ f.item = log[k].item /\ f.n = log[k].n
  BY DEF Frame
<1>8. \A k \in page : \E f \in frames : f.place = k /\ f.item = log[k].item
  <2>1. SUFFICES ASSUME NEW k \in page
                 PROVE  \E f \in frames : f.place = k /\ f.item = log[k].item
    OBVIOUS
  <2>2. Frame(k, log[k].item, log[k].n) \in frames
    OBVIOUS
  <2>3. QED
    BY <2>2 DEF Frame
<1> HIDE DEF page, mark, short, frames
<1>9. /\ c.phase = "stream" /\ c.short = short /\ c.page = frames /\ c.mark = mark
      /\ c.holds = client.holds /\ c.cursor = client.cursor
  BY <1>2 DEF ClientType
<1> HIDE DEF c
<1>10. Paged(c)
  BY <1>4, <1>5, <1>9 DEF Paged
<1>11. DOMAIN log \subseteq Nat /\ above \subseteq DOMAIN log
       /\ \A k \in above : k > client.mark /\ Concerns(log[k], watched)
  BY <1>2 DEF Above, Inv, Types
<1>12. ASSUME NEW i \in Items \ Lingering PROVE Claimed(c, i)
  <2>1. Claimed(client, i)
    BY <1>2 DEF Told
  <2>2. ASSUME NEW f \in frames, f.item = i PROVE Fresh(i, c.cursor, f.n)
    <3>1. PICK k \in page : f.item = log[k].item
      BY <1>7, <2>2
    <3>2. k \in Above(c.cursor)
      <4>1. k \in DOMAIN log /\ k > client.mark /\ Concerns(log[k], watched) /\ k \in Nat
        BY <1>6, <1>11, <3>1
      <4>2. k > c.cursor
        BY <4>1, <1>4, <1>9
      <4>3. QED
        BY <4>1, <4>2 DEF Above
    <3>3. QED
      BY <3>1, <3>2, <2>2 DEF Fresh
  <2>3. QED
    BY <2>1, <2>2, <1>9 DEF Claimed
<1>13. ASSUME NEW i \in Items \ Lingering, NEW h \in Due(c, i)
       PROVE  Fresh(i, mark, h)
  <2>1. SUFFICES ASSUME \A k \in Above(mark) : log[k].item # i PROVE h = Shown(i)
    BY DEF Fresh
  <2>2. \A k \in above : log[k].item = i => k \in page
    BY <2>1, <1>5
  <2>3. CASE \E f \in c.page : f.item = i
    <3>1. PICK f \in frames : /\ f.item = i /\ f.n = h
                              /\ \A g \in frames : g.item = i => g.place <= f.place
      BY <1>9, <1>13, <2>3 DEF Due, Lasts
    <3>2. PICK p \in page : f.place = p /\ f.item = log[p].item /\ f.n = log[p].n
      BY <1>7
    <3>3. p \in DOMAIN log /\ p > client.mark /\ p \in Nat /\ Concerns(log[p], watched)
      BY <1>6, <1>11
    <3>4. ASSUME NEW j \in DOMAIN log, j > p, log[j].item = i PROVE ~Concerns(log[j], watched)
      <4>1. SUFFICES ASSUME Concerns(log[j], watched) PROVE FALSE
        OBVIOUS
      <4>2. j > client.mark /\ j \in Nat
        BY <3>3, <3>4, <1>4, <1>11
      <4>3. j \in above
        BY <4>1, <4>2 DEF Above
      <4>4. j \in page
        BY <4>3, <3>4, <2>2
      <4>5. PICK g \in frames : g.place = j /\ g.item = log[j].item
        BY <4>4, <1>8
      <4>6. j <= p
        BY <4>5, <3>1, <3>2, <3>4
      <4>7. QED
        BY <4>6, <4>2, <3>3, <3>4
    <3>5. Final(p)
      BY <3>1, <3>2, <3>3, <3>4 DEF Final
    <3>6. QED
      BY <3>1, <3>2, <3>3, <3>5, <1>2 DEF LogTold
  <2>4. CASE ~ \E f \in c.page : f.item = i
    <3>1. h = client.holds[i]
      BY <1>9, <1>13, <2>4 DEF Due
    <3>2. Fresh(i, client.mark, h)
      <4>1. Due(client, i) = {client.holds[i]} /\ ~Unread(client, i)
        BY <1>1, <1>4, DueAlone DEF Unread
      <4>2. QED
        BY <3>1, <4>1, <1>1, <1>2 DEF Told, Covered
    <3>3. \A k \in above : log[k].item # i
      <4>1. \A k \in page : log[k].item # i
        BY <2>4, <1>8, <1>9
      <4>2. QED
        BY <4>1, <2>2
    <3>4. QED
      BY <3>2, <3>3 DEF Fresh
  <2>5. QED
    BY <2>3, <2>4
<1>14. \A i \in Items \ Lingering : Covered(c, i)
  BY <1>9, <1>13 DEF Covered
<1>15. ASSUME NEW i \in Items \ (Lingering \cup behind') PROVE Settled(c, i)
  <2>1. HasRead(c, i) => short
    BY <1>9 DEF HasRead
  <2>2. short => \A h \in Due(c, i) : h = Shown(i)
    BY <1>5, <1>13, <1>15 DEF Fresh
  <2>3. QED
    BY <2>1, <2>2 DEF Settled
<1>16. Untouched(c, behind')
  BY <1>9 DEF Untouched, Unread
<1>17. QED
  BY <1>1, <1>3, <1>10, <1>12, <1>14, <1>15, <1>16, ClientCatch

\* A frame that is sent is the first of its page.
LEMMA SendNextCatch ==
  ASSUME CatchInv, Inv', SendNext
  PROVE  CatchInv'
<1>0. client \in ClientType /\ Told(client)
  BY DEF CatchInv, Inv, Types
<1>1. PICK f \in client.page : /\ \A g \in client.page : f.place <= g.place
                               /\ client' = [client EXCEPT !.holds[f.item] = f.n, !.page = @ \ {f}]
  BY DEF SendNext
<1>2. client.phase = "stream" /\ UNCHANGED <<calls, tables, log, reqs, watched, strays, behind>>
  BY DEF SendNext, ServerOnly, history
<1> DEFINE c == [client EXCEPT !.holds[f.item] = f.n, !.page = @ \ {f}]
<1>3. f.item \in Items /\ client.holds \in [Items -> Contents] /\ \A g \in client.page : g.place \in Nat
  BY <1>0 DEF ClientType
<1>4. /\ c.holds = [client.holds EXCEPT ![f.item] = f.n] /\ c.page = client.page \ {f}
      /\ c.phase = client.phase /\ c.cursor = client.cursor /\ c.mark = client.mark
      /\ c.short = client.short
  BY <1>0 DEF ClientType
<1>5. client' = c
  BY <1>1
<1> HIDE DEF c
<1>6. \A i \in Items : c.holds[i] = IF i = f.item THEN f.n ELSE client.holds[i]
  BY <1>3, <1>4
<1>7. Paged(c)
  BY <1>0, <1>2, <1>4 DEF Told, Paged
<1>8. ASSUME NEW i \in Items, NEW h \in Due(c, i) PROVE h \in Due(client, i)
  <2>1. CASE \E g \in c.page : g.item = i
    <3>1. PICK g \in c.page : g.item = i /\ g.n = h /\ \A d \in c.page : d.item = i => d.place <= g.place
      BY <1>8, <2>1 DEF Due, Lasts
    <3>2. g \in client.page /\ f.place <= g.place
      BY <3>1, <1>1, <1>4
    <3>3. \A d \in client.page : d.item = i => d.place <= g.place
      BY <3>1, <3>2, <1>4
    <3>4. g \in Lasts(client.page, i)
      BY <3>1, <3>2, <3>3 DEF Lasts
    <3>5. QED
      BY <3>1, <3>2, <3>4 DEF Due
  <2>2. CASE ~ \E g \in c.page : g.item = i
    <3>1. h = c.holds[i]
      BY <1>8, <2>2 DEF Due
    <3>2. CASE i = f.item
      <4>1. \A d \in client.page : d.item = i => d = f
        BY <2>2, <1>4
      <4>2. f \in Lasts(client.page, i)
        BY <3>2, <4>1, <1>3 DEF Lasts
      <4>3. QED
        BY <3>1, <3>2, <4>2, <1>6 DEF Due
    <3>3. CASE i # f.item
      <4>1. ~ \E g \in client.page : g.item = i
        BY <2>2, <3>3, <1>4
      <4>2. QED
        BY <3>1, <3>3, <4>1, <1>6 DEF Due
    <3>4. QED
      BY <3>2, <3>3
  <2>3. QED
    BY <2>1, <2>2
<1>9. \A i \in Items : /\ Unread(c, i) <=> Unread(client, i)
                       /\ HasRead(c, i) <=> HasRead(client, i)
                       /\ ~Unread(client, i)
  BY <1>2, <1>4 DEF Unread, HasRead
<1>10. ASSUME NEW i \in Items \ Lingering PROVE Claimed(c, i) /\ Covered(c, i)
  <2>1. Claimed(client, i) /\ Covered(client, i)
    BY <1>0 DEF Told
  <2>2. Claimed(c, i)
    BY <2>1, <1>4, <1>6 DEF Claimed
  <2>3. Covered(c, i)
    BY <2>1, <1>4, <1>8, <1>9 DEF Covered
  <2>4. QED
    BY <2>2, <2>3
<1>11. ASSUME NEW i \in Items \ (Lingering \cup behind') PROVE Settled(c, i)
  BY <1>0, <1>2, <1>8, <1>9, <1>11 DEF Told, Settled
<1>12. Untouched(c, behind')
  BY <1>9 DEF Untouched
<1>13. QED
  BY <1>2, <1>5, <1>7, <1>10, <1>11, <1>12, ClientCatch

LEMMA CompleteCatch ==
  ASSUME CatchInv, Inv', Complete
  PROVE  CatchInv'
<1> DEFINE c == [client EXCEPT !.phase = "current", !.cursor = client.mark, !.mark = 0, !.short = FALSE]
<1>1. /\ client' = c /\ client.phase = "stream" /\ client.page = {} /\ client.short
      /\ UNCHANGED <<calls, tables, log, reqs, watched, strays, behind>>
  BY DEF Complete, ServerOnly, history
<1>2. client \in ClientType /\ Told(client)
  BY DEF CatchInv, Inv, Types
<1>3. c.phase = "current" /\ c.cursor = client.mark /\ c.page = {} /\ c.holds = client.holds
  BY <1>1, <1>2 DEF ClientType
<1> HIDE DEF c
<1>4. Paged(c) /\ Untouched(c, behind')
  BY <1>3 DEF Paged, Untouched, Unread
<1>5. ASSUME NEW i \in Items \ Lingering PROVE Claimed(c, i) /\ Covered(c, i)
  <2>1. Covered(client, i) /\ ~Unread(client, i) /\ Due(client, i) = {client.holds[i]}
    BY <1>1, <1>2, DueAlone DEF Told, Unread
  <2>2. Fresh(i, client.mark, client.holds[i])
    BY <2>1, <1>1 DEF Covered
  <2>3. QED
    BY <2>2, <1>3 DEF Claimed, Covered
<1>6. ASSUME NEW i \in Items \ (Lingering \cup behind') PROVE Settled(c, i)
  <2>1. Settled(client, i) /\ HasRead(client, i)
    BY <1>1, <1>2, <1>6 DEF Told, HasRead
  <2>2. Due(c, i) = Due(client, i)
    BY <1>1, <1>3, DueAlone
  <2>3. QED
    BY <2>1, <2>2 DEF Settled
<1>7. QED
  BY <1>1, <1>4, <1>5, <1>6, ClientCatch

LEMMA DisconnectCatch ==
  ASSUME CatchInv, Inv', Disconnect
  PROVE  CatchInv'
<1> DEFINE c == [Down EXCEPT !.holds = client.holds, !.cursor = client.cursor]
<1>1. /\ client' = c
      /\ UNCHANGED <<calls, tables, log, reqs, watched, strays, behind>>
  BY DEF Disconnect, ServerOnly, history
<1>2. c.phase = "down" /\ c.cursor = client.cursor /\ c.page = {} /\ c.holds = client.holds
  BY DEF Down
<1> HIDE DEF c
<1>3. /\ Paged(c) /\ Untouched(c, behind')
      /\ \A i \in Items : Covered(c, i) /\ Settled(c, i)
  BY <1>2 DEF Paged, Untouched, Covered, Settled, Unread, HasRead
<1>4. \A i \in Items \ Lingering : Claimed(c, i)
  BY <1>2 DEF CatchInv, Told, Claimed
<1>5. QED
  BY <1>1, <1>3, <1>4, ClientCatch

-----------------------------------------------------------------------------
(***************************************************************************)
(* A live frame tells what a bootstrap would show.                         *)
(***************************************************************************)
LEMMA TrueShown ==
  ASSUME Inv, NEW e \in EntryType, Addressed(e), StillTrue(e), Reaches(e, members)
  PROVE  e.n = Shown(e.item)
<1>1. e.item \in Items /\ e.n = content[e.item]
  BY DEF EntryType, StillTrue
<1>2. CASE e.n = 0
  BY <1>1, <1>2 DEF Shown, Bootstrap, Exists
<1>3. CASE e.n # 0
  <2>1. MaySee(watched, e.item, members, shared)
    <3>1. CASE e.item \in Teams
      <4>1. e.to = "team"
        BY <1>3, <3>1 DEF Addressed
      <4>2. watched \notin {"workspace", "team"}
        BY SyncLogAssumption DEF SyncLogAssumption, Inv, Types
      <4>3. QED
        BY <3>1, <4>1, <4>2 DEF Reaches, MaySee
    <3>2. CASE e.item \in Views
      <4>1. e.item \notin Teams /\ e.to \in {"workspace", Owner} /\ Owner # "team"
        BY <3>2, Kinds DEF Addressed
      <4>2. CASE e.to = "workspace"
        BY <3>2, <4>1, <4>2, <1>3 DEF StillTrue, MaySee
      <4>3. CASE e.to = watched /\ e.to # "workspace"
        BY <4>1, <4>3 DEF MaySee
      <4>4. e.to # "team"
        BY <4>1
      <4>5. QED
        BY <4>2, <4>3, <4>4 DEF Reaches
    <3>3. QED
      BY <1>1, <3>1, <3>2 DEF Items
  <2>2. QED
    BY <1>1, <1>3, <2>1 DEF Shown, Bootstrap, Exists
<1>4. QED
  BY <1>2, <1>3

LEMMA RecipientsAre ==
  ASSUME Inv, NEW e \in EntryType
  PROVE  watched \in Recipients(e) <=> Reaches(e, members)
<1>1. /\ watched \in Users /\ watched \notin {"workspace", "team"}
      /\ e.to \in {"workspace", "team"} \cup Users
  BY SyncLogAssumption DEF SyncLogAssumption, Inv, Types, EntryType
<1>2. CASE e.to = "workspace"
  BY <1>1, <1>2 DEF Recipients, Reaches
<1>3. CASE e.to = "team"
  BY <1>1, <1>3 DEF Recipients, Reaches
<1>4. CASE e.to \notin {"workspace", "team"}
  BY <1>1, <1>4 DEF Recipients, Reaches
<1>5. QED
  BY <1>2, <1>3, <1>4

LEMMA DeliverCatch ==
  ASSUME CatchInv, Calm, Inv', NEW r \in Requests, Deliver(r)
  PROVE  CatchInv'
<1> DEFINE k == Min(reqs[r].ids)
           e == log[k]
           gets == client.phase # "down" /\ watched \in Recipients(e)
           left == reqs[r].ids \ {k}
           next == IF left = {} THEN Idle ELSE [reqs[r] EXCEPT !.ids = left]
           c == IF gets THEN [client EXCEPT !.holds[e.item] = e.n] ELSE client
<1>1. /\ reqs[r].at = "deliver" /\ reqs' = [reqs EXCEPT ![r] = next] /\ client' = c
      /\ behind' = IF gets /\ client.phase # "current" THEN behind \cup {e.item} ELSE behind
      /\ gets => client.phase # "asked"
      /\ UNCHANGED <<calls, tables, log, watched, strays>>
  BY DEF Deliver, Calm
<1>2. /\ Inv /\ Records /\ Told(client) /\ client \in ClientType /\ reqs[r] \in RequestType
      /\ reqs \in [Requests -> RequestType] /\ UNCHANGED <<content, members, shared>>
  BY <1>1 DEF CatchInv, Inv, Types, tables
<1>3. /\ reqs[r].ids # {} /\ reqs[r].ids \subseteq DOMAIN log /\ reqs[r].ids \subseteq Nat
  BY <1>1, <1>2 DEF Inv, Transactions, RequestType
<1>4. k \in reqs[r].ids
  BY <1>3, MinOf
<1> HIDE DEF k
<1>5. /\ e \in EntryType /\ Addressed(e) /\ StillTrue(e)
      /\ e.item \in Items /\ e.n \in Contents
  <2>1. k \in DOMAIN log
    BY <1>3, <1>4
  <2>2. QED
    BY <2>1, <1>1, <1>2, <1>4, LogType DEF Inv, Records, Sending
<1> HIDE DEF e
<1>6. watched \in Recipients(e) <=> Reaches(e, members)
  BY <1>2, <1>5, RecipientsAre
<1>7. gets => e.n = Shown(e.item)
  BY <1>2, <1>5, <1>6, TrueShown
<1>8. /\ c.phase = client.phase /\ c.page = client.page /\ c.cursor = client.cursor
      /\ c.mark = client.mark /\ c.short = client.short
      /\ \A i \in Items : c.holds[i] = IF gets /\ i = e.item THEN e.n ELSE client.holds[i]
  <2>1. CASE gets
    <3>1. client.holds \in [Items -> Contents]
      BY <1>2 DEF ClientType
    <3>2. /\ c.holds = [client.holds EXCEPT ![e.item] = e.n]
          /\ c.phase = client.phase /\ c.page = client.page /\ c.cursor = client.cursor
          /\ c.mark = client.mark /\ c.short = client.short
      BY <2>1, <1>2 DEF ClientType
    <3> HIDE DEF c
    <3>3. \A i \in Items : c.holds[i] = IF i = e.item THEN e.n ELSE client.holds[i]
      BY <3>1, <3>2, <1>5
    <3>4. QED
      BY <2>1, <3>2, <3>3
  <2>2. CASE ~gets
    BY <2>2
  <2>3. QED
    BY <2>1, <2>2
<1>9. /\ next = Idle \/ (next.at = "deliver" /\ next.ids = left)
      /\ left # {} => next.at = "deliver" /\ next.ids = left
  BY <1>1, <1>2 DEF RequestType
<1>10. Still
  BY <1>1, <1>2 DEF Still, SameVisible, Visible, CatchInv
<1> HIDE DEF c, next
<1>11. reqs'[r] = next /\ \A p \in Requests \ {r} : reqs'[p] = reqs[p]
  BY <1>1, <1>2
<1>12. Records'
  <2>1. ~Open(r)' /\ reqs'[r].at # "looked" /\ UpToDate(reqs[r])'
    BY <1>9, <1>11, IdleType DEF Open, UpToDate
  <2>2. ASSUME reqs'[r].at = "deliver" PROVE (\A j \in reqs[r].ids : StillTrue(log[j]))'
    <3>1. reqs'[r].ids = left
      BY <2>2, <1>9, <1>11, IdleType
    <3>2. \A j \in left : StillTrue(log[j])
      BY <1>1, <1>2 DEF Records, Sending
    <3>3. QED
      BY <3>1, <3>2, <1>1, <1>2 DEF StillTrue
  <2>3. QED
    BY <2>1, <2>2, <1>1, <1>2, <1>10, <1>11, RecordsKept
<1>13. Paged(c)
  <2>1. client.phase = "asked" => \A i \in Items : c.holds[i] = 0
    BY <1>1, <1>2, <1>8 DEF Told, Paged
  <2>2. QED
    BY <2>1, <1>2, <1>8 DEF Told, Paged
<1>14. ASSUME NEW i \in Items, NEW h \in Due(c, i)
       PROVE  h \in Due(client, i) \/ (gets /\ i = e.item /\ h = e.n)
  <2>1. CASE \E f \in client.page : f.item = i
    BY <2>1, <1>8, <1>14 DEF Due
  <2>2. CASE ~ \E f \in client.page : f.item = i
    BY <2>2, <1>8, <1>14 DEF Due
  <2>3. QED
    BY <2>1, <2>2
<1>15. \A i \in Items : /\ Unread(c, i) <=> Unread(client, i)
                        /\ HasRead(c, i) <=> HasRead(client, i)
  BY <1>8 DEF Unread, HasRead
<1>16. ASSUME NEW i \in Items \ Lingering PROVE Claimed(c, i) /\ Covered(c, i)
  <2>1. Claimed(client, i) /\ Covered(client, i)
    BY <1>2 DEF Told
  <2>2. gets /\ i = e.item => \A x : Fresh(i, x, e.n)
    BY <1>7 DEF Fresh
  <2>3. Claimed(c, i)
    BY <2>1, <2>2, <1>8 DEF Claimed
  <2>4. Covered(c, i)
    BY <2>1, <2>2, <1>8, <1>14, <1>15 DEF Covered
  <2>5. QED
    BY <2>3, <2>4
<1>17. ASSUME NEW i \in Items, Awaits(i), ~(gets /\ i = e.item), client.phase # "down"
       PROVE  Awaits(i)'
  <2>1. PICK q \in Requests : /\ reqs[q].at = "deliver"
                              /\ \E j \in reqs[q].ids : log[j].item = i /\ Reaches(log[j], members)
    BY <1>17 DEF Awaits
  <2>2. PICK j \in reqs[q].ids : log[j].item = i /\ Reaches(log[j], members)
    BY <2>1
  <2>3. CASE q # r
    BY <2>1, <2>2, <2>3, <1>1, <1>2, <1>11 DEF Awaits, Reaches
  <2>4. CASE q = r
    <3>1. j # k
      BY <2>2, <1>6, <1>17 DEF e
    <3>2. j \in left
      BY <2>2, <2>4, <3>1
    <3>3. reqs'[r].at = "deliver" /\ reqs'[r].ids = left
      BY <3>2, <1>9, <1>11
    <3>4. QED
      BY <2>2, <3>2, <3>3, <1>1, <1>2 DEF Awaits, Reaches
  <2>5. QED
    BY <2>3, <2>4
<1>18. ASSUME NEW i \in Items \ (Lingering \cup behind'),
              HasRead(c, i), NEW h \in Due(c, i)
       PROVE  h = Shown(i) \/ Awaits(i)'
  <2>1. Settled(client, i) /\ (gets /\ i = e.item => client.phase = "current")
    BY <1>1, <1>2, <1>18 DEF Told
  <2>2. HasRead(client, i) /\ client.phase # "down"
    BY <1>15, <1>18 DEF HasRead
  <2>3. CASE gets /\ i = e.item
    <3>1. c.page = {} /\ c.holds[i] = e.n
      BY <2>1, <2>3, <1>2, <1>8 DEF Told, Paged
    <3>2. h = e.n
      BY <3>1, <1>18, DueAlone
    <3>3. QED
      BY <2>3, <3>2, <1>7
  <2>4. CASE ~(gets /\ i = e.item)
    <3>1. h \in Due(client, i)
      BY <2>4, <1>14, <1>18
    <3>2. h = Shown(i) \/ Awaits(i)
      BY <2>1, <2>2, <3>1 DEF Settled
    <3>3. QED
      BY <3>2, <2>2, <2>4, <1>17
  <2>5. QED
    BY <2>3, <2>4
<1>19. Untouched(c, behind')
  <2>1. SUFFICES ASSUME NEW i \in Items \ behind', Unread(c, i) PROVE c.holds[i] = 0
    BY DEF Untouched
  <2>2. Unread(client, i) /\ client.phase # "current" /\ i \notin behind
    BY <2>1, <1>1, <1>15 DEF Unread
  <2>3. ~(gets /\ i = e.item)
    BY <2>1, <2>2, <1>1
  <2>4. QED
    BY <2>2, <2>3, <1>2, <1>8 DEF Told, Untouched
<1>20. Told(client)'
  BY <1>1, <1>10, <1>13, <1>16, <1>18, <1>19, ToldStill
<1>21. QED
  BY <1>12, <1>20 DEF CatchInv

-----------------------------------------------------------------------------
(***************************************************************************)
(* A commit.                                                               *)
(***************************************************************************)
LEMMA ConcernsIs ==
  \A k : Concerns(log[k], watched) <=> log[k].state = "in" /\ Regards(log[k], members)
BY DEF Concerns, Regards

\* No row goes with another that had not gone.
LEMMA CommitTables ==
  ASSUME CatchInv, Calm, NEW r \in Requests, Commit(r), NEW fx, fx = reqs[r].fx
  PROVE  /\ content' = RowsAfter(fx) /\ members' = MembersAfter(fx) /\ shared' = SharedAfter(fx)
         /\ Lingering' = LingeringAfter(fx)
         /\ \A i \in Items : Shown(i)' = ShownAfter(fx, i)
<1> DEFINE set == [i \in Items |-> IF i \in DOMAIN fx.set THEN fx.set[i] ELSE content[i]]
           gone == {v \in Views : \E x \in Scoped : x[1] = v /\ set[x[2]] = 0}
<1>1. /\ Open(r)
      /\ content' = [i \in Items |-> IF i \in gone THEN 0 ELSE set[i]]
      /\ members' = {m \in (members \cup fx.join) \ fx.leave : content'[m[1]] # 0}
      /\ shared' = (shared \cup fx.share) \ fx.unshare
      /\ strays' = (strays \cup (fx.unshare \cap shared)) \ fx.share
      /\ watched' = watched
  BY DEF Commit
<1>2. set = RowsAfter(fx)
  BY DEF RowsAfter
<1>3. /\ Inv /\ reqs[r].call \in calls /\ Effective(Said(r), fx) /\ Deletes(reqs[r].call, fx)
  BY <1>1 DEF CatchInv, Records, Spoken
<1>4. ASSUME NEW v \in gone PROVE set[v] = 0
  <2>1. PICK x \in Scoped : x[1] = v /\ set[x[2]] = 0
    OBVIOUS
  <2>2. v \in Views /\ v \in Items /\ x[2] \in Teams /\ x[2] \in Items
    BY <2>1, Kinds
  <2>3. reqs[r].call # "delete_team"
    BY <2>1, <1>3 DEF Calm, NoOrphans, Inv, Types
  <2>4. x[2] \notin DOMAIN fx.set
    BY <2>1, <2>2, <2>3, <1>3 DEF Deletes
  <2>5. content[x[2]] = 0
    BY <2>1, <2>2, <2>4
  <2>6. content[v] = 0
    BY <2>1, <2>5, <1>3 DEF Inv, Cascaded
  <2>7. CASE v \in DOMAIN fx.set /\ fx.set[v] # 0
    <3>1. PICK k \in reqs[r].ids : log[k].item = v /\ log[k].n # 0
      BY <2>7, <1>3 DEF Effective, Said
    <3>2. Describes(log[k], reqs[r].locks, reqs[r].fx)
      BY <3>1, <1>1, <1>3 DEF Inv, Transactions
    <3>3. QED
      BY <2>1, <2>2, <2>5, <3>1, <3>2 DEF Describes
  <2>8. CASE ~(v \in DOMAIN fx.set /\ fx.set[v] # 0)
    BY <2>2, <2>6, <2>8
  <2>9. QED
    BY <2>7, <2>8
<1>5. content' = RowsAfter(fx)
  <2>1. \A i \in Items : (IF i \in gone THEN 0 ELSE set[i]) = set[i]
    BY <1>4
  <2>2. content' = [i \in Items |-> set[i]]
    BY <2>1, <1>1
  <2>3. QED
    BY <2>2 DEF RowsAfter
<1>6. members' = MembersAfter(fx)
  BY <1>1, <1>5 DEF MembersAfter
<1>7. shared' = SharedAfter(fx) /\ Lingering' = LingeringAfter(fx)
  BY <1>1 DEF SharedAfter, Lingering, LingeringAfter
<1>8. ASSUME NEW i \in Items PROVE Shown(i)' = ShownAfter(fx, i)
  BY <1>1, <1>5, <1>6, <1>7 DEF Shown, Bootstrap, Exists, ShownAfter, MaySee
<1>9. QED
  BY <1>5, <1>6, <1>7, <1>8

\* The entries of a transaction become visible, behind all that were.
LEMMA CommitLog ==
  ASSUME CatchInv, Calm, NEW r \in Requests, Commit(r), NEW ids, ids = reqs[r].ids
  PROVE  /\ DOMAIN log' = DOMAIN log /\ DOMAIN log \subseteq Nat /\ ids \subseteq DOMAIN log
         /\ \A k \in DOMAIN log \ ids : log'[k] = log[k] /\ log[k].state # "open"
         /\ \A k \in ids : /\ log[k].state = "open" /\ log'[k].state = "in"
                           /\ log'[k].item = log[k].item /\ log'[k].n = log[k].n
                           /\ log'[k].to = log[k].to /\ log'[k].live = log[k].live
         /\ \A k \in ids, j \in DOMAIN log : log[j].state = "in" => j < k
         /\ \A q \in Requests \ {r} : ~Open(q)
<1>1. /\ Open(r) /\ Inv
      /\ log' = [k \in DOMAIN log |-> IF k \in ids THEN [log[k] EXCEPT !.state = "in"] ELSE log[k]]
  BY DEF Commit, CatchInv
<1>2. ids \subseteq DOMAIN log /\ DOMAIN log \subseteq Nat /\ \A k \in ids : log[k].state = "open"
  BY <1>1 DEF Inv, Transactions, Types
<1>3. /\ \A q \in Requests : Open(q) => q = r
      /\ \A k \in ids, j \in DOMAIN log : j >= k => j \in ids
  BY <1>1 DEF Inv, OneWriter, Calm
<1>4. DOMAIN log' = DOMAIN log /\ \A k \in DOMAIN log \ ids : log'[k] = log[k]
  BY <1>1
<1>5. \A k \in DOMAIN log \ ids : log[k].state # "open"
  BY <1>1, <1>3 DEF Inv, Transactions
<1>6. ASSUME NEW k \in ids
      PROVE  /\ log'[k].state = "in"
             /\ log'[k].item = log[k].item /\ log'[k].n = log[k].n
             /\ log'[k].to = log[k].to /\ log'[k].live = log[k].live
  <2>1. log'[k] = [log[k] EXCEPT !.state = "in"] /\ log[k] \in EntryType
    BY <1>1, <1>2, LogType
  <2>2. QED
    BY <2>1 DEF EntryType
<1>7. ASSUME NEW k \in ids, NEW j \in DOMAIN log, log[j].state = "in" PROVE j < k
  <2>1. j \notin ids /\ k \in Nat /\ j \in Nat
    BY <1>2, <1>7
  <2>2. ~(j >= k)
    BY <2>1, <1>3
  <2>3. QED
    BY <2>1, <2>2
<1>8. QED
  BY <1>2, <1>3, <1>4, <1>5, <1>6, <1>7

\* What the user is told of i, it is told by the last entry; of what it is not told,
\* nothing has changed.
CommitTells(r, i) ==
  \/ \E k \in reqs[r].ids : log[k].item = i /\ Concerns(log[k], watched)'
  \/ /\ Shown(i)' = Shown(i) /\ i \notin Lingering
     /\ \A k \in DOMAIN log : log[k].item = i => (Concerns(log[k], watched)' <=> Concerns(log[k], watched))

LEMMA CommitSplit ==
  ASSUME CatchInv, Calm, NEW r \in Requests, Commit(r), NEW i \in Items \ Lingering'
  PROVE  /\ \A k \in reqs[r].ids : log[k].item = i /\ Concerns(log[k], watched)' => log[k].n = Shown(i)'
         /\ CommitTells(r, i)
<1> DEFINE fx == reqs[r].fx
           ids == reqs[r].ids
<1>1. /\ members' = MembersAfter(fx) /\ Lingering' = LingeringAfter(fx)
      /\ \A j \in Items : Shown(j)' = ShownAfter(fx, j)
  BY CommitTables
<1>2. /\ DOMAIN log' = DOMAIN log /\ DOMAIN log \subseteq Nat /\ ids \subseteq DOMAIN log
      /\ \A k \in DOMAIN log \ ids : log'[k] = log[k] /\ log[k].state # "open"
      /\ \A k \in ids : /\ log[k].state = "open" /\ log'[k].state = "in"
                        /\ log'[k].item = log[k].item /\ log'[k].n = log[k].n
                        /\ log'[k].to = log[k].to /\ log'[k].live = log[k].live
  BY CommitLog
<1>3. Open(r) /\ watched' = watched
  BY DEF Commit
<1>4. TellsItem(Said(r), fx, i)
  BY <1>1, <1>3 DEF CatchInv, Records, Spoken, Tells
<1> HIDE DEF fx, ids
<1>5. \A k \in ids : Concerns(log[k], watched)' <=> Regards(log[k], MembersAfter(fx))
  BY <1>1, <1>2, <1>3 DEF Concerns, Regards
<1>6. \A k \in ids : log[k] \in Said(r)
  BY DEF Said, ids
<1>7. \A k \in ids : log[k].item = i /\ Concerns(log[k], watched)' => log[k].n = Shown(i)'
  BY <1>1, <1>4, <1>5, <1>6 DEF TellsItem
<1>8. ASSUME \A k \in ids : log[k].item = i => ~Concerns(log[k], watched)'
      PROVE  CommitTells(r, i)
  <2>1. \A e \in Said(r) : e.item = i => ~Regards(e, MembersAfter(fx))
    BY <1>5, <1>8 DEF Said, ids
  <2>2. /\ ShownAfter(fx, i) = Shown(i) /\ i \notin Lingering
        /\ <<i, watched>> \in MembersAfter(fx) <=> <<i, watched>> \in members
    BY <2>1, <1>4 DEF TellsItem
  <2>3. ASSUME NEW k \in DOMAIN log, log[k].item = i
        PROVE  Concerns(log[k], watched)' <=> Concerns(log[k], watched)
    <3>1. CASE k \in ids
      BY <3>1, <2>3, <1>2, <1>8 DEF Concerns
    <3>2. CASE k \notin ids
      <4>1. log'[k] = log[k]
        BY <3>2, <1>2
      <4>2. QED
        BY <4>1, <2>2, <2>3, <1>1, <1>3 DEF Concerns
    <3>3. QED
      BY <3>1, <3>2
  <2>4. Shown(i)' = Shown(i)
    BY <2>2, <1>1
  <2>5. QED
    BY <2>2, <2>3, <2>4 DEF CommitTells
<1>9. QED
  BY <1>7, <1>8 DEF CommitTells, ids

\* A claim of a client stays right.
LEMMA CommitFresh ==
  ASSUME CatchInv, Calm, NEW r \in Requests, Commit(r), NEW i \in Items \ Lingering',
         NEW c, Claim(c), NEW h, i \notin Lingering => Fresh(i, c, h)
  PROVE  Fresh(i, c, h)'
<1> DEFINE ids == reqs[r].ids
<1>1. /\ DOMAIN log' = DOMAIN log /\ DOMAIN log \subseteq Nat /\ ids \subseteq DOMAIN log
      /\ \A k \in DOMAIN log \ ids : log'[k] = log[k]
      /\ \A k \in ids : log'[k].item = log[k].item
      /\ \A k \in ids, j \in DOMAIN log : log[j].state = "in" => j < k
  BY CommitLog
<1>2. CommitTells(r, i)
  BY CommitSplit
<1> HIDE DEF ids
<1>3. CASE \E k \in ids : log[k].item = i /\ Concerns(log[k], watched)'
  <2>1. PICK k \in ids : log[k].item = i /\ Concerns(log[k], watched)'
    BY <1>3
  <2>2. k > c
    <3>1. CASE c = 0
      <4>1. k \in DOMAIN log /\ DOMAIN log = 1..Len(log) /\ Len(log) \in Nat
        BY <1>1, LogType DEF CatchInv
      <4>2. QED
        BY <3>1, <4>1
    <3>2. CASE c \in DOMAIN log /\ log[c].state = "in"
      <4>1. c < k /\ c \in Nat /\ k \in Nat
        BY <3>2, <1>1
      <4>2. QED
        BY <4>1
    <3>3. QED
      BY <3>1, <3>2 DEF Claim
  <2>3. k \in Above(c)' /\ log'[k].item = i
    BY <2>1, <2>2, <1>1 DEF Above
  <2>4. QED
    BY <2>3 DEF Fresh
<1>4. CASE /\ Shown(i)' = Shown(i) /\ i \notin Lingering
           /\ \A k \in DOMAIN log : log[k].item = i =>
                (Concerns(log[k], watched)' <=> Concerns(log[k], watched))
  <2>1. Fresh(i, c, h)
    BY <1>4
  <2>2. CASE h = Shown(i)
    BY <1>4, <2>2 DEF Fresh
  <2>3. CASE \E k \in Above(c) : log[k].item = i
    <3>1. PICK k \in DOMAIN log : k > c /\ Concerns(log[k], watched) /\ log[k].item = i
      BY <2>3 DEF Above
    <3>2. k \in Above(c)' /\ log'[k].item = i
      BY <3>1, <1>1, <1>4 DEF Above
    <3>3. QED
      BY <3>2 DEF Fresh
  <2>4. QED
    BY <2>1, <2>2, <2>3 DEF Fresh
<1>5. QED
  BY <1>2, <1>3, <1>4 DEF CommitTells, ids

LEMMA CommitRecords ==
  ASSUME CatchInv, Calm, NEW r \in Requests, Commit(r)
  PROVE  Records'
<1> DEFINE fx == reqs[r].fx
           ids == reqs[r].ids
<1>0. /\ Inv /\ Records /\ Open(r) /\ watched' = watched /\ calls' = calls
      /\ \A i \in DOMAIN fx.set : ~Unsent(i)
      /\ reqs' = [reqs EXCEPT ![r] = IF Deliverable(ids) = {} THEN Idle
                                     ELSE [Idle EXCEPT !.at = "deliver", !.ids = Deliverable(ids)]]
  BY DEF Commit, CatchInv, Calm
<1>1. /\ content' = RowsAfter(fx) /\ members' = MembersAfter(fx) /\ shared' = SharedAfter(fx)
  BY CommitTables
<1>2. /\ DOMAIN log' = DOMAIN log /\ DOMAIN log \subseteq Nat /\ ids \subseteq DOMAIN log
      /\ \A k \in DOMAIN log \ ids : log'[k] = log[k] /\ log[k].state # "open"
      /\ \A k \in ids : /\ log[k].state = "open" /\ log'[k].state = "in"
                        /\ log'[k].item = log[k].item /\ log'[k].n = log[k].n
                        /\ log'[k].to = log[k].to /\ log'[k].live = log[k].live
      /\ \A k \in ids, j \in DOMAIN log : log[j].state = "in" => j < k
      /\ \A q \in Requests \ {r} : ~Open(q)
  BY CommitLog
<1>3. Effective(Said(r), fx) /\ Deletes(reqs[r].call, fx)
  BY <1>0 DEF Records, Spoken
<1>4. /\ \A q \in Requests \ {r} : reqs'[q] = reqs[q]
      /\ reqs'[r].at \in {"idle", "deliver"}
      /\ reqs'[r].at = "deliver" => reqs'[r].ids = Deliverable(ids)
  <2> DEFINE next == IF Deliverable(ids) = {} THEN Idle
                     ELSE [Idle EXCEPT !.at = "deliver", !.ids = Deliverable(ids)]
  <2>1. next.at \in {"idle", "deliver"} /\ (next.at = "deliver" => next.ids = Deliverable(ids))
    BY DEF Idle
  <2>2. reqs' = [reqs EXCEPT ![r] = next] /\ reqs \in [Requests -> RequestType]
    BY <1>0 DEF Inv, Types
  <2> HIDE DEF next
  <2>3. QED
    BY <2>1, <2>2
<1>5. \A q \in Requests : ~Open(q)'
  BY <1>2, <1>4 DEF Open
<1>6. Spoken' /\ Undisturbing'
  BY <1>5 DEF Spoken, Undisturbing
<1>7. \A i \in Items : content'[i] = IF i \in DOMAIN fx.set THEN fx.set[i] ELSE content[i]
  BY <1>1 DEF RowsAfter
<1> HIDE DEF fx, ids
<1>8. Recorded'
  <2>1. SUFFICES ASSUME NEW i \in Items, content'[i] # 0
                 PROVE  \E k \in DOMAIN log' : log'[k].item = i /\ log'[k].state = "in"
    BY DEF Recorded
  <2>2. CASE i \in DOMAIN fx.set
    <3>1. fx.set[i] # 0
      BY <2>1, <2>2, <1>7
    <3>2. \E e \in Said(r) : e.item = i
      BY <2>2, <3>1, <1>3 DEF Effective
    <3>3. PICK k \in ids : log[k].item = i
      BY <3>2 DEF Said, ids
    <3>4. QED
      BY <3>3, <1>2
  <2>3. CASE i \notin DOMAIN fx.set
    <3>1. content[i] # 0
      BY <2>1, <2>3, <1>7
    <3>2. PICK k \in DOMAIN log : log[k].item = i /\ log[k].state = "in"
      BY <3>1, <1>0 DEF Records, Recorded
    <3>3. QED
      BY <3>2, <1>2
  <2>4. QED
    BY <2>2, <2>3
<1>9. LogTold'
  <2>1. SUFFICES ASSUME NEW k \in DOMAIN log, Final(k)', log'[k].item \notin Lingering'
                 PROVE  (log[k].n = Shown(log[k].item))'
    BY <1>2 DEF LogTold
  <2>2. PICK i : i = log[k].item
    OBVIOUS
  <2>3. log'[k].item = i /\ log'[k].n = log[k].n /\ i \in Items /\ i \notin Lingering'
    BY <2>1, <2>2, <1>0, <1>2, LogType
  <2>4. /\ Concerns(log[k], watched)'
        /\ \A j \in DOMAIN log : j > k /\ log'[j].item = i => ~Concerns(log[j], watched)'
    BY <2>1, <2>3, <1>2 DEF Final
  <2>5. /\ \A j \in ids : log[j].item = i /\ Concerns(log[j], watched)' => log[j].n = Shown(i)'
        /\ CommitTells(r, i)
    BY <2>3, CommitSplit DEF ids
  <2>6. log[k].n = Shown(i)'
    <3>1. CASE k \in ids
      BY <3>1, <2>2, <2>4, <2>5
    <3>2. CASE k \notin ids
      <4>1. log[k].state = "in"
        BY <3>2, <2>4, <1>2 DEF Concerns
      <4>2. \A j \in ids : j > k
        BY <4>1, <1>2
      <4>3. ~ \E j \in ids : log[j].item = i /\ Concerns(log[j], watched)'
        BY <4>2, <2>4, <1>2
      <4>4. /\ Shown(i)' = Shown(i) /\ i \notin Lingering
            /\ \A j \in DOMAIN log : log[j].item = i =>
                 (Concerns(log[j], watched)' <=> Concerns(log[j], watched))
        BY <4>3, <2>5 DEF CommitTells, ids
      <4>5. Concerns(log[k], watched)
        BY <4>4, <2>2, <2>4
      <4>6. \A j \in DOMAIN log : j > k /\ log[j].item = i => ~Concerns(log[j], watched)
        <5>1. \A j \in DOMAIN log : log'[j].item = log[j].item
          BY <1>2
        <5>2. QED
          BY <5>1, <4>4, <2>4
      <4>7. Final(k)
        BY <4>5, <4>6, <2>2 DEF Final
      <4>8. QED
        BY <4>4, <4>7, <2>2, <1>0 DEF Records, LogTold
    <3>3. QED
      BY <3>1, <3>2
  <2>7. QED
    BY <2>3, <2>6 DEF Shown
<1>10. Sending'
  <2>1. SUFFICES ASSUME NEW q \in Requests, reqs'[q].at = "deliver", NEW k \in reqs'[q].ids
                 PROVE  StillTrue(log[k])'
    BY DEF Sending
  <2>2. CASE q = r
    <3>1. k \in ids /\ log[k].live
      BY <2>1, <2>2, <1>4 DEF Deliverable
    <3>2. k \in DOMAIN log /\ log[k] \in Live(Said(r))
      BY <3>1, <1>2 DEF Live, Said, ids
    <3>3. log[k].item \in DOMAIN fx.set /\ log[k].n = fx.set[log[k].item]
      BY <3>2, <1>3 DEF Effective
    <3>4. log[k].item \in Items
      BY <3>2, <1>0, LogType
    <3>5. log[k].n = content'[log[k].item]
      BY <3>3, <3>4, <1>7
    <3>6. log[k].item \in Views /\ log[k].n # 0 /\ log[k].to = "workspace" => log[k].item \in shared'
      <4>1. Describes(log[k], reqs[r].locks, fx)
        BY <3>1, <1>0 DEF Inv, Transactions, ids, fx
      <4>2. QED
        BY <4>1, <1>1 DEF Describes, SharedAfter
    <3>7. QED
      BY <3>1, <3>5, <3>6, <1>2 DEF StillTrue
  <2>3. CASE q # r
    <3>1. reqs[q].at = "deliver" /\ k \in reqs[q].ids
      BY <2>1, <2>3, <1>4
    <3>2. k \in DOMAIN log /\ log[k].state = "in" /\ StillTrue(log[k])
      BY <3>1, <1>0 DEF Inv, Transactions, Records, Sending
    <3>3. log[k].item \notin DOMAIN fx.set
      BY <3>1, <1>0 DEF Unsent
    <3>4. log[k].item \in Items /\ log'[k] = log[k]
      BY <3>2, <1>0, <1>2, LogType
    <3>5. content'[log[k].item] = content[log[k].item]
      BY <3>3, <3>4, <1>7
    <3>6. log[k].item \in shared => log[k].item \in shared'
      BY <3>3, <1>1, <1>3 DEF SharedAfter, Effective
    <3>7. QED
      BY <3>2, <3>4, <3>5, <3>6 DEF StillTrue
  <2>4. QED
    BY <2>2, <2>3
<1>11. (\A q \in Requests : UpToDate(reqs[q]))'
  <2>1. SUFFICES ASSUME NEW q \in Requests, reqs'[q].at = "looked" PROVE UpToDate(reqs[q])'
    BY DEF UpToDate
  <2>2. q # r /\ reqs'[q] = reqs[q] /\ reqs[q].at = "looked" /\ UpToDate(reqs[q])
    BY <2>1, <1>0, <1>4 DEF Records
  <2>3. reqs[r].call \in {"delete_team", "delete_view"}
    BY <2>2, <1>0 DEF Records, Undisturbing
  <2>4. \A i \in Items : content'[i] \in {content[i], 0}
    BY <2>3, <1>3, <1>7 DEF Deletes
  <2>5. shared' = shared
    BY <2>3, <1>1, <1>3 DEF Deletes, SharedAfter
  <2>6. reqs[q].call \in {"added", "role", "removed"} => reqs[q].item \in Items
    BY <2>2, <1>0, Kinds DEF Inv, Resolved
  <2>7. QED
    BY <2>2, <2>4, <2>5, <2>6 DEF UpToDate
<1>12. QED
  BY <1>6, <1>8, <1>9, <1>10, <1>11 DEF Records

LEMMA CommitCatch ==
  ASSUME CatchInv, Calm, Inv', NEW r \in Requests, Commit(r)
  PROVE  CatchInv'
<1> DEFINE fx == reqs[r].fx
           ids == reqs[r].ids
<1>0. /\ Inv /\ Records /\ Told(client) /\ Open(r) /\ client' = client /\ watched' = watched
      /\ \A i \in DOMAIN fx.set : ~Unsent(i)
      /\ reqs' = [reqs EXCEPT ![r] = IF Deliverable(ids) = {} THEN Idle
                                     ELSE [Idle EXCEPT !.at = "deliver", !.ids = Deliverable(ids)]]
      /\ behind' = behind \cup {t \in Teams : /\ Deliverable(ids) = {}
                                             /\ <<t, watched>> \in fx.join \cup fx.leave}
  BY DEF Commit, CatchInv, Calm
<1>1. /\ members' = MembersAfter(fx) /\ Lingering' = LingeringAfter(fx)
      /\ \A i \in Items : Shown(i)' = ShownAfter(fx, i)
  BY CommitTables
<1>2. /\ DOMAIN log' = DOMAIN log /\ ids \subseteq DOMAIN log
      /\ \A k \in DOMAIN log \ ids : log'[k] = log[k]
      /\ \A k \in ids : /\ log[k].state = "open" /\ log'[k].item = log[k].item
                        /\ log'[k].to = log[k].to /\ log'[k].live = log[k].live
  BY CommitLog
<1>3. Records'
  BY CommitRecords
<1>4. Claim(client.cursor) /\ Claim(client.mark)
  BY <1>0 DEF Inv
<1>5. Effective(Said(r), fx)
  BY <1>0 DEF Records, Spoken
<1>6. Paged(client)' /\ Untouched(client, behind)'
  BY <1>0 DEF Told, Paged, Untouched, Unread
<1>7. ASSUME NEW i \in Items \ Lingering' PROVE Claimed(client, i)' /\ Covered(client, i)'
  <2>1. i \notin Lingering => Claimed(client, i) /\ Covered(client, i)
    BY <1>0, <1>7 DEF Told
  <2>2. Due(client, i)' = Due(client, i) /\ (Unread(client, i)' <=> Unread(client, i))
    BY <1>0 DEF Due, Lasts, Unread
  <2>3. PICK c, m : c = client.cursor /\ m = client.mark
    OBVIOUS
  <2>4. \A h : (i \notin Lingering => Fresh(i, c, h)) => Fresh(i, c, h)'
    <3>1. Claim(c)
      BY <1>4, <2>3
    <3>2. ASSUME NEW h, i \notin Lingering => Fresh(i, c, h) PROVE Fresh(i, c, h)'
      BY <3>1, <3>2, <1>7, CommitFresh
    <3>3. QED
      BY <3>2
  <2>5. \A h : (i \notin Lingering => Fresh(i, m, h)) => Fresh(i, m, h)'
    <3>1. Claim(m)
      BY <1>4, <2>3
    <3>2. ASSUME NEW h, i \notin Lingering => Fresh(i, m, h) PROVE Fresh(i, m, h)'
      BY <3>1, <3>2, <1>7, CommitFresh
    <3>3. QED
      BY <3>2
  <2>6. Claimed(client, i)'
    BY <2>1, <2>3, <2>4, <1>0 DEF Claimed, Fresh, Above
  <2>7. Covered(client, i)'
    BY <2>1, <2>2, <2>3, <2>5, <1>0 DEF Covered, Fresh, Above
  <2>8. QED
    BY <2>6, <2>7
<1>8. ASSUME NEW i \in Items \ (Lingering' \cup behind') PROVE Settled(client, i)'
  <2>0. \A q \in Requests \ {r} : reqs'[q] = reqs[q]
    BY <1>0 DEF Inv, Types
  <2>1. TellsItem(Said(r), fx, i)
    BY <1>0, <1>1, <1>8 DEF Records, Spoken, Tells
  <2>2. ~(Live(Said(r)) = {} /\ i \in Teams /\ <<i, watched>> \in fx.join \cup fx.leave)
    <3>1. Live(Said(r)) = {} => Deliverable(ids) = {}
      BY DEF Live, Said, Deliverable
    <3>2. QED
      BY <3>1, <1>0, <1>8
  <2>3. ASSUME Shown(i)' # Shown(i) \/ i \in Lingering PROVE Awaits(i)'
    <3>1. \E e \in Live(Said(r)) : e.item = i /\ Reaches(e, MembersAfter(fx))
      BY <2>1, <2>2, <2>3, <1>1, <1>8 DEF TellsItem
    <3>2. PICK k \in ids : log[k].live /\ log[k].item = i /\ Reaches(log[k], MembersAfter(fx))
      BY <3>1 DEF Live, Said
    <3>3. k \in Deliverable(ids)
      BY <3>2 DEF Deliverable
    <3>4. reqs'[r].at = "deliver" /\ reqs'[r].ids = Deliverable(ids)
      <4> DEFINE next == [Idle EXCEPT !.at = "deliver", !.ids = Deliverable(ids)]
      <4>1. next.at = "deliver" /\ next.ids = Deliverable(ids)
        BY DEF Idle
      <4>2. reqs' = [reqs EXCEPT ![r] = next] /\ reqs \in [Requests -> RequestType]
        BY <3>3, <1>0 DEF Inv, Types
      <4> HIDE DEF next
      <4>3. QED
        BY <4>1, <4>2
    <3>5. log'[k].item = i /\ Reaches(log[k], members)'
      BY <3>2, <1>0, <1>1, <1>2 DEF Reaches
    <3>6. QED
      BY <3>3, <3>4, <3>5 DEF Awaits
  <2>4. ASSUME Shown(i)' = Shown(i), i \notin Lingering, Awaits(i) PROVE Awaits(i)'
    <3>1. PICK q \in Requests : /\ reqs[q].at = "deliver"
                                /\ \E k \in reqs[q].ids : log[k].item = i /\ Reaches(log[k], members)
      BY <2>4 DEF Awaits
    <3>2. PICK k \in reqs[q].ids : log[k].item = i /\ Reaches(log[k], members)
      BY <3>1
    <3>3. q # r /\ reqs'[q] = reqs[q]
      BY <3>1, <2>0, <1>0 DEF Open
    <3>4. log'[k] = log[k] /\ k \in DOMAIN log
      BY <3>1, <1>0, <1>2 DEF Inv, Transactions
    <3>5. i \notin DOMAIN fx.set
      BY <3>1, <3>2, <1>0 DEF Unsent
    <3>6. <<i, watched>> \in members => <<i, watched>> \in MembersAfter(fx)
      <4>1. SUFFICES ASSUME <<i, watched>> \in members PROVE <<i, watched>> \in MembersAfter(fx)
        OBVIOUS
      <4>2. i \in Teams /\ content[i] # 0
        BY <4>1, <1>0 DEF Inv, Types, Cascaded
      <4>3. <<i, watched>> \notin fx.join \cup fx.leave
        <5>1. SUFFICES ASSUME <<i, watched>> \in fx.join \cup fx.leave PROVE FALSE
          OBVIOUS
        <5>2. <<i, watched>>[1] = i
          OBVIOUS
        <5>3. Live(Said(r)) = {}
          BY <5>1, <5>2, <3>5, <1>5 DEF Effective
        <5>4. QED
          BY <5>1, <5>3, <4>2, <2>2
      <4>4. RowsAfter(fx)[i] = content[i]
        BY <3>5 DEF RowsAfter
      <4>5. QED
        BY <4>1, <4>2, <4>3, <4>4 DEF MembersAfter
    <3>7. Reaches(log[k], members)'
      BY <3>2, <3>4, <3>6, <1>0, <1>1 DEF Reaches
    <3>8. QED
      BY <3>1, <3>2, <3>3, <3>4, <3>7 DEF Awaits
  <2>5. Due(client, i)' = Due(client, i) /\ (HasRead(client, i)' <=> HasRead(client, i))
    BY <1>0 DEF Due, Lasts, HasRead
  <2>6. CASE Shown(i)' # Shown(i) \/ i \in Lingering
    BY <2>3, <2>6 DEF Settled
  <2>7. CASE Shown(i)' = Shown(i) /\ i \notin Lingering
    <3>1. Settled(client, i)
      BY <2>7, <1>0, <1>8 DEF Told
    <3>2. QED
      BY <3>1, <2>4, <2>5, <2>7 DEF Settled
  <2>8. QED
    BY <2>6, <2>7
<1>9. Told(client)'
  BY <1>6, <1>7, <1>8 DEF Told
<1>10. QED
  BY <1>3, <1>9 DEF CatchInv

-----------------------------------------------------------------------------
(***************************************************************************)
(* The calls: what each writes to the log tells what it does to the tables.*)
(***************************************************************************)
\* Nothing to tell of what a transaction does not touch.
LEMMA TellsOthers ==
  ASSUME Inv, NEW i \in Items, NEW E, NEW fx, i \notin DOMAIN fx.set, \A e \in E : e.item # i,
         \A m \in fx.join \cup fx.leave : m[1] # i, i \notin fx.share \cup fx.unshare,
         i \notin LingeringAfter(fx)
  PROVE  TellsItem(E, fx, i)
<1>1. RowsAfter(fx)[i] = content[i]
  BY DEF RowsAfter
<1>2. <<i, watched>> \in MembersAfter(fx) <=> <<i, watched>> \in members
  <2>1. <<i, watched>>[1] = i
    OBVIOUS
  <2>2. <<i, watched>> \notin fx.join \cup fx.leave
    BY <2>1
  <2>3. <<i, watched>> \in members => content[i] # 0
    BY <2>1 DEF Inv, Cascaded
  <2>4. QED
    BY <2>1, <2>2, <2>3, <1>1 DEF MembersAfter
<1>3. i \in SharedAfter(fx) <=> i \in shared
  BY DEF SharedAfter
<1>4. ShownAfter(fx, i) = Shown(i)
  BY <1>1, <1>2, <1>3 DEF ShownAfter, Shown, Bootstrap, Exists, MaySee
<1>5. i \notin Lingering
  BY DEF Lingering, LingeringAfter
<1>6. QED
  BY <1>2, <1>4, <1>5 DEF TellsItem

LEMMA TeamShown ==
  ASSUME Inv, NEW t \in Teams, NEW fx
  PROVE  /\ Shown(t) = IF content[t] # 0 /\ <<t, watched>> \in members THEN content[t] ELSE 0
         /\ <<t, watched>> \in members => content[t] # 0
         /\ ShownAfter(fx, t) = IF <<t, watched>> \in MembersAfter(fx) THEN RowsAfter(fx)[t] ELSE 0
         /\ t \notin LingeringAfter(fx) => t \notin Lingering \/ t \in fx.share
         /\ <<t, watched>> \in MembersAfter(fx) <=>
              /\ <<t, watched>> \in (members \cup fx.join) \ fx.leave
              /\ RowsAfter(fx)[t] # 0
<1>1. t \in Items /\ <<t, watched>>[1] = t
  BY Kinds
<1>2. <<t, watched>> \in members => content[t] # 0
  BY <1>1 DEF Inv, Cascaded
<1>3. Shown(t) = IF content[t] # 0 /\ <<t, watched>> \in members THEN content[t] ELSE 0
  BY <1>1 DEF Shown, Bootstrap, Exists, MaySee
<1>4. <<t, watched>> \in MembersAfter(fx) <=>
        <<t, watched>> \in (members \cup fx.join) \ fx.leave /\ RowsAfter(fx)[t] # 0
  BY <1>1 DEF MembersAfter
<1>5. ShownAfter(fx, t) = IF <<t, watched>> \in MembersAfter(fx) THEN RowsAfter(fx)[t] ELSE 0
  BY <1>4 DEF ShownAfter, MaySee
<1>6. t \notin LingeringAfter(fx) => t \notin Lingering \/ t \in fx.share
  BY DEF Lingering, LingeringAfter
<1>7. QED
  BY <1>2, <1>3, <1>4, <1>5, <1>6

LEMMA ViewShown ==
  ASSUME Inv, NEW v \in Views, NEW fx, \A m \in fx.join : m[1] \in Teams
  PROVE  /\ Shown(v) = IF content[v] # 0 /\ (watched = Owner \/ v \in shared) THEN content[v] ELSE 0
         /\ ShownAfter(fx, v) = IF RowsAfter(fx)[v] # 0 /\ (watched = Owner \/ v \in SharedAfter(fx))
                                THEN RowsAfter(fx)[v] ELSE 0
         /\ <<v, watched>> \notin members /\ <<v, watched>> \notin MembersAfter(fx)
<1>1. v \in Items /\ v \notin Teams /\ <<v, watched>>[1] = v
  BY Kinds
<1>2. <<v, watched>> \notin members
  BY <1>1 DEF Inv, Types
<1>3. <<v, watched>> \notin MembersAfter(fx)
  BY <1>1, <1>2 DEF MembersAfter
<1>4. Shown(v) = IF content[v] # 0 /\ (watched = Owner \/ v \in shared) THEN content[v] ELSE 0
  BY <1>1 DEF Shown, Bootstrap, Exists, MaySee
<1>5. QED
  BY <1>1, <1>2, <1>3, <1>4 DEF ShownAfter, MaySee

\* A team that is written is told to its members.
LEMMA TeamTold ==
  ASSUME Inv, NEW t \in Teams, NEW e, NEW fx, NEW call \in {"create_team", "update_team"},
         e.item = t, e.to = "team", e.live, e.n # 0,
         DOMAIN fx.set = {t}, fx.set[t] = e.n, \A m \in fx.join : m[1] = t,
         fx.leave = {}, fx.share = {}, fx.unshare = {}
  PROVE  Tells({e}, fx) /\ Effective({e}, fx) /\ Deletes(call, fx)
<1>1. Live({e}) = {e}
  BY DEF Live
<1>2. ASSUME NEW i \in Items \ LingeringAfter(fx) PROVE TellsItem({e}, fx, i)
  <2>1. CASE i # t
    BY <2>1, <1>2, TellsOthers
  <2>2. CASE i = t
    <3>1. RowsAfter(fx)[t] = e.n
      BY Kinds DEF RowsAfter
    <3>2. Regards(e, MembersAfter(fx)) <=> <<t, watched>> \in MembersAfter(fx)
      BY SyncLogAssumption DEF Regards, SyncLogAssumption
    <3>3. t \notin Lingering
      BY <1>2, <2>2, TeamShown
    <3>4. Reaches(e, MembersAfter(fx)) <=> <<t, watched>> \in MembersAfter(fx)
      BY SyncLogAssumption DEF Reaches, SyncLogAssumption, Inv, Types
    <3>5. ShownAfter(fx, t) = IF <<t, watched>> \in MembersAfter(fx) THEN e.n ELSE 0
      BY <3>1, TeamShown
    <3>6. <<t, watched>> \notin MembersAfter(fx) => Shown(t) = 0 /\ <<t, watched>> \notin members
      BY <3>1, TeamShown
    <3>7. QED
      BY <1>1, <2>2, <3>2, <3>3, <3>4, <3>5, <3>6 DEF TellsItem
  <2>3. QED
    BY <2>1, <2>2
<1>3. Effective({e}, fx)
  BY <1>1 DEF Effective
<1>4. QED
  BY <1>2, <1>3 DEF Tells, Deletes

\* The entries of a transaction.
LEMMA OneSaid ==
  ASSUME NEW e \in EntryType
  PROVE  <<e>> \in Seq(EntryType) /\ {<<e>>[k] : k \in DOMAIN <<e>>} = {e}
OBVIOUS

LEMMA TwoSaid ==
  ASSUME NEW e \in EntryType, NEW f \in EntryType
  PROVE  <<e, f>> \in Seq(EntryType) /\ {<<e, f>>[k] : k \in DOMAIN <<e, f>>} = {e, f}
<1>1. DOMAIN <<e, f>> = {1, 2} /\ <<e, f>>[1] = e /\ <<e, f>>[2] = f
  OBVIOUS
<1>2. {<<e, f>>[k] : k \in {1, 2}} = {e, f}
  BY <1>1
<1>3. QED
  BY <1>1, <1>2

LEMMA CreateTeamCatch ==
  ASSUME CatchInv, Calm, Inv', NEW r \in Requests, NEW t \in Teams, NEW u \in Users, CreateTeam(r, t, u)
  PROVE  CatchInv'
<1> DEFINE e == Entry(t, "team", New, TRUE)
           fx == [NoEffect EXCEPT !.set = Put(t, New), !.join = {<<t, u>>}]
<1>0. Inv
  BY DEF CatchInv
<1>1. Stage(r, "idle", "create_team", {t}, <<e, e>>, fx)
  BY DEF CreateTeam
<1>2. New \in Contents /\ New # 0
  <2>1. Len(<<e, e>>) \in Nat \ {0}
    OBVIOUS
  <2>2. QED
    BY <1>0, <1>1, <2>1, NewContent
<1>3. t \in Items /\ "team" \in {"workspace", "team"} \cup Users /\ TRUE \in BOOLEAN
  BY Kinds
<1>4. /\ e \in EntryType /\ e.item = t /\ e.to = "team" /\ e.n = New
      /\ e.live /\ e.state = "open"
  BY <1>2, <1>3 DEF Entry, EntryType
<1>5. /\ DOMAIN fx.set = {t} /\ fx.set[t] = New /\ fx.join = {<<t, u>>}
      /\ fx.leave = {} /\ fx.share = {} /\ fx.unshare = {}
  <2>1. /\ fx.set = Put(t, New) /\ fx.join = {<<t, u>>}
        /\ fx.leave = {} /\ fx.share = {} /\ fx.unshare = {}
    BY DEF NoEffect
  <2>2. QED
    BY <2>1 DEF Put
<1> HIDE DEF e, fx
<1>6. \A m \in fx.join : m[1] = t
  BY <1>5
<1>7. Tells({e}, fx) /\ Effective({e}, fx) /\ Deletes("create_team", fx)
  BY <1>0, <1>2, <1>4, <1>5, <1>6, TeamTold
<1>8. <<e, e>> \in Seq(EntryType) /\ {<<e, e>>[k] : k \in DOMAIN <<e, e>>} = {e}
  BY <1>4, TwoSaid
<1>9. QED
  BY <1>1, <1>4, <1>7, <1>8, StageCatch

LEMMA UpdateTeamCatch ==
  ASSUME CatchInv, Calm, Inv', NEW r \in Requests, NEW t \in Teams, UpdateTeam(r, t)
  PROVE  CatchInv'
<1> DEFINE e == Entry(t, "team", New, TRUE)
           fx == [NoEffect EXCEPT !.set = Put(t, New)]
<1>0. Inv
  BY DEF CatchInv
<1>1. Stage(r, "idle", "update_team", {t}, <<e>>, fx)
  BY DEF UpdateTeam
<1>2. New \in Contents /\ New # 0
  <2>1. Len(<<e>>) \in Nat \ {0}
    OBVIOUS
  <2>2. QED
    BY <1>0, <1>1, <2>1, NewContent
<1>3. t \in Items /\ "team" \in {"workspace", "team"} \cup Users /\ TRUE \in BOOLEAN
  BY Kinds
<1>4. /\ e \in EntryType /\ e.item = t /\ e.to = "team" /\ e.n = New
      /\ e.live /\ e.state = "open"
  BY <1>2, <1>3 DEF Entry, EntryType
<1>5. /\ DOMAIN fx.set = {t} /\ fx.set[t] = New /\ fx.join = {}
      /\ fx.leave = {} /\ fx.share = {} /\ fx.unshare = {}
  <2>1. /\ fx.set = Put(t, New) /\ fx.join = {}
        /\ fx.leave = {} /\ fx.share = {} /\ fx.unshare = {}
    BY DEF NoEffect
  <2>2. QED
    BY <2>1 DEF Put
<1> HIDE DEF e, fx
<1>6. Tells({e}, fx) /\ Effective({e}, fx) /\ Deletes("update_team", fx)
  BY <1>0, <1>2, <1>4, <1>5, TeamTold
<1>7. <<e>> \in Seq(EntryType) /\ {<<e>>[k] : k \in DOMAIN <<e>>} = {e}
  BY <1>4, OneSaid
<1>8. QED
  BY <1>1, <1>4, <1>6, <1>7, StageCatch

\* What a change of u's membership of t writes, and what it does to the tables.
Membership(call, t, u, told, gone, E, fx) ==
  /\ told.item = t /\ told.to = "team" /\ ~told.live /\ content[t] \in {told.n, 0}
  /\ gone.item = t /\ gone.to = u /\ gone.n = 0 /\ ~gone.live
  /\ E = IF call = "removed" THEN {told, gone} ELSE {told}
  /\ DOMAIN fx.set = {} /\ fx.share = {} /\ fx.unshare = {}
  /\ fx.join = IF call = "added" THEN {<<t, u>>} ELSE {}
  /\ fx.leave \subseteq {<<t, u>>}
  /\ call # "removed" => fx.leave = {}
  /\ call = "removed" /\ <<t, u>> \in members => fx.leave = {<<t, u>>}
  /\ call = "added" => content[t] = told.n

\* Membership: nothing of the team changes, and no live frame is sent.  Who was a
\* member and is not any more is told that the team is gone.
LEMMA MembershipTold ==
  ASSUME Inv, NEW t \in Teams, NEW u \in Users, NEW told, NEW gone, NEW E, NEW fx,
         NEW call \in {"added", "role", "removed"}, Membership(call, t, u, told, gone, E, fx)
  PROVE  Tells(E, fx) /\ Effective(E, fx) /\ Deletes(call, fx)
<1> USE DEF Membership
<1> DEFINE M == MembersAfter(fx)
<1>1. Live(E) = {}
  BY DEF Live
<1>2. ASSUME NEW i \in Items \ LingeringAfter(fx) PROVE TellsItem(E, fx, i)
  <2>1. CASE i # t
    <3>1. \A e \in E : e.item = t
      OBVIOUS
    <3>2. \A m \in fx.join \cup fx.leave : m[1] = t
      OBVIOUS
    <3>3. QED
      BY <3>1, <3>2, <2>1, <1>2, TellsOthers
  <2>2. CASE i = t
    <3>1. RowsAfter(fx)[t] = content[t]
      BY Kinds DEF RowsAfter
    <3>2. Regards(told, M) <=> (told.n # 0 => <<t, watched>> \in M)
      BY SyncLogAssumption DEF Regards, SyncLogAssumption
    <3>3. Regards(gone, M) <=> u = watched
      BY DEF Regards
    <3>4. t \notin Lingering
      BY <1>2, <2>2, TeamShown
    <3>5. ShownAfter(fx, t) = IF <<t, watched>> \in M THEN content[t] ELSE 0
      BY <3>1, TeamShown
    <3>6. Shown(t) = IF <<t, watched>> \in members THEN content[t] ELSE 0
      BY TeamShown
    <3>7. <<t, watched>> \in members \cup M => content[t] = told.n /\ told.n # 0
      BY <3>1, TeamShown
    <3>8. <<t, watched>> \in M <=> <<t, watched>> \in (members \cup fx.join) \ fx.leave /\ content[t] # 0
      BY <3>1, TeamShown
    <3>9. call = "removed" /\ u = watched => <<t, watched>> \notin M
      BY <3>8
    <3>10. \A e \in E : Regards(e, M) => e.n = ShownAfter(fx, t)
      BY <3>2, <3>3, <3>5, <3>7, <3>9
    <3>11. (\A e \in E : ~Regards(e, M)) => (<<t, watched>> \in M <=> <<t, watched>> \in members)
      <4>1. SUFFICES ASSUME \A e \in E : ~Regards(e, M)
                     PROVE  <<t, watched>> \notin M /\ <<t, watched>> \notin members
        OBVIOUS
      <4>2. told.n # 0 /\ <<t, watched>> \notin M
        BY <4>1, <3>2
      <4>3. call = "removed" => u # watched
        BY <4>1, <3>3
      <4>4. <<t, watched>> \notin fx.leave
        BY <4>3
      <4>5. QED
        BY <4>2, <4>4, <3>7, <3>8
    <3>12. ShownAfter(fx, t) # Shown(t) => <<t, watched>> \in fx.join \cup fx.leave
      BY <3>5, <3>6, <3>7, <3>8
    <3>13. (<<t, watched>> \in M <=> <<t, watched>> \in members) => ShownAfter(fx, t) = Shown(t)
      BY <3>5, <3>6
    <3>14. QED
      BY <1>1, <2>2, <3>4, <3>10, <3>11, <3>12, <3>13 DEF TellsItem
  <2>3. QED
    BY <2>1, <2>2
<1>3. Effective(E, fx)
  BY <1>1 DEF Effective
<1>4. QED
  BY <1>2, <1>3 DEF Tells, Deletes

LEMMA ChangeMembershipCatch ==
  ASSUME CatchInv, Calm, Inv', NEW r \in Requests, reqs[r].at = "looked", ChangeMembership(r)
  PROVE  CatchInv'
<1> DEFINE t == reqs[r].item
           u == reqs[r].user
           told == Entry(t, "team", reqs[r].seen, FALSE)
           gone == Entry(t, u, 0, FALSE)
           touched == IF <<t, u>> \in members \/ reqs[r].call = "added" THEN {<<t, u>>} ELSE {}
           joined == [NoEffect EXCEPT !.join = {<<t, u>>}]
           left == [NoEffect EXCEPT !.leave = touched]
<1>0. Inv
  BY DEF CatchInv
<1>1. \/ Exists(t) /\ Stage(r, "looked", "added", touched, <<told>>, joined)
      \/ Stage(r, "looked", "role", touched, <<told>>, NoEffect)
      \/ Stage(r, "looked", "removed", touched, <<told, gone>>, left)
  BY DEF ChangeMembership
<1>2. reqs[r].call \in {"added", "role", "removed"}
  BY <1>1 DEF Stage
<1>3. t \in Teams /\ u \in Users /\ t \in Items /\ reqs[r].seen \in Contents
  <2>1. t \in Teams /\ u \in Users
    BY <1>0, <1>2 DEF Inv, Resolved
  <2>2. reqs[r] \in RequestType
    BY <1>0 DEF Inv, Types
  <2>3. QED
    BY <2>1, <2>2, Kinds DEF RequestType
<1>4. content[t] \in {reqs[r].seen, 0}
  BY <1>2 DEF CatchInv, Records, UpToDate
<1>5. FALSE \in BOOLEAN /\ 0 \in Contents /\ {"team", u} \subseteq {"workspace", "team"} \cup Users
  BY <1>3, SyncLogAssumption DEF SyncLogAssumption, Contents
<1>6. /\ told \in EntryType /\ told.item = t /\ told.to = "team" /\ told.state = "open"
      /\ ~told.live /\ content[t] \in {told.n, 0}
      /\ Exists(t) => content[t] = told.n
  BY <1>3, <1>4, <1>5 DEF Entry, EntryType, Exists
<1>7. /\ gone \in EntryType /\ gone.item = t /\ gone.to = u /\ gone.n = 0
      /\ gone.state = "open" /\ ~gone.live
  BY <1>3, <1>5 DEF Entry, EntryType
<1>8. \A fx \in {joined, NoEffect, left} : DOMAIN fx.set = {} /\ fx.share = {} /\ fx.unshare = {}
  <2>1. \A fx \in {joined, left} : /\ fx.set = NoEffect.set
                                   /\ fx.share = NoEffect.share /\ fx.unshare = NoEffect.unshare
    BY DEF NoEffect
  <2>2. DOMAIN NoEffect.set = {} /\ NoEffect.share = {} /\ NoEffect.unshare = {}
    BY DEF NoEffect
  <2>3. QED
    BY <2>1, <2>2
<1>9. /\ joined.join = {<<t, u>>} /\ joined.leave = {} /\ NoEffect.join = {} /\ NoEffect.leave = {}
      /\ left.join = {} /\ left.leave = touched
  BY DEF NoEffect
<1>10. /\ touched \subseteq {<<t, u>>}
       /\ <<t, u>> \in members => touched = {<<t, u>>}
  OBVIOUS
<1> HIDE DEF told, gone, touched, joined, left, t, u
<1>11. <<told>> \in Seq(EntryType) /\ {<<told>>[k] : k \in DOMAIN <<told>>} = {told}
  BY <1>6, OneSaid
<1>12. <<told, gone>> \in Seq(EntryType) /\ {<<told, gone>>[k] : k \in DOMAIN <<told, gone>>} = {told, gone}
  BY <1>6, <1>7, TwoSaid
<1>13. CASE Exists(t) /\ Stage(r, "looked", "added", touched, <<told>>, joined)
  <2>1. Membership("added", t, u, told, gone, {told}, joined)
    BY <1>6, <1>7, <1>8, <1>9, <1>10, <1>13 DEF Membership
  <2>2. Tells({told}, joined) /\ Effective({told}, joined) /\ Deletes("added", joined)
    BY <1>0, <1>3, <2>1, MembershipTold
  <2>3. \A e \in {told} : e.state = "open"
    BY <1>6, <1>7
  <2>4. QED
    BY <1>11, <1>13, <2>2, <2>3, StageCatch
<1>14. CASE Stage(r, "looked", "role", touched, <<told>>, NoEffect)
  <2>1. Membership("role", t, u, told, gone, {told}, NoEffect)
    BY <1>6, <1>7, <1>8, <1>9, <1>10, <1>14 DEF Membership
  <2>2. Tells({told}, NoEffect) /\ Effective({told}, NoEffect) /\ Deletes("role", NoEffect)
    BY <1>0, <1>3, <2>1, MembershipTold
  <2>3. \A e \in {told} : e.state = "open"
    BY <1>6, <1>7
  <2>4. QED
    BY <1>11, <1>14, <2>2, <2>3, StageCatch
<1>15. CASE Stage(r, "looked", "removed", touched, <<told, gone>>, left)
  <2>1. Membership("removed", t, u, told, gone, {told, gone}, left)
    BY <1>6, <1>7, <1>8, <1>9, <1>10, <1>15 DEF Membership
  <2>2. Tells({told, gone}, left) /\ Effective({told, gone}, left) /\ Deletes("removed", left)
    BY <1>0, <1>3, <2>1, MembershipTold
  <2>3. \A e \in {told, gone} : e.state = "open"
    BY <1>6, <1>7
  <2>4. QED
    BY <1>12, <1>15, <2>2, <2>3, StageCatch
<1>16. QED
  BY <1>1, <1>13, <1>14, <1>15

LEMMA DeleteTeamCatch ==
  ASSUME CatchInv, Calm, Inv', NEW r \in Requests, reqs[r].at = "looked", DeleteTeam(r)
  PROVE  CatchInv'
<1> DEFINE t == reqs[r].item
           views == {v \in Views : <<v, t>> \in Scoped}
           names == {t} \cup ({t} \X Users) \cup views
           e == Entry(t, "workspace", 0, TRUE)
           fx == [NoEffect EXCEPT !.set = Put(t, 0)]
<1>0. Inv
  BY DEF CatchInv
<1>1. Stage(r, "looked", "delete_team", names, <<e>>, fx)
  BY DEF DeleteTeam
<1>2. t \in Teams /\ t \in Items
  <2>1. reqs[r].call = "delete_team"
    BY <1>1 DEF Stage
  <2>2. QED
    BY <1>0, <2>1, Kinds DEF Inv, Resolved
<1>3. 0 \in Contents /\ "workspace" \in {"workspace", "team"} \cup Users /\ TRUE \in BOOLEAN
  BY SyncLogAssumption DEF SyncLogAssumption, Contents
<1>4. /\ e \in EntryType /\ e.item = t /\ e.to = "workspace" /\ e.n = 0
      /\ e.live /\ e.state = "open"
  BY <1>2, <1>3 DEF Entry, EntryType
<1>5. /\ DOMAIN fx.set = {t} /\ fx.set[t] = 0 /\ fx.join = {}
      /\ fx.leave = {} /\ fx.share = {} /\ fx.unshare = {}
  <2>1. /\ fx.set = Put(t, 0) /\ fx.join = {}
        /\ fx.leave = {} /\ fx.share = {} /\ fx.unshare = {}
    BY DEF NoEffect
  <2>2. QED
    BY <2>1 DEF Put
<1> HIDE DEF e, fx, t, names
<1>6. Live({e}) = {e}
  BY <1>4 DEF Live
<1>7. ASSUME NEW i \in Items \ LingeringAfter(fx) PROVE TellsItem({e}, fx, i)
  <2>1. CASE i # t
    BY <2>1, <1>0, <1>4, <1>5, <1>7, TellsOthers
  <2>2. CASE i = t
    <3>1. RowsAfter(fx)[t] = 0
      BY <1>2, <1>5 DEF RowsAfter
    <3>2. ShownAfter(fx, t) = 0
      BY <3>1, <1>0, <1>2, TeamShown
    <3>3. Regards(e, MembersAfter(fx)) /\ Reaches(e, MembersAfter(fx))
      BY <1>4, SyncLogAssumption DEF Regards, Reaches, SyncLogAssumption
    <3>4. QED
      BY <1>4, <1>6, <2>2, <3>2, <3>3 DEF TellsItem
  <2>3. QED
    BY <2>1, <2>2
<1>8. Tells({e}, fx) /\ Effective({e}, fx) /\ Deletes("delete_team", fx)
  BY <1>4, <1>5, <1>6, <1>7 DEF Tells, Effective, Deletes
<1>9. <<e>> \in Seq(EntryType) /\ {<<e>>[k] : k \in DOMAIN <<e>>} = {e}
  BY <1>4, OneSaid
<1>10. QED
  BY <1>1, <1>4, <1>8, <1>9, StageCatch

\* A view goes to all or to its owner, as it is saved.
LEMMA SaveViewCatch ==
  ASSUME CatchInv, Calm, Inv', NEW r \in Requests, NEW call \in {"create_view", "update_view"},
         NEW v \in Views, NEW isShared \in BOOLEAN, SaveView(r, call, v, isShared)
  PROVE  CatchInv'
<1> DEFINE to == Audience(isShared)
           e == Entry(v, to, New, TRUE)
           fx == [NoEffect EXCEPT !.set = Put(v, New), !.share = IF isShared THEN {v} ELSE {},
                                  !.unshare = IF isShared THEN {} ELSE {v}]
<1>0. Inv
  BY DEF CatchInv
<1>1. Stage(r, "idle", call, {v}, <<e>>, fx)
  BY DEF SaveView
<1>2. New \in Contents /\ New # 0
  <2>1. Len(<<e>>) \in Nat \ {0}
    OBVIOUS
  <2>2. QED
    BY <1>0, <1>1, <2>1, NewContent
<1>3. /\ v \in Items /\ TRUE \in BOOLEAN
      /\ to = IF isShared THEN "workspace" ELSE Owner
      /\ to \in {"workspace", "team"} \cup Users
  BY Kinds DEF Audience
<1> HIDE DEF to
<1>4. /\ e \in EntryType /\ e.item = v /\ e.to = to /\ e.n = New
      /\ e.live /\ e.state = "open"
  BY <1>2, <1>3 DEF Entry, EntryType
<1>5. /\ DOMAIN fx.set = {v} /\ fx.set[v] = New /\ fx.join = {} /\ fx.leave = {}
      /\ fx.share = IF isShared THEN {v} ELSE {}
      /\ fx.unshare = IF isShared THEN {} ELSE {v}
  <2>1. /\ fx.set = Put(v, New) /\ fx.join = {} /\ fx.leave = {}
        /\ fx.share = IF isShared THEN {v} ELSE {}
        /\ fx.unshare = IF isShared THEN {} ELSE {v}
    BY DEF NoEffect
  <2>2. QED
    BY <2>1 DEF Put
<1> HIDE DEF e, fx
<1>6. Live({e}) = {e}
  BY <1>4 DEF Live
<1>7. ASSUME NEW i \in Items \ LingeringAfter(fx) PROVE TellsItem({e}, fx, i)
  <2>1. CASE i # v
    <3>1. i \notin fx.share \cup fx.unshare
      BY <2>1, <1>5
    <3>2. QED
      BY <2>1, <3>1, <1>0, <1>4, <1>5, <1>7, TellsOthers
  <2>2. CASE i = v
    <3>1. RowsAfter(fx)[v] = New
      BY <1>3, <1>5 DEF RowsAfter
    <3>2. v \in SharedAfter(fx) <=> isShared
      BY <1>5 DEF SharedAfter
    <3>3. \A m \in fx.join : m[1] \in Teams
      BY <1>5
    <3>4. ShownAfter(fx, v) = IF watched = Owner \/ isShared THEN New ELSE 0
      BY <1>0, <1>2, <3>1, <3>2, <3>3, ViewShown
    <3>5. v \notin Teams /\ watched \in Users /\ Owner \in Users /\ "workspace" \notin Users
      BY <1>0, Kinds, SyncLogAssumption DEF SyncLogAssumption, Inv, Types
    <3>6. Regards(e, MembersAfter(fx)) <=> watched = Owner \/ isShared
      BY <1>3, <1>4, <3>5 DEF Regards
    <3>7. watched = Owner \/ isShared => Reaches(e, MembersAfter(fx))
      BY <1>3, <1>4 DEF Reaches
    <3>8. ~(watched = Owner \/ isShared) => Shown(v) = 0 /\ v \notin Lingering
      <4>1. SUFFICES ASSUME watched # Owner, ~isShared PROVE Shown(v) = 0 /\ v \notin Lingering
        OBVIOUS
      <4>2. v \notin strays /\ v \notin shared
        BY <4>1, <1>5, <1>7, <2>2 DEF LingeringAfter
      <4>3. Shown(v) = 0
        BY <4>1, <4>2, <1>0, <3>3, ViewShown
      <4>4. QED
        BY <4>2, <4>3 DEF Lingering
    <3>9. <<v, watched>> \notin members /\ <<v, watched>> \notin MembersAfter(fx)
      BY <1>0, <3>3, ViewShown
    <3>10. CASE watched = Owner \/ isShared
      BY <3>10, <1>4, <1>6, <2>2, <3>4, <3>6, <3>7 DEF TellsItem
    <3>11. CASE ~(watched = Owner \/ isShared)
      BY <3>11, <1>4, <2>2, <3>4, <3>6, <3>8, <3>9 DEF TellsItem
    <3>12. QED
      BY <3>10, <3>11
  <2>3. QED
    BY <2>1, <2>2
<1>8. Tells({e}, fx) /\ Effective({e}, fx)
  BY <1>4, <1>5, <1>6, <1>7 DEF Tells, Effective
<1>9. Deletes(call, fx)
  BY <1>2, <1>5, Kinds DEF Deletes
<1>10. <<e>> \in Seq(EntryType) /\ {<<e>>[k] : k \in DOMAIN <<e>>} = {e}
  BY <1>4, OneSaid
<1>11. QED
  BY <1>1, <1>4, <1>8, <1>9, <1>10, StageCatch

LEMMA DeleteViewCatch ==
  ASSUME CatchInv, Calm, Inv', NEW r \in Requests, reqs[r].at = "looked", DeleteView(r)
  PROVE  CatchInv'
<1> DEFINE v == reqs[r].item
           to == Audience(reqs[r].seen = 1)
           e == Entry(v, to, 0, TRUE)
           fx == [NoEffect EXCEPT !.set = Put(v, 0)]
<1>0. Inv
  BY DEF CatchInv
<1>1. Stage(r, "looked", "delete_view", {v}, <<e>>, fx)
  BY DEF DeleteView
<1>2. reqs[r].call = "delete_view" /\ v \in Views /\ v \in Items
  <2>1. reqs[r].call = "delete_view"
    BY <1>1 DEF Stage
  <2>2. QED
    BY <1>0, <2>1, Kinds DEF Inv, Resolved
<1>3. to = IF v \in shared THEN "workspace" ELSE Owner
  <2>1. reqs[r].seen = 1 <=> v \in shared
    BY <1>2 DEF CatchInv, Records, UpToDate
  <2>2. QED
    BY <2>1 DEF Audience
<1>4. 0 \in Contents /\ TRUE \in BOOLEAN /\ to \in {"workspace", "team"} \cup Users
  BY <1>3, Kinds, SyncLogAssumption DEF SyncLogAssumption, Contents
<1> HIDE DEF to
<1>5. /\ e \in EntryType /\ e.item = v /\ e.to = to /\ e.n = 0
      /\ e.live /\ e.state = "open"
  BY <1>2, <1>4 DEF Entry, EntryType
<1>6. /\ DOMAIN fx.set = {v} /\ fx.set[v] = 0 /\ fx.join = {}
      /\ fx.leave = {} /\ fx.share = {} /\ fx.unshare = {}
  <2>1. /\ fx.set = Put(v, 0) /\ fx.join = {}
        /\ fx.leave = {} /\ fx.share = {} /\ fx.unshare = {}
    BY DEF NoEffect
  <2>2. QED
    BY <2>1 DEF Put
<1> HIDE DEF e, fx, v
<1>7. Live({e}) = {e}
  BY <1>5 DEF Live
<1>8. ASSUME NEW i \in Items \ LingeringAfter(fx) PROVE TellsItem({e}, fx, i)
  <2>1. CASE i # v
    BY <2>1, <1>0, <1>5, <1>6, <1>8, TellsOthers
  <2>2. CASE i = v
    <3>1. RowsAfter(fx)[v] = 0
      BY <1>2, <1>6 DEF RowsAfter
    <3>2. \A m \in fx.join : m[1] \in Teams
      BY <1>6
    <3>3. ShownAfter(fx, v) = 0
      BY <1>0, <1>2, <3>1, <3>2, ViewShown
    <3>4. v \notin Teams /\ watched \in Users /\ Owner \in Users /\ "workspace" \notin Users
      BY <1>0, <1>2, Kinds, SyncLogAssumption DEF SyncLogAssumption, Inv, Types
    <3>5. Regards(e, MembersAfter(fx)) <=> watched = Owner \/ v \in shared
      BY <1>3, <1>5, <3>4 DEF Regards
    <3>6. watched = Owner \/ v \in shared => Reaches(e, MembersAfter(fx))
      BY <1>3, <1>5 DEF Reaches
    <3>7. ~(watched = Owner \/ v \in shared) => Shown(v) = 0
      BY <1>0, <1>2, <3>2, ViewShown
    <3>8. v \notin Lingering
      BY <1>6, <1>8, <2>2 DEF Lingering, LingeringAfter
    <3>9. <<v, watched>> \notin members /\ <<v, watched>> \notin MembersAfter(fx)
      BY <1>0, <1>2, <3>2, ViewShown
    <3>10. CASE watched = Owner \/ v \in shared
      BY <3>10, <1>5, <1>7, <2>2, <3>3, <3>5, <3>6 DEF TellsItem
    <3>11. CASE ~(watched = Owner \/ v \in shared)
      BY <3>11, <1>5, <2>2, <3>3, <3>5, <3>7, <3>8, <3>9 DEF TellsItem
    <3>12. QED
      BY <3>10, <3>11
  <2>3. QED
    BY <2>1, <2>2
<1>9. Tells({e}, fx) /\ Effective({e}, fx)
  BY <1>5, <1>6, <1>7, <1>8 DEF Tells, Effective
<1>10. Deletes("delete_view", fx)
  BY <1>2, <1>6, Kinds DEF Deletes
<1>11. <<e>> \in Seq(EntryType) /\ {<<e>>[k] : k \in DOMAIN <<e>>} = {e}
  BY <1>5, OneSaid
<1>12. QED
  BY <1>1, <1>5, <1>9, <1>10, <1>11, StageCatch

LEMMA RequestCatch ==
  ASSUME CatchInv, Calm, Inv', NEW r \in Requests, Request(r)
  PROVE  CatchInv'
<1>1. ASSUME NEW t \in Teams, UpdateTeam(r, t) PROVE CatchInv'
  BY <1>1, UpdateTeamCatch
<1>2. ASSUME NEW t \in Teams, LookAtDoomedTeam(r, t) PROVE CatchInv'
  <2>1. Look(r, "delete_team", t, "none", 0)
    BY <1>2 DEF LookAtDoomedTeam
  <2>2. QED
    BY <2>1, LookCatch
<1>3. ASSUME NEW t \in Teams, NEW u \in Users, CreateTeam(r, t, u) PROVE CatchInv'
  BY <1>3, CreateTeamCatch
<1>4. ASSUME NEW t \in Teams, NEW u \in Users, NEW c \in CallKinds, LookAtTeam(r, c, t, u)
      PROVE  CatchInv'
  <2>1. c \in {"added", "role", "removed"} /\ Look(r, c, t, u, content[t])
    BY <1>4 DEF LookAtTeam
  <2>2. c # "delete_view"
    BY <2>1
  <2>3. QED
    BY <2>1, <2>2, LookCatch
<1>5. ASSUME NEW v \in Views, LookAtView(r, v) PROVE CatchInv'
  <2> DEFINE seen == IF v \in shared THEN 1 ELSE 0
  <2>1. Look(r, "delete_view", v, "none", seen)
    BY <1>5 DEF LookAtView
  <2>2. seen = 1 <=> v \in shared
    OBVIOUS
  <2> HIDE DEF seen
  <2>3. QED
    BY <2>1, <2>2, LookCatch
<1>6. ASSUME NEW v \in Views, NEW s \in BOOLEAN, NEW c \in {"create_view", "update_view"},
             SaveView(r, c, v, s)
      PROVE  CatchInv'
  BY <1>6, SaveViewCatch
<1>7. ASSUME reqs[r].at = "looked", ChangeMembership(r) \/ DeleteTeam(r) \/ DeleteView(r)
      PROVE  CatchInv'
  BY <1>7, ChangeMembershipCatch, DeleteTeamCatch, DeleteViewCatch
<1>8. ASSUME Refuse(r) \/ Commit(r) \/ Rollback(r) \/ Deliver(r) \/ Silence(r)
      PROVE  CatchInv'
  BY <1>8, RefuseCatch, CommitCatch, RollbackCatch, DeliverCatch, SilenceCatch
<1>9. QED
  BY <1>1, <1>2, <1>3, <1>4, <1>5, <1>6, <1>7, <1>8 DEF Request

LEMMA HandlerCatch ==
  ASSUME CatchInv, Inv', Handler
  PROVE  CatchInv'
<1>1. CASE ReadList(1, "teams", Teams, "views")
  BY <1>1, ReadListCatch
<1>2. CASE ReadList(2, "views", Views, "stream")
  BY <1>2, ReadListCatch
<1>3. QED
  BY <1>1, <1>2, StartBootstrapCatch, ReadPageCatch, SendNextCatch, CompleteCatch DEF Handler

LEMMA NextCatch ==
  ASSUME CatchInv, Calm, [Next]_vars
  PROVE  CatchInv'
<1>1. Inv'
  BY NextInv DEF CatchInv
<1>2. CASE \E r \in Requests : Request(r)
  BY <1>1, <1>2, RequestCatch
<1>3. CASE Connect
  BY <1>1, <1>3, ConnectCatch
<1>4. CASE Handler
  BY <1>1, <1>4, HandlerCatch
<1>5. CASE Disconnect
  BY <1>1, <1>5, DisconnectCatch
<1>6. CASE UNCHANGED vars
  <2>1. /\ UNCHANGED <<calls, tables, log, reqs, watched, strays>>
        /\ client' = client /\ behind' = behind
    BY <1>6 DEF vars, history
  <2>2. PICK c : c = client
    OBVIOUS
  <2>3. /\ client' = c /\ Paged(c) /\ Untouched(c, behind')
        /\ \A i \in Items \ Lingering : Claimed(c, i) /\ Covered(c, i)
        /\ \A i \in Items \ (Lingering \cup behind') : Settled(c, i)
    BY <2>1, <2>2 DEF CatchInv, Told
  <2>4. QED
    BY <1>1, <2>1, <2>3, ClientCatch
<1>7. QED
  BY <1>2, <1>3, <1>4, <1>5, <1>6 DEF Next

\* On SQLite a delta from the client's cursor brings it to what a bootstrap would give
\* it, whatever became of the user's memberships since, and wherever the connection
\* broke (drain_delta, get_entries_since): as long as nobody changes what another
\* handler has read on the pool, nor something whose last change has not been sent,
\* no frame crosses the start of a bootstrap, and no team that has views is deleted.
THEOREM CatchesUp ==
  ASSUME Calm PROVE Spec => []CatchUpIsEnough
<1>1. CatchInv /\ [Next]_vars => CatchInv'
  BY NextCatch
<1>2. QED
  BY <1>1, InitCatch, CatchEnough, PTL DEF Spec

\* And a client that has caught up and stays connected shows the latest of everything
\* it may see and nothing else, once the frames under way are out (SyncBatch's
\* commit_and_deliver, broadcast_entry): what is excepted is in behind.
THEOREM ScreensSettled ==
  ASSUME Calm PROVE Spec => []ScreenSettles
<1>1. CatchInv /\ [Next]_vars => CatchInv'
  BY NextCatch
<1>2. QED
  BY <1>1, InitCatch, CatchSettles, PTL DEF Spec

=============================================================================
