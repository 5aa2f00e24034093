-------------------------- MODULE IssueGraphProofs --------------------------
(***************************************************************************)
(* Theorems about IssueGraph.tla, for every value of its constants: its    *)
(* types on both databases, and on SQLite that the log tells all, that the *)
(* flags it tells are right, and that it implements IssueTracker.tla.      *)
(***************************************************************************)
EXTENDS IssueGraph, TLAPS

Places == {"idle", "update", "destroy", "commit", "cut", "check", "walk", "single", "insert"}

Settings == UNION {[S -> {"open", "done"}] : S \in SUBSET Issues}
Tellings == UNION {[S -> BOOLEAN] : S \in SUBSET Issues}

Effects == [born : SUBSET Issues, killed : SUBSET Issues, added : SUBSET Row, cut : SUBSET Row,
            status : Settings, flags : Tellings]

Handler == [at : Places, call : CallKinds \cup {"none"}, type : RowTypes \cup {"none"},
            source : Issues \cup {"none"}, target : Issues \cup {"none"}, id : Nat,
            to : {"open", "done"}, todo : SUBSET Issues, seen : SUBSET Issues, hops : Nat,
            fx : Effects]

Types ==
  /\ backend \in Backends
  /\ life \in [Issues -> {"unborn", "open", "done", "deleted"}]
  /\ rows \subseteq Row /\ drawn \in 0..MaxRows
  /\ replica \in [issues : SUBSET Issues, rows : SUBSET Row]
  /\ flags \in [Issues -> BOOLEAN]
  /\ touched \subseteq Issues
  /\ reqs \in [Requests -> Handler]

-----------------------------------------------------------------------------
(***************************************************************************)
(* A handler has at each place what it came with.                          *)
(***************************************************************************)
Creates(fx, i)      == fx = [NoEffect EXCEPT !.born = {i}, !.flags = [j \in {i} |-> FALSE]]
Updates(fx, st, fl) == fx = [NoEffect EXCEPT !.status = st, !.flags = fl]
Deletes(fx, i, C)   == fx = [NoEffect EXCEPT !.cut = C, !.killed = {i}]
Links(fx, x)        == fx = [NoEffect EXCEPT !.added = {x}]
Unlinks(fx, x)      == fx = [NoEffect EXCEPT !.cut = {x}]

Wants(q) ==
  /\ q.type \in RowTypes /\ q.source \in Issues /\ q.target \in Issues
  /\ q.type # "comment" => q.call \in {"relate", "parent"} /\ q.source # q.target

Staged(q, n) ==
  \/ \E i \in Issues : Creates(q.fx, i) /\ life[i] = "unborn"
  \/ /\ Updates(q.fx, q.fx.status, q.fx.flags)
     /\ \A i \in DOMAIN q.fx.status : Live(i)
  \/ \E i \in Issues : Deletes(q.fx, i, q.fx.cut) /\ life[i] # "unborn"
  \/ \E x \in Row : /\ Links(q.fx, x) /\ Wants(q)
                    /\ x.type = q.type /\ x.source = q.source /\ x.target = q.target
                    /\ Ends(x) \subseteq LiveSet /\ x.id <= n
                    /\ \A y \in rows : y.id # x.id
  \/ \E x \in Row : Unlinks(q.fx, x)

Sensible(q, n) ==
  /\ q.at = "idle" => q = Idle
  /\ q.at \notin {"destroy", "commit"} => q.fx = NoEffect
  /\ q.at = "update" => q.call \in {"status", "edit"} /\ q.source \in Issues
  /\ q.at = "destroy" => /\ q.source \in Issues /\ life[q.source] # "unborn" /\ q.call = "delete"
                         /\ q.fx = [NoEffect EXCEPT !.cut = q.fx.cut]
  /\ q.at \in {"walk", "single", "insert"} => Wants(q)
  /\ q.at \in {"cut", "check"} => /\ q.call = "parent" /\ q.type = "parent" /\ "parent" \in RowTypes
                                  /\ q.source \in Issues /\ q.target \in Issues
  /\ q.at = "walk" => q.type \in {"blocks", "parent"}
  /\ q.at = "single" => q.type \in {"parent", "duplicate"}
  /\ q.at = "commit" => Staged(q, n)
  /\ q.at = "commit" /\ q.call = "parent" /\ q.fx.added = {} =>
       /\ q.type = "parent" /\ "parent" \in RowTypes
       /\ q.source \in Issues /\ q.target \in Issues
       /\ \E x \in Row : Unlinks(q.fx, x)

\* Transactions keep what the others have staged possible.
Apart(q, p) ==
  /\ q.fx.born \cap p.fx.born = {}
  /\ q.fx.killed \cap DOMAIN p.fx.status = {}
  /\ \A x \in q.fx.added : /\ Ends(x) \cap p.fx.killed = {}
                           /\ \A y \in p.fx.added : y.id # x.id

Keys ==
  /\ \A x \in rows : Ends(x) \subseteq LiveSet /\ x.id <= drawn
  /\ \A x, y \in rows : x.id = y.id => x = y

Database ==
  /\ Types /\ Keys
  /\ \A r \in Requests : Sensible(reqs[r], drawn)
  /\ \A q, p \in Requests : q # p => Apart(reqs[q], reqs[p])

-----------------------------------------------------------------------------
(***************************************************************************)
(* On SQLite, what a transaction has staged stays exact until it commits.  *)
(***************************************************************************)
Exact(q) ==
  /\ q.at = "destroy" => Live(q.source) /\ q.fx.cut = {x \in rows : q.source \in Ends(x)}
  /\ q.at = "commit" =>
       /\ \A i \in q.fx.killed : Live(i) /\ q.fx.cut = {x \in rows : i \in Ends(x)}
       /\ q.fx.cut \subseteq rows
       /\ \A i \in q.fx.born : life[i] = "unborn"
       /\ \A j \in DOMAIN q.fx.flags \ q.fx.born :
            q.fx.flags[j] = IsBlocked(j, rows, Over(q.fx.status, life))
       /\ \A i \in DOMAIN q.fx.status :
            "lookup" \notin Races => BlockedBy(i) \subseteq DOMAIN q.fx.flags

OneWriter == \A q, p \in Requests : InTransaction(q) /\ InTransaction(p) => q = p

\* What a status update has found does not grow before its transaction.
Looked(q) ==
  reqs[q].at = "update" /\ reqs[q].call = "status" =>
    /\ BlockedBy(reqs[q].source) \subseteq reqs[q].todo
    /\ \A p \in Requests : reqs[p].type # "blocks"

Lite ==
  /\ OneWriter
  /\ \A r \in Requests : Exact(reqs[r])
  /\ LogTellsAll
  /\ "lookup" \notin Races => FlagsTold /\ \A r \in Requests : Looked(r)

-----------------------------------------------------------------------------
(***************************************************************************)
(* Relations.  A set closed under the rows of a type, with the target in   *)
(* it and the source not, shows that a row closes no cycle.                *)
(***************************************************************************)
Typed(t) == {x \in rows : x.type = t}

Separate(q) ==
  \E S \in SUBSET Issues :
    /\ q.target \in S /\ q.source \notin S
    /\ \A x \in Typed(q.type) : x.source \in S => x.target \in S

\* From the target on, the walk down has seen issues whose targets it has seen
\* or will look at.
WalkedDown(q) ==
  /\ q.target \in q.todo \cup q.seen /\ q.source \notin q.seen
  /\ \A x \in Typed("blocks") : x.source \in q.seen => x.target \in q.todo \cup q.seen

\* From the source on, the walk up has seen a set with all its parents, but for
\* those of the issue it is at.
WalkedUp(q) ==
  \E i \in Issues, W \in SUBSET Issues :
    /\ q.todo = {i} /\ i \in W
    /\ q.source \in W /\ q.target \notin W
    /\ \A x \in Typed("parent") : x.target \in W \ {i} => x.source \in W

Single(q) ==
  /\ q.type = "parent" => \A y \in Typed("parent") : y.target # q.target
  /\ q.type = "duplicate" => \A y \in Typed("duplicate") : y.source # q.source

Checked(q) == (q.type \in {"blocks", "parent"} => Separate(q)) /\ Single(q)

Validated(q) ==
  /\ q.at = "walk" => IF q.type = "blocks" THEN WalkedDown(q) ELSE WalkedUp(q)
  /\ q.at = "single" /\ q.type = "parent" => Separate(q)
  /\ q.at = "insert" => Checked(q)
  /\ q.at = "commit" /\ q.fx.added # {} =>
       Checked(q) /\ \A x \in q.fx.added : \A y \in rows : ~Same(x, y)

Graph ==
  /\ \A q, p \in Requests : Relating(q) /\ Relating(p) => q = p
  /\ \A r \in Requests : Validated(reqs[r])
  /\ \A x, y \in Typed("parent") : x.target = y.target => x = y

Inv ==
  /\ Database
  /\ backend = "sqlite" => Lite
  /\ "overlap" \notin Races => Graph

-----------------------------------------------------------------------------
(***************************************************************************)
(* Types of the values that handlers are made of.                          *)
(***************************************************************************)
LEMMA SettingType ==
  ASSUME NEW S \in SUBSET Issues, NEW f \in [S -> {"open", "done"}]
  PROVE  f \in Settings
BY DEF Settings

LEMMA SettingShape ==
  ASSUME NEW f \in Settings
  PROVE  /\ DOMAIN f \in SUBSET Issues
         /\ \A i \in DOMAIN f : f[i] \in {"open", "done"}
BY DEF Settings

LEMMA TellingType ==
  ASSUME NEW S \in SUBSET Issues, NEW f \in [S -> BOOLEAN]
  PROVE  f \in Tellings
BY DEF Tellings

LEMMA TellingShape ==
  ASSUME NEW f \in Tellings
  PROVE  /\ DOMAIN f \in SUBSET Issues
         /\ \A i \in DOMAIN f : f[i] \in BOOLEAN
BY DEF Tellings

LEMMA NothingType ==
  /\ NoFlags \in Settings /\ NoFlags \in Tellings /\ DOMAIN NoFlags = {}
  /\ NoEffect \in Effects
  /\ NoEffect.born = {} /\ NoEffect.killed = {} /\ NoEffect.added = {} /\ NoEffect.cut = {}
  /\ NoEffect.status = NoFlags /\ NoEffect.flags = NoFlags
<1>1. DOMAIN NoFlags = {} /\ NoFlags \in [{} -> {"open", "done"}] /\ NoFlags \in [{} -> BOOLEAN]
  BY DEF NoFlags
<1>2. NoFlags \in Settings /\ NoFlags \in Tellings
  <2>1. {} \in SUBSET Issues
    OBVIOUS
  <2>2. QED
    BY <1>1, <2>1, SettingType, TellingType
<1> HIDE DEF NoFlags
<1>3. QED
  BY <1>1, <1>2 DEF NoEffect, Effects

LEMMA IdleType ==
  /\ Idle \in Handler
  /\ Idle.at = "idle" /\ Idle.call = "none" /\ Idle.type = "none" /\ Idle.fx = NoEffect
BY NothingType DEF Idle, Handler, Places

-----------------------------------------------------------------------------
(***************************************************************************)
(* A handler takes a step of its own: the database stays as it is.         *)
(***************************************************************************)
Asks(q)    == q.call \in {"relate", "parent"}
Updating(q) == q.at = "update" /\ q.call = "status"
Inside(q)  == q.at \in {"destroy", "commit"}

Step(r, h, n) ==
  /\ reqs' = [reqs EXCEPT ![r] = h] /\ h \in Handler
  /\ drawn' = n /\ n \in 0..MaxRows /\ drawn <= n
  /\ UNCHANGED <<backend, life, rows, replica, flags, touched>>
  /\ Sensible(h, n)
  /\ \A p \in Requests \ {r} : Apart(h, reqs[p]) /\ Apart(reqs[p], h)
  /\ backend = "sqlite" => (Inside(h) => Others(r) = {}) /\ Exact(h)
  /\ "lookup" \notin Races =>
       /\ Updating(h) => /\ BlockedBy(h.source) \subseteq h.todo /\ h.type # "blocks"
                         /\ \A p \in Requests \ {r} : reqs[p].type # "blocks"
       /\ h.type = "blocks" => \/ reqs[r].type = "blocks"
                               \/ \A p \in Requests \ {r} : ~Updating(reqs[p])
  /\ "overlap" \notin Races =>
       /\ Validated(h)
       /\ Asks(h) => \A p \in Requests \ {r} : ~Relating(p)

LEMMA StepInv ==
  ASSUME Inv, NEW r \in Requests, NEW h, NEW n, Step(r, h, n)
  PROVE  Inv'
<1>1. /\ reqs \in [Requests -> Handler] /\ reqs' \in [Requests -> Handler]
      /\ reqs'[r] = h /\ \A p \in Requests \ {r} : reqs'[p] = reqs[p]
      /\ UNCHANGED <<backend, life, rows, replica, flags, touched>>
      /\ drawn' = n /\ n \in 0..MaxRows /\ drawn <= n /\ drawn \in Nat /\ n \in Nat
      /\ rows \subseteq Row
  BY IssueGraphAssumption DEF Step, Inv, Database, Types
<1>2. Types' /\ Keys'
  <2>1. Types'
    BY <1>1 DEF Inv, Database, Types
  <2>2. \A x \in rows : x.id \in Nat
    BY <1>1 DEF Row
  <2>3. Keys'
    BY <1>1, <2>2 DEF Inv, Database, Keys, LiveSet, Live
  <2>4. QED
    BY <2>1, <2>3
<1>3. ASSUME NEW p \in Requests
      PROVE  Sensible(reqs[p], drawn)'
  <2>1. CASE p = r
    <3>1. Sensible(h, n)
      BY DEF Step
    <3>2. QED
      BY <1>1, <2>1, <3>1 DEF Sensible, Staged, LiveSet, Live
  <2>2. CASE p # r
    <3>1. Sensible(reqs[p], drawn) /\ reqs'[p] = reqs[p]
      BY <1>1, <2>2 DEF Inv, Database
    <3>2. Staged(reqs[p], drawn) => Staged(reqs[p], n)
      <4>1. \A x \in Row : x.id \in Nat
        BY DEF Row
      <4>2. \A x \in Row : x.id <= drawn => x.id <= n
        BY <1>1, <4>1
      <4>3. QED
        BY <4>2 DEF Staged
    <3>3. Sensible(reqs[p], n)
      BY <3>1, <3>2 DEF Sensible
    <3>4. QED
      BY <1>1, <3>1, <3>3 DEF Sensible, Staged, LiveSet, Live
  <2>3. QED
    BY <2>1, <2>2
<1>4. \A q, p \in Requests : q # p => Apart(reqs[q], reqs[p])'
  BY <1>1 DEF Step, Inv, Database, Apart
<1>5. Database'
  BY <1>2, <1>3, <1>4 DEF Database
<1>6. ASSUME backend = "sqlite" PROVE Lite'
  <2>1. OneWriter'
    BY <1>1, <1>6 DEF Inv, Lite, OneWriter, InTransaction, Step, Inside, Others
  <2>2. \A p \in Requests : Exact(reqs[p])'
    <3>1. \A p \in Requests : Exact(reqs'[p])
      BY <1>1, <1>6 DEF Inv, Lite, Step
    <3>2. life' = life /\ rows' = rows
      BY <1>1
    <3>3. ASSUME NEW CONSTANT q, Exact(q) PROVE Exact(q)'
      <4>1. \A j, st : IsBlocked(j, rows', Over(st, life')) <=> IsBlocked(j, rows, Over(st, life))
        BY <3>2, Zenon
      <4>2. \A i : (Live(i)' <=> Live(i)) /\ BlockedBy(i)' = BlockedBy(i)
        BY <3>2, Zenon DEF Live, BlockedBy
      <4>3. QED
        BY <3>2, <3>3, <4>1, <4>2, Zenon DEF Exact
    <3>4. QED
      BY <3>1, <3>3
  <2>3. LogTellsAll'
    BY <1>1, <1>6 DEF Inv, Lite, LogTellsAll, LiveSet, Live
  <2>4. ASSUME "lookup" \notin Races PROVE FlagsTold' /\ \A p \in Requests : Looked(p)'
    <3>1. FlagsTold'
      <4>1. FlagsTold
        BY <1>6, <2>4 DEF Inv, Lite
      <4>2. life' = life /\ rows' = rows /\ flags' = flags /\ touched' = touched
        BY <1>1
      <4>3. QED
        BY <4>1, <4>2 DEF FlagsTold, LiveSet, Live, IsBlocked
    <3>2. ASSUME NEW p \in Requests, Updating(reqs'[p])
          PROVE  /\ BlockedBy(reqs'[p].source) \subseteq reqs'[p].todo
                 /\ \A q \in Requests : reqs'[q].type # "blocks"
      <4>1. CASE p = r
        BY <1>1, <2>4, <3>2, <4>1 DEF Step
      <4>2. CASE p # r
        <5>1. /\ BlockedBy(reqs[p].source) \subseteq reqs[p].todo
              /\ \A q \in Requests : reqs[q].type # "blocks"
          BY <1>1, <1>6, <2>4, <3>2, <4>2 DEF Inv, Lite, Looked, Updating
        <5>2. h.type # "blocks"
          BY <1>1, <2>4, <3>2, <4>2, <5>1 DEF Step
        <5>3. QED
          BY <1>1, <4>2, <5>1, <5>2
      <4>3. QED
        BY <4>1, <4>2
    <3>3. QED
      BY <1>1, <3>1, <3>2 DEF Looked, Updating, BlockedBy
  <2>5. QED
    BY <2>1, <2>2, <2>3, <2>4 DEF Lite
<1>7. ASSUME "overlap" \notin Races PROVE Graph'
  <2>1. \A q, p \in Requests : Relating(q)' /\ Relating(p)' => q = p
    BY <1>1, <1>7 DEF Inv, Graph, Relating, Step, Asks
  <2>2. \A p \in Requests : Validated(reqs[p])'
    <3>1. \A p \in Requests : Validated(reqs'[p])
      BY <1>1, <1>7 DEF Inv, Graph, Step
    <3>2. QED
      BY <1>1, <3>1
      DEF Validated, WalkedDown, WalkedUp, Separate, Checked, Single, Typed
  <2>3. \A x, y \in Typed("parent")' : x.target = y.target => x = y
    BY <1>1, <1>7 DEF Inv, Graph, Typed
  <2>4. QED
    BY <2>1, <2>2, <2>3 DEF Graph
<1>8. QED
  BY <1>1, <1>5, <1>6, <1>7 DEF Inv

LEMMA Context ==
  ASSUME Inv, NEW r \in Requests
  PROVE  /\ reqs \in [Requests -> Handler] /\ reqs[r] \in Handler
         /\ Sensible(reqs[r], drawn)
         /\ rows \subseteq Row /\ life \in [Issues -> {"unborn", "open", "done", "deleted"}]
         /\ drawn \in 0..MaxRows /\ drawn \in Nat /\ MaxRows \in Nat
BY IssueGraphAssumption DEF Inv, Database, Types

LEMMA EffectFields ==
  ASSUME NEW fx \in Effects
  PROVE  /\ fx.born \in SUBSET Issues /\ fx.killed \in SUBSET Issues
         /\ fx.added \in SUBSET Row /\ fx.cut \in SUBSET Row
         /\ DOMAIN fx.status \in SUBSET Issues /\ DOMAIN fx.flags \in SUBSET Issues
         /\ \A i \in DOMAIN fx.status : fx.status[i] \in {"open", "done"}
         /\ \A i \in DOMAIN fx.flags : fx.flags[i] \in BOOLEAN
<1>1. fx.status \in Settings /\ fx.flags \in Tellings
  BY DEF Effects
<1>2. QED
  BY <1>1, SettingShape, TellingShape DEF Effects

\* Outside a transaction a handler has no effect.
LEMMA Outside ==
  ASSUME Inv, NEW q \in Requests, ~InTransaction(q)
  PROVE  /\ reqs[q].fx = NoEffect
         /\ reqs[q].fx.born = {} /\ reqs[q].fx.killed = {} /\ reqs[q].fx.added = {}
         /\ reqs[q].fx.cut = {} /\ DOMAIN reqs[q].fx.status = {}
BY NothingType DEF Inv, Database, Sensible, InTransaction

\* What a transaction's effect is, by its kind.
LEMMA Kinds ==
  ASSUME NEW fx
  PROVE  /\ \A i : Creates(fx, i) =>
              /\ fx.born = {i} /\ fx.killed = {} /\ fx.added = {} /\ fx.cut = {}
              /\ DOMAIN fx.status = {} /\ DOMAIN fx.flags = {i} /\ fx.flags[i] = FALSE
         /\ \A st, fl : Updates(fx, st, fl) =>
              fx.born = {} /\ fx.killed = {} /\ fx.added = {} /\ fx.cut = {}
         /\ \A i, C : Deletes(fx, i, C) =>
              /\ fx.born = {} /\ fx.killed = {i} /\ fx.added = {} /\ fx.cut = C
              /\ DOMAIN fx.status = {} /\ DOMAIN fx.flags = {}
         /\ \A x : Links(fx, x) =>
              /\ fx.born = {} /\ fx.killed = {} /\ fx.added = {x} /\ fx.cut = {}
              /\ DOMAIN fx.status = {} /\ DOMAIN fx.flags = {}
         /\ \A x : Unlinks(fx, x) =>
              /\ fx.born = {} /\ fx.killed = {} /\ fx.added = {} /\ fx.cut = {x}
              /\ DOMAIN fx.status = {} /\ DOMAIN fx.flags = {}
<1>1. ASSUME NEW i, Creates(fx, i)
      PROVE  /\ fx.born = {i} /\ fx.killed = {} /\ fx.added = {} /\ fx.cut = {}
             /\ DOMAIN fx.status = {} /\ DOMAIN fx.flags = {i} /\ fx.flags[i] = FALSE
  <2> DEFINE fl == [j \in {i} |-> FALSE]
  <2>1. DOMAIN fl = {i} /\ fl[i] = FALSE
    BY Zenon
  <2>2. fx = [NoEffect EXCEPT !.born = {i}, !.flags = fl]
    BY <1>1 DEF Creates
  <2> HIDE DEF fl
  <2>3. fx.flags = fl /\ fx.status = NoFlags /\ fx.born = {i} /\ fx.killed = {}
        /\ fx.added = {} /\ fx.cut = {}
    BY <2>2, NothingType DEF Effects
  <2>4. QED
    BY <2>1, <2>3, NothingType
<1>2. QED
  BY <1>1, NothingType DEF Updates, Deletes, Links, Unlinks, Effects

\* A step that opens no transaction.
LEMMA QuietInv ==
  ASSUME Inv, NEW r \in Requests, NEW h \in Handler,
         reqs' = [reqs EXCEPT ![r] = h], DatabaseOnly,
         ~Inside(h), Sensible(h, drawn),
         "lookup" \notin Races =>
           /\ Updating(h) => /\ BlockedBy(h.source) \subseteq h.todo /\ h.type # "blocks"
                             /\ \A p \in Requests \ {r} : reqs[p].type # "blocks"
           /\ h.type = "blocks" => \/ reqs[r].type = "blocks"
                                   \/ \A p \in Requests \ {r} : ~Updating(reqs[p]),
         "overlap" \notin Races =>
           Validated(h) /\ (Asks(h) => \A p \in Requests \ {r} : ~Relating(p))
  PROVE  Inv'
<1>1. /\ h.fx = NoEffect /\ h.fx.born = {} /\ h.fx.killed = {} /\ h.fx.added = {}
      /\ DOMAIN h.fx.status = {}
  BY NothingType DEF Sensible, Inside
<1>2. \A p \in Requests \ {r} : Apart(h, reqs[p]) /\ Apart(reqs[p], h)
  BY <1>1 DEF Apart
<1>3. Exact(h)
  BY DEF Exact, Inside
<1>4. drawn \in 0..MaxRows /\ drawn <= drawn
  BY Context
<1>5. Step(r, h, drawn)
  BY <1>2, <1>3, <1>4 DEF Step, DatabaseOnly, Inside
<1>6. QED
  BY <1>5, StepInv

LEMMA ReturnInv ==
  ASSUME Inv, NEW r \in Requests, Return(r), DatabaseOnly
  PROVE  Inv'
<1>1. Sensible(Idle, drawn)
  BY IdleType DEF Sensible
<1>2. Validated(Idle)
  BY IdleType DEF Validated
<1>3. ~Inside(Idle) /\ ~Updating(Idle) /\ ~Asks(Idle) /\ Idle.type # "blocks" /\ Idle \in Handler
  BY IdleType DEF Inside, Updating, Asks
<1>4. reqs' = [reqs EXCEPT ![r] = Idle]
  BY DEF Return
<1>5. QED
  BY <1>1, <1>2, <1>3, <1>4, QuietInv

\* The statements of r's transaction have run, with effect fx.
Opens(r, h, fx) ==
  /\ h.at = "commit" /\ h.fx = fx /\ h.call = reqs[r].call /\ h.type = reqs[r].type
  /\ h.source = reqs[r].source /\ h.target = reqs[r].target

LEMMA StageShape ==
  ASSUME Inv, NEW r \in Requests, NEW fx \in Effects, Stage(r, fx)
  PROVE  /\ \E h \in Handler : reqs' = [reqs EXCEPT ![r] = h] /\ Opens(r, h, fx)
         /\ UNCHANGED <<backend, life, rows, replica, flags, touched>>
<1> DEFINE h == [reqs[r] EXCEPT !.at = "commit", !.fx = fx, !.id = 0, !.todo = {}, !.to = "open"]
<1>1. reqs[r] \in Handler /\ reqs' = [reqs EXCEPT ![r] = h]
  BY Context DEF Stage
<1>2. h \in Handler
  BY <1>1 DEF Handler, Places
<1>3. Opens(r, h, fx)
  BY <1>1 DEF Opens, Handler
<1>4. QED
  BY <1>1, <1>2, <1>3 DEF Stage

LEMMA StageInv ==
  ASSUME Inv, NEW r \in Requests, NEW h \in Handler, NEW fx \in Effects, NEW n \in 0..MaxRows,
         reqs' = [reqs EXCEPT ![r] = h], Opens(r, h, fx), drawn' = n, drawn <= n,
         UNCHANGED <<backend, life, rows, replica, flags, touched>>,
         backend = "sqlite" => Others(r) = {} /\ Exact(h),
         Staged(h, n),
         h.call = "parent" /\ fx.added = {} =>
           /\ h.type = "parent" /\ "parent" \in RowTypes
           /\ h.source \in Issues /\ h.target \in Issues
           /\ \E x \in Row : Unlinks(fx, x),
         \A p \in Requests \ {r} : Apart(h, reqs[p]) /\ Apart(reqs[p], h),
         "overlap" \notin Races /\ fx.added # {} =>
           Checked(h) /\ \A x \in fx.added : \A y \in rows : ~Same(x, y)
  PROVE  Inv'
<1>1. Sensible(h, n)
  BY DEF Sensible, Opens
<1>2. ~Updating(h) /\ Inside(h) /\ (h.type = "blocks" => reqs[r].type = "blocks")
  BY DEF Updating, Inside, Opens
<1>3. ASSUME "overlap" \notin Races
      PROVE  Validated(h) /\ (Asks(h) => \A p \in Requests \ {r} : ~Relating(p))
  <2>1. Validated(h)
    BY <1>3 DEF Validated, Opens
  <2>2. Asks(h) => Relating(r)
    BY DEF Asks, Relating, Opens
  <2>3. QED
    BY <1>3, <2>1, <2>2 DEF Inv, Graph
<1>4. Step(r, h, n)
  BY <1>1, <1>2, <1>3 DEF Step
<1>5. QED
  BY <1>4, StepInv

-----------------------------------------------------------------------------
(***************************************************************************)
(* Issues.                                                                 *)
(***************************************************************************)
LEMMA CreateIssueInv ==
  ASSUME Inv, NEW r \in Requests, NEW i \in Issues, CreateIssue(r, i)
  PROVE  Inv'
<1> DEFINE fl == [j \in {i} |-> FALSE]
           fx == [NoEffect EXCEPT !.born = {i}, !.flags = fl]
<1>1. fl \in Tellings /\ DOMAIN fl = {i}
  <2>1. {i} \in SUBSET Issues /\ fl \in [{i} -> BOOLEAN]
    OBVIOUS
  <2>2. QED
    BY <2>1, TellingType
<1>2. Stage(r, fx) /\ reqs[r].at = "idle" /\ UNCHANGED drawn /\ life[i] = "unborn"
      /\ (\A q \in Others(r) : i \notin reqs[q].fx.born)
      /\ (backend = "sqlite" => Others(r) = {})
  BY DEF CreateIssue, At
<1> HIDE DEF fl
<1>3. /\ fx \in Effects /\ fx.born = {i} /\ fx.killed = {} /\ fx.added = {} /\ fx.cut = {}
      /\ fx.status = NoFlags /\ fx.flags = fl /\ DOMAIN fx.status = {}
  BY <1>1, NothingType DEF Effects
<1> HIDE DEF fx
<1>4. PICK h \in Handler : reqs' = [reqs EXCEPT ![r] = h] /\ Opens(r, h, fx)
  BY <1>2, <1>3, StageShape
<1>5. Staged(h, drawn)
  <2>1. Creates(h.fx, i)
    BY <1>4 DEF Opens, Creates, fx, fl
  <2>2. QED
    BY <1>2, <2>1 DEF Staged
<1>6. h.call # "parent"
  BY <1>2, <1>4, Context, IdleType DEF Opens, Sensible
<1>7. \A p \in Requests \ {r} : Apart(h, reqs[p]) /\ Apart(reqs[p], h)
  <2> SUFFICES ASSUME NEW p \in Requests \ {r} PROVE Apart(h, reqs[p]) /\ Apart(reqs[p], h)
    OBVIOUS
  <2>1. i \notin reqs[p].fx.born
    BY <1>2, Outside DEF Others
  <2>2. QED
    BY <1>3, <1>4, <2>1 DEF Apart, Opens
<1>8. Exact(h)
  BY <1>1, <1>2, <1>3, <1>4 DEF Exact, Opens
<1>9. drawn \in 0..MaxRows /\ drawn <= drawn /\ drawn' = drawn
  BY <1>2, Context
<1>10. UNCHANGED <<backend, life, rows, replica, flags, touched>>
  BY <1>2 DEF Stage
<1>11. QED
  BY <1>2, <1>3, <1>4, <1>5, <1>6, <1>7, <1>8, <1>9, <1>10, StageInv

LEMMA FindIssueInv ==
  ASSUME Inv, NEW r \in Requests, NEW i \in Issues, FindIssue(r, i)
  PROVE  Inv'
<1>1. DatabaseOnly /\ rows \subseteq Row
  BY Context DEF FindIssue
<1>2. CASE \E to \in {"open", "done"} :
             /\ "lookup" \in Races \/ \A q \in Requests : reqs[q].type # "blocks"
             /\ reqs' = [reqs EXCEPT ![r] = [Idle EXCEPT !.at = "update", !.call = "status",
                                                         !.source = i, !.to = to,
                                                         !.todo = BlockedBy(i)]]
  <2>1. PICK to \in {"open", "done"} :
             /\ "lookup" \in Races \/ \A q \in Requests : reqs[q].type # "blocks"
             /\ reqs' = [reqs EXCEPT ![r] = [Idle EXCEPT !.at = "update", !.call = "status",
                                                         !.source = i, !.to = to,
                                                         !.todo = BlockedBy(i)]]
    BY <1>2
  <2> DEFINE B == BlockedBy(i)
             h == [Idle EXCEPT !.at = "update", !.call = "status", !.source = i, !.to = to,
                               !.todo = B]
  <2>2. B \in SUBSET Issues
    BY <1>1 DEF BlockedBy, Row
  <2> HIDE DEF B
  <2>3. /\ h \in Handler /\ h.at = "update" /\ h.call = "status" /\ h.source = i /\ h.todo = B
        /\ h.type = "none" /\ h.fx = NoEffect
    BY <2>2, IdleType DEF Handler, Places, CallKinds
  <2>4. reqs' = [reqs EXCEPT ![r] = h]
    BY <2>1 DEF B
  <2> HIDE DEF h
  <2>5. Sensible(h, drawn) /\ Validated(h) /\ ~Inside(h) /\ ~Asks(h)
    BY <2>3 DEF Sensible, Validated, Inside, Asks
  <2>6. BlockedBy(h.source) \subseteq h.todo
    BY <2>3 DEF B
  <2>7. QED
    BY <1>1, <2>1, <2>3, <2>4, <2>5, <2>6, QuietInv
<1>3. CASE reqs' = [reqs EXCEPT ![r] = [Idle EXCEPT !.at = "update", !.call = "edit",
                                                    !.source = i]]
  <2> DEFINE h == [Idle EXCEPT !.at = "update", !.call = "edit", !.source = i]
  <2>1. /\ h \in Handler /\ h.at = "update" /\ h.call = "edit" /\ h.source = i
        /\ h.type = "none" /\ h.fx = NoEffect
    BY IdleType DEF Handler, Places, CallKinds
  <2>2. reqs' = [reqs EXCEPT ![r] = h]
    BY <1>3
  <2> HIDE DEF h
  <2>3. Sensible(h, drawn) /\ Validated(h) /\ ~Inside(h) /\ ~Asks(h) /\ ~Updating(h)
    BY <2>1 DEF Sensible, Validated, Inside, Asks, Updating
  <2>4. QED
    BY <1>1, <2>1, <2>2, <2>3, QuietInv
<1>4. QED
  BY <1>2, <1>3 DEF FindIssue

LEMMA UpdateIssueInv ==
  ASSUME Inv, NEW r \in Requests, UpdateIssue(r)
  PROVE  Inv'
<1> DEFINE i == reqs[r].source
           st == IF reqs[r].call = "status" THEN [j \in {i} |-> reqs[r].to] ELSE NoFlags
           told == {i} \cup {j \in reqs[r].todo : Live(j)}
           fl == [j \in told |-> IsBlocked(j, rows, Over(st, life))]
           fx == [NoEffect EXCEPT !.status = st, !.flags = fl]
<1>1. reqs[r].at = "update" /\ (backend = "sqlite" => Others(r) = {})
      /\ Unlocked(r, i, reqs[r].call = "status")
  BY DEF UpdateIssue, At
<1>2. reqs[r] \in Handler /\ i \in Issues /\ reqs[r].call \in {"status", "edit"}
      /\ rows \subseteq Row /\ drawn \in 0..MaxRows /\ drawn <= drawn
  <2>1. Sensible(reqs[r], drawn) /\ reqs[r] \in Handler
    BY Context
  <2>2. i \in Issues /\ reqs[r].call \in {"status", "edit"}
    BY <1>1, <2>1 DEF Sensible
  <2> HIDE DEF i
  <2>3. QED
    BY <2>1, <2>2, Context
<1>3. CASE Return(r) /\ DatabaseOnly
  BY <1>3, ReturnInv
<1>4. CASE Live(i) /\ Stage(r, fx) /\ UNCHANGED drawn
  <2>1. /\ st \in Settings /\ (reqs[r].call = "status" => DOMAIN st = {i})
        /\ (reqs[r].call # "status" => DOMAIN st = {})
    <3>1. [j \in {i} |-> reqs[r].to] \in [{i} -> {"open", "done"}] /\ {i} \in SUBSET Issues
      BY <1>2 DEF Handler
    <3>2. CASE reqs[r].call = "status"
      BY <3>1, <3>2, SettingType
    <3>3. CASE reqs[r].call # "status"
      BY <3>3, NothingType
    <3>4. QED
      BY <3>2, <3>3
  <2>2. fl \in Tellings /\ DOMAIN fl = told
        /\ (\A j \in told : fl[j] = IsBlocked(j, rows, Over(st, life)))
    <3>1. told \in SUBSET Issues
      BY <1>2 DEF Handler
    <3>2. \A j \in told : IsBlocked(j, rows, Over(st, life)) \in BOOLEAN
      BY DEF IsBlocked
    <3>3. fl \in [told -> BOOLEAN]
      BY <3>2
    <3>4. QED
      BY <3>1, <3>3, TellingType
  <2>3. \A j \in DOMAIN st : j = i
    BY <2>1
  <2> HIDE DEF st, fl
  <2>4. /\ fx \in Effects /\ fx.born = {} /\ fx.killed = {} /\ fx.added = {} /\ fx.cut = {}
        /\ fx.status = st /\ fx.flags = fl
    BY <2>1, <2>2, NothingType DEF Effects
  <2>5. Updates(fx, st, fl)
    BY DEF Updates
  <2> HIDE DEF fx
  <2>6. PICK h \in Handler : reqs' = [reqs EXCEPT ![r] = h] /\ Opens(r, h, fx)
    BY <1>4, <2>4, StageShape
  <2>7. Staged(h, drawn)
    BY <1>4, <2>3, <2>4, <2>5, <2>6 DEF Staged, Opens
  <2>8. h.call # "parent"
    BY <1>2, <2>6 DEF Opens
  <2>9. ASSUME NEW p \in Requests \ {r} PROVE Apart(h, reqs[p]) /\ Apart(reqs[p], h)
    <3>1. DOMAIN st \cap reqs[p].fx.killed = {}
      BY <1>1, <2>3, Outside DEF Others, Unlocked
    <3>2. QED
      BY <2>4, <2>6, <3>1 DEF Apart, Opens
  <2>10. ASSUME backend = "sqlite" PROVE Exact(h)
    <3>1. ASSUME NEW j \in DOMAIN st, "lookup" \notin Races PROVE BlockedBy(j) \subseteq told
      <4>1. j = i /\ reqs[r].call = "status"
        BY <2>1, <2>3, <3>1
      <4>2. BlockedBy(i) \subseteq reqs[r].todo
        BY <1>1, <2>10, <3>1, <4>1 DEF Inv, Lite, Looked
      <4>3. \A j0 \in BlockedBy(i) : Live(j0)
        BY DEF Inv, Database, Keys, BlockedBy, Ends, LiveSet
      <4>4. QED
        BY <4>1, <4>2, <4>3
    <3>2. QED
      BY <2>2, <2>4, <2>6, <3>1 DEF Exact, Opens
  <2>11. UNCHANGED <<backend, life, rows, replica, flags, touched>> /\ drawn' = drawn
    BY <1>4 DEF Stage
  <2>12. QED
    BY <1>1, <1>2, <2>4, <2>6, <2>7, <2>8, <2>9, <2>10, <2>11, StageInv
<1>5. QED
  BY <1>3, <1>4 DEF UpdateIssue

LEMMA CollectCascadeInv ==
  ASSUME Inv, NEW r \in Requests, NEW i \in Issues, CollectCascade(r, i)
  PROVE  Inv'
<1> DEFINE C == {x \in rows : i \in Ends(x)}
           fx == [NoEffect EXCEPT !.cut = C]
           h == [Idle EXCEPT !.at = "destroy", !.call = "delete", !.source = i, !.fx.cut = C]
<1>1. Live(i) /\ rows \subseteq Row /\ (backend = "sqlite" => Others(r) = {})
      /\ DatabaseOnly /\ reqs' = [reqs EXCEPT ![r] = h]
      /\ drawn \in 0..MaxRows /\ drawn <= drawn
  BY Context DEF CollectCascade, At
<1>2. C \subseteq Row
  BY <1>1
<1>3. h = [Idle EXCEPT !.at = "destroy", !.call = "delete", !.source = i, !.fx = fx]
  BY IdleType
<1> HIDE DEF C
<1>4. /\ fx \in Effects /\ fx.born = {} /\ fx.killed = {} /\ fx.added = {} /\ fx.cut = C
      /\ DOMAIN fx.status = {} /\ fx = [NoEffect EXCEPT !.cut = fx.cut]
  BY <1>2, NothingType DEF Effects
<1> HIDE DEF fx
<1>5. /\ h \in Handler /\ h.at = "destroy" /\ h.call = "delete" /\ h.source = i
      /\ h.type = "none" /\ h.fx = fx
  BY <1>3, <1>4, IdleType DEF Handler, Places, CallKinds
<1> HIDE DEF h
<1>6. Sensible(h, drawn)
  BY <1>1, <1>4, <1>5 DEF Sensible, Live
<1>7. Validated(h) /\ ~Asks(h) /\ ~Updating(h) /\ h.type # "blocks"
  BY <1>5 DEF Validated, Asks, Updating
<1>8. Exact(h)
  BY <1>1, <1>4, <1>5 DEF Exact, C
<1>9. \A p \in Requests \ {r} : Apart(h, reqs[p]) /\ Apart(reqs[p], h)
  BY <1>4, <1>5 DEF Apart
<1>10. Step(r, h, drawn)
  BY <1>1, <1>5, <1>6, <1>7, <1>8, <1>9 DEF Step, DatabaseOnly
<1>11. QED
  BY <1>10, StepInv

LEMMA DeleteIssueInv ==
  ASSUME Inv, NEW r \in Requests, DeleteIssue(r)
  PROVE  Inv'
<1> DEFINE i == reqs[r].source
           C == reqs[r].fx.cut
           fx == [NoEffect EXCEPT !.cut = C, !.killed = {i}]
<1>1. reqs[r].at = "destroy" /\ (backend = "sqlite" => Others(r) = {}) /\ Unlocked(r, i, TRUE)
      /\ Stage(r, [reqs[r].fx EXCEPT !.killed = {i}]) /\ UNCHANGED drawn
  BY DEF DeleteIssue, At
<1>2. /\ reqs[r] \in Handler /\ i \in Issues /\ life[i] # "unborn" /\ reqs[r].call = "delete"
      /\ reqs[r].fx = [NoEffect EXCEPT !.cut = C] /\ drawn \in 0..MaxRows /\ drawn <= drawn
  BY <1>1, Context DEF Sensible
<1>3. C \subseteq Row
  BY <1>2, EffectFields DEF Handler
<1> HIDE DEF C
<1>4. [reqs[r].fx EXCEPT !.killed = {i}] = fx
  BY <1>2, NothingType DEF Effects
<1>5. /\ fx \in Effects /\ fx.born = {} /\ fx.killed = {i} /\ fx.added = {} /\ fx.cut = C
      /\ DOMAIN fx.status = {} /\ DOMAIN fx.flags = {}
  BY <1>2, <1>3, NothingType DEF Effects
<1>6. Deletes(fx, i, fx.cut)
  BY <1>5 DEF Deletes
<1> HIDE DEF fx
<1>7. PICK h \in Handler : reqs' = [reqs EXCEPT ![r] = h] /\ Opens(r, h, fx)
  BY <1>1, <1>4, <1>5, StageShape
<1>8. Staged(h, drawn) /\ h.call # "parent"
  BY <1>2, <1>6, <1>7 DEF Staged, Opens
<1>9. ASSUME NEW p \in Requests \ {r} PROVE Apart(h, reqs[p]) /\ Apart(reqs[p], h)
  <2>1. i \notin DOMAIN reqs[p].fx.status /\ \A x \in reqs[p].fx.added : i \notin Ends(x)
    BY <1>1, Outside DEF Others, Unlocked
  <2>2. QED
    BY <1>5, <1>7, <2>1 DEF Apart, Opens
<1>10. ASSUME backend = "sqlite" PROVE Exact(h)
  <2>1. Live(i) /\ C = {x \in rows : i \in Ends(x)}
    BY <1>1, <1>10 DEF Inv, Lite, Exact, C
  <2>2. QED
    BY <1>5, <1>7, <2>1 DEF Exact, Opens
<1>11. UNCHANGED <<backend, life, rows, replica, flags, touched>> /\ drawn' = drawn
  BY <1>1 DEF Stage
<1>12. QED
  BY <1>1, <1>2, <1>5, <1>7, <1>8, <1>9, <1>10, <1>11, StageInv

-----------------------------------------------------------------------------
(***************************************************************************)
(* Rows.                                                                   *)
(***************************************************************************)
LEMMA ValidateInv ==
  ASSUME Inv, NEW r \in Requests, NEW want \in Handler, Validate(r, want), DatabaseOnly,
         want.fx = NoEffect, want.type \in RowTypes \ {"comment"}, want.call \in {"relate", "parent"},
         want.source \in Issues, want.target \in Issues, want.type = "blocks" => want.seen = {},
         "overlap" \notin Races => \A p \in Requests \ {r} : ~Relating(p),
         "lookup" \notin Races /\ want.type = "blocks" =>
           \/ reqs[r].type = "blocks"
           \/ \A p \in Requests \ {r} : ~Updating(reqs[p])
  PROVE  Inv'
<1> DEFINE place == CASE want.type \in {"blocks", "parent"} -> "walk"
                      [] want.type = "duplicate" -> "single"
                      [] OTHER -> "insert"
           first == CASE want.type = "blocks" -> {want.target}
                      [] want.type = "parent" -> {want.source}
                      [] OTHER -> {}
           h == [want EXCEPT !.at = place, !.todo = first]
<1>1. CASE Return(r)
  BY <1>1, ReturnInv
<1>2. CASE want.source # want.target /\ reqs' = [reqs EXCEPT ![r] = h]
  <2>1. /\ place \in {"walk", "single", "insert"}
        /\ place = "walk" <=> want.type \in {"blocks", "parent"}
        /\ place = "single" <=> want.type = "duplicate"
    OBVIOUS
  <2>2. /\ first \in SUBSET Issues
        /\ want.type = "blocks" => first = {want.target}
        /\ want.type = "parent" => first = {want.source}
    OBVIOUS
  <2> HIDE DEF place, first
  <2>3. /\ h \in Handler /\ h.at = place /\ h.todo = first /\ h.type = want.type
        /\ h.call = want.call /\ h.source = want.source /\ h.target = want.target
        /\ h.fx = NoEffect /\ h.seen = want.seen
    BY <2>1, <2>2 DEF Handler, Places
  <2>4. reqs' = [reqs EXCEPT ![r] = h]
    BY <1>2
  <2> HIDE DEF h
  <2>5. Sensible(h, drawn) /\ ~Inside(h) /\ ~Updating(h)
    BY <1>2, <2>1, <2>3 DEF Sensible, Wants, Inside, Updating
  <2>6. Validated(h)
    <3>1. CASE want.type = "blocks"
      <4>1. WalkedDown(h)
        BY <2>2, <2>3, <3>1 DEF WalkedDown
      <4>2. QED
        BY <2>1, <2>3, <3>1, <4>1 DEF Validated
    <3>2. CASE want.type = "parent"
      <4>1. WalkedUp(h)
        <5>1. /\ h.todo = {want.source} /\ want.source \in {want.source}
              /\ want.target \notin {want.source} /\ {want.source} \in SUBSET Issues
              /\ \A x \in Typed("parent") : x.target \in {want.source} \ {want.source}
                                            => x.source \in {want.source}
          BY <1>2, <2>2, <2>3, <3>2
        <5>2. QED
          BY <2>3, <5>1 DEF WalkedUp
      <4>2. QED
        BY <2>1, <2>3, <3>2, <4>1 DEF Validated
    <3>3. CASE want.type \notin {"blocks", "parent"}
      <4>1. h.at = "insert" => h.type # "duplicate"
        BY <2>1, <2>3
      <4>2. QED
        BY <2>1, <2>3, <3>3, <4>1 DEF Validated, Checked, Single
    <3>4. QED
      BY <3>1, <3>2, <3>3
  <2>7. QED
    BY <2>3, <2>4, <2>5, <2>6, QuietInv
<1>3. QED
  BY <1>1, <1>2 DEF Validate

LEMMA MayRelateClear ==
  ASSUME NEW r \in Requests, MayRelate(r)
  PROVE  /\ "overlap" \notin Races => \A p \in Requests \ {r} : ~Relating(p)
         /\ "lookup" \notin Races => \A p \in Requests : ~Updating(reqs[p])
BY DEF MayRelate, Updating

LEMMA AskRelationInv ==
  ASSUME Inv, NEW r \in Requests, NEW t \in RowTypes, NEW s \in Issues, NEW d \in Issues,
         AskRelation(r, t, s, d)
  PROVE  Inv'
<1> DEFINE want == [Idle EXCEPT !.call = "relate", !.type = t, !.source = s, !.target = d]
<1>1. Validate(r, want) /\ DatabaseOnly /\ MayRelate(r) /\ t # "comment"
  BY DEF AskRelation
<1>2. /\ want \in Handler /\ want.fx = NoEffect /\ want.type = t /\ want.call = "relate"
      /\ want.source = s /\ want.target = d /\ want.seen = {}
  <2>1. Idle.seen = {}
    BY DEF Idle
  <2>2. QED
    BY <2>1, IdleType DEF Handler, CallKinds
<1> HIDE DEF want
<1>3. QED
  BY <1>1, <1>2, MayRelateClear, ValidateInv

LEMMA FindParentInv ==
  ASSUME Inv, NEW r \in Requests, NEW s \in Issues, NEW d \in Issues, FindParent(r, s, d)
  PROVE  Inv'
<1> DEFINE wanted == [Idle EXCEPT !.call = "parent", !.type = "parent", !.source = s, !.target = d]
<1>1. DatabaseOnly /\ MayRelate(r) /\ "parent" \in RowTypes /\ rows \subseteq Row
  BY Context DEF FindParent
<1>2. /\ wanted \in Handler /\ wanted.fx = NoEffect /\ wanted.type = "parent"
      /\ wanted.call = "parent" /\ wanted.source = s /\ wanted.target = d
  BY <1>1, IdleType DEF Handler, CallKinds
<1>3. CASE Validate(r, wanted)
  <2> HIDE DEF wanted
  <2>1. QED
    BY <1>1, <1>2, <1>3, MayRelateClear, ValidateInv
<1>4. CASE \E x \in rows : reqs' = [reqs EXCEPT ![r] = [wanted EXCEPT !.at = "cut", !.id = x.id]]
  <2>1. PICK x \in rows : reqs' = [reqs EXCEPT ![r] = [wanted EXCEPT !.at = "cut", !.id = x.id]]
    BY <1>4
  <2> DEFINE h == [wanted EXCEPT !.at = "cut", !.id = x.id]
  <2> HIDE DEF wanted
  <2>2. x.id \in Nat
    BY <1>1 DEF Row
  <2>3. /\ h \in Handler /\ h.at = "cut" /\ h.fx = NoEffect /\ h.type = "parent"
        /\ h.call = "parent" /\ h.source = s /\ h.target = d
    BY <1>2, <2>2 DEF Handler, Places
  <2>4. reqs' = [reqs EXCEPT ![r] = h]
    BY <2>1
  <2> HIDE DEF h
  <2>5. Sensible(h, drawn) /\ ~Inside(h) /\ ~Updating(h) /\ Validated(h)
    BY <1>1, <2>3 DEF Sensible, Inside, Updating, Validated
  <2>6. QED
    BY <1>1, <2>3, <2>4, <2>5, MayRelateClear, QuietInv
<1>5. QED
  BY <1>3, <1>4 DEF FindParent

LEMMA CheckEndsInv ==
  ASSUME Inv, NEW r \in Requests, CheckEnds(r)
  PROVE  Inv'
<1>1. Validate(r, reqs[r]) /\ DatabaseOnly /\ reqs[r].at = "check"
  BY DEF CheckEnds, At
<1>2. /\ reqs[r] \in Handler /\ reqs[r].fx = NoEffect /\ reqs[r].type = "parent"
      /\ "parent" \in RowTypes /\ reqs[r].call = "parent"
      /\ reqs[r].source \in Issues /\ reqs[r].target \in Issues
  BY <1>1, Context DEF Sensible
<1>3. "overlap" \notin Races => \A p \in Requests \ {r} : ~Relating(p)
  BY <1>2 DEF Inv, Graph, Relating
<1>4. QED
  BY <1>1, <1>2, <1>3, ValidateInv

\* A place a validation goes on to, with what it looked at forgotten.
LEMMA GotoInv ==
  ASSUME Inv, NEW r \in Requests, NEW place \in {"single", "insert"}, Goto(r, place),
         DatabaseOnly, reqs[r].at \in {"walk", "single"}, reqs[r].type # "comment",
         place = "single" => reqs[r].type \in {"parent", "duplicate"},
         "overlap" \notin Races =>
           /\ reqs[r].type = "parent" \/ (place = "insert" /\ reqs[r].type = "blocks") =>
                Separate(reqs[r])
           /\ place = "insert" => Single(reqs[r])
  PROVE  Inv'
<1> DEFINE h == [reqs[r] EXCEPT !.at = place, !.id = 0, !.todo = {}, !.seen = {}, !.hops = 0]
<1>1. reqs' = [reqs EXCEPT ![r] = h] /\ reqs[r] \in Handler /\ Sensible(reqs[r], drawn)
  BY Context DEF Goto
<1>2. reqs[r].fx = NoEffect /\ Wants(reqs[r])
  BY <1>1 DEF Sensible
<1>3. /\ h \in Handler /\ h.at = place /\ h.type = reqs[r].type /\ h.call = reqs[r].call
      /\ h.source = reqs[r].source /\ h.target = reqs[r].target /\ h.fx = NoEffect
  BY <1>1, <1>2 DEF Handler, Places
<1> HIDE DEF h
<1>4. Sensible(h, drawn) /\ ~Inside(h) /\ ~Updating(h)
  BY <1>2, <1>3 DEF Sensible, Wants, Inside, Updating
<1>5. ASSUME "overlap" \notin Races PROVE Validated(h)
  <2>1. (Separate(reqs[r]) => Separate(h)) /\ (Single(reqs[r]) => Single(h))
    BY <1>3 DEF Separate, Single
  <2>2. QED
    BY <1>3, <1>5, <2>1 DEF Validated, Checked
<1>6. Asks(h) => Relating(r)
  BY <1>3 DEF Asks, Relating
<1>7. ("overlap" \notin Races => \A q, p \in Requests : Relating(q) /\ Relating(p) => q = p)
  BY DEF Inv, Graph
<1>8. QED
  BY <1>1, <1>3, <1>4, <1>5, <1>6, <1>7, QuietInv

LEMMA WalkBlockedInv ==
  ASSUME Inv, NEW r \in Requests, WalkBlocked(r)
  PROVE  Inv'
<1>1. /\ DatabaseOnly /\ reqs[r].at = "walk" /\ reqs[r].type = "blocks" /\ reqs[r] \in Handler
      /\ Sensible(reqs[r], drawn) /\ rows \subseteq Row
  BY Context DEF WalkBlocked, At
<1>2. reqs[r].fx = NoEffect /\ Wants(reqs[r])
  BY <1>1 DEF Sensible
<1>3. "overlap" \notin Races => WalkedDown(reqs[r])
  BY <1>1 DEF Inv, Graph, Validated
<1>4. CASE reqs[r].todo = {} /\ Goto(r, "insert")
  <2>1. ASSUME "overlap" \notin Races PROVE Separate(reqs[r]) /\ Single(reqs[r])
    <3>1. reqs[r].seen \in SUBSET Issues
      BY <1>1 DEF Handler
    <3>2. QED
      BY <1>1, <1>3, <1>4, <2>1, <3>1 DEF WalkedDown, Separate, Single
  <2>2. QED
    BY <1>1, <1>4, <2>1, GotoInv
<1>5. ASSUME NEW i \in reqs[r].todo, i # reqs[r].source,
             reqs' = [reqs EXCEPT ![r].seen = @ \cup {i},
                                  ![r].todo = (@ \cup BlockedBy(i)) \ (reqs[r].seen \cup {i})]
      PROVE  Inv'
  <2> DEFINE seen == reqs[r].seen \cup {i}
             todo == (reqs[r].todo \cup BlockedBy(i)) \ seen
             h == [reqs[r] EXCEPT !.seen = seen, !.todo = todo]
  <2>1. reqs' = [reqs EXCEPT ![r] = h]
    BY <1>1, <1>5, Context DEF Handler
  <2>2. seen \in SUBSET Issues /\ todo \in SUBSET Issues
    BY <1>1 DEF Handler, BlockedBy, Row
  <2>3. /\ seen = reqs[r].seen \cup {i} /\ todo = (reqs[r].todo \cup BlockedBy(i)) \ seen
    OBVIOUS
  <2> HIDE DEF seen, todo
  <2>4. /\ h \in Handler /\ h.at = "walk" /\ h.type = "blocks" /\ h.call = reqs[r].call
        /\ h.source = reqs[r].source /\ h.target = reqs[r].target /\ h.fx = NoEffect
        /\ h.seen = seen /\ h.todo = todo
    BY <1>1, <1>2, <2>2 DEF Handler
  <2> HIDE DEF h
  <2>5. Sensible(h, drawn) /\ ~Inside(h) /\ ~Updating(h)
    BY <1>1, <1>2, <2>4 DEF Sensible, Wants, Inside, Updating
  <2>6. ASSUME "overlap" \notin Races PROVE WalkedDown(h)
    <3>1. h.target \in todo \cup seen /\ h.source \notin seen
      BY <1>3, <1>5, <2>3, <2>4, <2>6 DEF WalkedDown
    <3>2. ASSUME NEW x \in Typed("blocks"), x.source \in seen PROVE x.target \in todo \cup seen
      <4>1. CASE x.source = i
        <5>1. x.target \in BlockedBy(i)
          BY <4>1 DEF BlockedBy, Typed
        <5>2. QED
          BY <2>3, <5>1
      <4>2. CASE x.source \in reqs[r].seen
        BY <1>3, <2>3, <2>6, <4>2 DEF WalkedDown
      <4>3. QED
        BY <2>3, <3>2, <4>1, <4>2
    <3>3. QED
      BY <2>4, <3>1, <3>2 DEF WalkedDown
  <2>7. "overlap" \notin Races => Validated(h)
    BY <2>4, <2>6 DEF Validated
  <2>8. "overlap" \notin Races => (Asks(h) => \A p \in Requests \ {r} : ~Relating(p))
    BY <2>4 DEF Inv, Graph, Asks, Relating
  <2>9. QED
    BY <1>1, <2>1, <2>4, <2>5, <2>7, <2>8, QuietInv
<1>6. QED
  BY <1>1, <1>4, <1>5, ReturnInv DEF WalkBlocked

LEMMA WalkParentsInv ==
  ASSUME Inv, NEW r \in Requests, WalkParents(r)
  PROVE  Inv'
<1>1. /\ DatabaseOnly /\ reqs[r].at = "walk" /\ reqs[r].type = "parent" /\ reqs[r] \in Handler
      /\ Sensible(reqs[r], drawn) /\ rows \subseteq Row
  BY Context DEF WalkParents, At
<1>2. reqs[r].fx = NoEffect /\ Wants(reqs[r])
  BY <1>1 DEF Sensible
<1>3. "overlap" \notin Races =>
        WalkedUp(reqs[r]) /\ \A x, y \in Typed("parent") : x.target = y.target => x = y
  BY <1>1 DEF Inv, Graph, Validated
<1> DEFINE Up(i) == {x.source : x \in {y \in rows : y.type = "parent" /\ y.target = i}}
<1>4. ASSUME NEW i \in reqs[r].todo, Up(i) = {}, Goto(r, "single") PROVE Inv'
  <2>1. ASSUME "overlap" \notin Races PROVE Separate(reqs[r])
    <3>1. PICK j \in Issues, W \in SUBSET Issues :
            /\ reqs[r].todo = {j} /\ j \in W
            /\ reqs[r].source \in W /\ reqs[r].target \notin W
            /\ \A x \in Typed("parent") : x.target \in W \ {j} => x.source \in W
      BY <1>3, <2>1 DEF WalkedUp
    <3>2. i = j
      BY <3>1
    <3>3. \A x \in Typed("parent") : x.target # i
      BY <1>4 DEF Typed
    <3>4. \A x \in Typed("parent") : x.source \in Issues \ W => x.target \in Issues \ W
      BY <1>1, <3>1, <3>2, <3>3 DEF Typed, Row
    <3>5. reqs[r].target \in Issues \ W /\ reqs[r].source \notin Issues \ W
          /\ Issues \ W \in SUBSET Issues
      BY <1>2, <3>1 DEF Wants
    <3>6. QED
      BY <1>1, <3>4, <3>5 DEF Separate
  <2>2. QED
    BY <1>1, <1>4, <2>1, GotoInv
<1>5. ASSUME NEW i \in reqs[r].todo, NEW p \in Up(i), p # reqs[r].target,
             reqs' = [reqs EXCEPT ![r].todo = {p}, ![r].hops = @ + 1]
      PROVE  Inv'
  <2> DEFINE up == reqs[r].hops + 1
             h == [reqs[r] EXCEPT !.todo = {p}, !.hops = up]
  <2>1. reqs' = [reqs EXCEPT ![r] = h]
    BY <1>1, <1>5, Context DEF Handler
  <2>2. p \in Issues /\ up \in Nat
    BY <1>1 DEF Row, Handler
  <2> HIDE DEF up
  <2>3. /\ h \in Handler /\ h.at = "walk" /\ h.type = "parent" /\ h.call = reqs[r].call
        /\ h.source = reqs[r].source /\ h.target = reqs[r].target /\ h.fx = NoEffect
        /\ h.todo = {p}
    BY <1>1, <1>2, <2>2 DEF Handler
  <2> HIDE DEF h
  <2>4. Sensible(h, drawn) /\ ~Inside(h) /\ ~Updating(h)
    BY <1>1, <1>2, <2>3 DEF Sensible, Wants, Inside, Updating
  <2>5. ASSUME "overlap" \notin Races PROVE WalkedUp(h)
    <3>1. PICK j \in Issues, W \in SUBSET Issues :
            /\ reqs[r].todo = {j} /\ j \in W
            /\ reqs[r].source \in W /\ reqs[r].target \notin W
            /\ \A x \in Typed("parent") : x.target \in W \ {j} => x.source \in W
      BY <1>3, <2>5 DEF WalkedUp
    <3>2. i = j
      BY <3>1
    <3>3. PICK y \in Typed("parent") : y.target = i /\ y.source = p
      BY DEF Typed
    <3>4. \A x \in Typed("parent") : x.target = i => x = y
      BY <1>3, <2>5, <3>3
    <3>5. ASSUME NEW x \in Typed("parent"), x.target \in W \cup {p}, x.target # p
          PROVE  x.source \in W \cup {p}
      BY <3>1, <3>2, <3>3, <3>4, <3>5
    <3>6. W \cup {p} \in SUBSET Issues /\ p \in W \cup {p}
          /\ reqs[r].source \in W \cup {p} /\ reqs[r].target \notin W \cup {p}
      BY <1>5, <2>2, <3>1
    <3>7. QED
      BY <2>2, <2>3, <3>5, <3>6 DEF WalkedUp
  <2>6. "overlap" \notin Races => Validated(h)
    BY <2>3, <2>5 DEF Validated
  <2>7. "overlap" \notin Races => (Asks(h) => \A q \in Requests \ {r} : ~Relating(q))
    BY <2>3 DEF Inv, Graph, Asks, Relating
  <2>8. QED
    BY <1>1, <2>1, <2>3, <2>4, <2>6, <2>7, QuietInv
<1>6. QED
  BY <1>1, <1>4, <1>5, ReturnInv DEF WalkParents

LEMMA CheckSingleInv ==
  ASSUME Inv, NEW r \in Requests, CheckSingle(r)
  PROVE  Inv'
<1> DEFINE taken == \E x \in rows : x.type = reqs[r].type
                      /\ (IF reqs[r].type = "parent" THEN x.target = reqs[r].target
                                                     ELSE x.source = reqs[r].source)
<1>1. /\ DatabaseOnly /\ reqs[r].at = "single" /\ Sensible(reqs[r], drawn)
      /\ IF taken THEN Return(r) ELSE Goto(r, "insert")
  BY Context DEF CheckSingle, At
<1>2. reqs[r].type \in {"parent", "duplicate"}
  BY <1>1 DEF Sensible
<1>3. CASE ~taken /\ Goto(r, "insert")
  <2>1. Single(reqs[r])
    BY <1>2, <1>3 DEF Single, Typed
  <2>2. "overlap" \notin Races => (reqs[r].type = "parent" => Separate(reqs[r]))
    BY <1>1 DEF Inv, Graph, Validated
  <2> HIDE DEF taken
  <2>3. QED
    BY <1>1, <1>2, <1>3, <2>1, <2>2, GotoInv
<1>4. QED
  BY <1>1, <1>3, ReturnInv

LEMMA AskCommentInv ==
  ASSUME Inv, NEW r \in Requests, NEW i \in Issues, AskComment(r, i)
  PROVE  Inv'
<1> DEFINE h == [Idle EXCEPT !.at = "insert", !.call = "comment", !.type = "comment",
                             !.source = i, !.target = i]
<1>1. reqs' = [reqs EXCEPT ![r] = h] /\ DatabaseOnly /\ "comment" \in RowTypes
  BY DEF AskComment
<1>2. /\ h \in Handler /\ h.at = "insert" /\ h.call = "comment" /\ h.type = "comment"
      /\ h.source = i /\ h.target = i /\ h.fx = NoEffect
  BY <1>1, IdleType DEF Handler, Places, CallKinds
<1> HIDE DEF h
<1>3. Sensible(h, drawn) /\ ~Inside(h) /\ ~Updating(h) /\ ~Asks(h)
  BY <1>1, <1>2 DEF Sensible, Wants, Inside, Updating, Asks
<1>4. Validated(h)
  BY <1>2 DEF Validated, Checked, Single
<1>5. QED
  BY <1>1, <1>2, <1>3, <1>4, QuietInv

LEMMA DeleteRelationInv ==
  ASSUME Inv, NEW r \in Requests, NEW m \in 1..MaxRows, DeleteRelation(r, m)
  PROVE  Inv'
<1>1. /\ reqs[r].at \in {"idle", "cut"} /\ (backend = "sqlite" => Others(r) = {})
      /\ reqs[r] \in Handler /\ Sensible(reqs[r], drawn) /\ rows \subseteq Row
  BY Context DEF DeleteRelation, At
<1>2. ASSUME NEW x \in rows, Stage(r, [NoEffect EXCEPT !.cut = {x}]), UNCHANGED drawn
      PROVE  Inv'
  <2> DEFINE fx == [NoEffect EXCEPT !.cut = {x}]
  <2>1. /\ fx \in Effects /\ fx.born = {} /\ fx.killed = {} /\ fx.added = {} /\ fx.cut = {x}
        /\ DOMAIN fx.status = {} /\ DOMAIN fx.flags = {}
    BY <1>1, NothingType DEF Effects
  <2>2. x \in Row /\ Unlinks(fx, x) /\ Stage(r, fx)
    BY <1>1, <1>2 DEF Unlinks
  <2> HIDE DEF fx
  <2>3. PICK h \in Handler : reqs' = [reqs EXCEPT ![r] = h] /\ Opens(r, h, fx)
    BY <2>1, <2>2, StageShape
  <2>4. Staged(h, drawn)
    BY <2>2, <2>3 DEF Staged, Opens
  <2>5. h.call = "parent" => /\ h.type = "parent" /\ "parent" \in RowTypes
                             /\ h.source \in Issues /\ h.target \in Issues
    BY <1>1, <2>3, IdleType DEF Sensible, Opens
  <2>6. \A p \in Requests \ {r} : Apart(h, reqs[p]) /\ Apart(reqs[p], h)
    BY <2>1, <2>3 DEF Apart, Opens
  <2>7. Exact(h)
    BY <1>2, <2>1, <2>3 DEF Exact, Opens
  <2>8. UNCHANGED <<backend, life, rows, replica, flags, touched>> /\ drawn' = drawn
        /\ drawn \in 0..MaxRows /\ drawn <= drawn
    BY <1>2, Context DEF Stage
  <2>9. QED
    BY <1>1, <2>1, <2>2, <2>3, <2>4, <2>5, <2>6, <2>7, <2>8, StageInv
<1>3. QED
  BY <1>2, ReturnInv DEF DeleteRelation

LEMMA InsertRowInv ==
  ASSUME Inv, NEW r \in Requests, InsertRow(r)
  PROVE  Inv'
<1> DEFINE x == NewRow(r)
           fx == [NoEffect EXCEPT !.added = {x}]
           n == drawn + 1
<1>1. /\ reqs[r].at = "insert" /\ (backend = "sqlite" => Others(r) = {})
      /\ \A i \in Ends(reqs[r]) : Unlocked(r, i, FALSE)
      /\ reqs[r] \in Handler /\ Sensible(reqs[r], drawn) /\ rows \subseteq Row
  BY Context DEF InsertRow, At
<1>2. CASE Return(r) /\ DatabaseOnly
  BY <1>2, ReturnInv
<1>3. CASE /\ Ends(reqs[r]) \subseteq LiveSet /\ (\A y \in rows : ~Same(x, y))
           /\ AddRow(r)
  <2>1. Wants(reqs[r])
    BY <1>1 DEF Sensible
  <2>2. /\ n \in 0..MaxRows /\ n \in 1..MaxRows /\ drawn <= n /\ drawn \in Nat /\ drawn' = n
        /\ \A k \in Nat : k <= drawn => k # n /\ k <= n
    BY <1>3, Context DEF AddRow
  <2>3. Stage(r, fx) /\ x = [id |-> n, type |-> reqs[r].type, source |-> reqs[r].source,
                             target |-> reqs[r].target]
    BY <1>3 DEF AddRow, NewRow
  <2> HIDE DEF n, x
  <2>4. /\ x \in Row /\ x.id = n /\ x.type = reqs[r].type
        /\ x.source = reqs[r].source /\ x.target = reqs[r].target /\ Ends(x) = Ends(reqs[r])
    BY <2>1, <2>2, <2>3 DEF Row, Wants, Ends
  <2>5. /\ fx \in Effects /\ fx.born = {} /\ fx.killed = {} /\ fx.added = {x} /\ fx.cut = {}
        /\ DOMAIN fx.status = {} /\ DOMAIN fx.flags = {} /\ Links(fx, x)
    BY <2>4, NothingType DEF Effects, Links
  <2> HIDE DEF fx
  <2>6. PICK h \in Handler : reqs' = [reqs EXCEPT ![r] = h] /\ Opens(r, h, fx)
    BY <2>3, <2>5, StageShape
  <2>7. \A y \in rows : y.id # n
    <3>1. \A y \in rows : y.id \in Nat /\ y.id <= drawn
      BY <1>1 DEF Row, Inv, Database, Keys
    <3>2. QED
      BY <2>2, <3>1
  <2>8. Staged(h, n)
    <3>1. Wants(h) /\ Links(h.fx, x)
      BY <2>1, <2>5, <2>6 DEF Wants, Opens
    <3>2. x.id <= n
      BY <2>2, <2>4
    <3>3. QED
      BY <1>3, <2>4, <2>6, <2>7, <3>1, <3>2 DEF Staged, Opens
  <2>9. ASSUME NEW p \in Requests \ {r} PROVE Apart(h, reqs[p]) /\ Apart(reqs[p], h)
    <3>1. Ends(x) \cap reqs[p].fx.killed = {}
      BY <1>1, <2>4, Outside DEF Others, Unlocked
    <3>2. \A y \in reqs[p].fx.added : y.id # n
      <4>1. CASE ~InTransaction(p)
        BY <4>1, Outside
      <4>2. CASE reqs[p].at = "destroy"
        <5>1. reqs[p].fx.added = {}
          <6>1. reqs[p].fx = [NoEffect EXCEPT !.cut = reqs[p].fx.cut]
            BY <4>2, Context DEF Sensible
          <6>2. QED
            BY <6>1, NothingType DEF Effects
        <5>2. QED
          BY <5>1
      <4>3. CASE reqs[p].at = "commit"
        <5>1. Staged(reqs[p], drawn)
          BY <4>3, Context DEF Sensible
        <5>2. ASSUME reqs[p].fx.added # {}
              PROVE  \E z \in Row : Links(reqs[p].fx, z) /\ z.id <= drawn
          BY <5>1, <5>2, Kinds, Zenon DEF Staged
        <5>3. ASSUME NEW y \in reqs[p].fx.added PROVE y \in Row /\ y.id <= drawn
          <6>1. PICK z \in Row : Links(reqs[p].fx, z) /\ z.id <= drawn
            BY <5>2
          <6>2. reqs[p].fx.added = {z}
            BY <6>1, Kinds, Zenon
          <6>3. QED
            BY <6>1, <6>2
        <5>4. QED
          BY <2>2, <5>3 DEF Row
      <4>4. QED
        BY <4>1, <4>2, <4>3 DEF InTransaction
    <3>3. QED
      BY <2>4, <2>5, <2>6, <3>1, <3>2 DEF Apart, Opens
  <2>10. Exact(h)
    BY <2>5, <2>6 DEF Exact, Opens
  <2>11. ASSUME "overlap" \notin Races
         PROVE  Checked(h) /\ \A z \in fx.added : \A y \in rows : ~Same(z, y)
    <3>1. Checked(reqs[r])
      BY <1>1, <2>11 DEF Inv, Graph, Validated
    <3>2. Checked(h)
      BY <2>6, <3>1 DEF Checked, Separate, Single, Opens
    <3>3. QED
      BY <1>3, <2>5, <3>2
  <2>12. UNCHANGED <<backend, life, rows, replica, flags, touched>>
    BY <2>3 DEF Stage
  <2>13. QED
    BY <1>1, <2>2, <2>5, <2>6, <2>8, <2>9, <2>10, <2>11, <2>12, StageInv
<1>4. QED
  BY <1>2, <1>3 DEF InsertRow

LEMMA AbandonInv ==
  ASSUME Inv, NEW r \in Requests, Abandon(r)
  PROVE  Inv'
BY ReturnInv DEF Abandon

-----------------------------------------------------------------------------
(***************************************************************************)
(* The commit.                                                             *)
(***************************************************************************)

\* What a transaction has staged is one thing of one kind.
LEMMA StagedFacts ==
  ASSUME Inv, NEW r \in Requests, NEW fx, fx = reqs[r].fx, reqs[r].at = "commit"
  PROVE  /\ fx \in Effects
         /\ \A i \in fx.born : life[i] = "unborn" /\ i \in DOMAIN fx.flags /\ fx.flags[i] = FALSE
         /\ \A i \in fx.killed : life[i] # "unborn"
         /\ \A i \in DOMAIN fx.status : Live(i)
         /\ \A x \in fx.added : /\ fx.added = {x} /\ x \in Row /\ Wants(reqs[r])
                                /\ x.type = reqs[r].type /\ x.source = reqs[r].source
                                /\ x.target = reqs[r].target
                                /\ Ends(x) \subseteq LiveSet /\ x.id <= drawn
                                /\ \A y \in rows : y.id # x.id
         /\ fx.born # {} => fx.killed = {} /\ fx.added = {} /\ fx.cut = {}
         /\ fx.added # {} => fx.killed = {} /\ fx.born = {} /\ fx.cut = {}
         /\ DOMAIN fx.status # {} \/ DOMAIN fx.flags # {} =>
              fx.killed = {} /\ fx.added = {} /\ fx.cut = {}
         /\ fx.born # {} \/ fx.killed # {} \/ fx.added # {} => DOMAIN fx.status = {}
<1>1. reqs[r] \in Handler /\ Staged(reqs[r], drawn) /\ fx \in Effects
  BY Context DEF Sensible, Handler
<1>2. CASE \E i \in Issues : Creates(fx, i) /\ life[i] = "unborn"
  <2>1. PICK i \in Issues : Creates(fx, i) /\ life[i] = "unborn"
    BY <1>2
  <2>2. /\ fx.born = {i} /\ fx.killed = {} /\ fx.added = {} /\ fx.cut = {}
        /\ DOMAIN fx.status = {} /\ DOMAIN fx.flags = {i} /\ fx.flags[i] = FALSE
    BY <2>1, Kinds, Zenon
  <2>3. QED
    BY <1>1, <2>1, <2>2
<1>3. CASE Updates(fx, fx.status, fx.flags) /\ \A i \in DOMAIN fx.status : Live(i)
  <2>1. fx.born = {} /\ fx.killed = {} /\ fx.added = {} /\ fx.cut = {}
    BY <1>3, Kinds, Zenon
  <2>2. QED
    BY <1>1, <1>3, <2>1
<1>4. CASE \E i \in Issues : Deletes(fx, i, fx.cut) /\ life[i] # "unborn"
  <2>1. PICK i \in Issues : Deletes(fx, i, fx.cut) /\ life[i] # "unborn"
    BY <1>4
  <2>2. /\ fx.born = {} /\ fx.killed = {i} /\ fx.added = {}
        /\ DOMAIN fx.status = {} /\ DOMAIN fx.flags = {}
    BY <2>1, Kinds, Zenon
  <2>3. QED
    BY <1>1, <2>1, <2>2
<1>5. CASE \E x \in Row : /\ Links(fx, x) /\ Wants(reqs[r])
                          /\ x.type = reqs[r].type /\ x.source = reqs[r].source
                          /\ x.target = reqs[r].target
                          /\ Ends(x) \subseteq LiveSet /\ x.id <= drawn
                          /\ \A y \in rows : y.id # x.id
  <2>1. PICK x \in Row : /\ Links(fx, x) /\ Wants(reqs[r])
                         /\ x.type = reqs[r].type /\ x.source = reqs[r].source
                         /\ x.target = reqs[r].target
                         /\ Ends(x) \subseteq LiveSet /\ x.id <= drawn
                         /\ \A y \in rows : y.id # x.id
    BY <1>5
  <2>2. /\ fx.born = {} /\ fx.killed = {} /\ fx.added = {x} /\ fx.cut = {}
        /\ DOMAIN fx.status = {} /\ DOMAIN fx.flags = {}
    BY <2>1, Kinds, Zenon
  <2>3. QED
    BY <1>1, <2>1, <2>2
<1>6. CASE \E x \in Row : Unlinks(fx, x)
  <2>1. PICK x \in Row : Unlinks(fx, x)
    BY <1>6
  <2>2. /\ fx.born = {} /\ fx.killed = {} /\ fx.added = {} /\ fx.cut = {x}
        /\ DOMAIN fx.status = {} /\ DOMAIN fx.flags = {}
    BY <2>1, Kinds, Zenon
  <2>3. QED
    BY <1>1, <2>1, <2>2
<1>7. QED
  BY <1>1, <1>2, <1>3, <1>4, <1>5, <1>6 DEF Staged

\* A row that is staged is the one its handler wants.
LEMMA StagedRow ==
  ASSUME Inv, NEW r \in Requests, reqs[r].at = "commit", NEW x \in reqs[r].fx.added
  PROVE  /\ reqs[r].fx.added = {x} /\ x \in Row /\ Wants(reqs[r])
         /\ x.type = reqs[r].type /\ x.source = reqs[r].source /\ x.target = reqs[r].target
         /\ Ends(x) \subseteq LiveSet
<1>1. PICK fx : fx = reqs[r].fx
  OBVIOUS
<1>2. x \in fx.added
  BY <1>1
<1>3. /\ fx.added = {x} /\ x \in Row /\ Wants(reqs[r])
      /\ x.type = reqs[r].type /\ x.source = reqs[r].source /\ x.target = reqs[r].target
      /\ Ends(x) \subseteq LiveSet
  BY <1>1, <1>2, StagedFacts, ZenonT(30)
<1>4. QED
  BY <1>1, <1>3

\* Lives after a commit.
LEMMA LifeAfter ==
  ASSUME Inv, NEW r \in Requests, Commit(r), NEW fx, fx = reqs[r].fx
  PROVE  /\ life' \in [Issues -> {"unborn", "open", "done", "deleted"}]
         /\ \A i \in Issues :
              /\ Live(i)' <=> i \in fx.born \/ (Live(i) /\ i \notin fx.killed)
              /\ life[i] = "unborn" /\ i \notin fx.born => life'[i] = "unborn"
              /\ life[i] # "unborn" => life'[i] # "unborn"
              /\ i \in DOMAIN fx.status => life'[i] = fx.status[i]
              /\ i \notin fx.born \cup fx.killed \cup DOMAIN fx.status => life'[i] = life[i]
<1>1. reqs[r].at = "commit"
      /\ life' = [i \in Issues |-> IF i \in fx.born THEN "open"
                                   ELSE IF i \in fx.killed THEN "deleted"
                                   ELSE IF i \in DOMAIN fx.status THEN fx.status[i]
                                   ELSE life[i]]
  BY DEF Commit, At
<1>2. /\ \A i \in fx.born : life[i] = "unborn"
      /\ \A i \in fx.killed : life[i] # "unborn"
      /\ \A i \in DOMAIN fx.status : Live(i)
      /\ fx.born # {} => fx.killed = {}
      /\ fx.born # {} \/ fx.killed # {} => DOMAIN fx.status = {}
      /\ fx \in Effects
  BY <1>1, StagedFacts
<1>3. \A i \in DOMAIN fx.status : fx.status[i] \in {"open", "done"}
  BY <1>2, EffectFields
<1>4. life \in [Issues -> {"unborn", "open", "done", "deleted"}]
  BY Context
<1>5. QED
  BY <1>1, <1>2, <1>3, <1>4 DEF Live

\* Rows after a commit.
LEMMA RowsAfter ==
  ASSUME Inv, NEW r \in Requests, Commit(r), NEW fx, fx = reqs[r].fx
  PROVE  /\ rows' = {x \in (rows \ fx.cut) \cup fx.added : Ends(x) \cap fx.killed = {}}
         /\ rows' \subseteq Row /\ rows' \subseteq rows \cup fx.added
         /\ fx.added \subseteq Row
<1>1. fx \in Effects
  BY StagedFacts DEF Commit, At
<1>2. fx.added \subseteq Row /\ rows \subseteq Row
  BY <1>1, Context, EffectFields
<1>3. rows' = {x \in (rows \ fx.cut) \cup fx.added : Ends(x) \cap fx.killed = {}}
  BY DEF Commit
<1>4. QED
  BY <1>2, <1>3

\* The handler after its commit: done, or on to the second half of set_parent.
LEMMA HandlerAfter ==
  ASSUME Inv, NEW r \in Requests, Commit(r)
  PROVE  \E h \in Handler :
           /\ reqs' = [reqs EXCEPT ![r] = h] /\ h.fx = NoEffect /\ ~Inside(h) /\ ~Updating(h)
           /\ h.type \in {"none", reqs[r].type}
           /\ h = Idle \/ (h.call = "parent" /\ h.at = "check" /\ reqs[r].call = "parent")
           /\ Validated(h) /\ Sensible(h, drawn)
<1>1. reqs[r] \in Handler /\ Sensible(reqs[r], drawn) /\ reqs[r].at = "commit"
  BY Context DEF Commit, At
<1>2. CASE Return(r)
  <2>1. Sensible(Idle, drawn) /\ Validated(Idle) /\ ~Inside(Idle) /\ ~Updating(Idle)
    BY IdleType DEF Sensible, Validated, Inside, Updating
  <2>2. QED
    BY <1>2, <2>1, IdleType DEF Return
<1>3. CASE /\ reqs[r].call = "parent" /\ reqs[r].fx.added = {}
           /\ reqs' = [reqs EXCEPT ![r] = [@ EXCEPT !.at = "check", !.fx = NoEffect]]
  <2> DEFINE h == [reqs[r] EXCEPT !.at = "check", !.fx = NoEffect]
  <2>1. reqs' = [reqs EXCEPT ![r] = h]
    BY <1>3, Context
  <2>2. /\ h \in Handler /\ h.at = "check" /\ h.fx = NoEffect /\ h.call = "parent"
        /\ h.type = reqs[r].type /\ h.source = reqs[r].source /\ h.target = reqs[r].target
    BY <1>1, <1>3, NothingType DEF Handler, Places
  <2>3. /\ reqs[r].type = "parent" /\ "parent" \in RowTypes
        /\ reqs[r].source \in Issues /\ reqs[r].target \in Issues
    BY <1>1, <1>3 DEF Sensible
  <2> HIDE DEF h
  <2>4. Sensible(h, drawn) /\ Validated(h) /\ ~Inside(h) /\ ~Updating(h)
    BY <2>2, <2>3 DEF Sensible, Validated, Inside, Updating
  <2>5. QED
    BY <1>3, <2>1, <2>2, <2>4
<1>4. QED
  BY <1>2, <1>3 DEF Commit

LEMMA CommitTypes ==
  ASSUME Inv, NEW r \in Requests, Commit(r)
  PROVE  Types'
<1> DEFINE fx == reqs[r].fx
<1>1. /\ fx \in Effects /\ Types /\ UNCHANGED <<backend, drawn>>
      /\ fx.born \in SUBSET Issues /\ fx.killed \in SUBSET Issues
      /\ fx.added \in SUBSET Row /\ fx.cut \in SUBSET Row
      /\ DOMAIN fx.flags \in SUBSET Issues /\ (\A i \in DOMAIN fx.flags : fx.flags[i] \in BOOLEAN)
  BY StagedFacts, EffectFields DEF Commit, At, Inv, Database
<1>2. replica' = [issues |-> (replica.issues \cup fx.born) \ fx.killed,
                  rows |-> (replica.rows \cup fx.added) \ fx.cut]
  BY DEF Commit
<1>3. flags' = Over(fx.flags, Over([i \in fx.killed |-> FALSE], flags))
  BY DEF Commit
<1>4. life' \in [Issues -> {"unborn", "open", "done", "deleted"}]
  BY LifeAfter
<1>5. rows' \subseteq Row
  BY RowsAfter
<1>6. replica' \in [issues : SUBSET Issues, rows : SUBSET Row]
  <2>1. replica.issues \subseteq Issues /\ replica.rows \subseteq Row
    BY <1>1 DEF Types
  <2>2. QED
    BY <1>1, <1>2, <2>1
<1>7. flags' \in [Issues -> BOOLEAN]
  BY <1>1, <1>3 DEF Types, Over
<1>8. touched' \subseteq Issues
  <2>1. \A x \in rows \cup rows' : x.target \in Issues
    BY <1>1, <1>5 DEF Types, Row
  <2> DEFINE kept == {x \in (rows \ fx.cut) \cup fx.added : Ends(x) \cap fx.killed = {}}
             moved == {x \in (rows \ kept) \cup (kept \ rows) : x.type = "blocks"}
  <2>2. touched' = {i \in (touched \cup {x.target : x \in moved}) \ (DOMAIN fx.flags \cup fx.killed) :
                      flags'[i] # IsBlocked(i, rows', life')}
    BY DEF Commit
  <2>3. kept = rows'
    BY DEF Commit
  <2>4. touched' \subseteq touched \cup {x.target : x \in moved}
    BY <2>2
  <2>5. \A x \in moved : x.target \in Issues
    BY <2>1, <2>3
  <2>6. QED
    BY <1>1, <2>4, <2>5 DEF Types
<1>9. reqs' \in [Requests -> Handler]
  BY <1>1, HandlerAfter DEF Types
<1>10. QED
  BY <1>1, <1>4, <1>5, <1>6, <1>7, <1>8, <1>9 DEF Types

LEMMA CommitKeys ==
  ASSUME Inv, NEW r \in Requests, Commit(r)
  PROVE  Keys'
<1> DEFINE fx == reqs[r].fx
<1>1. /\ reqs[r].at = "commit" /\ drawn' = drawn
      /\ rows' = {x \in (rows \ fx.cut) \cup fx.added : Ends(x) \cap fx.killed = {}}
      /\ rows' \subseteq Row
  BY RowsAfter DEF Commit, At
<1>2. /\ \A x \in fx.added : /\ fx.added = {x} /\ Ends(x) \subseteq LiveSet /\ x.id <= drawn
                             /\ \A y \in rows : y.id # x.id
  BY <1>1, StagedFacts
<1>3. \A i \in Issues : Live(i)' <=> i \in fx.born \/ (Live(i) /\ i \notin fx.killed)
  BY LifeAfter
<1>4. Keys
  BY DEF Inv, Database
<1>5. ASSUME NEW x \in rows' PROVE Ends(x) \subseteq LiveSet' /\ x.id <= drawn'
  <2>1. Ends(x) \subseteq LiveSet /\ x.id <= drawn
    BY <1>1, <1>2, <1>4 DEF Keys
  <2>2. Ends(x) \cap fx.killed = {}
    BY <1>1
  <2>3. QED
    BY <1>1, <1>3, <2>1, <2>2 DEF LiveSet
<1>6. ASSUME NEW x \in rows', NEW y \in rows', x.id = y.id PROVE x = y
  BY <1>1, <1>2, <1>4, <1>6 DEF Keys
<1>7. QED
  BY <1>5, <1>6 DEF Keys, Ends

LEMMA CommitOthers ==
  ASSUME Inv, NEW r \in Requests, Commit(r), NEW p \in Requests, p # r
  PROVE  Sensible(reqs[p], drawn)'
<1>1. reqs'[p] = reqs[p] /\ drawn' = drawn
  BY HandlerAfter, Context DEF Commit
<1>2. Sensible(reqs[p], drawn) /\ reqs[p] \in Handler /\ rows \subseteq Row
  BY Context
<1> DEFINE fx == reqs[r].fx
<1>3. PICK q : q = reqs[p]
  OBVIOUS
<1>4. Apart(reqs[r], q) /\ Apart(q, reqs[r])
  BY <1>3 DEF Inv, Database
<1>5. \A i \in Issues :
        /\ Live(i)' <=> i \in fx.born \/ (Live(i) /\ i \notin fx.killed)
        /\ life[i] = "unborn" /\ i \notin fx.born => life'[i] = "unborn"
        /\ life[i] # "unborn" => life'[i] # "unborn"
  BY LifeAfter
<1>6. rows' \subseteq rows \cup fx.added
  BY RowsAfter
<1>7. ASSUME Staged(q, drawn) PROVE Staged(q, drawn)'
  <2>1. CASE \E i \in Issues : Creates(q.fx, i) /\ life[i] = "unborn"
    <3>1. PICK i \in Issues : Creates(q.fx, i) /\ life[i] = "unborn"
      BY <2>1
    <3>2. q.fx.born = {i}
      BY <3>1, Kinds, Zenon
    <3>3. life'[i] = "unborn"
      BY <1>4, <1>5, <3>1, <3>2 DEF Apart
    <3>4. QED
      BY <3>1, <3>3 DEF Staged
  <2>2. CASE Updates(q.fx, q.fx.status, q.fx.flags) /\ \A i \in DOMAIN q.fx.status : Live(i)
    <3>1. DOMAIN q.fx.status \subseteq Issues
      BY <1>2, <1>3, EffectFields DEF Handler
    <3>2. \A i \in DOMAIN q.fx.status : Live(i)'
      BY <1>4, <1>5, <2>2, <3>1 DEF Apart
    <3>3. QED
      BY <2>2, <3>2 DEF Staged
  <2>3. CASE \E i \in Issues : Deletes(q.fx, i, q.fx.cut) /\ life[i] # "unborn"
    BY <1>5, <2>3 DEF Staged
  <2>4. CASE \E x \in Row : /\ Links(q.fx, x) /\ Wants(q)
                            /\ x.type = q.type /\ x.source = q.source /\ x.target = q.target
                            /\ Ends(x) \subseteq LiveSet /\ x.id <= drawn
                            /\ \A y \in rows : y.id # x.id
    <3>1. PICK x \in Row : /\ Links(q.fx, x) /\ Wants(q)
                           /\ x.type = q.type /\ x.source = q.source /\ x.target = q.target
                           /\ Ends(x) \subseteq LiveSet /\ x.id <= drawn
                           /\ \A y \in rows : y.id # x.id
      BY <2>4
    <3>2. q.fx.added = {x}
      BY <3>1, Kinds, Zenon
    <3>3. Ends(x) \cap fx.killed = {} /\ \A y \in fx.added : y.id # x.id
      BY <1>4, <3>2 DEF Apart
    <3>4. Ends(x) \subseteq LiveSet'
      BY <1>5, <3>1, <3>3 DEF LiveSet
    <3>5. \A y \in rows' : y.id # x.id
      BY <1>6, <3>1, <3>3
    <3>6. QED
      BY <1>1, <3>1, <3>4, <3>5 DEF Staged, Wants
  <2>5. CASE \E x \in Row : Unlinks(q.fx, x)
    BY <2>5 DEF Staged
  <2>6. QED
    BY <1>7, <2>1, <2>2, <2>3, <2>4, <2>5 DEF Staged
<1>8. Sensible(q, drawn)'
  BY <1>1, <1>2, <1>3, <1>5, <1>7 DEF Sensible, Wants
<1>9. QED
  BY <1>1, <1>3, <1>8

LEMMA CommitDatabase ==
  ASSUME Inv, NEW r \in Requests, Commit(r)
  PROVE  Database'
<1>1. PICK h \in Handler :
           /\ reqs' = [reqs EXCEPT ![r] = h] /\ h.fx = NoEffect /\ ~Inside(h)
           /\ Sensible(h, drawn)
  BY HandlerAfter
<1>2. /\ reqs \in [Requests -> Handler] /\ reqs'[r] = h
      /\ \A p \in Requests \ {r} : reqs'[p] = reqs[p]
  BY <1>1, Context
<1>3. Sensible(reqs[r], drawn)'
  BY <1>1, <1>2 DEF Sensible, Inside, Wants, Commit
<1>4. \A q, p \in Requests : q # p => Apart(reqs[q], reqs[p])'
  <2>1. h.fx.born = {} /\ h.fx.killed = {} /\ h.fx.added = {} /\ DOMAIN h.fx.status = {}
    BY <1>1, NothingType
  <2>2. QED
    BY <1>2, <2>1 DEF Apart, Inv, Database
<1>5. QED
  BY <1>3, <1>4, CommitTypes, CommitKeys, CommitOthers DEF Database

\* What a validation has established stays so while relations only go.
LEMMA ValidatedKept ==
  ASSUME NEW CONSTANT q, Validated(q),
         q.at = "commit" => \A x \in q.fx.added : x.type = q.type,
         \A t \in {q.type, "blocks", "parent", "duplicate"} \ {"comment"} :
           Typed(t)' \subseteq Typed(t)
  PROVE  Validated(q)'
<1>1. Separate(q) /\ q.type # "comment" => Separate(q)'
  BY DEF Separate
<1>2. WalkedDown(q) => WalkedDown(q)'
  BY DEF WalkedDown
<1>3. WalkedUp(q) => WalkedUp(q)'
  BY DEF WalkedUp
<1>4. Single(q) => Single(q)'
  BY DEF Single
<1>5. Checked(q) => Checked(q)'
  BY <1>1, <1>4 DEF Checked
<1>6. ASSUME q.at = "commit", NEW x \in q.fx.added, NEW y \in rows', \A z \in rows : ~Same(x, z)
      PROVE  ~Same(x, y)
  BY <1>6 DEF Same, Typed
<1>7. q.at = "single" /\ q.type = "parent" => Separate(q)'
  BY <1>1 DEF Validated
<1>8. QED
  BY <1>2, <1>3, <1>5, <1>6, <1>7 DEF Validated

LEMMA CommitGraph ==
  ASSUME Inv, NEW r \in Requests, Commit(r), "overlap" \notin Races
  PROVE  Graph'
<1> DEFINE fx == reqs[r].fx
<1>1. PICK h \in Handler :
           /\ reqs' = [reqs EXCEPT ![r] = h]
           /\ h = Idle \/ (h.call = "parent" /\ h.at = "check" /\ reqs[r].call = "parent")
           /\ Validated(h)
  BY HandlerAfter
<1>2. /\ reqs \in [Requests -> Handler] /\ reqs'[r] = h
      /\ (\A p \in Requests \ {r} : reqs'[p] = reqs[p])
      /\ reqs[r].at = "commit" /\ rows \subseteq Row /\ rows' \subseteq rows \cup fx.added
  BY <1>1, Context, RowsAfter DEF Commit, At
<1>3. Graph
  BY DEF Inv
<1>4. \A x \in fx.added : /\ fx.added = {x} /\ x \in Row /\ Wants(reqs[r])
                          /\ x.type = reqs[r].type /\ x.source = reqs[r].source
                          /\ x.target = reqs[r].target
  BY <1>2, StagedRow
<1>5. \A q, p \in Requests : Relating(q)' /\ Relating(p)' => q = p
  <2>1. ASSUME NEW p \in Requests PROVE Relating(p)' => Relating(p)
    BY <1>1, <1>2, IdleType DEF Relating
  <2>2. QED
    BY <1>3, <2>1 DEF Graph
<1>6. ASSUME NEW p \in Requests PROVE Validated(reqs[p])'
  <2>1. CASE p = r
    <3>1. Validated(h)'
      BY <1>1, IdleType DEF Validated
    <3>2. QED
      BY <1>2, <2>1, <3>1
  <2>2. CASE p # r
    <3>1. PICK q : q = reqs[p]
      OBVIOUS
    <3>2. Validated(q) /\ Sensible(q, drawn)
      BY <1>3, <3>1, Context DEF Graph
    <3>3. q.at = "commit" => \A x \in q.fx.added : x.type = q.type /\ Wants(q)
      BY <3>1, StagedRow
    <3>4. CASE q.at \notin {"walk", "single", "insert", "commit"}
      BY <1>2, <2>2, <3>1, <3>4 DEF Validated
    <3>5. CASE q.at = "commit" /\ q.fx.added = {}
      BY <1>2, <2>2, <3>1, <3>5 DEF Validated
    <3>6. CASE q.at \in {"walk", "single", "insert"} \/ (q.at = "commit" /\ q.fx.added # {})
      <4>1. Wants(q)
        BY <3>2, <3>3, <3>6 DEF Sensible
      <4>2. ASSUME NEW x \in fx.added, x.type # "comment" PROVE q.type = "comment"
        <5>1. Relating(r)
          BY <1>4, <4>2 DEF Wants, Relating
        <5>2. ~Relating(p)
          BY <1>3, <2>2, <5>1 DEF Graph
        <5>3. QED
          BY <3>1, <4>1, <5>2 DEF Wants, Relating
      <4>3. CASE \E x \in fx.added : x.type # "comment"
        <5>1. q.type = "comment"
          BY <4>2, <4>3
        <5>2. q.at \in {"insert", "commit"}
          BY <3>2, <3>6, <5>1 DEF Sensible
        <5>3. Validated(q)'
          BY <3>3, <5>1, <5>2 DEF Validated, Checked, Single, Same
        <5>4. QED
          BY <1>2, <2>2, <3>1, <5>3
      <4>4. CASE \A x \in fx.added : x.type = "comment"
        <5>1. \A t : t # "comment" => Typed(t)' \subseteq Typed(t)
          BY <1>2, <4>4 DEF Typed
        <5>2. Validated(q)'
          BY <3>2, <3>3, <5>1, ValidatedKept
        <5>3. QED
          BY <1>2, <2>2, <3>1, <5>2
      <4>5. QED
        BY <4>3, <4>4
    <3>7. QED
      BY <3>4, <3>5, <3>6
  <2>3. QED
    BY <2>1, <2>2
<1>7. ASSUME NEW x \in Typed("parent")', NEW y \in Typed("parent")', x.target = y.target
      PROVE  x = y
  <2>1. ASSUME NEW z \in fx.added, z.type = "parent"
        PROVE  \A w \in Typed("parent") : w.target # z.target
    <3>1. Single(reqs[r])
      BY <1>2, <1>3, <2>1 DEF Graph, Validated, Checked
    <3>2. QED
      BY <1>4, <2>1, <3>1 DEF Single
  <2>2. x \in rows \cup fx.added /\ y \in rows \cup fx.added /\ x.type = "parent" /\ y.type = "parent"
    BY <1>2 DEF Typed
  <2>3. QED
    BY <1>3, <1>4, <1>7, <2>1, <2>2 DEF Graph, Typed
<1>8. QED
  BY <1>5, <1>6, <1>7 DEF Graph

\* On SQLite the log's picture moves with the database.
LEMMA CommitTells ==
  ASSUME Inv, NEW r \in Requests, Commit(r), backend = "sqlite"
  PROVE  LogTellsAll'
<1> DEFINE fx == reqs[r].fx
<1>1. /\ reqs[r].at = "commit" /\ rows \subseteq Row
      /\ replica' = [issues |-> (replica.issues \cup fx.born) \ fx.killed,
                     rows |-> (replica.rows \cup fx.added) \ fx.cut]
      /\ rows' = {x \in (rows \ fx.cut) \cup fx.added : Ends(x) \cap fx.killed = {}}
  BY Context DEF Commit, At
<1>2. replica.issues = LiveSet /\ replica.rows = rows /\ LogTellsAll
  BY DEF Inv, Lite, LogTellsAll
<1>3. Exact(reqs[r])
  BY DEF Inv, Lite
<1>4. /\ \A i \in fx.killed : Live(i) /\ fx.cut = {x \in rows : i \in Ends(x)}
      /\ fx.born # {} => fx.killed = {} /\ fx.added = {} /\ fx.cut = {}
      /\ fx.added # {} => fx.killed = {} /\ fx.born = {} /\ fx.cut = {}
      /\ fx \in Effects
  BY <1>1, <1>3, StagedFacts DEF Exact
<1>5. (LiveSet \cup fx.born) \ fx.killed = LiveSet'
  <2>1. \A i \in Issues : Live(i)' <=> i \in fx.born \/ (Live(i) /\ i \notin fx.killed)
    BY LifeAfter
  <2>2. fx.born \in SUBSET Issues
    BY <1>4, EffectFields
  <2>3. QED
    BY <1>4, <2>1, <2>2 DEF LiveSet
<1>6. (rows \cup fx.added) \ fx.cut = rows'
  <2>1. CASE fx.added # {}
    BY <1>1, <1>4, <2>1
  <2>2. CASE fx.added = {} /\ fx.killed = {}
    BY <1>1, <2>2
  <2>3. CASE fx.added = {} /\ fx.killed # {}
    <3>1. \A x \in rows : Ends(x) \cap fx.killed # {} <=> x \in fx.cut
      BY <1>4, <2>3
    <3>2. QED
      BY <1>1, <2>3, <3>1
  <2>4. QED
    BY <2>1, <2>2, <2>3
<1>7. QED
  BY <1>1, <1>2, <1>5, <1>6 DEF LogTellsAll

\* An issue's flag is told, or noted as touched, or has not changed.
LEMMA CommitFlags ==
  ASSUME Inv, NEW r \in Requests, Commit(r), backend = "sqlite", "lookup" \notin Races
  PROVE  FlagsTold'
<1> DEFINE fx == reqs[r].fx
           off == [i \in fx.killed |-> FALSE]
<1> SUFFICES ASSUME NEW i \in LiveSet', i \notin touched'
             PROVE  (flags[i] = IsBlocked(i, rows, life))'
  BY DEF FlagsTold
<1>1. /\ reqs[r].at = "commit" /\ rows \subseteq Row
      /\ rows' = {x \in (rows \ fx.cut) \cup fx.added : Ends(x) \cap fx.killed = {}}
      /\ flags' = Over(fx.flags, Over(off, flags)) /\ DOMAIN off = fx.killed
  BY Context DEF Commit, At
<1> HIDE DEF off
<1>2. touched' = {j \in (touched \cup {x.target : x \in {y \in (rows \ rows') \cup (rows' \ rows) :
                                                           y.type = "blocks"}})
                          \ (DOMAIN fx.flags \cup fx.killed) :
                    flags'[j] # IsBlocked(j, rows', life')}
  BY DEF Commit
<1>3. /\ \A j \in fx.born : life[j] = "unborn" /\ j \in DOMAIN fx.flags /\ fx.flags[j] = FALSE
      /\ fx \in Effects
      /\ fx.born # {} => fx.killed = {} /\ fx.added = {} /\ fx.cut = {}
      /\ DOMAIN fx.status # {} \/ DOMAIN fx.flags # {} =>
           fx.killed = {} /\ fx.added = {} /\ fx.cut = {}
      /\ fx.born # {} \/ fx.killed # {} \/ fx.added # {} => DOMAIN fx.status = {}
  BY <1>1, StagedFacts
<1>4. \A j \in Issues :
        /\ Live(j)' <=> j \in fx.born \/ (Live(j) /\ j \notin fx.killed)
        /\ j \in DOMAIN fx.status => life'[j] = fx.status[j]
        /\ j \notin fx.born \cup fx.killed \cup DOMAIN fx.status => life'[j] = life[j]
  BY LifeAfter
<1>5. i \in Issues /\ i \notin fx.killed /\ (i \in fx.born \/ Live(i))
  BY <1>3, <1>4 DEF LiveSet, Live
<1>6. Keys /\ Exact(reqs[r]) /\ FlagsTold /\ flags \in [Issues -> BOOLEAN]
  BY DEF Inv, Database, Lite, Types
<1>7. CASE i \in fx.born
  <2>1. rows' = rows
    BY <1>1, <1>3, <1>7
  <2>2. \A x \in rows : x.target # i
    BY <1>3, <1>6, <1>7 DEF Keys, Ends, LiveSet, Live
  <2>3. flags'[i] = FALSE
    BY <1>1, <1>3, <1>7 DEF Over
  <2>4. ~IsBlocked(i, rows', life')
    BY <2>1, <2>2 DEF IsBlocked
  <2>5. QED
    BY <2>3, <2>4 DEF IsBlocked
<1>8. CASE i \in DOMAIN fx.flags \ fx.born
  <2>1. rows' = rows
    BY <1>1, <1>3, <1>8
  <2>2. fx.flags[i] = IsBlocked(i, rows, Over(fx.status, life))
    BY <1>1, <1>6, <1>8 DEF Exact
  <2>3. flags'[i] = fx.flags[i]
    BY <1>1, <1>8 DEF Over
  <2>4. ASSUME NEW x \in rows PROVE life'[x.source] = Over(fx.status, life)[x.source]
    <3>1. x.source \in Issues /\ Live(x.source) /\ x.source \notin fx.born \cup fx.killed
      BY <1>1, <1>3, <1>6, <1>8 DEF Keys, Ends, LiveSet, Live
    <3>2. x.source \in DOMAIN life
      BY <3>1, Context
    <3>3. CASE x.source \in DOMAIN fx.status
      BY <1>4, <3>1, <3>3 DEF Over
    <3>4. CASE x.source \notin DOMAIN fx.status
      BY <1>4, <3>1, <3>2, <3>4 DEF Over
    <3>5. QED
      BY <3>3, <3>4
  <2>5. IsBlocked(i, rows, life') <=> IsBlocked(i, rows, Over(fx.status, life))
    BY <2>4 DEF IsBlocked
  <2>6. QED
    BY <2>1, <2>2, <2>3, <2>5 DEF IsBlocked
<1>9. CASE i \notin DOMAIN fx.flags /\ i \notin fx.born
  <2>1. CASE flags'[i] = IsBlocked(i, rows', life')
    BY <2>1
  <2>2. CASE flags'[i] # IsBlocked(i, rows', life')
    <3>1. /\ i \notin touched
          /\ \A x \in (rows \ rows') \cup (rows' \ rows) : x.type = "blocks" => x.target # i
      BY <1>2, <1>5, <1>9, <2>2
    <3>2. flags'[i] = flags[i]
      <4>1. Over(off, flags)[i] = flags[i] /\ i \in DOMAIN Over(off, flags)
        BY <1>1, <1>5, <1>6 DEF Over
      <4>2. QED
        BY <1>1, <1>9, <4>1 DEF Over
    <3>3. flags[i] = IsBlocked(i, rows, life)
      BY <1>5, <1>6, <1>9, <3>1 DEF FlagsTold, LiveSet
    <3>4. ASSUME NEW x \in rows \cup rows', x.type = "blocks", x.target = i
          PROVE  x \in rows /\ x \in rows' /\ (life'[x.source] = "open" <=> life[x.source] = "open")
      <4>1. x \in rows /\ x \in rows'
        BY <3>1, <3>4
      <4>2. x.source \in Issues /\ Live(x.source) /\ x.source \notin fx.born \cup fx.killed
        BY <1>1, <1>3, <1>6, <4>1 DEF Keys, Ends, LiveSet, Live
      <4>3. x.source \notin DOMAIN fx.status
        <5>1. i \in BlockedBy(x.source)
          BY <3>4, <4>1 DEF BlockedBy
        <5>2. QED
          BY <1>1, <1>6, <1>9, <5>1 DEF Exact
      <4>4. QED
        BY <1>4, <4>1, <4>2, <4>3
    <3>5. IsBlocked(i, rows', life') <=> IsBlocked(i, rows, life)
      BY <3>4 DEF IsBlocked
    <3>6. QED
      BY <3>2, <3>3, <3>5 DEF IsBlocked
  <2>3. QED
    BY <2>1, <2>2
<1>10. QED
  BY <1>7, <1>8, <1>9

LEMMA CommitLite ==
  ASSUME Inv, NEW r \in Requests, Commit(r), backend = "sqlite"
  PROVE  Lite'
<1> DEFINE fx == reqs[r].fx
<1>1. PICK h \in Handler :
           /\ reqs' = [reqs EXCEPT ![r] = h] /\ ~Inside(h) /\ ~Updating(h)
           /\ h.type \in {"none", reqs[r].type}
  BY HandlerAfter
<1>2. /\ reqs \in [Requests -> Handler] /\ reqs'[r] = h
      /\ (\A p \in Requests \ {r} : reqs'[p] = reqs[p])
      /\ reqs[r].at = "commit" /\ rows' \subseteq rows \cup fx.added
  BY <1>1, Context, RowsAfter DEF Commit, At
<1>3. \A p \in Requests \ {r} : ~Inside(reqs[p])
  BY DEF Commit, At, Others, InTransaction, Inside
<1>4. \A p \in Requests : ~Inside(reqs'[p])
  BY <1>1, <1>2, <1>3
<1>5. OneWriter'
  BY <1>4 DEF OneWriter, InTransaction, Inside
<1>6. \A p \in Requests : Exact(reqs[p])'
  BY <1>4 DEF Exact, Inside
<1>7. ASSUME "lookup" \notin Races, NEW p \in Requests, Updating(reqs'[p])
      PROVE  /\ \A x \in rows' : x.type = "blocks" /\ x.source = reqs'[p].source
                                 => x.target \in reqs'[p].todo
             /\ \A q \in Requests : reqs'[q].type # "blocks"
  <2>1. p # r /\ reqs'[p] = reqs[p]
    BY <1>1, <1>2, <1>7
  <2>2. /\ BlockedBy(reqs[p].source) \subseteq reqs[p].todo
        /\ \A q \in Requests : reqs[q].type # "blocks"
    BY <1>7, <2>1 DEF Inv, Lite, Looked, Updating
  <2>3. \A x \in fx.added : x.type = reqs[r].type
    BY <1>2, StagedRow
  <2>4. \A x \in rows' : x.type = "blocks" => x \in rows
    BY <1>2, <2>2, <2>3
  <2>5. \A x \in rows' : x.type = "blocks" /\ x.source = reqs[p].source => x.target \in reqs[p].todo
    BY <2>2, <2>4 DEF BlockedBy
  <2>6. \A q \in Requests : reqs'[q].type # "blocks"
    BY <1>1, <1>2, <2>2
  <2>7. QED
    BY <2>1, <2>5, <2>6
<1>8. "lookup" \notin Races => \A p \in Requests : Looked(p)'
  BY <1>7 DEF Looked, Updating, BlockedBy
<1>9. QED
  BY <1>5, <1>6, <1>8, CommitTells, CommitFlags DEF Lite

LEMMA CommitInv ==
  ASSUME Inv, NEW r \in Requests, Commit(r)
  PROVE  Inv'
<1>1. backend' = backend
  BY DEF Commit
<1>2. QED
  BY <1>1, CommitDatabase, CommitLite, CommitGraph DEF Inv

-----------------------------------------------------------------------------
LEMMA InitInv == Init => Inv
<1> SUFFICES ASSUME Init PROVE Inv
  OBVIOUS
<1>1. /\ reqs = [r \in Requests |-> Idle] /\ rows = {} /\ drawn = 0 /\ 0 \in 0..MaxRows
      /\ life \in [Issues -> {"unborn", "open"}]
      /\ \A r \in Requests : reqs[r] = Idle
  BY IssueGraphAssumption DEF Init
<1>2. Types
  BY <1>1, IdleType DEF Init, Types, LiveSet
<1>3. Database
  <2>1. Sensible(Idle, drawn) /\ Apart(Idle, Idle)
    BY IdleType, NothingType DEF Sensible, Apart
  <2>2. QED
    BY <1>1, <1>2, <2>1 DEF Database, Keys
<1>4. Lite
  <2>1. OneWriter /\ \A r \in Requests : Exact(reqs[r]) /\ Looked(r)
    BY <1>1, IdleType DEF OneWriter, Exact, Looked, InTransaction
  <2>2. LogTellsAll
    BY DEF Init, LogTellsAll
  <2>3. FlagsTold
    BY <1>1 DEF Init, FlagsTold, IsBlocked, LiveSet
  <2>4. QED
    BY <2>1, <2>2, <2>3 DEF Lite
<1>5. Graph
  <2>1. Validated(Idle)
    BY IdleType DEF Validated
  <2>2. QED
    BY <1>1, <2>1, IdleType DEF Graph, Relating, Typed
<1>6. QED
  BY <1>3, <1>4, <1>5 DEF Inv

LEMMA NextInv == Inv /\ [Next]_vars => Inv'
<1> SUFFICES ASSUME Inv, [Next]_vars PROVE Inv'
  OBVIOUS
<1>1. CASE UNCHANGED vars
  <2>1. /\ backend' = backend /\ life' = life /\ rows' = rows /\ drawn' = drawn
        /\ replica' = replica /\ flags' = flags /\ touched' = touched /\ reqs' = reqs
    BY <1>1 DEF vars
  <2>2. Database'
    <3>1. Types' /\ Keys'
      BY <2>1 DEF Inv, Database, Types, Keys, LiveSet, Live
    <3>2. \A r \in Requests : Sensible(reqs[r], drawn)'
      BY <2>1 DEF Inv, Database, Sensible, Staged, LiveSet, Live
    <3>3. QED
      BY <2>1, <3>1, <3>2 DEF Inv, Database, Apart
  <2>3. Lite => Lite'
    <3>1. \A j, st : IsBlocked(j, rows', Over(st, life')) <=> IsBlocked(j, rows, Over(st, life))
      BY <2>1, Zenon
    <3>2. \A i : (Live(i)' <=> Live(i)) /\ BlockedBy(i)' = BlockedBy(i)
      BY <2>1, Zenon DEF Live, BlockedBy
    <3>3. ASSUME NEW r \in Requests, Exact(reqs[r]) PROVE Exact(reqs[r])'
      BY <2>1, <3>1, <3>2, <3>3, Zenon DEF Exact
    <3>4. OneWriter => OneWriter'
      BY <2>1 DEF OneWriter, InTransaction
    <3>5. (FlagsTold => FlagsTold') /\ (LogTellsAll => LogTellsAll')
      BY <2>1, <3>2 DEF FlagsTold, LogTellsAll, LiveSet, IsBlocked
    <3>6. \A r \in Requests : Looked(r) => Looked(r)'
      BY <2>1, <3>2 DEF Looked
    <3>7. QED
      BY <3>3, <3>4, <3>5, <3>6 DEF Lite
  <2>4. Graph => Graph'
    BY <2>1
    DEF Graph, Relating, Validated, WalkedDown, WalkedUp, Separate, Checked, Single, Typed
  <2>5. QED
    BY <2>1, <2>2, <2>3, <2>4 DEF Inv
<1>2. ASSUME NEW r \in Requests, IssueStep(r) PROVE Inv'
  BY <1>2, CreateIssueInv, FindIssueInv, CollectCascadeInv, UpdateIssueInv, DeleteIssueInv
  DEF IssueStep
<1>3. ASSUME NEW r \in Requests, RowStep(r) PROVE Inv'
  BY <1>3, AskRelationInv, FindParentInv, DeleteRelationInv, AskCommentInv, CheckEndsInv,
     WalkBlockedInv, WalkParentsInv, CheckSingleInv, InsertRowInv
  DEF RowStep
<1>4. QED
  BY <1>1, <1>2, <1>3, CommitInv, AbandonInv DEF Next

LEMMA Invariant == Spec => []Inv
  BY InitInv, NextInv, PTL DEF Spec

-----------------------------------------------------------------------------
(***************************************************************************)
(* Theorems.                                                               *)
(***************************************************************************)

\* Every value is of its type on both databases and with every race; the issues a
\* row names exist, whichever deletes and inserts overlap; ids are used once.
THEOREM Typing == Spec => []TypeOK
<1>1. Inv => TypeOK
  <2> SUFFICES ASSUME Inv PROVE TypeOK
    OBVIOUS
  <2>1. ASSUME NEW r \in Requests
        PROVE  reqs[r].todo \cup reqs[r].seen \subseteq Issues /\ Effect(reqs[r].fx)
    <3>1. reqs[r] \in Handler
      BY Context
    <3>2. reqs[r].todo \subseteq Issues /\ reqs[r].seen \subseteq Issues /\ reqs[r].fx \in Effects
      BY <3>1 DEF Handler
    <3>3. QED
      BY <3>2, EffectFields DEF Effect
  <2>2. QED
    BY <2>1 DEF Inv, Database, Types, Keys, TypeOK
<1>2. QED
  BY <1>1, Invariant, PTL

\* On SQLite who replays the log has the rows of the database, whichever requests
\* overlap: a delete reports every row its cascade takes.
THEOREM LogComplete == ASSUME Backends \subseteq {"sqlite"} PROVE Spec => []LogTellsAll
<1>1. Inv => LogTellsAll
  BY DEF Inv, Database, Types, Lite
<1>2. QED
  BY <1>1, Invariant, PTL

\* On SQLite the blocked flag last told is right, unless a blocks relation came or
\* went since, if no blocks relation is made while a status is being updated.
THEOREM FlagsRight == ASSUME Backends \subseteq {"sqlite"}, "lookup" \notin Races PROVE Spec => []FlagsTold
<1>1. Inv => FlagsTold
  BY DEF Inv, Database, Types, Lite
<1>2. QED
  BY <1>1, Invariant, PTL

-----------------------------------------------------------------------------
(***************************************************************************)
(* The refinement.  Only a commit moves the picture the log paints.        *)
(***************************************************************************)

\* A relation that is committed is one the rules allow.
LEMMA LinkLegal ==
  ASSUME Inv, backend = "sqlite", "overlap" \notin Races, NEW r \in Requests,
         reqs[r].at = "commit", NEW x \in reqs[r].fx.added
  PROVE  Tracker!Legal(x)
<1>1. /\ reqs[r].fx.added = {x} /\ x \in Row /\ Wants(reqs[r])
      /\ x.type = reqs[r].type /\ x.source = reqs[r].source /\ x.target = reqs[r].target
      /\ Ends(x) \subseteq LiveSet
  BY StagedRow
<1>2. replica.issues = LiveSet /\ replica.rows = rows /\ Keys
  BY DEF Inv, Database, Lite, LogTellsAll
<1>3. Checked(reqs[r]) /\ \A y \in rows : ~Same(x, y)
  BY <1>1 DEF Inv, Graph, Validated
<1>4. x.type \in RowTypes /\ Tracker!Ends(x) \subseteq replica.issues
  BY <1>1, <1>2 DEF Wants, Tracker!Ends, Ends
<1>5. x.type # "comment" =>
        /\ x.source # x.target
        /\ \A y \in Tracker!Of(x.type) : y.source # x.source \/ y.target # x.target
  BY <1>1, <1>2, <1>3 DEF Wants, Same, Tracker!Of
<1>6. ASSUME x.type \in {"blocks", "parent"} PROVE ~Tracker!Leads(x.type, x.target, x.source)
  <2>1. PICK S \in SUBSET Issues :
          /\ x.target \in S /\ x.source \notin S
          /\ \A y \in Typed(x.type) : y.source \in S => y.target \in S
    BY <1>1, <1>3, <1>6 DEF Checked, Separate
  <2> DEFINE L == S \cap LiveSet
  <2>2. L \in SUBSET replica.issues /\ x.target \in L /\ x.source \notin L
    BY <1>1, <1>2, <2>1 DEF Ends
  <2>3. \A y \in Tracker!Of(x.type) : y.source \in L => y.target \in L
    BY <1>2, <2>1 DEF Tracker!Of, Typed, Keys, Ends
  <2>4. QED
    BY <2>2, <2>3 DEF Tracker!Leads
<1>7. x.type = "parent" => \A y \in Tracker!Of("parent") : y.target # x.target
  BY <1>1, <1>2, <1>3 DEF Checked, Single, Typed, Tracker!Of
<1>8. x.type = "duplicate" => \A y \in Tracker!Of("duplicate") : y.source # x.source
  BY <1>1, <1>2, <1>3 DEF Checked, Single, Typed, Tracker!Of
<1>9. QED
  BY <1>4, <1>5, <1>6, <1>7, <1>8 DEF Tracker!Legal

LEMMA CommitRefines ==
  ASSUME Inv, backend = "sqlite", "overlap" \notin Races, NEW r \in Requests, Commit(r)
  PROVE  Tracker!TrackerNext \/ UNCHANGED Tracker!vars
<1> DEFINE fx == reqs[r].fx
<1>1. /\ reqs[r].at = "commit" /\ Staged(reqs[r], drawn)
      /\ replica'.issues = (replica.issues \cup fx.born) \ fx.killed
      /\ replica'.rows = (replica.rows \cup fx.added) \ fx.cut
  BY Context DEF Commit, At, Sensible
<1>2. replica.issues = LiveSet /\ replica.rows = rows /\ Exact(reqs[r])
  BY DEF Inv, Lite, LogTellsAll
<1>3. CASE \E i \in Issues : Creates(fx, i) /\ life[i] = "unborn"
  <2>1. PICK i \in Issues : Creates(fx, i)
    BY <1>3
  <2>2. fx.born = {i} /\ fx.killed = {} /\ fx.added = {} /\ fx.cut = {}
    BY <2>1, Kinds, Zenon
  <2>3. Tracker!Add(i)
    BY <1>1, <2>2 DEF Tracker!Add
  <2>4. QED
    BY <2>3 DEF Tracker!TrackerNext
<1>4. CASE Updates(fx, fx.status, fx.flags)
  <2>1. fx.born = {} /\ fx.killed = {} /\ fx.added = {} /\ fx.cut = {}
    BY <1>4, Kinds, ZenonT(60)
  <2>2. replica'.issues = replica.issues /\ replica'.rows = replica.rows
    BY <1>1, <2>1
  <2>3. QED
    BY <2>2 DEF Tracker!vars
<1>5. CASE \E i \in Issues : Deletes(fx, i, fx.cut) /\ life[i] # "unborn"
  <2>1. PICK i \in Issues : Deletes(fx, i, fx.cut)
    BY <1>5
  <2>2. fx.born = {} /\ fx.killed = {i} /\ fx.added = {}
    BY <2>1, Kinds, Zenon
  <2>3. fx.cut = {x \in rows : i \in Ends(x)}
    BY <1>1, <1>2, <2>2 DEF Exact
  <2>4. Tracker!Remove(i)
    BY <1>1, <1>2, <2>2, <2>3 DEF Tracker!Remove, Tracker!Ends, Ends
  <2>5. QED
    BY <2>4 DEF Tracker!TrackerNext
<1>6. CASE \E x \in Row : Links(fx, x)
  <2>1. PICK x \in Row : Links(fx, x)
    BY <1>6
  <2>2. fx.born = {} /\ fx.killed = {} /\ fx.added = {x} /\ fx.cut = {}
    BY <2>1, Kinds, Zenon
  <2>3. Tracker!Legal(x)
    BY <1>1, <2>2, LinkLegal
  <2>4. replica'.rows = replica.rows \cup {x} /\ replica'.issues = replica.issues
    BY <1>1, <2>2
  <2>5. Tracker!Link
    BY <2>3, <2>4 DEF Tracker!Link
  <2>6. QED
    BY <2>5 DEF Tracker!TrackerNext
<1>7. CASE \E x \in Row : Unlinks(fx, x)
  <2>1. PICK x \in Row : Unlinks(fx, x)
    BY <1>7
  <2>2. fx.born = {} /\ fx.killed = {} /\ fx.added = {} /\ fx.cut = {x}
    BY <2>1, Kinds, Zenon
  <2>3. x \in rows
    BY <1>1, <1>2, <2>2 DEF Exact
  <2>4. Tracker!Unlink
    BY <1>1, <1>2, <2>2, <2>3 DEF Tracker!Unlink
  <2>5. QED
    BY <2>4 DEF Tracker!TrackerNext
<1>8. QED
  BY <1>1, <1>3, <1>4, <1>5, <1>6, <1>7 DEF Staged

LEMMA NextRefines ==
  ASSUME Inv, backend = "sqlite", "overlap" \notin Races, [Next]_vars
  PROVE  Tracker!TrackerNext \/ UNCHANGED Tracker!vars
<1>1. CASE UNCHANGED vars
  BY <1>1 DEF vars, Tracker!vars
<1>2. ASSUME NEW r \in Requests, IssueStep(r) PROVE replica' = replica
  BY <1>2 DEF IssueStep, CreateIssue, FindIssue, CollectCascade, UpdateIssue, DeleteIssue,
     Stage, DatabaseOnly
<1>3. ASSUME NEW r \in Requests, RowStep(r) PROVE replica' = replica
  BY <1>3 DEF RowStep, AskRelation, FindParent, DeleteRelation, AskComment, CheckEnds,
     WalkBlocked, WalkParents, CheckSingle, InsertRow, AddRow, Stage, DatabaseOnly
<1>4. ASSUME NEW r \in Requests, Abandon(r) PROVE replica' = replica
  BY <1>4 DEF Abandon, DatabaseOnly
<1>5. replica' = replica => UNCHANGED Tracker!vars
  BY DEF Tracker!vars
<1>6. QED
  BY <1>1, <1>2, <1>3, <1>4, <1>5, CommitRefines DEF Next

\* On SQLite the log's picture changes as IssueTracker.tla says, one call at a time,
\* and never holds a cycle, a second parent or a second original, if calls that add
\* relations do not overlap.
THEOREM Refines ==
  ASSUME Backends \subseteq {"sqlite"}, "overlap" \notin Races PROVE Spec => Implements
<1>1. Init => Tracker!TrackerInit
  BY DEF Init, Tracker!TrackerInit, LiveSet
<1>2. Inv /\ [Next]_vars => [Tracker!TrackerNext]_(Tracker!vars)
  <2>1. Inv => backend = "sqlite"
    BY DEF Inv, Database, Types
  <2>2. QED
    BY <2>1, NextRefines
<1>3. QED
  BY <1>1, <1>2, Invariant, PTL DEF Spec, Implements, Tracker!TrackerSpec
=============================================================================
