----------------------- MODULE WorkspaceRecordsProofs -----------------------
(***************************************************************************)
(* What WorkspaceRecords.tla keeps for every value of its constants: any   *)
(* projects, issues and requests, any sets of calls, on both databases.    *)
(***************************************************************************)
EXTENDS WorkspaceRecords, TLAPS

-----------------------------------------------------------------------------
(***************************************************************************)
(* Types.                                                                  *)
(***************************************************************************)
\* Functions on some of the issues.
Partial(T) == UNION {[I -> T] : I \in SUBSET Issues}

PayloadType == [issue : Issue, labels : SUBSET (0..MaxRows)]

TagType == Issues \X (0..MaxRows)

FxType ==
  [added : SUBSET Row, cut : SUBSET Row, held : SUBSET Row, issues : Partial(Issue),
   tagged : SUBSET TagType, untagged : SUBSET TagType, shares : SUBSET Issues,
   told : SUBSET Row, evicted : SUBSET Row, shown : Partial(PayloadType), hidden : SUBSET Issues]

ReqType ==
  [at : {"idle", "unpin", "destroy", "sweep", "commit"}, of : Projects \cup Issues \cup {None},
   seen : SUBSET Row, ids : SUBSET Issues, fx : FxType]

UsedType == [projects : SUBSET Projects, rows : 0..MaxRows]

Types ==
  /\ backend \in Backends /\ calls \in Scenarios
  /\ rows \in SUBSET Row
  /\ used \in UsedType
  /\ issues \in [Issues -> Issue]
  /\ tags \in SUBSET TagType
  /\ picture \in [rows : SUBSET Row, issues : Partial(PayloadType)]
  /\ reqs \in [Requests -> ReqType]

LEMMA PartialFn ==
  ASSUME NEW T, NEW I \in SUBSET Issues, NEW f \in [I -> T]
  PROVE  f \in Partial(T)
BY DEF Partial

LEMMA PartialOf ==
  ASSUME NEW T, NEW f \in Partial(T)
  PROVE  /\ DOMAIN f \in SUBSET Issues
         /\ f \in [DOMAIN f -> T]
BY DEF Partial

LEMMA NothingType == ASSUME NEW T PROVE Nothing \in Partial(T) /\ DOMAIN Nothing = {}
<1>1. Nothing \in [{} -> T] /\ DOMAIN Nothing = {}
  BY DEF Nothing
<1>2. QED
  BY <1>1, PartialFn

LEMMA NoEffectType == NoEffect \in FxType
BY NothingType DEF NoEffect, FxType

LEMMA IdleType == Idle \in ReqType
BY NoEffectType DEF Idle, ReqType

LEMMA RowTypes ==
  /\ \A p \in Projects : Project(p) \in Row /\ Member(p) \in Row
  /\ \A k \in RowKinds, o \in Projects \cup Issues \cup {None}, n \in 0..MaxRows :
       [kind |-> k, of |-> o, id |-> n] \in Row
BY RecordsAssumption DEF Project, Member, Row, RowKinds, PartKinds

LEMMA PayloadIn ==
  ASSUME NEW i \in Issues, NEW v \in Issue, NEW T \in SUBSET TagType
  PROVE  Payload(i, v, T) \in PayloadType
BY DEF Payload, PayloadType, TagType

LEMMA OverType ==
  ASSUME NEW T, NEW f \in Partial(T), NEW g \in Partial(T)
  PROVE  Over(f, g) \in Partial(T) /\ DOMAIN Over(f, g) = DOMAIN f \cup DOMAIN g
<1>1. Over(f, g) \in [DOMAIN f \cup DOMAIN g -> T]
  BY PartialOf DEF Over
<1>2. QED
  BY <1>1, PartialOf, PartialFn

-----------------------------------------------------------------------------
(***************************************************************************)
(* The inductive invariant of NothingLost.  What a transaction will do is  *)
(* decided when its statements run, on tables that other transactions may  *)
(* change before it commits; the invariant says what they cannot change.   *)
(***************************************************************************)
F(r) == reqs[r].fx

\* Effects belong to a transaction that is open.
Quiet == \A r \in Requests : reqs[r].at # "commit" => F(r) = NoEffect

\* Ids are not ahead of what was drawn.
Drawn(X, u) == \A x \in X : x.id <= u.rows /\ (x.kind = "project" => x.of \in u.projects)

\* A transaction tells of what it adds, and evicts no row that stays.  Who
\* evicts a member without having its row evicts the project.
RowsTold(fx) ==
  /\ fx.added \subseteq fx.told \cap fx.held
  /\ fx.added \cap fx.evicted = {}
  /\ rows \cap fx.evicted \subseteq fx.cut
  /\ \A p \in Projects : Member(p) \in fx.evicted =>
       Member(p) \in fx.held \/ Project(p) \in fx.evicted

Visible(v) == v.at = "there" /\ ~v.archived

\* It shows the issues that it leaves to be seen, or that could be seen before,
\* and hides none of them; what is gone stays gone.
IssuesTold(fx) ==
  /\ \A i \in DOMAIN fx.issues :
       /\ fx.issues[i].at # "unborn"
       /\ issues[i].at = "gone" => fx.issues[i].at = "gone"
       /\ Visible(fx.issues[i]) => i \in DOMAIN fx.shown \/ Visible(issues[i])
  /\ \A i \in fx.hidden :
       IF i \in DOMAIN fx.issues THEN ~Visible(fx.issues[i]) ELSE issues[i].at = "gone"

\* It adds rows that are not there, to projects that are.
Added(fx) ==
  /\ fx.added \cap rows = {}
  /\ \A x \in fx.added : x.kind \in PartKinds => Project(x.of) \in rows

\* Of two transactions, gx neither takes nor evicts what fx adds, nor the
\* project it is added to.
Spares(fx, gx) ==
  /\ fx.added \cap gx.added = {}
  /\ fx.added \cap gx.evicted = {}
  /\ DOMAIN fx.issues \cap DOMAIN gx.issues = {}
  /\ \A x \in fx.added : x.kind \in PartKinds => Project(x.of) \notin gx.cut

\* The rows that w has read are favorites, or parts of the project that it
\* deletes; what fx adds is none of those favorites, and not that project.
Sees(w, u) ==
  /\ Drawn(w.seen, u)
  /\ \A x \in w.seen :
       \/ x.kind = "favorite"
       \/ w.at = "destroy" /\ w.of \in Projects /\ x.kind \in PartKinds /\ x.of = w.of
  /\ w.at = "destroy" /\ w.of \in Projects => w.of \in u.projects

Overlooks(w, fx) ==
  /\ \A x \in w.seen : x.kind = "favorite" => x \notin fx.added
  /\ w.at = "destroy" /\ w.of \in Projects => Project(w.of) \notin fx.added

Born(I) == \A i \in I : issues[i].at # "unborn"

Inv ==
  /\ Types
  /\ Quiet
  /\ NothingLost
  /\ Drawn(rows, used)
  /\ \A r \in Requests :
       /\ RowsTold(F(r)) /\ IssuesTold(F(r)) /\ Added(F(r))
       /\ Drawn(F(r).added \cup F(r).evicted, used)
       /\ Sees(reqs[r], used)
       /\ reqs[r].at \in {"sweep", "commit"} => Born(reqs[r].ids)
       /\ \A q \in Requests : Overlooks(reqs[r], F(q))
       /\ \A q \in Requests \ {r} : Spares(F(r), F(q))

\* What it takes for a request to run its statements: to become a transaction with
\* effects fx, and left to do, when the ids u are drawn.
Fits(r, fx, left, u) ==
  /\ fx \in FxType /\ left \in SUBSET Issues
  /\ u \in UsedType /\ used.projects \subseteq u.projects /\ used.rows <= u.rows
  /\ RowsTold(fx) /\ IssuesTold(fx) /\ Added(fx)
  /\ Drawn(fx.added \cup fx.evicted, u)
  /\ Born(left)
  /\ \A q \in Requests \ {r} :
       Spares(fx, F(q)) /\ Spares(F(q), fx) /\ Overlooks(reqs[q], fx)

-----------------------------------------------------------------------------
LEMMA NoEffectOK ==
  /\ RowsTold(NoEffect) /\ IssuesTold(NoEffect) /\ Added(NoEffect)
  /\ \A u : Drawn(NoEffect.added \cup NoEffect.evicted, u)
  /\ \A w : Overlooks(w, NoEffect)
  /\ \A fx : Spares(NoEffect, fx)
BY NothingType DEF NoEffect, RowsTold, IssuesTold, Added, Drawn, Overlooks, Spares

LEMMA SparesNone == ASSUME NEW fx PROVE Spares(fx, NoEffect)
BY NothingType DEF NoEffect, Spares

LEMMA InitOK == Init => Inv
<1>1. SUFFICES ASSUME Init PROVE Inv
  OBVIOUS
<1>2. /\ rows \in SUBSET Row /\ used \in UsedType /\ Drawn(rows, used)
      /\ \A x \in rows : x.kind = "project"
  BY <1>1, RowTypes, RecordsAssumption DEF Init, UsedType, Drawn, Project, Row
<1>3. Unborn \in Issue /\ [Unborn EXCEPT !.at = "there"] \in Issue
  <2>1. 0 \in 0..MaxRows
    BY RecordsAssumption
  <2>2. QED
    BY <2>1 DEF Unborn, Issue
<1>4. issues \in [Issues -> Issue] /\ tags \in SUBSET TagType
  BY <1>1, <1>3 DEF Init
<1>5. picture \in [rows : SUBSET Row, issues : Partial(PayloadType)] /\ NothingLost
  <2> DEFINE I == {j \in Issues : There(j)}
             f == [i \in I |-> Payload(i, issues[i], {})]
  <2>1. f \in [I -> PayloadType] /\ I \in SUBSET Issues
    BY <1>4, PayloadIn
  <2>2. f \in Partial(PayloadType)
    BY <2>1, PartialFn
  <2>3. picture = [rows |-> rows, issues |-> f]
    BY <1>1 DEF Init
  <2>4. \A i \in Issues : There(i) => i \in DOMAIN f
    OBVIOUS
  <2> HIDE DEF f
  <2>5. QED
    BY <1>2, <2>2, <2>3, <2>4 DEF NothingLost
<1>6. reqs \in [Requests -> ReqType] /\ Types
  BY <1>1, <1>2, <1>4, <1>5, IdleType DEF Init, Types
<1>7. \A r \in Requests : reqs[r] = Idle
  BY <1>1 DEF Init
<1>8. \A r \in Requests : F(r) = NoEffect /\ reqs[r].seen = {} /\ reqs[r].at = "idle"
  BY <1>7 DEF Idle, F
<1>9. \A r \in Requests : Sees(reqs[r], used)
  BY <1>8 DEF Sees, Drawn
<1>10. QED
  BY <1>2, <1>5, <1>6, <1>8, <1>9, NoEffectOK DEF Inv, Quiet

\* The statements of a transaction have run.
LEMMA StageOK ==
  ASSUME Inv, NEW r \in Requests, NEW fx, NEW left, Stage(r, fx, left), used' \in UsedType,
         Fits(r, fx, left, used')
  PROVE  Inv'
<1>1. /\ reqs' = [reqs EXCEPT ![r] = [Idle EXCEPT !.at = "commit", !.fx = fx, !.ids = left]]
      /\ UNCHANGED <<backend, calls, rows, issues, tags, picture>>
  BY DEF Stage
<1> DEFINE w == [Idle EXCEPT !.at = "commit", !.fx = fx, !.ids = left]
<1>2. w \in ReqType /\ w.at = "commit" /\ w.fx = fx /\ w.ids = left /\ w.seen = {}
  BY IdleType DEF Fits, ReqType, Idle
<1>3. reqs \in [Requests -> ReqType]
  BY DEF Inv, Types
<1>4. /\ reqs' \in [Requests -> ReqType] /\ reqs'[r] = w
      /\ \A q \in Requests \ {r} : reqs'[q] = reqs[q]
  BY <1>1, <1>2, <1>3
<1> HIDE DEF w
<1>5. F(r)' = fx /\ \A q \in Requests \ {r} : F(q)' = F(q)
  BY <1>2, <1>4 DEF F
<1>6. Types' /\ Quiet' /\ NothingLost'
  BY <1>1, <1>2, <1>4, <1>5 DEF Inv, Types, Quiet, NothingLost, There
<1>7. /\ used.projects \subseteq used'.projects /\ used.rows <= used'.rows
      /\ used \in UsedType /\ used' \in UsedType
  BY DEF Inv, Types, Fits
<1>8. ASSUME NEW X \in SUBSET Row, Drawn(X, used) PROVE Drawn(X, used')
  BY <1>7, <1>8, RecordsAssumption DEF Drawn, Row, UsedType
<1>9. Drawn(rows, used)'
  BY <1>1, <1>8 DEF Inv, Types
<1>10. ASSUME NEW q \in Requests
       PROVE  (/\ RowsTold(F(q)) /\ IssuesTold(F(q)) /\ Added(F(q))
               /\ Drawn(F(q).added \cup F(q).evicted, used)
               /\ Sees(reqs[q], used)
               /\ reqs[q].at \in {"sweep", "commit"} => Born(reqs[q].ids))'
  <2>1. CASE q = r
    BY ZenonT(60), <1>1, <1>2, <1>4, <1>5, <2>1
       DEF Fits, RowsTold, IssuesTold, Added, Sees, Born, Visible, Drawn
  <2>2. CASE q # r
    <3>1. reqs[q] \in ReqType /\ F(q) \in FxType
      BY <1>3 DEF ReqType, F
    <3>2. /\ F(q).added \cup F(q).evicted \in SUBSET Row /\ reqs[q].seen \in SUBSET Row
      BY <3>1 DEF ReqType, FxType
    <3>3. Drawn(F(q).added \cup F(q).evicted, used') /\ Sees(reqs[q], used')
      BY <1>7, <1>8, <3>2 DEF Inv, Sees
    <3>4. RowsTold(F(q)) /\ IssuesTold(F(q)) /\ Added(F(q))
          /\ (reqs[q].at \in {"sweep", "commit"} => Born(reqs[q].ids))
      BY DEF Inv
    <3>5. reqs'[q] = reqs[q] /\ F(q)' = F(q)
      BY <1>4, <1>5, <2>2
    <3>6. RowsTold(F(q))' /\ Added(F(q))'
      BY <1>1, <3>4, <3>5 DEF RowsTold, Added
    <3>7. IssuesTold(F(q))'
      BY <1>1, <3>4, <3>5 DEF IssuesTold, Visible
    <3>8. (reqs[q].at \in {"sweep", "commit"} => Born(reqs[q].ids))'
      BY <1>1, <3>4, <3>5 DEF Born
    <3>9. Drawn(F(q).added \cup F(q).evicted, used)' /\ Sees(reqs[q], used)'
      BY <3>3, <3>5 DEF Drawn, Sees
    <3>10. QED
      BY <3>6, <3>7, <3>8, <3>9
  <2>3. QED
    BY <2>1, <2>2
<1>11. ASSUME NEW q \in Requests, NEW s \in Requests PROVE Overlooks(reqs[q], F(s))'
  <2>1. CASE q = r
    BY <1>2, <1>4, <2>1 DEF Overlooks
  <2>2. CASE q # r
    BY <1>4, <1>5, <2>2 DEF Inv, Fits, Overlooks
  <2>3. QED
    BY <2>1, <2>2
<1>12. ASSUME NEW q \in Requests, NEW s \in Requests \ {q} PROVE Spares(F(q), F(s))'
  <2>1. Spares(F(q), F(s))
    BY DEF Inv
  <2>2. /\ q = r => Spares(fx, F(s))
        /\ s = r => Spares(F(q), fx)
    BY DEF Fits
  <2>3. Spares(F(q)', F(s)')
    BY <1>5, <2>1, <2>2
  <2>4. QED
    BY <2>3 DEF Spares
<1>13. QED
  BY <1>6, <1>9, <1>10, <1>11, <1>12 DEF Inv

\* A request reads, or is over: it has no effects now.
LEMMA ReadOK ==
  ASSUME Inv, NEW r \in Requests, NEW w \in ReqType, w.at # "commit", w.fx = NoEffect,
         reqs' = [reqs EXCEPT ![r] = w], DatabaseOnly, Sees(w, used),
         w.at = "sweep" => Born(w.ids),
         \A q \in Requests \ {r} : Overlooks(w, F(q))
  PROVE  Inv'
<1>1. reqs \in [Requests -> ReqType]
  BY DEF Inv, Types
<1>2. /\ reqs' \in [Requests -> ReqType] /\ reqs'[r] = w
      /\ \A q \in Requests \ {r} : reqs'[q] = reqs[q]
  BY <1>1
<1>3. F(r)' = NoEffect /\ \A q \in Requests \ {r} : F(q)' = F(q)
  BY <1>2 DEF F
<1>4. UNCHANGED <<backend, calls, rows, used, issues, tags, picture>>
  BY DEF DatabaseOnly
<1>5. Types' /\ Quiet' /\ NothingLost' /\ Drawn(rows, used)'
  BY <1>2, <1>3, <1>4 DEF Inv, Types, Quiet, NothingLost, There, Drawn
<1>6. ASSUME NEW q \in Requests
      PROVE  /\ RowsTold(F(q))' /\ IssuesTold(F(q))' /\ Added(F(q))'
             /\ Drawn(F(q).added \cup F(q).evicted, used)'
             /\ Sees(reqs[q], used)'
             /\ (reqs[q].at \in {"sweep", "commit"} => Born(reqs[q].ids))'
  <2>1. RowsTold(F(q)) /\ Added(F(q)) /\ IssuesTold(F(q)) /\ Drawn(F(q).added \cup F(q).evicted, used)
    BY DEF Inv
  <2>2. F(q)' = F(q) \/ F(q)' = NoEffect
    BY <1>3
  <2>3. RowsTold(F(q))' /\ Added(F(q))' /\ Drawn(F(q).added \cup F(q).evicted, used)'
    <3>1. CASE F(q)' = F(q)
      BY <1>4, <2>1, <3>1 DEF RowsTold, Added, Drawn
    <3>2. CASE F(q)' = NoEffect
      BY <1>4, <3>2, NoEffectOK DEF RowsTold, Added, Drawn
    <3>3. QED
      BY <2>2, <3>1, <3>2
  <2>4. IssuesTold(F(q))'
    <3>1. CASE F(q)' = F(q)
      BY <1>4, <2>1, <3>1 DEF IssuesTold, Visible
    <3>2. CASE F(q)' = NoEffect
      BY <1>4, <3>2, NoEffectOK DEF IssuesTold, Visible
    <3>3. QED
      BY <2>2, <3>1, <3>2
  <2>5. Sees(reqs[q], used)' /\ (reqs[q].at \in {"sweep", "commit"} => Born(reqs[q].ids))'
    <3>1. CASE q = r
      BY <1>2, <1>4, <3>1 DEF Sees, Born, Drawn
    <3>2. CASE q # r
      BY <1>2, <1>4, <3>2 DEF Inv, Sees, Born, Drawn
    <3>3. QED
      BY <3>1, <3>2
  <2>6. QED
    BY <2>3, <2>4, <2>5
<1>7. ASSUME NEW q \in Requests, NEW s \in Requests PROVE Overlooks(reqs[q], F(s))'
  <2>1. CASE s = r
    BY <1>3, <2>1, NoEffectOK DEF Overlooks
  <2>2. CASE s # r
    BY <1>2, <1>3, <2>2 DEF Inv, Overlooks
  <2>3. QED
    BY <2>1, <2>2
<1>8. ASSUME NEW q \in Requests, NEW s \in Requests \ {q} PROVE Spares(F(q), F(s))'
  BY <1>3, NoEffectOK, SparesNone DEF Inv, Spares
<1>9. QED
  BY <1>5, <1>6, <1>7, <1>8 DEF Inv

LEMMA CommitOK == ASSUME Inv, NEW r \in Requests, Commit(r) PROVE Inv'
<1> DEFINE fx == F(r)
           shown == Over(fx.shown, picture.issues)
<1>1. reqs \in [Requests -> ReqType] /\ picture.issues \in Partial(PayloadType)
  BY DEF Inv, Types
<1>2. /\ fx \in FxType
      /\ fx.added \in SUBSET Row /\ fx.cut \in SUBSET Row /\ fx.told \in SUBSET Row
      /\ fx.tagged \in SUBSET TagType
      /\ fx.issues \in Partial(Issue) /\ fx.shown \in Partial(PayloadType)
  BY <1>1 DEF F, ReqType, FxType
<1>3. /\ rows' = (rows \ fx.cut) \cup fx.added
      /\ issues' = Over(fx.issues, issues)
      /\ tags' = (tags \ fx.untagged) \cup fx.tagged
      /\ picture' = [rows |-> (picture.rows \cup fx.told) \ fx.evicted,
                     issues |-> [i \in DOMAIN shown \ fx.hidden |-> shown[i]]]
      /\ UNCHANGED <<backend, calls, used>>
  BY DEF Commit, F
<1>4. PICK w \in ReqType :
        /\ reqs' = [reqs EXCEPT ![r] = w]
        /\ w.fx = NoEffect /\ w.at \in {"idle", "sweep"} /\ w.seen = {}
        /\ w.at = "sweep" => w.ids = reqs[r].ids
  <2>1. CASE reqs[r].ids = {}
    BY <1>1, <2>1, IdleType DEF Commit, Idle
  <2>2. CASE reqs[r].ids # {}
    <3> DEFINE w == [Idle EXCEPT !.at = "sweep", !.ids = reqs[r].ids]
    <3>1. reqs[r].ids \in SUBSET Issues
      BY <1>1 DEF ReqType
    <3>2. w \in ReqType /\ w.fx = NoEffect /\ w.at = "sweep" /\ w.seen = {} /\ w.ids = reqs[r].ids
      BY <3>1, IdleType DEF ReqType, Idle
    <3>3. reqs' = [reqs EXCEPT ![r] = w]
      BY <1>1, <2>2 DEF Commit
    <3> HIDE DEF w
    <3>4. QED
      BY <3>2, <3>3
  <2>3. QED
    BY <2>1, <2>2
<1>5. /\ reqs' \in [Requests -> ReqType] /\ reqs'[r] = w
      /\ \A q \in Requests \ {r} : reqs'[q] = reqs[q]
  BY <1>1, <1>4
<1>6. F(r)' = NoEffect /\ \A q \in Requests \ {r} : F(q)' = F(q)
  BY <1>4, <1>5 DEF F
<1>7. /\ RowsTold(fx) /\ IssuesTold(fx) /\ Added(fx) /\ Drawn(fx.added \cup fx.evicted, used)
      /\ reqs[r].at = "commit" /\ Born(reqs[r].ids)
  BY DEF Inv, Commit, At
<1>8. /\ issues' \in [Issues -> Issue]
      /\ \A i \in DOMAIN fx.issues : i \in Issues /\ issues'[i] = fx.issues[i]
      /\ \A i \in Issues \ DOMAIN fx.issues : issues'[i] = issues[i]
  <2>1. issues \in [Issues -> Issue] /\ DOMAIN fx.issues \in SUBSET Issues
        /\ fx.issues \in [DOMAIN fx.issues -> Issue]
    BY <1>2, PartialOf DEF Inv, Types
  <2>2. QED
    BY <1>3, <2>1 DEF Over
<1>9. /\ DOMAIN shown = DOMAIN fx.shown \cup DOMAIN picture.issues
      /\ shown \in Partial(PayloadType)
  <2> DEFINE f == fx.shown
             g == picture.issues
  <2>1. f \in Partial(PayloadType) /\ g \in Partial(PayloadType)
    BY <1>1, <1>2
  <2> HIDE DEF f, g
  <2>2. Over(f, g) \in Partial(PayloadType) /\ DOMAIN Over(f, g) = DOMAIN f \cup DOMAIN g
    BY <2>1, OverType
  <2>3. QED
    BY <2>2 DEF f, g
<1>10. /\ picture'.rows = (picture.rows \cup fx.told) \ fx.evicted
       /\ DOMAIN picture'.issues = (DOMAIN fx.shown \cup DOMAIN picture.issues) \ fx.hidden
  BY <1>3, <1>9
<1>11. picture' \in [rows : SUBSET Row, issues : Partial(PayloadType)]
  <2> DEFINE D == DOMAIN shown \ fx.hidden
             f == [i \in D |-> shown[i]]
  <2>1. DOMAIN shown \in SUBSET Issues /\ shown \in [DOMAIN shown -> PayloadType]
    BY <1>9, PartialOf
  <2>2. f \in [D -> PayloadType] /\ D \in SUBSET Issues
    BY <2>1
  <2>3. f \in Partial(PayloadType)
    BY <2>2, PartialFn
  <2>4. picture.rows \in SUBSET Row
    BY DEF Inv, Types
  <2>5. picture' = [rows |-> (picture.rows \cup fx.told) \ fx.evicted, issues |-> f]
    BY <1>3
  <2> HIDE DEF f
  <2>6. QED
    BY <1>2, <2>3, <2>4, <2>5
<1> HIDE DEF shown, fx
<1>12. Types' /\ Quiet'
  <2>1. rows' \in SUBSET Row /\ tags' \in SUBSET TagType
    BY <1>2, <1>3 DEF Inv, Types
  <2>2. Types'
    BY <1>3, <1>5, <1>8, <1>11, <2>1 DEF Inv, Types
  <2>3. QED
    BY <1>5, <1>6, <2>2 DEF Inv, Quiet
<1>13. NothingLost'
  <2>1. rows' \subseteq picture'.rows
    BY <1>3, <1>7, <1>10 DEF Inv, NothingLost, RowsTold
  <2>2. ASSUME NEW i \in Issues, There(i)', ~issues'[i].archived
        PROVE  i \in DOMAIN picture'.issues
    <3>1. Visible(issues'[i])
      BY <2>2 DEF There, Visible
    <3>2. Visible(issues[i]) => i \in DOMAIN picture.issues
      BY DEF Inv, NothingLost, There, Visible
    <3>3. CASE i \in DOMAIN fx.issues
      BY <1>7, <1>8, <1>10, <3>1, <3>2, <3>3 DEF IssuesTold
    <3>4. CASE i \notin DOMAIN fx.issues
      BY <1>7, <1>8, <1>10, <3>1, <3>2, <3>4 DEF IssuesTold, Visible
    <3>5. QED
      BY <3>3, <3>4
  <2>3. QED
    BY <2>1, <2>2 DEF NothingLost
<1>14. Drawn(rows, used)'
  BY <1>3, <1>7 DEF Inv, Drawn
<1>15. \A i \in Issues : /\ issues[i].at = "gone" => issues'[i].at = "gone"
                         /\ issues[i].at # "unborn" => issues'[i].at # "unborn"
  BY <1>7, <1>8 DEF IssuesTold
<1>16. ASSUME NEW I \in SUBSET Issues, Born(I) PROVE Born(I)'
  BY <1>15, <1>16 DEF Born
<1>17. ASSUME NEW q \in Requests \ {r}
       PROVE  /\ RowsTold(F(q))' /\ IssuesTold(F(q))' /\ Added(F(q))'
              /\ Drawn(F(q).added \cup F(q).evicted, used)'
              /\ Sees(reqs[q], used)'
              /\ (reqs[q].at \in {"sweep", "commit"} => Born(reqs[q].ids))'
  <2>1. /\ RowsTold(F(q)) /\ IssuesTold(F(q)) /\ Added(F(q))
        /\ Drawn(F(q).added \cup F(q).evicted, used) /\ Sees(reqs[q], used)
        /\ Spares(fx, F(q)) /\ Spares(F(q), fx)
        /\ reqs[q].at \in {"sweep", "commit"} => Born(reqs[q].ids)
    BY DEF Inv, fx
  <2>2. F(q)' = F(q) /\ reqs'[q] = reqs[q] /\ reqs[q].ids \in SUBSET Issues /\ F(q) \in FxType
    BY <1>1, <1>5, <1>6 DEF ReqType, F
  <2>3. RowsTold(F(q))'
    BY <1>3, <2>1, <2>2 DEF RowsTold, Spares
  <2>4. Added(F(q))'
    BY <1>3, <2>1, <2>2 DEF Added, Spares
  <2>5. Drawn(F(q).added \cup F(q).evicted, used)' /\ Sees(reqs[q], used)'
    BY <1>3, <2>1, <2>2 DEF Drawn, Sees
  <2>6. (reqs[q].at \in {"sweep", "commit"} => Born(reqs[q].ids))'
    BY <1>16, <2>1, <2>2
  <2>7. DOMAIN F(q).issues \in SUBSET Issues /\ F(q).hidden \in SUBSET Issues
    BY <2>2, PartialOf DEF FxType
  <2>8. \A i \in DOMAIN F(q).issues : issues'[i] = issues[i]
    BY <1>8, <2>1, <2>7 DEF Spares
  <2>9. IssuesTold(F(q))'
    BY <1>15, <2>1, <2>2, <2>7, <2>8 DEF IssuesTold, Visible
  <2>10. QED
    BY <2>3, <2>4, <2>5, <2>6, <2>9
<1>18. /\ RowsTold(F(r))' /\ IssuesTold(F(r))' /\ Added(F(r))'
       /\ Drawn(F(r).added \cup F(r).evicted, used)'
       /\ Sees(reqs[r], used)'
       /\ (reqs[r].at \in {"sweep", "commit"} => Born(reqs[r].ids))'
  <2>1. RowsTold(F(r))' /\ Added(F(r))' /\ Drawn(F(r).added \cup F(r).evicted, used)'
    BY <1>6 DEF RowsTold, Added, Drawn, NoEffect
  <2>2. IssuesTold(F(r))'
    BY <1>6, NothingType DEF IssuesTold, NoEffect
  <2>3. Sees(reqs[r], used)'
    BY <1>4, <1>5 DEF Sees, Drawn
  <2>4. reqs[r].ids \in SUBSET Issues
    BY <1>1 DEF ReqType
  <2>5. QED
    BY <1>4, <1>5, <1>7, <1>16, <2>1, <2>2, <2>3, <2>4
<1>19. ASSUME NEW q \in Requests, NEW s \in Requests PROVE Overlooks(reqs[q], F(s))'
  <2>1. CASE s = r
    BY <1>6, <2>1, NoEffectOK DEF Overlooks
  <2>2. CASE q = r
    BY <1>4, <1>5, <2>2 DEF Overlooks
  <2>3. CASE s # r /\ q # r
    BY <1>5, <1>6, <2>3 DEF Inv, Overlooks
  <2>4. QED
    BY <2>1, <2>2, <2>3
<1>20. ASSUME NEW q \in Requests, NEW s \in Requests \ {q} PROVE Spares(F(q), F(s))'
  BY <1>6, NoEffectOK, SparesNone DEF Inv, Spares
<1>21. QED
  BY <1>12, <1>13, <1>14, <1>17, <1>18, <1>19, <1>20 DEF Inv

-----------------------------------------------------------------------------
(***************************************************************************)
(* What the guards say of other requests.                                  *)
(***************************************************************************)
LEMMA Guards ==
  ASSUME Inv, NEW r \in Requests, NEW q \in Requests \ {r}, NEW X
  PROVE  /\ Free(r, X) => X \cap F(q).held = {}
         /\ Kept(r, X) => X \cap F(q).cut = {}
         /\ Unnamed(r, X) => \A x \in F(q).added : x.kind \in PartKinds => Project(x.of) \notin X
         /\ IssuesFree(r, X) => X \cap DOMAIN F(q).issues = {}
<1>1. CASE reqs[q].at = "commit"
  <2>1. q \in Others(r)
    BY <1>1 DEF Others
  <2>2. QED
    BY <2>1 DEF Free, Kept, Unnamed, IssuesFree, NamedBy, F
<1>2. CASE reqs[q].at # "commit"
  <2>1. F(q) = NoEffect
    BY <1>2 DEF Inv, Quiet
  <2>2. F(q).held = {} /\ F(q).cut = {} /\ F(q).added = {} /\ DOMAIN F(q).issues = {}
    BY <2>1, NothingType DEF NoEffect
  <2>3. QED
    BY <2>2
<1>3. QED
  BY <1>1, <1>2

\* A row is inserted.
LEMMA InsertFits ==
  ASSUME Inv, NEW r \in Requests, NEW x \in Row, NEW u \in UsedType,
         used.projects \subseteq u.projects, used.rows <= u.rows, Drawn({x}, u), x \notin rows,
         x.kind \in PartKinds => InProject(r, x.of),
         \A q \in Requests \ {r} :
           /\ x \notin F(q).added /\ x \notin F(q).evicted
           /\ x.kind = "favorite" => x \notin reqs[q].seen
           /\ reqs[q].at = "destroy" /\ reqs[q].of \in Projects => x # Project(reqs[q].of)
  PROVE  Fits(r, [NoEffect EXCEPT !.added = {x}, !.held = {x}, !.told = {x}], {}, u)
<1> DEFINE fx == [NoEffect EXCEPT !.added = {x}, !.held = {x}, !.told = {x}]
<1>1. /\ fx \in FxType /\ fx.added = {x} /\ fx.held = {x} /\ fx.told = {x}
      /\ fx.evicted = {} /\ fx.cut = {} /\ fx.hidden = {} /\ DOMAIN fx.issues = {}
  BY NoEffectType, NothingType DEF FxType, NoEffect
<1> HIDE DEF fx
<1>2. RowsTold(fx) /\ IssuesTold(fx) /\ Born({}) /\ Drawn(fx.added \cup fx.evicted, u)
  BY <1>1 DEF RowsTold, IssuesTold, Born
<1>3. Added(fx)
  BY <1>1 DEF Added, InProject
<1>4. ASSUME NEW q \in Requests \ {r}
      PROVE  Spares(fx, F(q)) /\ Spares(F(q), fx) /\ Overlooks(reqs[q], fx)
  <2>1. x.kind \in PartKinds => Project(x.of) \notin F(q).cut
    BY Guards DEF InProject
  <2>2. Spares(fx, F(q)) /\ Spares(F(q), fx)
    BY <1>1, <2>1 DEF Spares
  <2>3. Overlooks(reqs[q], fx)
    BY <1>1 DEF Overlooks
  <2>4. QED
    BY <2>2, <2>3
<1>5. QED
  BY <1>1, <1>2, <1>3, <1>4 DEF Fits, fx

\* No row is inserted.
LEMMA TakeFits ==
  ASSUME Inv, NEW r \in Requests, NEW fx \in FxType, NEW left \in SUBSET Issues, Born(left),
         fx.added = {}, rows \cap fx.evicted \subseteq fx.cut, Drawn(fx.evicted, used),
         \A p \in Projects : Member(p) \in fx.evicted =>
           Member(p) \in fx.held \/ Project(p) \in fx.evicted,
         IssuesTold(fx),
         \A q \in Requests \ {r} :
           /\ F(q).added \cap fx.evicted = {}
           /\ DOMAIN fx.issues \cap DOMAIN F(q).issues = {}
           /\ \A x \in F(q).added : x.kind \in PartKinds => Project(x.of) \notin fx.cut
  PROVE  Fits(r, fx, left, used)
<1>1. used \in UsedType /\ used.rows <= used.rows
  BY RecordsAssumption DEF Inv, Types, UsedType
<1>2. RowsTold(fx) /\ Added(fx) /\ Drawn(fx.added \cup fx.evicted, used)
  BY DEF RowsTold, Added
<1>3. ASSUME NEW q \in Requests \ {r}
      PROVE  Spares(fx, F(q)) /\ Spares(F(q), fx) /\ Overlooks(reqs[q], fx)
  BY DEF Spares, Overlooks
<1>4. QED
  BY <1>1, <1>2, <1>3 DEF Fits

LEMMA FinishOK ==
  ASSUME Inv, NEW r \in Requests, NEW fx, Finish(r, fx), Fits(r, fx, {}, used)
  PROVE  Inv'
BY StageOK DEF Finish, Fits, Inv, Types

\* A row with a new id is nobody's.
LEMMA InsertNewOK ==
  ASSUME Inv, NEW r \in Requests, NEW k \in RowKinds \ {"project"},
         NEW o \in Projects \cup Issues \cup {None}, InsertNew(r, k, o),
         k \in PartKinds => InProject(r, o)
  PROVE  Inv'
<1> DEFINE n == used.rows + 1
           x == [kind |-> k, of |-> o, id |-> n]
           u == [used EXCEPT !.rows = n]
<1>1. used \in UsedType /\ used.rows \in Nat /\ n \in 0..MaxRows /\ ~(n <= used.rows)
  BY RecordsAssumption DEF Inv, Types, UsedType, InsertNew
<1>2. /\ u \in UsedType /\ u.projects = used.projects /\ u.rows = n /\ used.rows <= u.rows
      /\ x \in Row /\ x.kind = k /\ x.of = o /\ x.id = n
  BY <1>1, RowTypes, RecordsAssumption DEF UsedType
<1>3. used' = u /\ Stage(r, [NoEffect EXCEPT !.added = {x}, !.held = {x}, !.told = {x}], {})
  BY DEF InsertNew, Insert
<1> HIDE DEF x, u, n
<1>4. \A X : Drawn(X, used) => x \notin X
  BY <1>1, <1>2 DEF Drawn
<1>5. Drawn({x}, u) /\ x \notin rows
  BY <1>1, <1>2, <1>4 DEF Drawn, Inv
<1>6. ASSUME NEW q \in Requests \ {r}
      PROVE  /\ x \notin F(q).added /\ x \notin F(q).evicted /\ x \notin reqs[q].seen
             /\ reqs[q].at = "destroy" /\ reqs[q].of \in Projects => x # Project(reqs[q].of)
  <2>1. x \notin F(q).added \cup F(q).evicted /\ x \notin reqs[q].seen
    BY <1>4 DEF Inv, Sees
  <2>2. \A p : x # Project(p)
    BY <1>2 DEF Project
  <2>3. QED
    BY <2>1, <2>2
<1>7. Fits(r, [NoEffect EXCEPT !.added = {x}, !.held = {x}, !.told = {x}], {}, u)
  BY <1>2, <1>5, <1>6, InsertFits
<1>8. QED
  BY <1>2, <1>3, <1>7, StageOK

LEMMA CreateProjectOK ==
  ASSUME Inv, NEW r \in Requests, NEW p \in Projects, CreateProject(r, p)
  PROVE  Inv'
<1> DEFINE x == Project(p)
           u == [used EXCEPT !.projects = @ \cup {p}]
<1>1. used \in UsedType /\ used.rows \in Nat
  BY RecordsAssumption DEF Inv, Types, UsedType
<1>2. /\ u \in UsedType /\ used.projects \subseteq u.projects /\ used.rows <= u.rows
      /\ p \in u.projects /\ p \notin used.projects
      /\ x \in Row /\ x.kind = "project" /\ x.of = p /\ x.id = 0
  BY <1>1, RowTypes DEF UsedType, Project, CreateProject
<1>3. used' = u /\ Stage(r, [NoEffect EXCEPT !.added = {x}, !.held = {x}, !.told = {x}], {})
  BY DEF CreateProject, Insert
<1>4. \A o : Project(o) = x => o = p
  BY DEF Project
<1> HIDE DEF x, u
<1>5. \A X : Drawn(X, used) => x \notin X
  BY <1>2 DEF Drawn
<1>6. Drawn({x}, u) /\ x \notin rows
  BY <1>1, <1>2, <1>5 DEF Drawn, Inv, UsedType
<1>7. ASSUME NEW q \in Requests \ {r}
      PROVE  /\ x \notin F(q).added /\ x \notin F(q).evicted /\ x \notin reqs[q].seen
             /\ reqs[q].at = "destroy" /\ reqs[q].of \in Projects => x # Project(reqs[q].of)
  <2>1. x \notin F(q).added \cup F(q).evicted /\ x \notin reqs[q].seen
    BY <1>5 DEF Inv, Sees
  <2>2. QED
    BY <1>2, <1>4, <2>1 DEF Inv, Sees
<1>8. x.kind \notin PartKinds
  BY <1>2 DEF PartKinds
<1>9. Fits(r, [NoEffect EXCEPT !.added = {x}, !.held = {x}, !.told = {x}], {}, u)
  BY <1>2, <1>6, <1>7, <1>8, InsertFits
<1>10. QED
  BY <1>2, <1>3, <1>9, StageOK

LEMMA AddMemberOK ==
  ASSUME Inv, NEW r \in Requests, NEW p \in Projects, AddMember(r, p)
  PROVE  Inv'
<1> DEFINE x == Member(p)
<1>1. used \in UsedType /\ used.rows \in Nat /\ used.rows <= used.rows
  BY RecordsAssumption DEF Inv, Types, UsedType
<1>2. x \in Row /\ x.kind = "member" /\ x.of = p /\ x.id = 0
  BY RowTypes DEF Member
<1>3. /\ used' = used /\ Stage(r, [NoEffect EXCEPT !.added = {x}, !.held = {x}, !.told = {x}], {})
      /\ InProject(r, p) /\ x \notin rows /\ Free(r, {x})
  BY DEF AddMember, Insert
<1>4. Drawn({x}, used)
  BY <1>1, <1>2 DEF Drawn
<1>5. ASSUME NEW q \in Requests \ {r}
      PROVE  /\ x \notin F(q).added /\ x \notin F(q).evicted
             /\ x # Project(reqs[q].of)
  <2>1. x \notin F(q).held /\ Project(p) \notin F(q).cut
    BY <1>3, Guards DEF InProject
  <2>2. RowsTold(F(q)) /\ Project(p) \in rows
    BY <1>3 DEF Inv, InProject
  <2>3. x \notin F(q).added /\ x \notin F(q).evicted
    BY <2>1, <2>2 DEF RowsTold
  <2>4. x # Project(reqs[q].of)
    BY DEF Member, Project
  <2>5. QED
    BY <2>3, <2>4
<1> HIDE DEF x
<1>6. Fits(r, [NoEffect EXCEPT !.added = {x}, !.held = {x}, !.told = {x}], {}, used)
  BY <1>1, <1>2, <1>3, <1>4, <1>5, InsertFits
<1>7. QED
  BY <1>1, <1>3, <1>6, StageOK

\* Rows that others have locked or added are not taken.
LEMMA RowsKnown ==
  ASSUME Inv
  PROVE  /\ \A X \in SUBSET rows : Drawn(X, used) /\ \A q \in Requests : F(q).added \cap X = {}
         /\ \A r \in Requests : reqs[r].seen \in SUBSET Row /\ Drawn(reqs[r].seen, used)
BY DEF Inv, Types, ReqType, Added, Drawn, Sees

\* A row that is there goes, and no issue changes.
LEMMA TouchOK ==
  ASSUME Inv, NEW r \in Requests, NEW x \in rows, x.kind # "project",
         NEW fx \in FxType, Finish(r, fx), fx.added = {}, fx.cut = {x}, fx.evicted = {x},
         fx.held = {x}, DOMAIN fx.issues = {}, fx.hidden = {}
  PROVE  Inv'
<1>1. {x} \in SUBSET rows /\ \A p : Project(p) # x
  BY DEF Project
<1>2. IssuesTold(fx) /\ Born({})
  BY DEF IssuesTold, Born
<1>3. Drawn(fx.evicted, used) /\ \A q \in Requests : F(q).added \cap fx.evicted = {}
  BY <1>1, RowsKnown
<1>4. Fits(r, fx, {}, used)
  BY <1>1, <1>2, <1>3, TakeFits
<1>5. QED
  BY <1>4, FinishOK

LEMMA RemoveMemberOK ==
  ASSUME Inv, NEW r \in Requests, NEW p \in Projects, RemoveMember(r, p)
  PROVE  Inv'
<1> DEFINE x == Member(p)
           fx == [NoEffect EXCEPT !.cut = {x}, !.held = {x}, !.evicted = {x}]
<1>1. x \in rows /\ x \in Row /\ x.kind = "member" /\ Finish(r, fx)
  BY RowTypes DEF RemoveMember, Member
<1>2. /\ fx \in FxType /\ fx.added = {} /\ fx.cut = {x} /\ fx.evicted = {x} /\ fx.held = {x}
      /\ DOMAIN fx.issues = {} /\ fx.hidden = {}
  BY <1>1, NoEffectType, NothingType DEF FxType, NoEffect
<1> HIDE DEF fx, x
<1>3. QED
  BY <1>1, <1>2, TouchOK

LEMMA DeleteLabelOK ==
  ASSUME Inv, NEW r \in Requests, NEW x \in rows, DeleteLabel(r, x)
  PROVE  Inv'
<1> DEFINE naming == {t \in tags : t[2] = x.id}
           fx == [NoEffect EXCEPT !.cut = {x}, !.held = {x}, !.evicted = {x}, !.untagged = naming]
<1>1. x \in Row /\ x.kind = "label" /\ Finish(r, fx) /\ naming \in SUBSET TagType
  BY DEF DeleteLabel, OfKind, Inv, Types
<1> HIDE DEF naming
<1>2. /\ fx \in FxType /\ fx.added = {} /\ fx.cut = {x} /\ fx.evicted = {x} /\ fx.held = {x}
      /\ DOMAIN fx.issues = {} /\ fx.hidden = {}
  BY <1>1, NoEffectType, NothingType DEF FxType, NoEffect
<1> HIDE DEF fx
<1>3. QED
  BY <1>1, <1>2, TouchOK

LEMMA RewriteOK ==
  ASSUME Inv, NEW r \in Requests, NEW x, Rewrite(r, x)
  PROVE  Inv'
<1> DEFINE fx == [NoEffect EXCEPT !.held = {x}, !.told = {x}]
<1>1. x \in Row /\ Finish(r, fx)
  BY DEF Rewrite, Inv, Types
<1>2. /\ fx \in FxType /\ fx.added = {} /\ fx.cut = {} /\ fx.evicted = {}
      /\ DOMAIN fx.issues = {} /\ fx.hidden = {}
  BY <1>1, NoEffectType, NothingType DEF FxType, NoEffect
<1> HIDE DEF fx
<1>3. IssuesTold(fx) /\ Born({}) /\ Drawn(fx.evicted, used)
  BY <1>2 DEF IssuesTold, Born, Drawn
<1>4. Fits(r, fx, {}, used)
  BY <1>2, <1>3, TakeFits
<1>5. QED
  BY <1>1, <1>4, FinishOK

LEMMA AddFavoriteOK ==
  ASSUME Inv, NEW r \in Requests, NEW t \in Projects \cup Issues, AddFavorite(r, t)
  PROVE  Inv'
<1>1. CASE InsertNew(r, "favorite", t)
  BY <1>1, InsertNewOK DEF RowKinds, PartKinds
<1>2. CASE Finish(r, [NoEffect EXCEPT !.told = FavoritesOf(t)])
  <2> DEFINE fx == [NoEffect EXCEPT !.told = FavoritesOf(t)]
  <2>1. FavoritesOf(t) \in SUBSET Row
    BY DEF FavoritesOf, OfKind, Inv, Types
  <2>2. /\ fx \in FxType /\ fx.added = {} /\ fx.cut = {} /\ fx.evicted = {}
        /\ DOMAIN fx.issues = {} /\ fx.hidden = {}
    BY <2>1, NoEffectType, NothingType DEF FxType, NoEffect
  <2>3. Finish(r, fx)
    BY <1>2
  <2> HIDE DEF fx
  <2>4. IssuesTold(fx) /\ Born({}) /\ Drawn(fx.evicted, used)
    BY <2>2 DEF IssuesTold, Born, Drawn
  <2>5. Fits(r, fx, {}, used)
    BY <2>2, <2>4, TakeFits
  <2>6. QED
    BY <2>3, <2>5, FinishOK
<1>3. QED
  BY <1>1, <1>2 DEF AddFavorite

LEMMA DeleteMilestoneOK ==
  ASSUME Inv, NEW r \in Requests, NEW x \in rows, DeleteMilestone(r, x)
  PROVE  Inv'
<1> DEFINE naming == {i \in Issues : There(i) /\ issues[i].milestone = x.id}
           cleared == IF backend = "postgres" THEN naming ELSE {}
           f == [i \in cleared |-> [issues[i] EXCEPT !.milestone = 0]]
           fx == [NoEffect EXCEPT !.cut = {x}, !.held = {x}, !.evicted = {x}, !.issues = f]
<1>1. /\ x.kind = "milestone" /\ Free(r, {x}) /\ IssuesFree(r, cleared) /\ Finish(r, fx)
  BY DEF DeleteMilestone, OfKind
<1>2. /\ cleared \in SUBSET Issues /\ \A i \in cleared : There(i) /\ issues[i] \in Issue
      /\ x \in Row /\ {x} \in SUBSET rows /\ 0 \in 0..MaxRows
  BY RecordsAssumption DEF Inv, Types
<1>3. \A i \in cleared : f[i] \in Issue /\ f[i].at = "there" /\ f[i].archived = issues[i].archived
  BY <1>2 DEF Issue, There
<1>4. f \in Partial(Issue) /\ DOMAIN f = cleared
  <2>1. f \in [cleared -> Issue]
    BY <1>3
  <2> HIDE DEF f, cleared
  <2>2. QED
    BY <1>2, <2>1, PartialFn
<1> HIDE DEF f
<1>5. /\ fx \in FxType /\ fx.added = {} /\ fx.cut = {x} /\ fx.evicted = {x} /\ fx.held = {x}
      /\ fx.issues = f /\ fx.hidden = {}
  BY <1>2, <1>4, NoEffectType DEF FxType, NoEffect
<1> HIDE DEF fx, cleared
<1>6. IssuesTold(fx) /\ Born({})
  BY <1>2, <1>3, <1>4, <1>5 DEF IssuesTold, Born, Visible, There
<1>7. Drawn(fx.evicted, used) /\ \A q \in Requests : F(q).added \cap fx.evicted = {}
  BY <1>2, <1>5, RowsKnown
<1>8. \A p : Project(p) # x
  BY <1>1 DEF Project
<1>9. \A q \in Requests \ {r} : DOMAIN fx.issues \cap DOMAIN F(q).issues = {}
  BY <1>1, <1>4, <1>5, Guards
<1>10. Fits(r, fx, {}, used)
  BY <1>5, <1>6, <1>7, <1>8, <1>9, TakeFits
<1>11. QED
  BY <1>1, <1>10, FinishOK

LEMMA IdleOK ==
  ASSUME Inv, NEW r \in Requests, reqs' = [reqs EXCEPT ![r] = Idle], DatabaseOnly
  PROVE  Inv'
BY ReadOK, IdleType DEF Idle, Sees, Drawn, Overlooks

LEMMA FavoriteStepsOK ==
  ASSUME Inv, NEW r \in Requests,
         \/ \E x \in rows : FindFavorite(r, x)
         \/ RemoveFavorite(r)
  PROVE  Inv'
<1>1. CASE \E x \in rows : FindFavorite(r, x)
  <2>1. PICK x \in rows : FindFavorite(r, x)
    BY <1>1
  <2> DEFINE w == [Idle EXCEPT !.at = "unpin", !.seen = {x}]
  <2>2. x \in Row /\ {x} \in SUBSET rows /\ x.kind = "favorite"
    BY <2>1 DEF FindFavorite, OfKind, Inv, Types
  <2>3. w \in ReqType /\ w.at = "unpin" /\ w.fx = NoEffect /\ w.seen = {x}
    BY <2>2, IdleType DEF ReqType, Idle
  <2>4. reqs' = [reqs EXCEPT ![r] = w] /\ DatabaseOnly
    BY <2>1 DEF FindFavorite
  <2> HIDE DEF w
  <2>5. Sees(w, used) /\ \A q \in Requests : Overlooks(w, F(q))
    BY <2>2, <2>3, RowsKnown DEF Sees, Overlooks
  <2>6. QED
    BY <2>3, <2>4, <2>5, ReadOK
<1>2. CASE RemoveFavorite(r)
  <2> DEFINE seen == reqs[r].seen
             fx == [NoEffect EXCEPT !.cut = seen, !.held = seen, !.evicted = seen]
  <2>1. seen \in SUBSET Row /\ \A x \in seen : x.kind = "favorite"
    BY <1>2 DEF RemoveFavorite, At, Inv, Types, ReqType, Sees
  <2>2. CASE seen \subseteq rows /\ Finish(r, fx)
    <3>1. /\ fx \in FxType /\ fx.added = {} /\ fx.cut = seen /\ fx.evicted = seen
          /\ fx.held = seen /\ DOMAIN fx.issues = {} /\ fx.hidden = {}
      BY <2>1, NoEffectType, NothingType DEF FxType, NoEffect
    <3> HIDE DEF fx
    <3>2. IssuesTold(fx) /\ Born({})
      BY <3>1 DEF IssuesTold, Born
    <3>3. Drawn(fx.evicted, used) /\ \A q \in Requests : F(q).added \cap fx.evicted = {}
      BY <2>2, <3>1, RowsKnown
    <3>4. \A p : Project(p) \notin fx.cut
      BY <2>1, <3>1 DEF Project
    <3>5. Fits(r, fx, {}, used)
      BY <3>1, <3>2, <3>3, <3>4, TakeFits
    <3>6. QED
      BY <2>2, <3>5, FinishOK
  <2>3. CASE reqs' = [reqs EXCEPT ![r] = Idle] /\ DatabaseOnly
    BY <2>3, IdleOK
  <2>4. QED
    BY <1>2, <2>2, <2>3 DEF RemoveFavorite
<1>3. QED
  BY <1>1, <1>2

LEMMA CollectProjectOK ==
  ASSUME Inv, NEW r \in Requests, NEW p \in Projects, CollectProject(r, p)
  PROVE  Inv'
<1> DEFINE s == PartsOf(p) \cup FavoritesOf(p)
           w == [Idle EXCEPT !.at = "destroy", !.of = p, !.seen = s, !.ids = Attached(p)]
<1>1. /\ reqs' = [reqs EXCEPT ![r] = w] /\ DatabaseOnly /\ Project(p) \in rows
  BY DEF CollectProject
<1>2. /\ s \in SUBSET rows /\ s \in SUBSET Row /\ Attached(p) \in SUBSET Issues
      /\ \A x \in s : x.kind = "favorite" \/ (x.kind \in PartKinds /\ x.of = p)
  BY DEF PartsOf, FavoritesOf, OfKind, Attached, Inv, Types
<1>3. /\ w \in ReqType /\ w.at = "destroy" /\ w.of = p /\ w.fx = NoEffect /\ w.seen = s
  BY <1>2, IdleType DEF ReqType, Idle
<1> HIDE DEF w, s
<1>4. p \in used.projects /\ \A q \in Requests : Project(p) \notin F(q).added
  <2>1. {Project(p)} \in SUBSET rows
    BY <1>1
  <2>2. Drawn({Project(p)}, used) /\ \A q \in Requests : F(q).added \cap {Project(p)} = {}
    BY <2>1, RowsKnown
  <2>3. QED
    BY <2>2 DEF Drawn, Project
<1>5. Sees(w, used) /\ \A q \in Requests : Overlooks(w, F(q))
  BY <1>2, <1>3, <1>4, RowsKnown DEF Sees, Overlooks
<1>6. QED
  BY <1>1, <1>3, <1>5, ReadOK

LEMMA DestroyProjectOK == ASSUME Inv, NEW r \in Requests, DestroyProject(r) PROVE Inv'
<1> DEFINE p == reqs[r].of
           seen == reqs[r].seen
           doomed == {x \in seen : x.kind = "favorite"} \cap rows
           gone == ({Project(p)} \cap rows) \cup PartsOf(p)
           changed == {i \in Attached(p) : Detached(p, i) # issues[i]}
           f == [i \in changed |-> Detached(p, i)]
           s == [i \in reqs[r].ids |-> Payload(i, Detached(p, i), tags)]
           fx == [NoEffect EXCEPT !.cut = gone \cup doomed, !.held = gone \cup doomed,
                    !.evicted = {Project(p)} \cup seen, !.issues = f, !.shown = s]
<1>1. /\ reqs[r].at = "destroy" /\ p \in Projects
      /\ Unnamed(r, gone) /\ IssuesFree(r, changed)
      /\ \/ reqs' = [reqs EXCEPT ![r] = Idle] /\ DatabaseOnly
         \/ Finish(r, fx)
  BY DEF DestroyProject, At
<1>2. CASE reqs' = [reqs EXCEPT ![r] = Idle] /\ DatabaseOnly
  BY <1>2, IdleOK
<1>3. CASE Finish(r, fx)
  <2>1. /\ seen \in SUBSET Row /\ reqs[r].ids \in SUBSET Issues /\ changed \in SUBSET Issues
        /\ rows \in SUBSET Row /\ issues \in [Issues -> Issue] /\ tags \in SUBSET TagType
        /\ 0 \in 0..MaxRows
    BY RecordsAssumption DEF Inv, Types, ReqType, Attached
  <2>2. /\ Sees(reqs[r], used)
        /\ \A q \in Requests : Overlooks(reqs[r], F(q)) /\ Added(F(q))
    BY DEF Inv
  <2>3. /\ doomed \in SUBSET rows /\ gone \in SUBSET rows /\ Project(p) \in Row
        /\ \A x \in doomed : x.kind = "favorite"
    BY <1>1, RowTypes DEF PartsOf
  <2>4. \A x \in seen : x.kind = "favorite" \/ (x.kind \in PartKinds /\ x.of = p)
    BY <1>1, <2>2 DEF Sees
  <2>5. \A i \in Issues : /\ Detached(p, i) \in Issue
                          /\ Detached(p, i).at = issues[i].at
                          /\ Detached(p, i).archived = issues[i].archived
    <3>1. ASSUME NEW i \in Issues
          PROVE  /\ Detached(p, i) \in Issue
                 /\ Detached(p, i).at = issues[i].at
                 /\ Detached(p, i).archived = issues[i].archived
      <4> DEFINE v == issues[i]
                 theirs == {x.id : x \in {y \in PartsOf(p) : y.kind = "milestone"}}
                 o == IF v.project = p THEN None ELSE v.project
                 m == IF v.milestone \in theirs /\ backend = "postgres" THEN 0 ELSE v.milestone
      <4>1. v \in Issue
        BY <2>1
      <4>2. Detached(p, i) = [v EXCEPT !.project = o, !.milestone = m]
        BY DEF Detached
      <4>3. o \in Projects \cup {None} /\ m \in 0..MaxRows
        BY <2>1, <4>1 DEF Issue
      <4> HIDE DEF v, o, m
      <4>4. [v EXCEPT !.project = o, !.milestone = m] \in Issue
        BY <4>1, <4>3 DEF Issue
      <4>5. /\ [v EXCEPT !.project = o, !.milestone = m].at = v.at
            /\ [v EXCEPT !.project = o, !.milestone = m].archived = v.archived
        BY <4>1 DEF Issue
      <4>6. QED
        BY <4>2, <4>4, <4>5 DEF v
    <3>2. QED
      BY <3>1
  <2>6. f \in Partial(Issue) /\ DOMAIN f = changed /\ \A i \in changed : f[i] = Detached(p, i)
    <3>1. f \in [changed -> Issue]
      BY <2>1, <2>5
    <3> HIDE DEF changed
    <3>2. QED
      BY <2>1, <3>1, PartialFn
  <2>7. s \in Partial(PayloadType)
    <3>1. s \in [reqs[r].ids -> PayloadType]
      BY <2>1, <2>5, PayloadIn
    <3>2. QED
      BY <2>1, <3>1, PartialFn
  <2> HIDE DEF f, s
  <2>8. /\ fx \in FxType /\ fx.added = {} /\ fx.cut = gone \cup doomed
        /\ fx.evicted = {Project(p)} \cup seen /\ fx.issues = f /\ fx.hidden = {}
    <3>1. gone \cup doomed \in SUBSET Row /\ {Project(p)} \cup seen \in SUBSET Row
      BY <2>1, <2>3
    <3> HIDE DEF gone, doomed
    <3>2. QED
      BY <2>6, <2>7, <3>1, NoEffectType DEF FxType, NoEffect
  <2>9. Finish(r, fx)
    BY <1>3
  <2> HIDE DEF fx
  <2>10. rows \cap fx.evicted \subseteq fx.cut
    BY <2>4, <2>8 DEF PartsOf
  <2>11. Drawn(fx.evicted, used)
    <3>1. used.rows \in Nat /\ p \in used.projects /\ Drawn(seen, used)
      BY <1>1, <2>2, RecordsAssumption DEF Inv, Types, UsedType, Sees
    <3>2. Project(p).id = 0 /\ Project(p).of = p /\ 0 <= used.rows
      BY <3>1 DEF Project
    <3>3. QED
      BY <2>8, <3>1, <3>2 DEF Drawn
  <2>12. \A o \in Projects : Member(o) \in fx.evicted => Project(o) \in fx.evicted
    BY <2>4, <2>8 DEF Member, Project
  <2>13. IssuesTold(fx) /\ Born({})
    <3>1. \A i \in changed : issues[i].at = "there"
      BY DEF Attached, There
    <3> HIDE DEF changed
    <3>2. QED
      BY <2>1, <2>5, <2>6, <2>8, <3>1 DEF IssuesTold, Born, Visible
  <2> HIDE DEF changed, seen, p
  <2>14. ASSUME NEW q \in Requests \ {r}
         PROVE  /\ F(q).added \cap fx.evicted = {}
                /\ DOMAIN fx.issues \cap DOMAIN F(q).issues = {}
                /\ \A x \in F(q).added : x.kind \in PartKinds => Project(x.of) \notin fx.cut
    <3>1. /\ \A x \in F(q).added : x.kind \in PartKinds => Project(x.of) \notin gone
          /\ changed \cap DOMAIN F(q).issues = {}
      BY <1>1, Guards
    <3>2. ASSUME NEW x \in F(q).added PROVE x \notin fx.evicted
      <4>1. x # Project(p) /\ (x \in seen => x.kind # "favorite")
        BY <1>1, <2>2 DEF Overlooks, seen, p
      <4>2. x.kind \in PartKinds /\ x.of = p => Project(p) \in rows
        BY <2>2 DEF Added
      <4>3. QED
        BY <2>4, <2>8, <3>1, <4>1, <4>2
    <3>3. \A x \in F(q).added : x.kind \in PartKinds => Project(x.of) \notin fx.cut
      BY <2>3, <2>8, <3>1 DEF Project
    <3>4. QED
      BY <2>6, <2>8, <3>1, <3>2, <3>3
  <2>15. Fits(r, fx, {}, used)
    BY <2>8, <2>10, <2>11, <2>12, <2>13, <2>14, TakeFits
  <2>16. QED
    BY <2>9, <2>15, FinishOK
<1>4. QED
  BY <1>1, <1>2, <1>3

-----------------------------------------------------------------------------
\* No row comes or goes, and what happens to issues is told.
LEMMA TellOK ==
  ASSUME Inv, NEW r \in Requests, NEW fx \in FxType, NEW left \in SUBSET Issues, Born(left),
         Stage(r, fx, left), UNCHANGED used,
         fx.added = {}, fx.cut = {}, fx.evicted = {}, IssuesTold(fx),
         IssuesFree(r, DOMAIN fx.issues)
  PROVE  Inv'
<1>1. Drawn(fx.evicted, used)
  BY DEF Drawn
<1>2. \A q \in Requests \ {r} : DOMAIN fx.issues \cap DOMAIN F(q).issues = {}
  BY Guards
<1>3. Fits(r, fx, left, used)
  BY <1>1, <1>2, TakeFits
<1>4. QED
  BY <1>3, StageOK DEF Inv, Types

\* An issue that is told is, or comes to be, there.
LEMMA OneIssue ==
  ASSUME Inv, NEW i \in Issues, NEW v \in Issue, NEW T \in SUBSET TagType
  PROVE  /\ [j \in {i} |-> v] \in Partial(Issue)
         /\ [j \in {i} |-> Payload(i, v, T)] \in Partial(PayloadType)
<1>1. /\ [j \in {i} |-> v] \in [{i} -> Issue] /\ {i} \in SUBSET Issues
      /\ [j \in {i} |-> Payload(i, v, T)] \in [{i} -> PayloadType]
  BY PayloadIn
<1>2. QED
  BY <1>1, PartialFn

LEMMA UpdateIssueOK ==
  ASSUME Inv, NEW r \in Requests, NEW i \in Issues, NEW w \in Issue, w.at = "there",
         UpdateIssue(r, i, w)
  PROVE  Inv'
<1> DEFINE v == [w EXCEPT !.archived = FALSE]
           f == [j \in {i} |-> v]
           s == [j \in {i} |-> Payload(i, v, tags)]
           fx == [NoEffect EXCEPT !.issues = f, !.shown = s]
<1>1. /\ There(i) /\ IssuesFree(r, {i})
      /\ Finish(r, fx)
  BY DEF UpdateIssue, Write
<1>2. v \in Issue /\ v.at = "there" /\ tags \in SUBSET TagType
  BY DEF Issue, Inv, Types
<1>3. f \in Partial(Issue) /\ s \in Partial(PayloadType) /\ DOMAIN f = {i} /\ f[i] = v /\ DOMAIN s = {i}
  BY <1>2, OneIssue
<1> HIDE DEF f, s
<1>4. /\ fx \in FxType /\ fx.added = {} /\ fx.cut = {} /\ fx.evicted = {} /\ fx.hidden = {}
      /\ fx.issues = f /\ fx.shown = s
  BY <1>3, NoEffectType DEF FxType, NoEffect
<1> HIDE DEF fx, v
<1>5. IssuesTold(fx) /\ Born({})
  BY <1>1, <1>2, <1>3, <1>4 DEF IssuesTold, Born, There
<1>6. QED
  BY <1>1, <1>3, <1>4, <1>5, TellOK DEF Finish

LEMMA FieldStepsOK ==
  ASSUME Inv, NEW r \in Requests, NEW i \in Issues,
         \/ \E p \in Projects \cup {None} : AssignProject(r, i, p)
         \/ \E m \in Ids("milestone") \cup {0} : AssignMilestone(r, i, m)
         \/ \E done \in BOOLEAN : SetStatus(r, i, done)
         \/ SetSortOrder(r, i)
  PROVE  Inv'
<1>1. issues[i] \in Issue /\ 0 \in 0..MaxRows /\ Ids("milestone") \subseteq 0..MaxRows
  BY RecordsAssumption DEF Inv, Types, Ids, OfKind, Row
<1>2. CASE \E p \in Projects \cup {None} : AssignProject(r, i, p)
  <2>1. PICK p \in Projects \cup {None} : AssignProject(r, i, p)
    BY <1>2
  <2> DEFINE w == [issues[i] EXCEPT !.project = p]
  <2>2. There(i) /\ UpdateIssue(r, i, w)
    BY <2>1 DEF AssignProject, UpdateIssue
  <2>3. w \in Issue /\ w.at = "there"
    BY <1>1, <2>2 DEF Issue, There
  <2> HIDE DEF w
  <2>4. QED
    BY <2>2, <2>3, UpdateIssueOK
<1>3. CASE \E m \in Ids("milestone") \cup {0} : AssignMilestone(r, i, m)
  <2>1. PICK m \in Ids("milestone") \cup {0} : AssignMilestone(r, i, m)
    BY <1>3
  <2> DEFINE w == [issues[i] EXCEPT !.milestone = m]
  <2>2. There(i) /\ UpdateIssue(r, i, w) /\ m \in 0..MaxRows
    BY <1>1, <2>1 DEF AssignMilestone, UpdateIssue
  <2>3. w \in Issue /\ w.at = "there"
    BY <1>1, <2>2 DEF Issue, There
  <2> HIDE DEF w
  <2>4. QED
    BY <2>2, <2>3, UpdateIssueOK
<1>4. CASE \E done \in BOOLEAN : SetStatus(r, i, done)
  <2>1. PICK done \in BOOLEAN : SetStatus(r, i, done)
    BY <1>4
  <2> DEFINE w == [issues[i] EXCEPT !.done = done]
  <2>2. There(i) /\ UpdateIssue(r, i, w)
    BY <2>1 DEF SetStatus, UpdateIssue
  <2>3. w \in Issue /\ w.at = "there"
    BY <1>1, <2>2 DEF Issue, There
  <2> HIDE DEF w
  <2>4. QED
    BY <2>2, <2>3, UpdateIssueOK
<1>5. CASE SetSortOrder(r, i)
  BY <1>1, <1>5, UpdateIssueOK DEF SetSortOrder, UpdateIssue, There
<1>6. QED
  BY <1>2, <1>3, <1>4, <1>5

LEMMA CreateIssueOK ==
  ASSUME Inv, NEW r \in Requests, NEW i \in Issues, NEW p \in Projects \cup {None},
         NEW m \in Ids("milestone") \cup {0}, NEW L \in SUBSET Ids("label"),
         CreateIssue(r, i, p, m, L)
  PROVE  Inv'
<1> DEFINE v == [Unborn EXCEPT !.at = "there", !.project = p, !.milestone = m]
           T == {i} \X L
           f == [j \in {i} |-> v]
           s == [j \in {i} |-> Payload(i, v, T)]
           fx == [NoEffect EXCEPT !.issues = f, !.tagged = T, !.shown = s]
<1>1. issues[i].at = "unborn" /\ IssuesFree(r, {i}) /\ Finish(r, fx)
  BY DEF CreateIssue
<1>2. 0 \in 0..MaxRows /\ m \in 0..MaxRows /\ L \subseteq 0..MaxRows
  BY RecordsAssumption DEF Inv, Types, Ids, OfKind, Row
<1>3. v \in Issue /\ v.at = "there" /\ T \in SUBSET TagType
  BY <1>2 DEF Issue, Unborn, TagType
<1>4. f \in Partial(Issue) /\ s \in Partial(PayloadType) /\ DOMAIN f = {i} /\ f[i] = v /\ DOMAIN s = {i}
  BY <1>3, OneIssue
<1> HIDE DEF f, s, T
<1>5. /\ fx \in FxType /\ fx.added = {} /\ fx.cut = {} /\ fx.evicted = {} /\ fx.hidden = {}
      /\ fx.issues = f /\ fx.shown = s
  BY <1>3, <1>4, NoEffectType DEF FxType, NoEffect
<1> HIDE DEF fx, v
<1>6. IssuesTold(fx) /\ Born({})
  BY <1>1, <1>3, <1>4, <1>5 DEF IssuesTold, Born
<1>7. QED
  BY <1>1, <1>4, <1>5, <1>6, TellOK DEF Finish

LEMMA SetIssueLabelsOK ==
  ASSUME Inv, NEW r \in Requests, NEW i \in Issues, NEW L \in SUBSET Ids("label"),
         SetIssueLabels(r, i, L)
  PROVE  Inv'
<1> DEFINE old == TagsOf(i) \ ({i} \X L)
           new == {i} \X L
           S == IF L = {} THEN {} ELSE {i}
           s == [j \in {i} |-> Payload(i, issues[i], new)]
           fx == [NoEffect EXCEPT !.untagged = old, !.tagged = new, !.shares = S, !.shown = s]
<1>1. Finish(r, fx)
  BY DEF SetIssueLabels
<1>2. L \subseteq 0..MaxRows /\ issues[i] \in Issue
  BY DEF Inv, Types, Ids, OfKind, Row
<1>3. old \in SUBSET TagType /\ new \in SUBSET TagType /\ S \in SUBSET Issues
  BY <1>2 DEF TagsOf, TagType, Inv, Types
<1>4. s \in Partial(PayloadType)
  BY <1>2, <1>3, OneIssue
<1> HIDE DEF s, old, new, S
<1>5. /\ fx \in FxType /\ fx.added = {} /\ fx.cut = {} /\ fx.evicted = {} /\ fx.hidden = {}
      /\ DOMAIN fx.issues = {}
  BY <1>3, <1>4, NoEffectType, NothingType DEF FxType, NoEffect
<1> HIDE DEF fx
<1>6. IssuesTold(fx) /\ Born({}) /\ IssuesFree(r, {})
  BY <1>5 DEF IssuesTold, Born, IssuesFree
<1>7. QED
  BY <1>1, <1>5, <1>6, TellOK DEF Finish

LEMMA CreateReleaseOK ==
  ASSUME Inv, NEW r \in Requests, NEW I \in SUBSET Issues, CreateRelease(r, I)
  PROVE  Inv'
<1> DEFINE n == used.rows + 1
           x == [kind |-> "release", of |-> None, id |-> n]
           stamped == {i \in I : ~issues[i].released}
           f == [i \in stamped |-> [issues[i] EXCEPT !.released = TRUE]]
           s == [i \in I |-> Payload(i, [issues[i] EXCEPT !.released = TRUE], tags)]
           fx == [NoEffect EXCEPT !.added = {x}, !.held = {x}, !.told = {x}, !.shares = I,
                    !.issues = f, !.shown = s]
           u == [used EXCEPT !.rows = n]
<1>1. /\ used.rows < MaxRows /\ IssuesFree(r, stamped) /\ used' = u
      /\ \A i \in I : There(i)
      /\ Stage(r, fx, {})
  BY DEF CreateRelease
<1>2. used \in UsedType /\ used.rows \in Nat /\ n \in 0..MaxRows /\ ~(n <= used.rows)
  BY <1>1, RecordsAssumption DEF Inv, Types, UsedType
<1>3. /\ u \in UsedType /\ u.projects = used.projects /\ u.rows = n /\ used.rows <= u.rows
      /\ x \in Row /\ x.kind = "release" /\ x.id = n
  BY <1>2, RowTypes, RecordsAssumption DEF UsedType, RowKinds
<1>4. \A i \in I : /\ issues[i] \in Issue /\ issues[i].at = "there"
                   /\ [issues[i] EXCEPT !.released = TRUE] \in Issue
                   /\ [issues[i] EXCEPT !.released = TRUE].at = "there"
  BY ZenonT(60), <1>1 DEF There, Issue, Inv, Types
<1>5. f \in Partial(Issue) /\ DOMAIN f = stamped /\ \A i \in stamped : f[i].at = "there"
  <2>1. f \in [stamped -> Issue] /\ stamped \in SUBSET Issues
    BY <1>4
  <2>2. \A i \in stamped : f[i].at = "there"
    BY <1>4
  <2> HIDE DEF f, stamped
  <2>3. QED
    BY <2>1, <2>2, PartialFn
<1>6. s \in Partial(PayloadType) /\ DOMAIN s = I
  <2>1. tags \in SUBSET TagType
    BY DEF Inv, Types
  <2>2. s \in [I -> PayloadType]
    BY <1>4, <2>1, PayloadIn
  <2> HIDE DEF s
  <2>3. QED
    BY <2>2, PartialFn
<1> HIDE DEF f, s, x, n, u
<1>7. /\ fx \in FxType /\ fx.added = {x} /\ fx.held = {x} /\ fx.told = {x} /\ fx.cut = {}
      /\ fx.evicted = {} /\ fx.hidden = {} /\ fx.issues = f /\ fx.shown = s
  BY <1>3, <1>5, <1>6, NoEffectType DEF FxType, NoEffect
<1> HIDE DEF fx
<1>8. \A X : Drawn(X, used) => x \notin X
  BY <1>2, <1>3 DEF Drawn
<1>9. x \notin rows /\ \A q \in Requests : x \notin F(q).added /\ x \notin F(q).evicted
  <2>1. \A q \in Requests : x \notin F(q).added \cup F(q).evicted
    BY <1>8 DEF Inv
  <2>2. QED
    BY <1>8, <2>1 DEF Inv
<1>10. RowsTold(fx) /\ Added(fx) /\ Drawn(fx.added \cup fx.evicted, u) /\ Born({})
  BY <1>3, <1>7, <1>9, <1>2 DEF RowsTold, Added, Drawn, Born, PartKinds
<1>11. IssuesTold(fx)
  BY <1>4, <1>5, <1>6, <1>7 DEF IssuesTold
<1>12. ASSUME NEW q \in Requests \ {r}
       PROVE  Spares(fx, F(q)) /\ Spares(F(q), fx) /\ Overlooks(reqs[q], fx)
  <2>1. stamped \cap DOMAIN F(q).issues = {}
    BY <1>1, Guards
  <2>2. \A p : Project(p) # x
    BY <1>3 DEF Project
  <2>3. QED
    BY <1>3, <1>5, <1>7, <1>9, <2>1, <2>2 DEF Spares, Overlooks, PartKinds
<1>13. Fits(r, fx, {}, u)
  BY <1>3, <1>7, <1>10, <1>11, <1>12 DEF Fits
<1>14. QED
  BY <1>1, <1>3, <1>13, StageOK

LEMMA CollectIssueOK ==
  ASSUME Inv, NEW r \in Requests, NEW i \in Issues, CollectIssue(r, i)
  PROVE  Inv'
<1> DEFINE s == FavoritesOf(i)
           w == [Idle EXCEPT !.at = "destroy", !.of = i, !.seen = s]
<1>1. reqs' = [reqs EXCEPT ![r] = w] /\ DatabaseOnly
  BY DEF CollectIssue
<1>2. s \in SUBSET rows /\ s \in SUBSET Row /\ \A x \in s : x.kind = "favorite"
  BY DEF FavoritesOf, OfKind, Inv, Types
<1>3. /\ w \in ReqType /\ w.at = "destroy" /\ w.of \notin Projects /\ w.fx = NoEffect /\ w.seen = s
  BY <1>2, IdleType, RecordsAssumption DEF ReqType, Idle
<1> HIDE DEF w, s
<1>4. Sees(w, used) /\ \A q \in Requests : Overlooks(w, F(q))
  BY <1>2, <1>3, RowsKnown DEF Sees, Overlooks
<1>5. QED
  BY <1>1, <1>3, <1>4, ReadOK

LEMMA DestroyIssueOK == ASSUME Inv, NEW r \in Requests, DestroyIssue(r) PROVE Inv'
<1> DEFINE i == reqs[r].of
           seen == reqs[r].seen
           doomed == seen \cap rows
           v == [Unborn EXCEPT !.at = "gone"]
           f == [j \in {i} |-> v]
           old == TagsOf(i)
           fx == [NoEffect EXCEPT !.cut = doomed, !.held = doomed, !.evicted = seen,
                    !.untagged = old, !.hidden = {i}, !.issues = f]
<1>1. reqs[r].at = "destroy" /\ i \in Issues /\ i \notin Projects /\ IssuesFree(r, {i}) /\ Finish(r, fx)
  BY RecordsAssumption DEF DestroyIssue, At
<1>2. /\ seen \in SUBSET Row /\ doomed \in SUBSET Row /\ old \in SUBSET TagType
      /\ \A x \in seen : x.kind = "favorite"
  BY <1>1 DEF Inv, Types, ReqType, Sees, TagsOf
<1>3. v \in Issue /\ v.at = "gone"
  <2>1. 0 \in 0..MaxRows
    BY RecordsAssumption
  <2>2. QED
    BY <2>1 DEF Unborn, Issue
<1>4. f \in Partial(Issue) /\ DOMAIN f = {i} /\ f[i] = v
  BY <1>1, <1>3, OneIssue
<1> HIDE DEF f, old
<1>5. /\ fx \in FxType /\ fx.added = {} /\ fx.cut = doomed /\ fx.evicted = seen
      /\ fx.hidden = {i} /\ fx.issues = f
  BY <1>1, <1>2, <1>4, NoEffectType DEF FxType, NoEffect
<1> HIDE DEF fx, v
<1>6. IssuesTold(fx) /\ Born({})
  BY <1>3, <1>4, <1>5 DEF IssuesTold, Born, Visible
<1>7. Drawn(fx.evicted, used)
  BY <1>5, RowsKnown
<1>8. \A p : Member(p) \notin fx.evicted /\ Project(p) \notin fx.cut
  BY <1>2, <1>5 DEF Member, Project
<1>9. ASSUME NEW q \in Requests \ {r}
      PROVE  F(q).added \cap fx.evicted = {} /\ DOMAIN fx.issues \cap DOMAIN F(q).issues = {}
  BY ZenonT(60), <1>1, <1>2, <1>4, <1>5, Guards DEF Inv, Overlooks
<1>10. Fits(r, fx, {}, used)
  BY <1>5, <1>6, <1>7, <1>8, <1>9, TakeFits
<1>11. QED
  BY <1>1, <1>10, FinishOK

LEMMA SelectOldOK ==
  ASSUME Inv, NEW r \in Requests, NEW I \in SUBSET Issues, SelectOld(r, I)
  PROVE  Inv'
<1> DEFINE w == [Idle EXCEPT !.at = "sweep", !.ids = I]
<1>1. reqs' = [reqs EXCEPT ![r] = w] /\ DatabaseOnly /\ \A i \in I : There(i)
  BY DEF SelectOld
<1>2. w \in ReqType /\ w.at = "sweep" /\ w.ids = I /\ w.fx = NoEffect /\ w.seen = {}
  BY IdleType DEF ReqType, Idle
<1> HIDE DEF w
<1>3. Sees(w, used) /\ Born(w.ids) /\ \A q \in Requests : Overlooks(w, F(q))
  BY <1>1, <1>2 DEF Sees, Drawn, Born, There, Overlooks
<1>4. QED
  BY <1>1, <1>2, <1>3, ReadOK

LEMMA ArchiveIssueOK ==
  ASSUME Inv, NEW r \in Requests, NEW i \in Issues, ArchiveIssue(r, i)
  PROVE  Inv'
<1> DEFINE v == [issues[i] EXCEPT !.archived = TRUE]
           hit == IF There(i) THEN {i} ELSE {}
           f == [j \in hit |-> v]
           left == reqs[r].ids \ {i}
           fx == [NoEffect EXCEPT !.issues = f, !.hidden = {i}]
<1>1. /\ reqs[r].at = "sweep" /\ i \in reqs[r].ids /\ IssuesFree(r, {i})
      /\ Stage(r, fx, left) /\ UNCHANGED used
  BY DEF ArchiveIssue, At
<1>2. /\ reqs[r].ids \in SUBSET Issues /\ Born(reqs[r].ids) /\ issues[i] \in Issue
  BY <1>1 DEF Inv, Types, ReqType
<1>3. v \in Issue /\ v.at = issues[i].at /\ v.archived
  BY <1>2 DEF Issue
<1>4. /\ f \in Partial(Issue) /\ DOMAIN f = hit /\ \A j \in hit : j = i /\ f[j] = v
  <2>1. f \in [hit -> Issue] /\ hit \in SUBSET Issues
    BY <1>3
  <2>2. \A j \in hit : j = i /\ f[j] = v
    OBVIOUS
  <2> HIDE DEF f, hit
  <2>3. QED
    BY <2>1, <2>2, PartialFn
<1> HIDE DEF f
<1>5. /\ fx \in FxType /\ fx.added = {} /\ fx.cut = {} /\ fx.evicted = {} /\ fx.hidden = {i}
      /\ fx.issues = f
  BY <1>4, NoEffectType DEF FxType, NoEffect
<1> HIDE DEF fx, v
<1>6. IssuesTold(fx)
  <2>1. issues[i].at # "unborn" /\ issues[i].at \in {"unborn", "there", "gone"}
    BY <1>1, <1>2 DEF Born, Issue
  <2>2. i \notin hit => issues[i].at = "gone"
    BY <2>1 DEF There
  <2>3. i \in hit => issues[i].at = "there"
    BY DEF There
  <2>4. QED
    BY <1>3, <1>4, <1>5, <2>2, <2>3 DEF IssuesTold, Visible
<1>7. Born(left) /\ left \in SUBSET Issues
  BY <1>2 DEF Born
<1>8. IssuesFree(r, DOMAIN fx.issues)
  BY <1>1, <1>4, <1>5 DEF IssuesFree
<1> HIDE DEF left
<1>9. QED
  BY <1>1, <1>5, <1>6, <1>7, <1>8, TellOK

-----------------------------------------------------------------------------
LEMMA RowStepOK == ASSUME Inv, NEW r \in Requests, RowStep(r) PROVE Inv'
<1>1. ASSUME NEW p \in Projects, CreateMilestone(r, p) \/ CreateUpdate(r, p) PROVE Inv'
  BY <1>1, InsertNewOK DEF CreateMilestone, CreateUpdate, RowKinds, PartKinds
<1>2. ASSUME CreateLabel(r) PROVE Inv'
  BY <1>2, InsertNewOK DEF CreateLabel, RowKinds, PartKinds
<1>3. ASSUME NEW x \in rows, UpdateProject(r, x) \/ UpdateMilestone(r, x) \/ UpdateLabel(r, x)
      PROVE  Inv'
  BY <1>3, RewriteOK DEF UpdateProject, UpdateMilestone, UpdateLabel
<1>4. QED
  BY <1>1, <1>2, <1>3, CreateProjectOK, AddMemberOK, RemoveMemberOK, CollectProjectOK,
     DeleteMilestoneOK, DeleteLabelOK, FavoriteStepsOK, AddFavoriteOK, DestroyProjectOK
     DEF RowStep

LEMMA IssueStepOK == ASSUME Inv, NEW r \in Requests, IssueStep(r) PROVE Inv'
<1>1. CASE \E i \in Issues :
             \/ \E p \in Projects \cup {None} :
                  \/ AssignProject(r, i, p)
                  \/ \E m \in Ids("milestone") \cup {0}, L \in SUBSET Ids("label") :
                       CreateIssue(r, i, p, m, L)
             \/ \E m \in Ids("milestone") \cup {0} : AssignMilestone(r, i, m)
             \/ \E done \in BOOLEAN : SetStatus(r, i, done)
             \/ \E L \in SUBSET Ids("label") : SetIssueLabels(r, i, L)
             \/ SetSortOrder(r, i) \/ CollectIssue(r, i) \/ ArchiveIssue(r, i)
  BY <1>1, FieldStepsOK, CreateIssueOK, SetIssueLabelsOK, CollectIssueOK, ArchiveIssueOK
<1>2. CASE \E I \in SUBSET Issues : CreateRelease(r, I) \/ SelectOld(r, I)
  BY <1>2, CreateReleaseOK, SelectOldOK
<1>3. CASE DestroyIssue(r)
  BY <1>3, DestroyIssueOK
<1>4. QED
  BY <1>1, <1>2, <1>3 DEF IssueStep

LEMMA StutterOK == Inv /\ UNCHANGED vars => Inv'
<1>1. SUFFICES ASSUME Inv, UNCHANGED vars PROVE Inv'
  OBVIOUS
<1>2. UNCHANGED <<backend, calls, rows, used, issues, tags, picture, reqs>>
  BY <1>1 DEF vars
<1>3. \A r : F(r)' = F(r)
  BY <1>2 DEF F
<1>4. Types' /\ Quiet' /\ NothingLost' /\ Drawn(rows, used)'
  BY <1>1, <1>2, <1>3 DEF Inv, Types, Quiet, NothingLost, There, Drawn
<1>5. ASSUME NEW r \in Requests
      PROVE  /\ RowsTold(F(r))' /\ IssuesTold(F(r))' /\ Added(F(r))'
             /\ Drawn(F(r).added \cup F(r).evicted, used)'
             /\ Sees(reqs[r], used)'
             /\ (reqs[r].at \in {"sweep", "commit"} => Born(reqs[r].ids))'
  <2>1. RowsTold(F(r))' /\ Added(F(r))' /\ Drawn(F(r).added \cup F(r).evicted, used)'
    BY <1>1, <1>2, <1>3 DEF Inv, RowsTold, Added, Drawn
  <2>2. IssuesTold(F(r))'
    BY <1>1, <1>2, <1>3 DEF Inv, IssuesTold, Visible
  <2>3. Sees(reqs[r], used)' /\ (reqs[r].at \in {"sweep", "commit"} => Born(reqs[r].ids))'
    BY <1>1, <1>2 DEF Inv, Sees, Drawn, Born
  <2>4. QED
    BY <2>1, <2>2, <2>3
<1>6. ASSUME NEW r \in Requests, NEW q \in Requests
      PROVE  /\ Overlooks(reqs[r], F(q))'
             /\ r # q => Spares(F(r), F(q))'
  BY <1>1, <1>2, <1>3 DEF Inv, Overlooks, Spares
<1>7. QED
  BY <1>4, <1>5, <1>6 DEF Inv

LEMMA NextOK == Inv /\ [Next]_vars => Inv'
<1>1. SUFFICES ASSUME Inv, [Next]_vars PROVE Inv'
  OBVIOUS
<1>2. ASSUME NEW r \in Requests, Abandon(r) PROVE Inv'
  BY <1>1, <1>2, IdleOK DEF Abandon
<1>3. QED
  BY <1>1, <1>2, RowStepOK, IssueStepOK, CommitOK, StutterOK DEF Next

\* Clients lose nothing: every row that is there, and every issue that is there and
\* not archived, is in what the log tells, whatever calls run at once, on both
\* databases, for any number of projects, issues, rows and requests
\* (project_service.rs, delete_project: "would drop rows the server still has").
THEOREM NothingLostAlways == Spec => []NothingLost
<1>1. Inv => NothingLost
  BY DEF Inv
<1>2. QED
  BY <1>1, InitOK, NextOK, PTL DEF Spec

-----------------------------------------------------------------------------
(***************************************************************************)
(* The foreign keys.  A transaction checks what it names when its          *)
(* statements run, and others that commit before it must leave that alone; *)
(* one that takes a row must take, by then, all that names it.             *)
(***************************************************************************)
\* The rows there are, with those that open transactions add and cut.
Known == rows \cup UNION {F(r).added \cup F(r).cut : r \in Requests}

\* An id is one row's for good, and milestones and labels have one.
Distinct ==
  /\ \A x \in Known : x.id <= used.rows /\ (x.kind \in {"milestone", "label"} => x.id # 0)
  /\ \A x, y \in Known : x.id = y.id /\ x.id # 0 => x = y

\* Only an issue that is there names anything.
Rooted(v) == v.project # None \/ v.milestone # 0 => v.at = "there"

\* What v names is there, and not among X.
Stays(v, X) ==
  /\ v.project # None => Project(v.project) \in rows \ X
  /\ v.milestone # 0 /\ backend = "postgres" =>
       \E x \in OfKind("milestone") \ X : x.id = v.milestone

Labelled(t, X) == \E x \in OfKind("label") \ X : x.id = t[2]

\* The database keeps its keys.
Keys ==
  /\ \A x \in rows : x.kind \in PartKinds => Project(x.of) \in rows
  /\ \A t \in tags : There(t[1]) /\ Labelled(t, {})
  /\ \A i \in Issues : Rooted(issues[i]) /\ Stays(issues[i], {})

\* A transaction that takes a row takes what names it along, and changes the
\* issues that do; the tags of an issue or a label go with it.
Whole(fx) ==
  /\ \A p \in Projects : Project(p) \in fx.cut =>
       /\ PartsOf(p) \subseteq fx.cut
       /\ \A i \in Issues : issues[i].project = p => i \in DOMAIN fx.issues
  /\ \A x \in fx.cut : x.kind = "milestone" /\ backend = "postgres" =>
       \A i \in Issues : issues[i].milestone = x.id => i \in DOMAIN fx.issues
  /\ \A x \in fx.cut : x.kind = "label" => \A t \in tags : t[2] = x.id => t \in fx.untagged
  /\ \A i \in DOMAIN fx.issues :
       /\ Rooted(fx.issues[i])
       /\ fx.issues[i].at # "there" => TagsOf(i) \subseteq fx.untagged
  /\ \A t \in fx.tagged :
       /\ t[1] \in fx.shares \cup DOMAIN fx.issues
       /\ t[1] \notin DOMAIN fx.issues => There(t[1])

\* gx takes nothing that fx names.
Stands(fx, gx) ==
  /\ \A x \in fx.added : x.kind \in PartKinds => Project(x.of) \notin gx.cut
  /\ \A i \in DOMAIN fx.issues : Stays(fx.issues[i], gx.cut)
  /\ \A t \in fx.tagged :
       /\ Labelled(t, gx.cut)
       /\ t[1] \in DOMAIN gx.issues => gx.issues[t[1]].at = "there"

KeysInv ==
  /\ Keys /\ Distinct
  /\ \A r \in Requests :
       /\ Whole(F(r))
       /\ \A q \in Requests : Stands(F(r), F(q))

\* The rows that fx adds, one at most, have the ids that were drawn for them.
Fresh(fx, u) ==
  /\ \A x, y \in fx.added : x = y
  /\ \A x \in fx.added :
       /\ x.id = 0 \/ (x.id > used.rows /\ x.id <= u.rows)
       /\ x.kind \in {"milestone", "label"} => x.id # 0

Agrees(r, fx, u) ==
  /\ used.rows <= u.rows
  /\ fx.cut \subseteq rows
  /\ Fresh(fx, u)
  /\ Whole(fx) /\ Stands(fx, fx)
  /\ \A q \in Requests \ {r} : Stands(fx, F(q)) /\ Stands(F(q), fx)

-----------------------------------------------------------------------------
LEMMA KnownOf ==
  \A x : x \in Known <=> x \in rows \/ \E r \in Requests : x \in F(r).added \/ x \in F(r).cut
BY DEF Known

LEMMA NoEffectIs ==
  /\ NoEffect.added = {} /\ NoEffect.cut = {} /\ NoEffect.held = {} /\ DOMAIN NoEffect.issues = {}
  /\ NoEffect.tagged = {} /\ NoEffect.untagged = {} /\ NoEffect.shares = {}
  /\ NoEffect.told = {} /\ NoEffect.evicted = {} /\ DOMAIN NoEffect.shown = {} /\ NoEffect.hidden = {}
BY NothingType DEF NoEffect

\* Rows that nothing names may go.
LEMMA StandsMild ==
  ASSUME NEW fx, NEW gx, Stands(fx, fx),
         \A x \in gx.cut : x.kind \notin {"project", "milestone", "label"},
         \A i \in DOMAIN gx.issues : gx.issues[i].at = "there"
  PROVE  Stands(fx, gx)
<1>1. \A p : Project(p) \notin gx.cut
  BY DEF Project
<1>2. ASSUME NEW i \in DOMAIN fx.issues PROVE Stays(fx.issues[i], gx.cut)
  <2>1. Stays(fx.issues[i], fx.cut)
    BY DEF Stands
  <2>2. QED
    BY <1>1, <2>1 DEF Stays, OfKind
<1>3. ASSUME NEW t \in fx.tagged PROVE Labelled(t, gx.cut)
  BY DEF Stands, Labelled, OfKind
<1>4. QED
  BY <1>1, <1>2, <1>3 DEF Stands

LEMMA NoEffectStands ==
  /\ Whole(NoEffect)
  /\ \A gx : Stands(NoEffect, gx)
  /\ \A fx : Stands(fx, fx) => Stands(fx, NoEffect)
<1>1. Whole(NoEffect) /\ \A gx : Stands(NoEffect, gx)
  BY NoEffectIs DEF Whole, Stands
<1>2. ASSUME NEW fx, Stands(fx, fx) PROVE Stands(fx, NoEffect)
  BY <1>2, NoEffectIs, StandsMild
<1>3. QED
  BY <1>1, <1>2

LEMMA KeysInit == Init => KeysInv
<1>1. SUFFICES ASSUME Init PROVE KeysInv
  OBVIOUS
<1>2. \A r \in Requests : F(r) = NoEffect
  BY <1>1 DEF Init, Idle, F
<1>3. \A x \in rows : x.kind = "project" /\ x.id = 0
  BY <1>1 DEF Init, Project
<1>4. \A i \in Issues : issues[i].project = None /\ issues[i].milestone = 0
  BY <1>1 DEF Init, Unborn
<1>5. Keys
  BY <1>1, <1>3, <1>4 DEF Keys, Rooted, Stays, PartKinds, Init
<1>6. Distinct
  <2>1. \A x \in Known : x \in rows
    BY <1>2, NoEffectIs DEF Known
  <2>2. used.rows = 0 /\ 0 <= used.rows
    BY <1>1 DEF Init
  <2>3. QED
    BY <1>3, <2>1, <2>2 DEF Distinct
<1>7. QED
  BY <1>2, <1>5, <1>6, NoEffectStands DEF KeysInv

LEMMA KeysStage ==
  ASSUME Inv, KeysInv, Inv', NEW r \in Requests, NEW fx, NEW left, Stage(r, fx, left),
         Agrees(r, fx, used')
  PROVE  KeysInv'
<1>1. /\ reqs' = [reqs EXCEPT ![r] = [Idle EXCEPT !.at = "commit", !.fx = fx, !.ids = left]]
      /\ UNCHANGED <<backend, calls, rows, issues, tags, picture>>
  BY DEF Stage
<1>2. F(r)' = fx /\ \A q \in Requests \ {r} : F(q)' = F(q)
  BY <1>1 DEF F, Inv, Types, Idle
<1>3. Keys'
  BY <1>1 DEF KeysInv, Keys, Rooted, Stays, Labelled, There, OfKind
<1>4. \A x \in Known' : x \in Known \/ x \in fx.added
  BY <1>1, <1>2, KnownOf DEF Known, Agrees
<1>5. Distinct'
  <2>1. used \in UsedType /\ used' \in UsedType /\ used.rows <= used'.rows
        /\ used.rows \in Nat /\ used'.rows \in Nat
    BY RecordsAssumption DEF Agrees, Inv, Types, UsedType
  <2>2. \A x \in Known : x \in Row
    BY KnownOf DEF Inv, Types, F, ReqType, FxType
  <2>3. \A x \in Known \cup fx.added : x.id \in Nat
    <3>1. F(r)' \in FxType
      BY DEF Inv, Types, F, ReqType
    <3>2. QED
      BY <1>2, <2>2, <3>1, RecordsAssumption DEF Row, FxType
  <2>4. \A x \in Known' : x.id <= used'.rows /\ (x.kind \in {"milestone", "label"} => x.id # 0)
    BY <1>4, <2>1, <2>3 DEF KeysInv, Distinct, Agrees, Fresh
  <2>5. ASSUME NEW x \in Known', NEW y \in Known', x.id = y.id, x.id # 0 PROVE x = y
    BY <1>4, <2>1, <2>3, <2>5 DEF KeysInv, Distinct, Agrees, Fresh
  <2>6. QED
    BY <2>4, <2>5 DEF Distinct
<1>6. ASSUME NEW q \in Requests PROVE Whole(F(q))'
  <2>1. Whole(F(q)')
    BY <1>2 DEF Agrees, KeysInv
  <2>2. QED
    BY <1>1, <2>1 DEF Whole, PartsOf, TagsOf, Rooted, There
<1>7. ASSUME NEW q \in Requests, NEW s \in Requests PROVE Stands(F(q), F(s))'
  <2>1. Stands(F(q)', F(s)')
    BY <1>2 DEF Agrees, KeysInv
  <2>2. QED
    BY <1>1, <2>1 DEF Stands, Stays, Labelled, OfKind
<1>8. QED
  BY <1>3, <1>5, <1>6, <1>7 DEF KeysInv

LEMMA KeysRead ==
  ASSUME Inv, KeysInv, NEW r \in Requests, NEW w, w.fx = NoEffect,
         reqs' = [reqs EXCEPT ![r] = w], DatabaseOnly
  PROVE  KeysInv'
<1>1. UNCHANGED <<backend, calls, rows, used, issues, tags, picture>>
  BY DEF DatabaseOnly
<1>2. F(r)' = NoEffect /\ \A q \in Requests \ {r} : F(q)' = F(q)
  BY DEF F, Inv, Types
<1>3. Keys'
  BY <1>1 DEF KeysInv, Keys, Rooted, Stays, Labelled, There, OfKind
<1>4. \A x \in Known' : x \in Known
  BY <1>1, <1>2, KnownOf, NoEffectIs DEF Known
<1>5. Distinct'
  BY <1>1, <1>4 DEF KeysInv, Distinct
<1>6. ASSUME NEW q \in Requests PROVE Whole(F(q))'
  <2>1. Whole(F(q)')
    BY <1>2, NoEffectStands DEF KeysInv
  <2>2. QED
    BY <1>1, <2>1 DEF Whole, PartsOf, TagsOf, Rooted, There
<1>7. ASSUME NEW q \in Requests, NEW s \in Requests PROVE Stands(F(q), F(s))'
  <2>1. Stands(F(q)', F(s)')
    BY <1>2, NoEffectStands DEF KeysInv
  <2>2. QED
    BY <1>1, <2>1 DEF Stands, Stays, Labelled, OfKind
<1>8. QED
  BY <1>3, <1>5, <1>6, <1>7 DEF KeysInv

\* What a commit does to the tables.
LEMMA CommitDoes ==
  ASSUME Inv, NEW r \in Requests, Commit(r)
  PROVE  /\ rows' = (rows \ F(r).cut) \cup F(r).added
         /\ tags' = (tags \ F(r).untagged) \cup F(r).tagged
         /\ F(r)' = NoEffect /\ \A q \in Requests \ {r} : F(q)' = F(q)
         /\ \A i \in DOMAIN F(r).issues : i \in Issues /\ issues'[i] = F(r).issues[i]
         /\ \A i \in Issues \ DOMAIN F(r).issues : issues'[i] = issues[i]
         /\ F(r) \in FxType
         /\ UNCHANGED <<backend, calls, used>>
<1>1. reqs \in [Requests -> ReqType] /\ issues \in [Issues -> Issue]
  BY DEF Inv, Types
<1>2. F(r) \in FxType /\ F(r).issues \in Partial(Issue)
  BY <1>1 DEF F, ReqType, FxType
<1>3. DOMAIN F(r).issues \in SUBSET Issues
  BY <1>2, PartialOf
<1>4. issues' = Over(F(r).issues, issues)
  BY DEF Commit, F
<1>5. /\ \A i \in DOMAIN F(r).issues : i \in Issues /\ issues'[i] = F(r).issues[i]
      /\ \A i \in Issues \ DOMAIN F(r).issues : issues'[i] = issues[i]
  BY <1>1, <1>3, <1>4 DEF Over
<1>6. F(r)' = NoEffect /\ \A q \in Requests \ {r} : F(q)' = F(q)
  BY <1>1 DEF Commit, F, Idle
<1>7. QED
  BY <1>2, <1>5, <1>6 DEF Commit, F

\* Two rows with the same id are one.
LEMMA SameRow ==
  ASSUME KeysInv, NEW x \in Known, NEW y \in Known, x.id = y.id,
         x.kind \in {"milestone", "label"}
  PROVE  x = y
BY DEF KeysInv, Distinct

LEMMA StaysOn ==
  ASSUME KeysInv, NEW r \in Requests, NEW v, NEW X, Stays(v, F(r).cut), Stays(v, X),
         rows' = (rows \ F(r).cut) \cup F(r).added, backend' = backend
  PROVE  /\ v.project # None => Project(v.project) \in rows' \ X
         /\ v.milestone # 0 /\ backend' = "postgres" =>
              \E x \in rows' \ X : x.kind = "milestone" /\ x.id = v.milestone
<1>1. v.project # None => Project(v.project) \in rows' \ X
  BY DEF Stays
<1>2. ASSUME v.milestone # 0, backend' = "postgres"
      PROVE  \E x \in rows' \ X : x.kind = "milestone" /\ x.id = v.milestone
  <2>1. PICK x \in OfKind("milestone") \ F(r).cut : x.id = v.milestone
    BY <1>2 DEF Stays
  <2>2. PICK y \in OfKind("milestone") \ X : y.id = v.milestone
    BY <1>2 DEF Stays
  <2>3. x = y /\ x.kind = "milestone"
    BY <2>1, <2>2, SameRow, KnownOf DEF OfKind
  <2>4. QED
    BY <2>1, <2>2, <2>3 DEF OfKind
<1>3. QED
  BY <1>1, <1>2

LEMMA LabelledOn ==
  ASSUME KeysInv, NEW r \in Requests, NEW t, NEW X, Labelled(t, F(r).cut), Labelled(t, X),
         rows' = (rows \ F(r).cut) \cup F(r).added
  PROVE  \E x \in rows' \ X : x.kind = "label" /\ x.id = t[2]
<1>1. PICK x \in OfKind("label") \ F(r).cut : x.id = t[2]
  BY DEF Labelled
<1>2. PICK y \in OfKind("label") \ X : y.id = t[2]
  BY DEF Labelled
<1>3. x = y /\ x.kind = "label"
  BY <1>1, <1>2, SameRow, KnownOf DEF OfKind
<1>4. QED
  BY <1>1, <1>2, <1>3 DEF OfKind

LEMMA KeysCommit == ASSUME Inv, KeysInv, NEW r \in Requests, Commit(r) PROVE KeysInv'
<1> DEFINE fx == F(r)
<1>1. /\ rows' = (rows \ fx.cut) \cup fx.added
      /\ tags' = (tags \ fx.untagged) \cup fx.tagged
      /\ F(r)' = NoEffect /\ \A q \in Requests \ {r} : F(q)' = F(q)
      /\ \A i \in DOMAIN fx.issues : i \in Issues /\ issues'[i] = fx.issues[i]
      /\ \A i \in Issues \ DOMAIN fx.issues : issues'[i] = issues[i]
      /\ fx \in FxType
      /\ UNCHANGED <<backend, calls, used>>
  BY CommitDoes
<1>2. Whole(fx) /\ Stands(fx, fx) /\ Added(fx) /\ IssuesTold(fx)
  BY DEF KeysInv, Inv
<1>3. \A p : Project(p).kind = "project" /\ Project(p).of = p
  BY DEF Project
<1>4. fx.tagged \in SUBSET TagType /\ tags \in SUBSET TagType
  BY <1>1 DEF FxType, Inv, Types
<1> HIDE DEF fx
<1>5. \A x \in rows' : x.kind \in PartKinds => Project(x.of) \in rows'
  <2>1. ASSUME NEW x \in fx.added, x.kind \in PartKinds PROVE Project(x.of) \in rows'
    BY <1>1, <1>2, <2>1 DEF Added, Stands
  <2>2. ASSUME NEW x \in rows \ fx.cut, x.kind \in PartKinds PROVE Project(x.of) \in rows'
    <3>1. Project(x.of) \in rows /\ x.of \in Projects
      BY <1>3, <2>2 DEF KeysInv, Keys, Inv, Types, UsedType, Drawn
    <3>2. QED
      BY <1>1, <1>2, <2>2, <3>1 DEF Whole, PartsOf
  <2>3. QED
    BY <1>1, <2>1, <2>2
<1>6. ASSUME NEW t \in tags'
      PROVE  There(t[1])' /\ \E x \in rows' : x.kind = "label" /\ x.id = t[2]
  <2>1. CASE t \in fx.tagged
    <3>1. There(t[1])'
      <4>1. t[1] \in Issues
        BY <1>4, <2>1 DEF TagType
      <4>2. QED
        BY <1>1, <1>2, <2>1, <4>1 DEF Whole, Stands, There
    <3>2. Labelled(t, fx.cut)
      BY <1>2, <2>1 DEF Stands
    <3>3. QED
      BY <1>1, <3>1, <3>2 DEF Labelled, OfKind
  <2>2. CASE t \in tags \ fx.untagged
    <3>1. t[1] \in Issues /\ There(t[1]) /\ Labelled(t, {})
      BY <1>4, <2>2 DEF TagType, KeysInv, Keys
    <3>2. There(t[1])'
      BY <1>1, <1>2, <2>2, <3>1 DEF Whole, There, TagsOf
    <3>3. QED
      BY <1>1, <1>2, <2>2, <3>1, <3>2 DEF Whole, Labelled, OfKind
  <2>3. QED
    BY <1>1, <2>1, <2>2
<1>7. ASSUME NEW i \in Issues
      PROVE  /\ Rooted(issues'[i])
             /\ issues'[i].project # None => Project(issues'[i].project) \in rows'
             /\ issues'[i].milestone # 0 /\ backend' = "postgres" =>
                  \E x \in rows' : x.kind = "milestone" /\ x.id = issues'[i].milestone
  <2>1. CASE i \in DOMAIN fx.issues
    <3>1. Rooted(fx.issues[i]) /\ Stays(fx.issues[i], fx.cut)
      BY <1>2, <2>1 DEF Whole, Stands
    <3>2. QED
      BY <1>1, <2>1, <3>1 DEF Stays, OfKind
  <2>2. CASE i \notin DOMAIN fx.issues
    <3>1. /\ Rooted(issues[i]) /\ Stays(issues[i], {})
          /\ issues[i].project \in Projects \cup {None}
      BY DEF KeysInv, Keys, Inv, Types, Issue
    <3>2. QED
      BY <1>1, <1>2, <1>3, <2>2, <3>1 DEF Stays, OfKind, Whole
  <2>3. QED
    BY <2>1, <2>2
<1>8. Keys'
  BY <1>5, <1>6, <1>7 DEF Keys, Stays, Labelled, OfKind, Rooted
<1>9. Distinct'
  <2>1. \A x \in Known' : x \in Known
    BY <1>1, KnownOf, NoEffectIs DEF Known, fx
  <2>2. QED
    BY <1>1, <2>1 DEF KeysInv, Distinct
<1>10. ASSUME NEW q \in Requests \ {r} PROVE Whole(F(q))'
  <2> DEFINE gx == F(q)
  <2>1. Whole(gx) /\ Stands(fx, gx) /\ Stands(gx, fx) /\ F(q)' = gx
    BY <1>1 DEF KeysInv, fx
  <2>2. gx.cut \subseteq Known
    BY <1>1, KnownOf
  <2>3. \A t \in gx.tagged : t[1] \in Issues
    BY DEF Inv, Types, F, ReqType, FxType, TagType
  <2> HIDE DEF gx
  <2>4. ASSUME NEW p \in Projects, Project(p) \in gx.cut
        PROVE  /\ \A y \in rows' : y.kind \in PartKinds /\ y.of = p => y \in gx.cut
               /\ \A i \in Issues : issues'[i].project = p => i \in DOMAIN gx.issues
    <3>1. ASSUME NEW y \in rows', y.kind \in PartKinds, y.of = p PROVE y \in gx.cut
      <4>1. y \notin fx.added
        BY <2>1, <2>4, <3>1 DEF Stands
      <4>2. QED
        BY <1>1, <2>1, <2>4, <3>1, <4>1 DEF Whole, PartsOf
    <3>2. ASSUME NEW i \in Issues, issues'[i].project = p PROVE i \in DOMAIN gx.issues
      <4>1. CASE i \in DOMAIN fx.issues
        <5>1. issues'[i].project # None => Project(issues'[i].project) \notin gx.cut
          BY <1>1, <2>1, <4>1 DEF Stands, Stays
        <5>2. p # None
          BY RecordsAssumption
        <5>3. QED
          BY <2>4, <3>2, <5>1, <5>2
      <4>2. CASE i \notin DOMAIN fx.issues
        BY <1>1, <2>1, <2>4, <3>2, <4>2 DEF Whole
      <4>3. QED
        BY <4>1, <4>2
    <3>3. QED
      BY <3>1, <3>2
  <2>5. ASSUME NEW x \in gx.cut, x.kind = "milestone", backend = "postgres", NEW i \in Issues,
               issues'[i].milestone = x.id
        PROVE  i \in DOMAIN gx.issues
    <3>1. CASE i \in DOMAIN fx.issues
      <4>1. x.id # 0
        BY <2>2, <2>5 DEF KeysInv, Distinct
      <4>2. PICK y \in OfKind("milestone") \ gx.cut : y.id = fx.issues[i].milestone
        BY <1>1, <2>1, <2>5, <3>1, <4>1 DEF Stands, Stays
      <4>3. y = x
        BY <1>1, <2>2, <2>5, <3>1, <4>2, SameRow, KnownOf DEF OfKind
      <4>4. QED
        BY <2>5, <4>2, <4>3
    <3>2. CASE i \notin DOMAIN fx.issues
      BY <1>1, <2>1, <2>5, <3>2 DEF Whole
    <3>3. QED
      BY <3>1, <3>2
  <2>6. ASSUME NEW x \in gx.cut, x.kind = "label", NEW t \in tags', t[2] = x.id
        PROVE  t \in gx.untagged
    <3>1. ASSUME t \in fx.tagged PROVE FALSE
      <4>1. PICK y \in OfKind("label") \ gx.cut : y.id = t[2]
        BY <2>1, <3>1 DEF Stands, Labelled
      <4>2. y = x
        BY <2>2, <2>6, <4>1, SameRow, KnownOf DEF OfKind
      <4>3. QED
        BY <2>6, <4>1, <4>2
    <3>2. QED
      BY <1>1, <2>1, <2>6, <3>1 DEF Whole
  <2>7. ASSUME NEW i \in DOMAIN gx.issues
        PROVE  /\ Rooted(gx.issues[i])
               /\ gx.issues[i].at # "there" => \A t \in tags' : t[1] = i => t \in gx.untagged
    BY <1>1, <2>1 DEF Whole, Stands, TagsOf
  <2>8. ASSUME NEW t \in gx.tagged
        PROVE  /\ t[1] \in gx.shares \cup DOMAIN gx.issues
               /\ t[1] \notin DOMAIN gx.issues => There(t[1])'
    BY <1>1, <1>2, <2>1, <2>8, <2>3 DEF Whole, Stands, There
  <2>9. QED
    BY <1>1, <2>1, <2>4, <2>5, <2>6, <2>7, <2>8 DEF Whole, PartsOf, TagsOf, Rooted
<1>11. Whole(F(r))'
  BY <1>1, NoEffectIs DEF Whole
<1>12. ASSUME NEW q \in Requests, NEW s \in Requests PROVE Stands(F(q), F(s))'
  <2> DEFINE gx == F(q)
             hx == F(s)
  <2>1. CASE q = r
    BY <1>1, <2>1, NoEffectIs DEF Stands
  <2>2. CASE q # r
    <3>1. /\ F(q)' = gx /\ (F(s)' = hx \/ F(s)' = NoEffect)
          /\ Stands(gx, hx) /\ Stands(gx, gx) /\ Stands(gx, fx)
      BY <1>1, <2>2 DEF KeysInv, fx
    <3> HIDE DEF gx, hx
    <3>2. PICK kx \in {hx, NoEffect} : F(s)' = kx
      BY <3>1
    <3>3. Stands(gx, kx)
      BY <3>1, NoEffectStands
    <3>4. \A x \in gx.added : x.kind \in PartKinds => Project(x.of) \notin kx.cut
      BY <3>3 DEF Stands
    <3>5. ASSUME NEW i \in DOMAIN gx.issues
          PROVE  /\ gx.issues[i].project # None => Project(gx.issues[i].project) \in rows' \ kx.cut
                 /\ gx.issues[i].milestone # 0 /\ backend' = "postgres" =>
                      \E x \in rows' \ kx.cut : x.kind = "milestone" /\ x.id = gx.issues[i].milestone
      <4>1. Stays(gx.issues[i], kx.cut) /\ Stays(gx.issues[i], F(r).cut)
        BY <3>1, <3>3 DEF Stands, fx
      <4>2. QED
        BY <1>1, <4>1, StaysOn DEF fx
    <3>6. ASSUME NEW t \in gx.tagged
          PROVE  /\ \E x \in rows' \ kx.cut : x.kind = "label" /\ x.id = t[2]
                 /\ t[1] \in DOMAIN kx.issues => kx.issues[t[1]].at = "there"
      <4>1. Labelled(t, kx.cut) /\ Labelled(t, F(r).cut)
        BY <3>1, <3>3 DEF Stands, fx
      <4>2. QED
        BY <1>1, <3>3, <4>1, LabelledOn DEF Stands, fx
    <3>7. QED
      BY <3>1, <3>2, <3>4, <3>5, <3>6 DEF Stands, Stays, Labelled, OfKind
  <2>3. QED
    BY <2>1, <2>2
<1>13. QED
  BY <1>8, <1>9, <1>10, <1>11, <1>12 DEF KeysInv

-----------------------------------------------------------------------------
(***************************************************************************)
(* What the statements of a transaction check.                             *)
(***************************************************************************)
LEMMA KeyGuards ==
  ASSUME Inv, NEW r \in Requests, NEW q \in Requests \ {r}, NEW X, NEW i
  PROVE  /\ Kept(r, X) => X \cap F(q).cut = {}
         /\ Unnamed(r, X) => X \cap NamedBy(F(q)) = {}
         /\ IssuesFree(r, X) => X \cap DOMAIN F(q).issues = {}
         /\ IssueKept(r, i) => (i \in DOMAIN F(q).issues => F(q).issues[i].at = "there")
         /\ Unshared(r, i) => i \notin F(q).shares
<1>1. \A j \in DOMAIN F(q).issues : F(q).issues[j].at \in {"there", "gone"}
  <2>1. F(q).issues \in Partial(Issue)
    BY DEF Inv, Types, F, ReqType, FxType
  <2>2. F(q).issues \in [DOMAIN F(q).issues -> Issue]
    BY <2>1, PartialOf
  <2>3. QED
    BY <2>2 DEF Inv, IssuesTold, Issue
<1>2. CASE reqs[q].at = "commit"
  <2>1. q \in Others(r)
    BY <1>2 DEF Others
  <2>2. QED
    BY <1>1, <2>1 DEF Kept, Unnamed, IssuesFree, IssueKept, Unshared, F
<1>3. CASE reqs[q].at # "commit"
  <2>1. F(q) = NoEffect
    BY <1>3 DEF Inv, Quiet
  <2>2. NamedBy(NoEffect) = {}
    BY NoEffectIs DEF NamedBy
  <2>3. QED
    BY <2>1, <2>2, NoEffectIs
<1>4. QED
  BY <1>2, <1>3

LEMMA NamedIs ==
  ASSUME NEW fx, NEW X, X \cap NamedBy(fx) = {}
  PROVE  /\ \A x \in fx.added : x.kind \in PartKinds => Project(x.of) \notin X
         /\ \A i \in DOMAIN fx.issues :
              /\ fx.issues[i].project # None => Project(fx.issues[i].project) \notin X
              /\ \A x \in OfKind("milestone") : x.id = fx.issues[i].milestone => x \notin X
         /\ \A t \in fx.tagged : \A x \in OfKind("label") : x.id = t[2] => x \notin X
BY DEF NamedBy

\* What another transaction names is not taken.
LEMMA StandsUnnamed ==
  ASSUME Inv, KeysInv, NEW r \in Requests, NEW q \in Requests \ {r}, NEW X, NEW gx, Unnamed(r, X),
         \A x \in gx.cut : x \in X \/ x.kind \notin {"project", "milestone", "label"},
         \A i \in DOMAIN gx.issues : gx.issues[i].at = "there"
  PROVE  Stands(F(q), gx)
<1> DEFINE fx == F(q)
<1>1. Stands(fx, fx) /\ X \cap NamedBy(fx) = {}
  BY KeyGuards DEF KeysInv
<1> HIDE DEF fx
<1>2. \A p : Project(p) \notin X => Project(p) \notin gx.cut
  BY DEF Project
<1>3. \A x \in OfKind("milestone") \cup OfKind("label") : x \notin X => x \notin gx.cut
  BY DEF OfKind
<1>4. \A x \in fx.added : x.kind \in PartKinds => Project(x.of) \notin gx.cut
  BY <1>1, <1>2, NamedIs
<1>5. ASSUME NEW i \in DOMAIN fx.issues PROVE Stays(fx.issues[i], gx.cut)
  BY <1>1, <1>2, <1>3, NamedIs DEF Stands, Stays
<1>6. ASSUME NEW t \in fx.tagged PROVE Labelled(t, gx.cut)
  BY <1>1, <1>3, NamedIs DEF Stands, Labelled
<1>7. Stands(fx, gx)
  BY <1>1, <1>4, <1>5, <1>6 DEF Stands
<1>8. QED
  BY <1>7 DEF fx

\* Nothing else names the rows that go, and no issue changes.
LEMMA PlainAgrees ==
  ASSUME Inv, KeysInv, NEW r \in Requests, NEW fx, NEW u,
         used.rows <= u.rows, fx.cut \subseteq rows, Fresh(fx, u),
         \A x \in fx.cut : x.kind \notin {"project", "milestone", "label"},
         \A x \in fx.added : x.kind \in PartKinds => InProject(r, x.of),
         DOMAIN fx.issues = {}, fx.tagged = {}
  PROVE  Agrees(r, fx, u)
<1>1. \A p : Project(p) \notin fx.cut
  BY DEF Project
<1>2. Whole(fx) /\ Stands(fx, fx)
  BY <1>1 DEF Whole, Stands
<1>3. ASSUME NEW q \in Requests \ {r} PROVE Stands(fx, F(q)) /\ Stands(F(q), fx)
  <2>1. Stands(F(q), F(q))
    BY DEF KeysInv
  <2>2. \A x \in fx.added : x.kind \in PartKinds => Project(x.of) \notin F(q).cut
    BY KeyGuards DEF InProject
  <2>3. QED
    BY <2>1, <2>2, StandsMild DEF Stands
<1>4. QED
  BY <1>2, <1>3 DEF Agrees

\* Issues change to what names rows that stay.
LEMMA TellAgrees ==
  ASSUME Inv, KeysInv, NEW r \in Requests, NEW fx, NEW u,
         used.rows <= u.rows, fx.cut = {}, Fresh(fx, u),
         \A x \in fx.added : x.kind \notin PartKinds,
         IssuesFree(r, DOMAIN fx.issues),
         \A i \in DOMAIN fx.issues : fx.issues[i].at = "there" /\ Keyed(r, fx.issues[i]),
         \A t \in fx.tagged :
           /\ t[1] \in fx.shares \cup DOMAIN fx.issues
           /\ t[1] \notin DOMAIN fx.issues => There(t[1]) /\ IssueKept(r, t[1])
           /\ \E x \in OfKind("label") : x.id = t[2] /\ Kept(r, {x})
  PROVE  Agrees(r, fx, u)
<1>1. Whole(fx)
  BY DEF Whole, Rooted
<1>2. ASSUME NEW X,
             \A Y : Kept(r, Y) => Y \cap X = {}
      PROVE  /\ \A i \in DOMAIN fx.issues : Stays(fx.issues[i], X)
             /\ \A t \in fx.tagged : Labelled(t, X)
  <2>1. ASSUME NEW x, Kept(r, {x}) PROVE x \notin X
    BY <1>2, <2>1
  <2>2. ASSUME NEW i \in DOMAIN fx.issues PROVE Stays(fx.issues[i], X)
    BY <2>1 DEF Keyed, Stays
  <2>3. QED
    BY <2>1, <2>2 DEF Labelled
<1>3. Stands(fx, fx)
  BY <1>2 DEF Stands
<1>4. ASSUME NEW q \in Requests \ {r} PROVE Stands(fx, F(q)) /\ Stands(F(q), fx)
  <2>1. Stands(F(q), fx)
    BY StandsMild DEF KeysInv
  <2>2. \A Y : Kept(r, Y) => Y \cap F(q).cut = {}
    BY KeyGuards
  <2>3. \A t \in fx.tagged : t[1] \in DOMAIN F(q).issues => F(q).issues[t[1]].at = "there"
    BY KeyGuards
  <2>4. QED
    BY <1>2, <2>1, <2>2, <2>3 DEF Stands
<1>5. QED
  BY <1>1, <1>3, <1>4 DEF Agrees

\* An issue that no other transaction changes keeps what it names.
LEMMA SameKeyed ==
  ASSUME Inv, KeysInv, NEW r \in Requests, NEW i \in Issues, IssuesFree(r, {i}), NEW v,
         v.project = issues[i].project, v.milestone = issues[i].milestone
  PROVE  Keyed(r, v)
<1>1. Stays(issues[i], {}) /\ issues[i].project \in Projects \cup {None}
  BY DEF KeysInv, Keys, Inv, Types, Issue
<1>2. ASSUME NEW q \in Others(r)
      PROVE  /\ v.project # None => Project(v.project) \notin reqs[q].fx.cut
             /\ backend = "postgres" =>
                  \A x \in OfKind("milestone") : x.id = v.milestone => x \notin reqs[q].fx.cut
  <2>1. q \in Requests \ {r} /\ Whole(F(q)) /\ F(q) = reqs[q].fx
    BY DEF Others, KeysInv, F
  <2>2. i \notin DOMAIN F(q).issues
    BY <2>1, KeyGuards
  <2>3. QED
    BY <1>1, <2>1, <2>2 DEF Whole, OfKind
<1>3. QED
  BY <1>1, <1>2 DEF Stays, Keyed, Kept

-----------------------------------------------------------------------------
(***************************************************************************)
(* The calls.                                                              *)
(***************************************************************************)
LEMMA UsedRows == Inv => used.rows \in Nat /\ used.rows <= used.rows
BY RecordsAssumption DEF Inv, Types, UsedType

LEMMA KeysFinish ==
  ASSUME Inv, KeysInv, Inv', NEW r \in Requests, NEW fx, Finish(r, fx), Agrees(r, fx, used)
  PROVE  KeysInv'
BY KeysStage DEF Finish

\* A row is inserted.
LEMMA KeysInsert ==
  ASSUME Inv, KeysInv, Inv', NEW r \in Requests, NEW x, Insert(r, x), used.rows <= used'.rows,
         x.id = 0 \/ (x.id > used.rows /\ x.id <= used'.rows),
         x.kind \in {"milestone", "label"} => x.id # 0,
         x.kind \in PartKinds => InProject(r, x.of)
  PROVE  KeysInv'
<1> DEFINE fx == [NoEffect EXCEPT !.added = {x}, !.held = {x}, !.told = {x}]
<1>1. fx.added = {x} /\ fx.cut = {} /\ DOMAIN fx.issues = {} /\ fx.tagged = {}
  BY NoEffectIs DEF NoEffect
<1>2. Stage(r, fx, {})
  BY DEF Insert
<1> HIDE DEF fx
<1>3. Fresh(fx, used')
  BY <1>1 DEF Fresh
<1>4. Agrees(r, fx, used')
  BY <1>1, <1>3, PlainAgrees
<1>5. QED
  BY <1>2, <1>4, KeysStage

LEMMA KeysInsertNew ==
  ASSUME Inv, KeysInv, Inv', NEW r \in Requests, NEW k, NEW o, InsertNew(r, k, o),
         k \in PartKinds => InProject(r, o)
  PROVE  KeysInv'
<1> DEFINE x == [kind |-> k, of |-> o, id |-> used.rows + 1]
<1>1. used'.rows = used.rows + 1 /\ used.rows \in Nat
  BY UsedRows DEF InsertNew, Inv, Types, UsedType
<1>2. x.kind = k /\ x.of = o /\ x.id = used.rows + 1 /\ Insert(r, x)
  BY DEF InsertNew
<1> HIDE DEF x
<1>3. QED
  BY <1>1, <1>2, KeysInsert

LEMMA KeysInserts ==
  ASSUME Inv, KeysInv, Inv', NEW r \in Requests,
         \/ \E p \in Projects :
              CreateProject(r, p) \/ AddMember(r, p) \/ CreateMilestone(r, p) \/ CreateUpdate(r, p)
         \/ CreateLabel(r)
  PROVE  KeysInv'
<1>1. ASSUME NEW p \in Projects, CreateProject(r, p) PROVE KeysInv'
  <2>1. Insert(r, Project(p)) /\ used'.rows = used.rows
    BY <1>1 DEF CreateProject, Inv, Types, UsedType
  <2>2. Project(p).id = 0 /\ Project(p).kind = "project"
    BY DEF Project
  <2>3. QED
    BY <2>1, <2>2, UsedRows, KeysInsert DEF PartKinds
<1>2. ASSUME NEW p \in Projects, AddMember(r, p) PROVE KeysInv'
  <2>1. Insert(r, Member(p)) /\ used' = used /\ InProject(r, p)
    BY <1>2 DEF AddMember
  <2>2. Member(p).id = 0 /\ Member(p).kind = "member" /\ Member(p).of = p
    BY DEF Member
  <2>3. QED
    BY <2>1, <2>2, UsedRows, KeysInsert
<1>3. ASSUME NEW p \in Projects, CreateMilestone(r, p) \/ CreateUpdate(r, p) PROVE KeysInv'
  BY <1>3, KeysInsertNew DEF CreateMilestone, CreateUpdate
<1>4. ASSUME CreateLabel(r) PROVE KeysInv'
  BY <1>4, KeysInsertNew DEF CreateLabel, PartKinds
<1>5. QED
  BY <1>1, <1>2, <1>3, <1>4

\* Rows are told, or rows that nothing names go.
LEMMA KeysPlain ==
  ASSUME Inv, KeysInv, Inv', NEW r \in Requests, NEW fx, Finish(r, fx), fx.added = {},
         fx.cut \subseteq rows, \A x \in fx.cut : x.kind \notin {"project", "milestone", "label"},
         DOMAIN fx.issues = {}, fx.tagged = {}
  PROVE  KeysInv'
<1>1. Fresh(fx, used)
  BY DEF Fresh
<1>2. Agrees(r, fx, used)
  BY <1>1, UsedRows, PlainAgrees
<1>3. QED
  BY <1>2, KeysFinish

LEMMA KeysRows ==
  ASSUME Inv, KeysInv, Inv', NEW r \in Requests,
         \/ \E x \in rows : Rewrite(r, x)
         \/ \E p \in Projects : RemoveMember(r, p)
         \/ \E t \in Projects \cup Issues : AddFavorite(r, t)
         \/ RemoveFavorite(r)
  PROVE  KeysInv'
<1>1. ASSUME NEW x \in rows, Rewrite(r, x) PROVE KeysInv'
  <2> DEFINE fx == [NoEffect EXCEPT !.held = {x}, !.told = {x}]
  <2>1. Finish(r, fx) /\ fx.added = {} /\ fx.cut = {} /\ DOMAIN fx.issues = {} /\ fx.tagged = {}
    BY <1>1, NoEffectIs DEF NoEffect, Rewrite
  <2> HIDE DEF fx
  <2>2. QED
    BY <2>1, KeysPlain
<1>2. ASSUME NEW p \in Projects, RemoveMember(r, p) PROVE KeysInv'
  <2> DEFINE x == Member(p)
             fx == [NoEffect EXCEPT !.cut = {x}, !.held = {x}, !.evicted = {x}]
  <2>1. /\ Finish(r, fx) /\ fx.added = {} /\ fx.cut = {x} /\ DOMAIN fx.issues = {} /\ fx.tagged = {}
        /\ x \in rows /\ x.kind = "member"
    BY <1>2, NoEffectIs DEF NoEffect, RemoveMember, Member
  <2> HIDE DEF fx, x
  <2>2. QED
    BY <2>1, KeysPlain
<1>3. ASSUME NEW t \in Projects \cup Issues, AddFavorite(r, t) PROVE KeysInv'
  <2>1. CASE InsertNew(r, "favorite", t)
    BY <2>1, KeysInsertNew DEF PartKinds
  <2>2. CASE Finish(r, [NoEffect EXCEPT !.told = FavoritesOf(t)])
    <3> DEFINE fx == [NoEffect EXCEPT !.told = FavoritesOf(t)]
    <3>1. Finish(r, fx) /\ fx.added = {} /\ fx.cut = {} /\ DOMAIN fx.issues = {} /\ fx.tagged = {}
      BY <2>2, NoEffectIs DEF NoEffect
    <3> HIDE DEF fx
    <3>2. QED
      BY <3>1, KeysPlain
  <2>3. QED
    BY <1>3, <2>1, <2>2 DEF AddFavorite
<1>4. ASSUME RemoveFavorite(r) PROVE KeysInv'
  <2> DEFINE seen == reqs[r].seen
             fx == [NoEffect EXCEPT !.cut = seen, !.held = seen, !.evicted = seen]
  <2>1. CASE reqs' = [reqs EXCEPT ![r] = Idle] /\ DatabaseOnly
    BY <2>1, KeysRead DEF Idle
  <2>2. CASE seen \subseteq rows /\ Finish(r, fx)
    <3>1. \A x \in seen : x.kind = "favorite"
      BY <1>4 DEF RemoveFavorite, At, Inv, Sees
    <3>2. fx.added = {} /\ fx.cut = seen /\ DOMAIN fx.issues = {} /\ fx.tagged = {}
      BY NoEffectIs DEF NoEffect
    <3> HIDE DEF fx
    <3>3. QED
      BY <2>2, <3>1, <3>2, KeysPlain
  <2>3. QED
    BY <1>4, <2>1, <2>2 DEF RemoveFavorite
<1>5. QED
  BY <1>1, <1>2, <1>3, <1>4

\* A milestone goes, and the issues that named it name it no more.
LEMMA KeysDeleteMilestone ==
  ASSUME Inv, KeysInv, Inv', NEW r \in Requests, NEW x \in rows, DeleteMilestone(r, x)
  PROVE  KeysInv'
<1> DEFINE cleared == IF backend = "postgres"
                      THEN {i \in Issues : There(i) /\ issues[i].milestone = x.id} ELSE {}
           f == [i \in cleared |-> [issues[i] EXCEPT !.milestone = 0]]
           fx == [NoEffect EXCEPT !.cut = {x}, !.held = {x}, !.evicted = {x}, !.issues = f]
<1>1. x.kind = "milestone" /\ Unnamed(r, {x}) /\ IssuesFree(r, cleared) /\ Finish(r, fx)
  BY DEF DeleteMilestone, OfKind
<1>2. fx.added = {} /\ fx.cut = {x} /\ fx.issues = f /\ fx.tagged = {}
  BY NoEffectIs DEF NoEffect
<1>3. \A i \in cleared : issues[i] \in Issue /\ There(i)
  BY DEF Inv, Types
<1>4. /\ DOMAIN f = cleared
      /\ \A i \in cleared : /\ f[i].at = "there" /\ f[i].milestone = 0
                            /\ f[i].project = issues[i].project
  BY <1>3 DEF Issue, There
<1>5. /\ x.id # 0 /\ \A p : Project(p) # x
      /\ \A i \in Issues : issues[i].milestone # 0 => There(i)
  BY <1>1, KnownOf DEF KeysInv, Distinct, Keys, Rooted, There, Project
<1>6. backend = "postgres" => \A i \in Issues : issues[i].milestone = x.id => i \in cleared
  BY <1>5
<1>7. \A i \in cleared : i \in Issues
  OBVIOUS
<1> HIDE DEF fx, f, cleared
<1>8. Whole(fx)
  BY <1>1, <1>2, <1>4, <1>5, <1>6 DEF Whole, Rooted
<1>9. \A i \in cleared : Keyed(r, f[i])
  <2>1. ASSUME NEW i \in cleared PROVE Keyed(r, f[i])
    <3> DEFINE v == issues[i]
    <3>1. i \in Issues /\ IssuesFree(r, {i})
      BY <1>1, <1>7, <2>1 DEF IssuesFree
    <3>2. Keyed(r, v)
      BY <3>1, SameKeyed
    <3>3. QED
      BY <1>4, <2>1, <3>2 DEF Keyed
  <2>2. QED
    BY <2>1
<1>10. Stands(fx, fx)
  BY <1>2, <1>4, <1>5, <1>9 DEF Stands, Stays, Keyed
<1>11. ASSUME NEW q \in Requests \ {r} PROVE Stands(fx, F(q)) /\ Stands(F(q), fx)
  <2>1. Stands(F(q), fx)
    BY <1>1, <1>2, <1>4, StandsUnnamed
  <2>2. ASSUME NEW i \in DOMAIN fx.issues PROVE Stays(fx.issues[i], F(q).cut)
    <3>1. Keyed(r, f[i]) /\ f[i].milestone = 0
      BY <1>2, <1>4, <1>9, <2>2
    <3>2. QED
      BY <1>2, <3>1, KeyGuards DEF Keyed, Stays
  <2>3. QED
    BY <1>2, <2>1, <2>2 DEF Stands
<1>12. Agrees(r, fx, used)
  BY <1>2, <1>8, <1>10, <1>11, UsedRows DEF Agrees, Fresh
<1>13. QED
  BY <1>1, <1>12, KeysFinish

\* A label goes with its tags.
LEMMA KeysDeleteLabel ==
  ASSUME Inv, KeysInv, Inv', NEW r \in Requests, NEW x \in rows, DeleteLabel(r, x)
  PROVE  KeysInv'
<1> DEFINE naming == {t \in tags : t[2] = x.id}
           fx == [NoEffect EXCEPT !.cut = {x}, !.held = {x}, !.evicted = {x}, !.untagged = naming]
<1>1. x.kind = "label" /\ Unnamed(r, {x}) /\ Finish(r, fx)
  BY DEF DeleteLabel, OfKind
<1>2. fx.added = {} /\ fx.cut = {x} /\ DOMAIN fx.issues = {} /\ fx.tagged = {} /\ fx.untagged = naming
  BY NoEffectIs DEF NoEffect
<1>3. \A p : Project(p) # x
  BY <1>1 DEF Project
<1> HIDE DEF fx
<1>4. Whole(fx) /\ Stands(fx, fx)
  BY <1>1, <1>2, <1>3 DEF Whole, Stands
<1>5. ASSUME NEW q \in Requests \ {r} PROVE Stands(fx, F(q)) /\ Stands(F(q), fx)
  BY <1>1, <1>2, StandsUnnamed DEF Stands
<1>6. Agrees(r, fx, used)
  BY <1>2, <1>4, <1>5, UsedRows DEF Agrees, Fresh
<1>7. QED
  BY <1>1, <1>6, KeysFinish

\* A project goes with its parts; the issues that named it or its milestones do
\* not any more.
LEMMA KeysDestroyProject ==
  ASSUME Inv, KeysInv, Inv', NEW r \in Requests, DestroyProject(r)
  PROVE  KeysInv'
<1> DEFINE p == reqs[r].of
           seen == reqs[r].seen
           doomed == {x \in seen : x.kind = "favorite"} \cap rows
           gone == ({Project(p)} \cap rows) \cup PartsOf(p)
           changed == {i \in Attached(p) : Detached(p, i) # issues[i]}
           f == [i \in changed |-> Detached(p, i)]
           s == [i \in reqs[r].ids |-> Payload(i, Detached(p, i), tags)]
           fx == [NoEffect EXCEPT !.cut = gone \cup doomed, !.held = gone \cup doomed,
                    !.evicted = {Project(p)} \cup seen, !.issues = f, !.shown = s]
<1>1. /\ p \in Projects
      /\ Unnamed(r, gone) /\ IssuesFree(r, changed)
      /\ \/ reqs' = [reqs EXCEPT ![r] = Idle] /\ DatabaseOnly
         \/ Finish(r, fx)
  BY DEF DestroyProject
<1>2. CASE reqs' = [reqs EXCEPT ![r] = Idle] /\ DatabaseOnly
  BY <1>2, KeysRead DEF Idle
<1>3. CASE Finish(r, fx)
  <2>1. fx.added = {} /\ fx.cut = gone \cup doomed /\ fx.issues = f /\ fx.tagged = {}
    BY NoEffectIs DEF NoEffect
  <2>2. Finish(r, fx)
    BY <1>3
  <2>3. DOMAIN f = changed /\ \A i \in changed : f[i] = Detached(p, i)
    OBVIOUS
  <2> HIDE DEF fx, f, s
  <2>4. /\ fx.cut \subseteq rows
        /\ \A x \in doomed : x.kind = "favorite"
        /\ \A x \in gone : x = Project(p) \/ (x \in PartsOf(p) /\ x.kind \in PartKinds)
    BY <2>1 DEF PartsOf
  <2>5. \A o : Project(o).kind = "project" /\ Project(o).of = o /\ (Project(o) = Project(p) => o = p)
    BY DEF Project
  <2>6. \A o : Project(o) \in fx.cut => o = p
    BY <2>1, <2>4, <2>5 DEF PartKinds
  <2>7. \A x \in OfKind("milestone") : x \in fx.cut <=> x.of = p
    BY <2>1, <2>4, <2>5 DEF PartKinds, PartsOf, OfKind
  <2> DEFINE theirs == {x.id : x \in {y \in PartsOf(p) : y.kind = "milestone"}}
  <2>8. \A i \in Issues :
          /\ issues[i] \in Issue /\ Rooted(issues[i]) /\ Stays(issues[i], {})
    BY DEF KeysInv, Keys, Inv, Types
  <2>9. \A i \in Issues :
          /\ Detached(p, i).at = issues[i].at
          /\ Detached(p, i).project = IF issues[i].project = p THEN None ELSE issues[i].project
          /\ Detached(p, i).milestone =
               IF issues[i].milestone \in theirs /\ backend = "postgres" THEN 0 ELSE issues[i].milestone
    BY <2>8 DEF Detached, Issue
  <2>10. p # None /\ 0 \notin theirs
    <3>1. \A x \in rows : x.kind = "milestone" => x.id # 0
      BY KnownOf DEF KeysInv, Distinct
    <3>2. QED
      BY <1>1, <3>1, RecordsAssumption DEF PartsOf
  <2>11. \A i \in Issues : issues[i].project = p => i \in changed
    BY <2>8, <2>9, <2>10 DEF Attached, Rooted, There
  <2>12. \A i \in Issues : issues[i].milestone \in theirs /\ backend = "postgres" => i \in changed
    BY <2>8, <2>9, <2>10 DEF Attached, Rooted, There
  <2>13. \A i \in changed : i \in Issues /\ There(i)
    BY DEF Attached
  <2>14. \A x \in OfKind("milestone") : x.id \in theirs => x \in fx.cut
    <3>1. ASSUME NEW x \in OfKind("milestone"), x.id \in theirs PROVE x \in fx.cut
      <4>1. PICK y \in PartsOf(p) : y.kind = "milestone" /\ y.id = x.id
        BY <3>1
      <4>2. y = x
        BY <4>1, KnownOf, SameRow DEF OfKind, PartsOf
      <4>3. QED
        BY <2>1, <4>1, <4>2
    <3>2. QED
      BY <3>1
  <2>15. \A x \in OfKind("milestone") : x \in fx.cut => x.id \in theirs
    BY <2>7 DEF PartsOf, OfKind, PartKinds
  <2>16. Whole(fx)
    <3>1. \A o \in Projects : Project(o) \in fx.cut =>
            /\ PartsOf(o) \subseteq fx.cut
            /\ \A i \in Issues : issues[i].project = o => i \in DOMAIN fx.issues
      BY <2>1, <2>3, <2>6, <2>11
    <3>2. \A x \in fx.cut : x.kind = "milestone" /\ backend = "postgres" =>
            \A i \in Issues : issues[i].milestone = x.id => i \in DOMAIN fx.issues
      BY <2>1, <2>3, <2>4, <2>12, <2>15 DEF OfKind
    <3>3. \A x \in fx.cut : x.kind # "label"
      BY <2>1, <2>4, <2>5 DEF PartKinds
    <3>4. \A i \in DOMAIN fx.issues : fx.issues[i].at = "there"
      BY <2>1, <2>3, <2>9, <2>13 DEF There
    <3> HIDE DEF changed, doomed, gone, theirs
    <3>5. QED
      BY <2>1, <3>1, <3>2, <3>3, <3>4 DEF Whole, Rooted
  <2>17. ASSUME NEW i \in changed, NEW X, fx.cut = X \/ Stays(issues[i], X)
         PROVE  Stays(f[i], X)
    <3>1. i \in Issues
      BY <2>13
    <3>2. f[i].project # None => Project(f[i].project) \in rows \ X
      BY <2>3, <2>6, <2>8, <2>9, <2>17, <3>1 DEF Stays
    <3>3. ASSUME f[i].milestone # 0, backend = "postgres"
          PROVE  \E x \in OfKind("milestone") \ X : x.id = f[i].milestone
      <4>1. f[i].milestone = issues[i].milestone /\ f[i].milestone \notin theirs
        BY <2>3, <2>9, <3>1, <3>3
      <4>2. PICK x \in OfKind("milestone") : x.id = f[i].milestone /\ (x \in X => fx.cut = X)
        BY <2>8, <2>17, <3>1, <3>3, <4>1 DEF Stays
      <4>3. QED
        BY <2>15, <4>1, <4>2
    <3>4. QED
      BY <3>2, <3>3 DEF Stays
  <2> HIDE DEF theirs
  <2>18. Stands(fx, fx)
    BY <2>1, <2>3, <2>17 DEF Stands
  <2>19. ASSUME NEW q \in Requests \ {r} PROVE Stands(fx, F(q)) /\ Stands(F(q), fx)
    <3>1. Stands(F(q), fx)
      <4>1. \A x \in fx.cut : x \in gone \/ x.kind \notin {"project", "milestone", "label"}
        BY <2>1, <2>4
      <4>2. \A i \in DOMAIN fx.issues : fx.issues[i].at = "there"
        BY <2>1, <2>3, <2>9, <2>13 DEF There
      <4> HIDE DEF gone
      <4>3. QED
        BY <1>1, <4>1, <4>2, StandsUnnamed
    <3>2. ASSUME NEW i \in changed PROVE Stays(f[i], F(q).cut)
      <4>1. i \in Issues /\ IssuesFree(r, {i})
        BY <1>1, <2>13, <3>2 DEF IssuesFree
      <4>2. Keyed(r, issues[i])
        BY <4>1, SameKeyed
      <4>3. \A Y : Kept(r, Y) => Y \cap F(q).cut = {}
        BY KeyGuards
      <4>4. Stays(issues[i], F(q).cut)
        BY <4>2, <4>3 DEF Keyed, Stays
      <4>5. QED
        BY <2>17, <4>4
    <3>3. QED
      BY <2>1, <2>3, <3>1, <3>2 DEF Stands
  <2>20. Agrees(r, fx, used)
    BY <2>1, <2>4, <2>16, <2>18, <2>19, UsedRows DEF Agrees, Fresh
  <2>21. QED
    BY <2>2, <2>20, KeysFinish
<1>4. QED
  BY <1>1, <1>2, <1>3

-----------------------------------------------------------------------------
LEMMA KeysUpdateIssue ==
  ASSUME Inv, KeysInv, Inv', NEW r \in Requests, NEW i \in Issues, NEW w \in Issue, w.at = "there",
         UpdateIssue(r, i, w)
  PROVE  KeysInv'
<1> DEFINE v == [w EXCEPT !.archived = FALSE]
           f == [j \in {i} |-> v]
           s == [j \in {i} |-> Payload(i, v, tags)]
           fx == [NoEffect EXCEPT !.issues = f, !.shown = s]
<1>1. IssuesFree(r, {i}) /\ Keyed(r, v) /\ Finish(r, fx)
  BY DEF UpdateIssue, Write
<1>2. v.at = "there"
  BY DEF Issue
<1>3. DOMAIN f = {i} /\ f[i] = v /\ fx.added = {} /\ fx.cut = {} /\ fx.tagged = {} /\ fx.issues = f
  BY NoEffectIs DEF NoEffect
<1> HIDE DEF fx, f, v
<1>4. Agrees(r, fx, used)
  BY <1>1, <1>2, <1>3, UsedRows, TellAgrees DEF Fresh
<1>5. QED
  BY <1>1, <1>4, KeysFinish

LEMMA KeysFields ==
  ASSUME Inv, KeysInv, Inv', NEW r \in Requests, NEW i \in Issues,
         \/ \E p \in Projects \cup {None} : AssignProject(r, i, p)
         \/ \E m \in Ids("milestone") \cup {0} : AssignMilestone(r, i, m)
         \/ \E done \in BOOLEAN : SetStatus(r, i, done)
         \/ SetSortOrder(r, i)
  PROVE  KeysInv'
<1>1. issues[i] \in Issue /\ 0 \in 0..MaxRows /\ Ids("milestone") \subseteq 0..MaxRows
  BY RecordsAssumption DEF Inv, Types, Ids, OfKind, Row
<1>2. ASSUME NEW w, UpdateIssue(r, i, w),
             \/ \E p \in Projects \cup {None} : w = [issues[i] EXCEPT !.project = p]
             \/ \E m \in Ids("milestone") \cup {0} : w = [issues[i] EXCEPT !.milestone = m]
             \/ \E done \in BOOLEAN : w = [issues[i] EXCEPT !.done = done]
             \/ w = issues[i]
      PROVE  KeysInv'
  <2>1. issues[i].at = "there"
    BY <1>2 DEF UpdateIssue, There
  <2>2. w \in Issue /\ w.at = "there"
    BY <1>1, <1>2, <2>1 DEF Issue
  <2>3. QED
    BY <1>2, <2>2, KeysUpdateIssue
<1>3. QED
  BY <1>2 DEF AssignProject, AssignMilestone, SetStatus, SetSortOrder

LEMMA KeysCreateIssue ==
  ASSUME Inv, KeysInv, Inv', NEW r \in Requests, NEW i \in Issues, NEW p, NEW m,
         NEW L, CreateIssue(r, i, p, m, L)
  PROVE  KeysInv'
<1> DEFINE v == [Unborn EXCEPT !.at = "there", !.project = p, !.milestone = m]
           T == {i} \X L
           f == [j \in {i} |-> v]
           s == [j \in {i} |-> Payload(i, v, T)]
           fx == [NoEffect EXCEPT !.issues = f, !.tagged = T, !.shown = s]
<1>1. /\ IssuesFree(r, {i}) /\ Keyed(r, v) /\ Finish(r, fx)
      /\ \A l \in L : \E x \in OfKind("label") : x.id = l /\ Kept(r, {x})
  BY DEF CreateIssue
<1>2. v.at = "there" /\ \A t \in T : t[1] = i /\ t[2] \in L
  BY DEF Unborn
<1>3. DOMAIN f = {i} /\ f[i] = v /\ fx.added = {} /\ fx.cut = {} /\ fx.tagged = T /\ fx.issues = f
  BY NoEffectIs DEF NoEffect
<1> HIDE DEF fx, f, v, T
<1>4. Agrees(r, fx, used)
  BY <1>1, <1>2, <1>3, UsedRows, TellAgrees DEF Fresh
<1>5. QED
  BY <1>1, <1>4, KeysFinish

LEMMA KeysSetIssueLabels ==
  ASSUME Inv, KeysInv, Inv', NEW r \in Requests, NEW i \in Issues, NEW L,
         SetIssueLabels(r, i, L)
  PROVE  KeysInv'
<1> DEFINE old == TagsOf(i) \ ({i} \X L)
           new == {i} \X L
           S == IF L = {} THEN {} ELSE {i}
           s == [j \in {i} |-> Payload(i, issues[i], new)]
           fx == [NoEffect EXCEPT !.untagged = old, !.tagged = new, !.shares = S, !.shown = s]
<1>1. /\ There(i) /\ (L # {} => IssueKept(r, i)) /\ Finish(r, fx)
      /\ \A l \in L : \E x \in OfKind("label") : x.id = l /\ Kept(r, {x})
  BY DEF SetIssueLabels
<1>2. \A t \in new : t[1] = i /\ t[2] \in L /\ i \in S /\ L # {}
  OBVIOUS
<1>3. /\ DOMAIN fx.issues = {} /\ fx.added = {} /\ fx.cut = {} /\ fx.tagged = new /\ fx.shares = S
  BY NoEffectIs DEF NoEffect
<1> HIDE DEF fx, new, S
<1>4. Agrees(r, fx, used)
  BY <1>1, <1>2, <1>3, UsedRows, TellAgrees DEF Fresh, IssuesFree
<1>5. QED
  BY <1>1, <1>4, KeysFinish

LEMMA KeysCreateRelease ==
  ASSUME Inv, KeysInv, Inv', NEW r \in Requests, NEW I \in SUBSET Issues, CreateRelease(r, I)
  PROVE  KeysInv'
<1> DEFINE n == used.rows + 1
           x == [kind |-> "release", of |-> None, id |-> n]
           stamped == {i \in I : ~issues[i].released}
           f == [i \in stamped |-> [issues[i] EXCEPT !.released = TRUE]]
           s == [i \in I |-> Payload(i, [issues[i] EXCEPT !.released = TRUE], tags)]
           fx == [NoEffect EXCEPT !.added = {x}, !.held = {x}, !.told = {x}, !.shares = I,
                    !.issues = f, !.shown = s]
<1>1. /\ IssuesFree(r, stamped) /\ used' = [used EXCEPT !.rows = @ + 1]
      /\ \A i \in I : There(i)
      /\ Stage(r, fx, {})
  BY DEF CreateRelease
<1>2. used.rows \in Nat /\ used'.rows = n /\ x.id = n /\ x.kind = "release"
  BY <1>1, UsedRows DEF Inv, Types, UsedType
<1>3. /\ DOMAIN f = stamped
      /\ \A i \in stamped : /\ f[i].at = "there" /\ f[i].project = issues[i].project
                            /\ f[i].milestone = issues[i].milestone
  BY <1>1 DEF Inv, Types, Issue, There
<1>4. fx.added = {x} /\ fx.cut = {} /\ fx.tagged = {} /\ fx.issues = f
  BY NoEffectIs DEF NoEffect
<1>5. \A i \in stamped : i \in Issues
  OBVIOUS
<1> HIDE DEF fx, f, s, x, stamped
<1>6. \A i \in stamped : IssuesFree(r, {i})
  BY <1>1 DEF IssuesFree
<1>7. \A i \in stamped : Keyed(r, f[i])
  BY <1>3, <1>5, <1>6, SameKeyed
<1>8. used.rows <= used'.rows /\ Fresh(fx, used')
  BY <1>2, <1>4 DEF Fresh
<1>9. Agrees(r, fx, used')
  BY <1>1, <1>2, <1>3, <1>4, <1>7, <1>8, TellAgrees DEF PartKinds
<1>10. QED
  BY <1>1, <1>9, KeysStage

LEMMA KeysArchiveIssue ==
  ASSUME Inv, KeysInv, Inv', NEW r \in Requests, NEW i \in Issues, ArchiveIssue(r, i)
  PROVE  KeysInv'
<1> DEFINE v == [issues[i] EXCEPT !.archived = TRUE]
           hit == IF There(i) THEN {i} ELSE {}
           f == [j \in hit |-> v]
           left == reqs[r].ids \ {i}
           fx == [NoEffect EXCEPT !.issues = f, !.hidden = {i}]
<1>1. IssuesFree(r, {i}) /\ Stage(r, fx, left) /\ UNCHANGED used
  BY DEF ArchiveIssue
<1>2. v.at = issues[i].at /\ v.project = issues[i].project /\ v.milestone = issues[i].milestone
  BY DEF Inv, Types, Issue
<1>3. Keyed(r, v)
  BY <1>1, <1>2, SameKeyed
<1>4. /\ DOMAIN f = hit /\ \A j \in hit : f[j] = v /\ v.at = "there" /\ j = i
  BY <1>2 DEF There
<1>5. fx.added = {} /\ fx.cut = {} /\ fx.tagged = {} /\ fx.issues = f
  BY NoEffectIs DEF NoEffect
<1> HIDE DEF fx, f, v, hit, left
<1>6. IssuesFree(r, hit)
  BY <1>1, <1>4 DEF IssuesFree
<1>7. Agrees(r, fx, used')
  BY <1>1, <1>3, <1>4, <1>5, <1>6, UsedRows, TellAgrees DEF Fresh
<1>8. QED
  BY <1>1, <1>7, KeysStage

\* An issue goes with its tags and favorites.
LEMMA KeysDestroyIssue ==
  ASSUME Inv, KeysInv, Inv', NEW r \in Requests, DestroyIssue(r)
  PROVE  KeysInv'
<1> DEFINE i == reqs[r].of
           seen == reqs[r].seen
           doomed == seen \cap rows
           v == [Unborn EXCEPT !.at = "gone"]
           f == [j \in {i} |-> v]
           old == TagsOf(i)
           fx == [NoEffect EXCEPT !.cut = doomed, !.held = doomed, !.evicted = seen,
                    !.untagged = old, !.hidden = {i}, !.issues = f]
<1>1. /\ reqs[r].at = "destroy" /\ i \in Issues /\ i \notin Projects
      /\ IssuesFree(r, {i}) /\ Unshared(r, i) /\ Finish(r, fx)
  BY RecordsAssumption DEF DestroyIssue, At
<1>2. doomed \subseteq rows /\ \A x \in doomed : x.kind = "favorite"
  BY <1>1 DEF Inv, Sees
<1>3. v.at = "gone" /\ v.project = None /\ v.milestone = 0
  BY DEF Unborn
<1>4. /\ fx.added = {} /\ fx.cut = doomed /\ fx.tagged = {} /\ fx.untagged = old /\ fx.issues = f
      /\ DOMAIN f = {i} /\ f[i] = v
  BY NoEffectIs DEF NoEffect
<1> HIDE DEF fx, f, v, seen, i
<1>5. \A p : Project(p) \notin fx.cut
  BY <1>2, <1>4 DEF Project
<1>6. Whole(fx)
  BY <1>2, <1>3, <1>4, <1>5 DEF Whole, Rooted
<1>7. \A gx : Stands(fx, gx)
  BY <1>3, <1>4 DEF Stands, Stays
<1>8. ASSUME NEW q \in Requests \ {r} PROVE Stands(F(q), fx)
  <2> DEFINE gx == F(q)
  <2>1. Stands(gx, gx) /\ Whole(gx) /\ i \notin DOMAIN gx.issues /\ i \notin gx.shares
    BY <1>1, KeyGuards DEF KeysInv
  <2> HIDE DEF gx
  <2>2. ASSUME NEW j \in DOMAIN gx.issues PROVE Stays(gx.issues[j], fx.cut)
    <3>1. Stays(gx.issues[j], gx.cut)
      BY <2>1, <2>2 DEF Stands
    <3>2. QED
      BY <1>2, <1>4, <1>5, <3>1 DEF Stays, OfKind
  <2>3. ASSUME NEW t \in gx.tagged PROVE Labelled(t, fx.cut)
    BY <1>2, <1>4, <2>1, <2>3 DEF Stands, Labelled, OfKind
  <2>4. \A t \in gx.tagged : t[1] \notin DOMAIN fx.issues
    BY <1>4, <2>1 DEF Whole
  <2>5. Stands(gx, fx)
    BY <1>5, <2>2, <2>3, <2>4 DEF Stands
  <2>6. QED
    BY <2>5 DEF gx
<1>9. Agrees(r, fx, used)
  BY <1>2, <1>4, <1>6, <1>7, <1>8, UsedRows DEF Agrees, Fresh
<1>10. QED
  BY <1>1, <1>9, KeysFinish

\* A request reads, or is over.
LEMMA KeysReads ==
  ASSUME Inv, KeysInv, NEW r \in Requests,
         \/ \E x \in rows : FindFavorite(r, x)
         \/ \E p \in Projects : CollectProject(r, p)
         \/ \E i \in Issues : CollectIssue(r, i)
         \/ \E I \in SUBSET Issues : SelectOld(r, I)
         \/ Abandon(r)
  PROVE  KeysInv'
<1>1. PICK w : w.fx = NoEffect /\ reqs' = [reqs EXCEPT ![r] = w] /\ DatabaseOnly
  BY DEF FindFavorite, CollectProject, CollectIssue, SelectOld, Abandon, Idle
<1>2. QED
  BY <1>1, KeysRead

LEMMA KeysNext == Inv /\ KeysInv /\ [Next]_vars => KeysInv'
<1>1. SUFFICES ASSUME Inv, KeysInv, [Next]_vars PROVE KeysInv'
  OBVIOUS
<1>2. Inv'
  BY <1>1, NextOK
<1>3. ASSUME NEW r \in Requests, RowStep(r) PROVE KeysInv'
  <2>1. ASSUME NEW x \in rows, UpdateProject(r, x) \/ UpdateMilestone(r, x) \/ UpdateLabel(r, x)
        PROVE  Rewrite(r, x)
    BY <2>1 DEF UpdateProject, UpdateMilestone, UpdateLabel
  <2>2. QED
    BY <1>1, <1>2, <1>3, <2>1, KeysInserts, KeysRows, KeysReads, KeysDeleteMilestone,
       KeysDeleteLabel, KeysDestroyProject DEF RowStep
<1>4. ASSUME NEW r \in Requests, IssueStep(r) PROVE KeysInv'
  BY <1>1, <1>2, <1>4, KeysFields, KeysCreateIssue, KeysSetIssueLabels, KeysCreateRelease,
     KeysArchiveIssue, KeysDestroyIssue, KeysReads DEF IssueStep
<1>5. CASE UNCHANGED vars
  <2>1. UNCHANGED <<backend, calls, rows, used, issues, tags, picture, reqs>>
    BY <1>5 DEF vars
  <2>2. \A r : F(r)' = F(r)
    BY <2>1 DEF F
  <2>3. Known' = Known
    BY <2>1, <2>2 DEF Known
  <2>4. Keys' /\ Distinct'
    BY <1>1, <2>1, <2>3 DEF KeysInv, Keys, Distinct, Rooted, Stays, Labelled, There, OfKind
  <2>5. \A r \in Requests : Whole(F(r))'
    BY <1>1, <2>1, <2>2 DEF KeysInv, Whole, PartsOf, TagsOf, Rooted, There
  <2>6. \A r, q \in Requests : Stands(F(r), F(q))'
    BY <1>1, <2>1, <2>2 DEF KeysInv, Stands, Stays, Labelled, OfKind
  <2>7. QED
    BY <2>4, <2>5, <2>6 DEF KeysInv
<1>6. QED
  BY <1>1, <1>3, <1>4, <1>5, KeysCommit, KeysReads DEF Next

LEMMA TypeIs == Inv /\ KeysInv => TypeOK
<1>1. SUFFICES ASSUME Inv, KeysInv PROVE TypeOK
  OBVIOUS
<1>2. picture.issues \in Partial(PayloadType)
  BY <1>1 DEF Inv, Types
<1>3. DOMAIN picture.issues \subseteq Issues
  BY <1>2, PartialOf
<1>4. \A x, y \in rows : x.id = y.id /\ x.id # 0 => x = y
  BY <1>1, KnownOf DEF KeysInv, Distinct
<1>5. \A t \in tags : t[1] \in Issues /\ There(t[1]) /\ \E x \in OfKind("label") : x.id = t[2]
  BY <1>1 DEF KeysInv, Keys, Labelled, Inv, Types, TagType
<1>6. \A i \in Issues :
       /\ issues[i].project # None => Project(issues[i].project) \in rows
       /\ issues[i].milestone # 0 /\ backend = "postgres" =>
            \E x \in OfKind("milestone") : x.id = issues[i].milestone
  BY <1>1 DEF KeysInv, Keys, Stays
<1>7. QED
  BY <1>1, <1>3, <1>4, <1>5, <1>6 DEF TypeOK, Inv, Types, UsedType, KeysInv, Keys

\* The database keeps its keys, whatever transactions run at once: a part has its
\* project, a tag its issue and its label, an issue its project and, on
\* PostgreSQL, its milestone, and no two rows have an id in common.
THEOREM KeysAlways == Spec => []TypeOK
<1>1. Init => Inv /\ KeysInv
  BY InitOK, KeysInit
<1>2. Inv /\ KeysInv /\ [Next]_vars => Inv' /\ KeysInv'
  BY NextOK, KeysNext
<1>3. QED
  BY <1>1, <1>2, TypeIs, PTL DEF Spec

-----------------------------------------------------------------------------
(***************************************************************************)
(* What the log tells on SQLite, where one transaction is open at a time:  *)
(* what it will do is exact until it commits.                              *)
(***************************************************************************)
\* The issue and the tags there will be.
After(fx, i)  == IF i \in DOMAIN fx.issues THEN fx.issues[i] ELSE issues[i]
TagsAfter(fx) == (tags \ fx.untagged) \cup fx.tagged

\* A transaction tells of rows that will be there, evicts all that it cuts, and
\* shows, as it will be, every issue that it changes and does not hide; only
\* those whose label is cut lose a tag untold.
Exact(fx) ==
  /\ fx.told \subseteq (rows \ fx.cut) \cup fx.added
  /\ fx.cut \subseteq fx.evicted
  /\ DOMAIN fx.issues \subseteq DOMAIN fx.shown \cup fx.hidden
  /\ \A t \in fx.tagged : t[1] \in DOMAIN fx.shown
  /\ \A t \in fx.untagged :
       \/ t[1] \in DOMAIN fx.shown \cup fx.hidden
       \/ \E x \in fx.cut : x.kind = "label" /\ x.id = t[2]
  /\ \A i \in DOMAIN fx.shown :
       After(fx, i).at = "there" /\ fx.shown[i] = Payload(i, After(fx, i), TagsAfter(fx))

\* A label that is added is on no issue that a client has.
Unseen(fx) ==
  \A x \in fx.added : x.kind = "label" =>
    \A i \in DOMAIN picture.issues : x.id \notin picture.issues[i].labels

\* What a delete has read is what is there.
Collected(w) ==
  w.at = "destroy" /\ w.of \in Projects =>
    w.seen = PartsOf(w.of) \cup FavoritesOf(w.of) /\ w.ids = Attached(w.of)

Open(w) == w.at \in {"destroy", "commit"}

Replayed ==
  /\ NothingStale
  /\ \A r, q \in Requests : Open(reqs[r]) /\ Open(reqs[q]) => r = q
  /\ \A i \in DOMAIN picture.issues : \A l \in picture.issues[i].labels : l <= used.rows
  /\ \A r \in Requests : Exact(F(r)) /\ Unseen(F(r)) /\ Collected(reqs[r])

StaleInv == backend = "sqlite" => Replayed

-----------------------------------------------------------------------------
LEMMA NoEffectExact == Exact(NoEffect) /\ Unseen(NoEffect)
BY NoEffectIs DEF Exact, Unseen

LEMMA StaleInit == Init => StaleInv
<1>1. SUFFICES ASSUME Init PROVE Replayed
  BY DEF StaleInv
<1>2. Inv /\ KeysInv
  BY <1>1, InitOK, KeysInit
<1>3. \A r \in Requests : F(r) = NoEffect /\ ~Open(reqs[r]) /\ Collected(reqs[r])
  BY <1>1 DEF Init, Idle, F, Open, Collected
<1>4. picture.rows \subseteq rows
  BY <1>1 DEF Init
<1>5. \A i \in DOMAIN picture.issues :
        /\ i \in Issues /\ There(i)
        /\ picture.issues[i].issue = issues[i] /\ picture.issues[i].labels = {}
  BY <1>1 DEF Init, Payload
<1>6. NothingStale
  BY <1>1, <1>4, <1>5 DEF NothingStale, Init, TagsOf
<1>7. \A i \in DOMAIN picture.issues : \A l \in picture.issues[i].labels : l <= used.rows
  BY <1>5
<1>8. \A r \in Requests : Exact(F(r)) /\ Unseen(F(r))
  BY <1>3, NoEffectExact
<1>9. QED
  BY <1>3, <1>6, <1>7, <1>8 DEF Replayed

LEMMA AloneOthers ==
  ASSUME Inv, NEW r \in Requests, Others(r) = {}, NEW q \in Requests \ {r}
  PROVE  ~Open(reqs[q]) /\ F(q) = NoEffect
BY DEF Others, Open, Inv, Quiet

LEMMA StaleStage ==
  ASSUME Inv, Inv', Replayed, NEW r \in Requests, Others(r) = {}, NEW fx, NEW left,
         Stage(r, fx, left), used.rows <= used'.rows, Exact(fx), Unseen(fx)
  PROVE  Replayed'
<1>1. /\ reqs' = [reqs EXCEPT ![r] = [Idle EXCEPT !.at = "commit", !.fx = fx, !.ids = left]]
      /\ UNCHANGED <<backend, calls, rows, issues, tags, picture>>
  BY DEF Stage
<1>2. /\ F(r)' = fx /\ \A q \in Requests \ {r} : F(q)' = F(q) /\ reqs'[q] = reqs[q]
      /\ reqs'[r].at = "commit"
  BY <1>1 DEF F, Inv, Types, Idle
<1>3. \A q \in Requests \ {r} : ~Open(reqs'[q]) /\ F(q)' = NoEffect
  BY <1>2, AloneOthers
<1>4. NothingStale'
  BY <1>1 DEF Replayed, NothingStale, There, Ids, OfKind, TagsOf
<1>5. \A q, s \in Requests : Open(reqs'[q]) /\ Open(reqs'[s]) => q = s
  BY <1>3
<1>6. \A i \in DOMAIN picture.issues : \A l \in picture.issues[i].labels : l <= used'.rows
  <2>1. picture.issues \in Partial(PayloadType) /\ used.rows \in Nat /\ used'.rows \in Nat
    BY RecordsAssumption DEF Inv, Types, UsedType
  <2>2. picture.issues \in [DOMAIN picture.issues -> PayloadType]
    BY <2>1, PartialOf
  <2>3. ASSUME NEW i \in DOMAIN picture.issues, NEW l \in picture.issues[i].labels
        PROVE  l <= used'.rows
    <3>1. l \in 0..MaxRows /\ l <= used.rows
      BY <2>2, <2>3 DEF PayloadType, Replayed
    <3>2. QED
      BY <2>1, <3>1, RecordsAssumption
  <2>4. QED
    BY <2>3
<1>7. \A q \in Requests : Exact(F(q)') /\ Unseen(F(q)')
  BY <1>2, <1>3, NoEffectExact
<1>8. \A q \in Requests : Exact(F(q))' /\ Unseen(F(q))'
  BY <1>1, <1>7 DEF Exact, Unseen, After, TagsAfter
<1>9. \A q \in Requests : Collected(reqs[q])'
  BY <1>2, <1>3 DEF Collected, Open
<1>10. QED
  BY <1>1, <1>4, <1>5, <1>6, <1>8, <1>9 DEF Replayed, Open

LEMMA StaleRead ==
  ASSUME Inv, Replayed, NEW r \in Requests, NEW w, w.fx = NoEffect,
         reqs' = [reqs EXCEPT ![r] = w], DatabaseOnly,
         Open(w) => Others(r) = {} /\ Collected(w)
  PROVE  Replayed'
<1>1. UNCHANGED <<backend, calls, rows, used, issues, tags, picture>>
  BY DEF DatabaseOnly
<1>2. /\ F(r)' = NoEffect /\ reqs'[r] = w
      /\ \A q \in Requests \ {r} : F(q)' = F(q) /\ reqs'[q] = reqs[q]
  BY DEF F, Inv, Types
<1>3. NothingStale'
  BY <1>1 DEF Replayed, NothingStale, There, Ids, OfKind, TagsOf
<1>4. \A q, s \in Requests : Open(reqs'[q]) /\ Open(reqs'[s]) => q = s
  BY <1>2, AloneOthers DEF Replayed
<1>5. \A q \in Requests : Exact(F(q)') /\ Unseen(F(q)')
  BY <1>2, NoEffectExact DEF Replayed
<1>6. \A q \in Requests : Exact(F(q))' /\ Unseen(F(q))'
  BY <1>1, <1>5 DEF Exact, Unseen, After, TagsAfter
<1>7. \A q \in Requests : Collected(reqs'[q])
  BY <1>2 DEF Replayed, Collected, Open
<1>8. \A q \in Requests : Collected(reqs[q])'
  BY <1>1, <1>7 DEF Collected, PartsOf, FavoritesOf, OfKind, Attached, There
<1>9. QED
  BY <1>1, <1>3, <1>4, <1>6, <1>8 DEF Replayed, Open

LEMMA StaleCommit ==
  ASSUME Inv, KeysInv, Inv', KeysInv', backend = "sqlite", Replayed, NEW r \in Requests, Commit(r)
  PROVE  Replayed'
<1> DEFINE fx == F(r)
           shown == Over(fx.shown, picture.issues)
<1>1. /\ rows' = (rows \ fx.cut) \cup fx.added
      /\ tags' = (tags \ fx.untagged) \cup fx.tagged
      /\ F(r)' = NoEffect /\ \A q \in Requests \ {r} : F(q)' = F(q)
      /\ \A i \in DOMAIN fx.issues : i \in Issues /\ issues'[i] = fx.issues[i]
      /\ \A i \in Issues \ DOMAIN fx.issues : issues'[i] = issues[i]
      /\ fx \in FxType
      /\ UNCHANGED <<backend, calls, used>>
  BY CommitDoes
<1>2. /\ picture'.rows = (picture.rows \cup fx.told) \ fx.evicted
      /\ picture'.issues = [i \in DOMAIN shown \ fx.hidden |-> shown[i]]
      /\ Others(r) = {}
  BY DEF Commit, F, At
<1>3. /\ DOMAIN picture'.issues = (DOMAIN fx.shown \cup DOMAIN picture.issues) \ fx.hidden
      /\ \A i \in DOMAIN picture'.issues :
           picture'.issues[i] = IF i \in DOMAIN fx.shown THEN fx.shown[i] ELSE picture.issues[i]
  BY <1>2 DEF Over
<1>4. Exact(fx) /\ Unseen(fx) /\ RowsTold(fx)
  BY DEF Replayed, Inv
<1>5. \A i \in DOMAIN picture'.issues : i \in Issues
  <2>1. picture'.issues \in Partial(PayloadType)
    BY DEF Inv, Types
  <2>2. QED
    BY <2>1, PartialOf
<1>6. \A q \in Requests \ {r} : ~Open(reqs[q]) /\ F(q) = NoEffect /\ reqs'[q] = reqs[q]
  BY <1>2, AloneOthers DEF Commit, Inv, Types
<1>7. ~Open(reqs'[r])
  BY DEF Commit, Inv, Types, Open, Idle
<1> HIDE DEF fx, shown
<1>8. picture'.rows \subseteq rows'
  BY <1>1, <1>2, <1>4 DEF Exact, RowsTold, Replayed, NothingStale
<1>9. \A t \in tags' : \E x \in rows' : x.kind = "label" /\ x.id = t[2]
  BY DEF KeysInv, Keys, Labelled, OfKind
<1>10. \A l : l \in Ids("label")' <=> \E x \in rows' : x.kind = "label" /\ x.id = l
  BY DEF Ids, OfKind
<1>11. \A l : l \in Ids("label") <=> \E x \in rows : x.kind = "label" /\ x.id = l
  BY DEF Ids, OfKind
<1>12. ASSUME NEW i \in DOMAIN picture'.issues
       PROVE  /\ There(i)' /\ picture'.issues[i].issue = issues'[i]
              /\ picture'.issues[i].labels \cap Ids("label")' = {t[2] : t \in {u \in tags' : u[1] = i}}
              /\ \A l \in picture'.issues[i].labels : l <= used'.rows
  <2>1. CASE i \in DOMAIN fx.shown
    <3>1. issues'[i] = After(fx, i) /\ tags' = TagsAfter(fx)
      BY <1>1, <1>5 DEF After, TagsAfter
    <3>2. /\ issues'[i].at = "there"
          /\ picture'.issues[i] = [issue |-> issues'[i], labels |-> {t[2] : t \in {u \in tags' : u[1] = i}}]
      BY <1>3, <1>4, <2>1, <3>1 DEF Exact, Payload
    <3>3. \A l \in picture'.issues[i].labels : l \in Ids("label")' /\ l <= used'.rows
      BY <1>9, <1>10, <3>2 DEF Inv, Drawn
    <3>4. picture'.issues[i].labels \cap Ids("label")' = picture'.issues[i].labels
      BY <3>3
    <3>5. QED
      BY <3>2, <3>3, <3>4 DEF There
  <2>2. CASE i \notin DOMAIN fx.shown
    <3>1. /\ i \in DOMAIN picture.issues /\ i \notin fx.hidden
          /\ picture'.issues[i] = picture.issues[i]
      BY <1>3, <2>2
    <3>2. i \notin DOMAIN fx.issues /\ issues'[i] = issues[i]
      BY <1>1, <1>4, <1>5, <2>2, <3>1 DEF Exact
    <3>3. /\ There(i) /\ picture.issues[i].issue = issues[i]
          /\ picture.issues[i].labels \cap Ids("label") = {t[2] : t \in {u \in tags : u[1] = i}}
          /\ \A l \in picture.issues[i].labels : l <= used.rows
      BY <3>1 DEF Replayed, NothingStale, TagsOf
    <3>4. ASSUME NEW t \in tags', t[1] = i
          PROVE  t \in tags /\ t[2] \in picture.issues[i].labels /\ t[2] \in Ids("label")'
      <4>1. t \in tags
        BY <1>1, <1>4, <2>2, <3>4 DEF Exact
      <4>2. t[2] \in picture.issues[i].labels
        BY <3>3, <3>4, <4>1
      <4>3. QED
        BY <1>9, <1>10, <4>1, <4>2
    <3>5. ASSUME NEW l \in picture.issues[i].labels, l \in Ids("label")'
          PROVE  \E t \in tags' : t[1] = i /\ t[2] = l
      <4>1. PICK x \in rows' : x.kind = "label" /\ x.id = l
        BY <1>10, <3>5
      <4>2. x \in rows
        BY <1>1, <1>4, <3>1, <3>5, <4>1 DEF Unseen
      <4>3. PICK t \in tags : t[1] = i /\ t[2] = l
        BY <1>11, <3>3, <3>5, <4>1, <4>2
      <4>4. t \notin fx.untagged
        <5>1. SUFFICES ASSUME t \in fx.untagged PROVE FALSE
          OBVIOUS
        <5>2. PICK y \in fx.cut : y.kind = "label" /\ y.id = l
          BY <1>4, <2>2, <3>1, <4>3, <5>1 DEF Exact
        <5>3. y \in Known /\ x \in Known
          BY <4>2, <5>2, KnownOf DEF fx
        <5>4. y = x
          BY <4>1, <5>2, <5>3, SameRow
        <5>5. QED
          BY <1>1, <1>4, <4>1, <4>2, <5>2, <5>4 DEF RowsTold, Exact
      <4>5. QED
        BY <1>1, <4>3, <4>4
    <3>6. picture.issues[i].labels \cap Ids("label")' = {t[2] : t \in {u \in tags' : u[1] = i}}
      BY <3>4, <3>5
    <3>7. QED
      BY <1>1, <3>1, <3>2, <3>3, <3>6 DEF There
  <2>3. QED
    BY <2>1, <2>2
<1>13. NothingStale'
  BY <1>8, <1>12 DEF NothingStale, TagsOf
<1>14. \A q \in Requests : F(q)' = NoEffect /\ ~Open(reqs'[q])
  BY <1>1, <1>6, <1>7
<1>15. \A q \in Requests : Exact(F(q))' /\ Unseen(F(q))'
  BY <1>14, NoEffectIs DEF Exact, Unseen
<1>16. \A q \in Requests : Collected(reqs[q])'
  BY <1>14 DEF Collected, Open
<1>17. QED
  BY <1>12, <1>13, <1>14, <1>15, <1>16 DEF Replayed, Open

-----------------------------------------------------------------------------
\* The calls, one by one.
LEMMA StaleFinish ==
  ASSUME Inv, Inv', Replayed, NEW r \in Requests, Others(r) = {}, NEW fx,
         Finish(r, fx), Exact(fx), fx.added = {}
  PROVE  Replayed'
BY StaleStage, UsedRows DEF Finish, Unseen

\* Only rows are told, or go.
LEMMA StalePlain ==
  ASSUME Inv, Inv', Replayed, NEW r \in Requests, Others(r) = {}, NEW fx, NEW X,
         Finish(r, fx), fx.added = {}, fx.told \subseteq rows, fx.cut = X, fx.evicted = X,
         fx.told \cap X = {}, DOMAIN fx.issues = {}, DOMAIN fx.shown = {}, fx.tagged = {},
         \A t \in fx.untagged : \E x \in X : x.kind = "label" /\ x.id = t[2]
  PROVE  Replayed'
<1>1. Exact(fx)
  BY DEF Exact
<1>2. QED
  BY <1>1, StaleFinish

LEMMA StaleInsert ==
  ASSUME Inv, Inv', Replayed, NEW r \in Requests, Others(r) = {}, NEW x, Insert(r, x),
         used.rows <= used'.rows, x.kind = "label" => x.id = used.rows + 1
  PROVE  Replayed'
<1> DEFINE fx == [NoEffect EXCEPT !.added = {x}, !.held = {x}, !.told = {x}]
<1>1. /\ fx.added = {x} /\ fx.told = {x} /\ fx.cut = {} /\ fx.evicted = {} /\ DOMAIN fx.issues = {}
      /\ DOMAIN fx.shown = {} /\ fx.tagged = {} /\ fx.untagged = {}
  BY NoEffectIs DEF NoEffect
<1>2. Stage(r, fx, {})
  BY DEF Insert
<1> HIDE DEF fx
<1>3. Exact(fx)
  BY <1>1 DEF Exact
<1>4. Unseen(fx)
  <2>1. used.rows \in Nat /\ ~(used.rows + 1 <= used.rows)
    BY UsedRows
  <2>2. QED
    BY <1>1, <2>1 DEF Unseen, Replayed
<1>5. QED
  BY <1>2, <1>3, <1>4, StaleStage

LEMMA StaleInsertNew ==
  ASSUME Inv, Inv', Replayed, NEW r \in Requests, Others(r) = {}, NEW k, NEW o, InsertNew(r, k, o)
  PROVE  Replayed'
<1> DEFINE x == [kind |-> k, of |-> o, id |-> used.rows + 1]
<1>1. used.rows <= used'.rows
  BY UsedRows DEF InsertNew, Inv, Types, UsedType
<1>2. x.id = used.rows + 1 /\ Insert(r, x)
  BY DEF InsertNew
<1> HIDE DEF x
<1>3. QED
  BY <1>1, <1>2, StaleInsert

LEMMA StaleInserts ==
  ASSUME Inv, Inv', Replayed, backend = "sqlite", NEW r \in Requests,
         \/ \E p \in Projects :
              CreateProject(r, p) \/ AddMember(r, p) \/ CreateMilestone(r, p) \/ CreateUpdate(r, p)
         \/ CreateLabel(r)
  PROVE  Replayed'
<1>1. Others(r) = {}
  BY DEF CreateProject, AddMember, CreateMilestone, CreateUpdate, CreateLabel, Asked, At
<1>2. ASSUME NEW p \in Projects, CreateProject(r, p) PROVE Replayed'
  <2>1. Insert(r, Project(p)) /\ used'.rows = used.rows /\ Project(p).kind # "label"
    BY <1>2 DEF CreateProject, Inv, Types, UsedType, Project
  <2>2. QED
    BY <1>1, <2>1, UsedRows, StaleInsert
<1>3. ASSUME NEW p \in Projects, AddMember(r, p) PROVE Replayed'
  <2>1. Insert(r, Member(p)) /\ used' = used /\ Member(p).kind # "label"
    BY <1>3 DEF AddMember, Member
  <2>2. QED
    BY <1>1, <2>1, UsedRows, StaleInsert
<1>4. QED
  BY <1>1, <1>2, <1>3, StaleInsertNew DEF CreateMilestone, CreateUpdate, CreateLabel

LEMMA StaleRows ==
  ASSUME Inv, Inv', Replayed, backend = "sqlite", NEW r \in Requests,
         \/ \E x \in rows : UpdateProject(r, x) \/ UpdateMilestone(r, x) \/ UpdateLabel(r, x)
         \/ \E x \in rows : DeleteMilestone(r, x) \/ DeleteLabel(r, x)
         \/ \E p \in Projects : RemoveMember(r, p)
         \/ \E t \in Projects \cup Issues : AddFavorite(r, t)
         \/ RemoveFavorite(r)
  PROVE  Replayed'
<1>1. Others(r) = {}
  BY DEF UpdateProject, UpdateMilestone, UpdateLabel, DeleteMilestone, DeleteLabel, RemoveMember,
         AddFavorite, RemoveFavorite, Asked, At
<1>2. ASSUME NEW x \in rows, Rewrite(r, x) PROVE Replayed'
  <2> DEFINE fx == [NoEffect EXCEPT !.held = {x}, !.told = {x}]
  <2>1. /\ Finish(r, fx) /\ fx.added = {} /\ fx.told = {x} /\ fx.cut = {} /\ fx.evicted = {}
        /\ DOMAIN fx.issues = {} /\ DOMAIN fx.shown = {} /\ fx.tagged = {} /\ fx.untagged = {}
    BY <1>2, NoEffectIs DEF NoEffect, Rewrite
  <2> HIDE DEF fx
  <2>2. QED
    BY <1>1, <2>1, StalePlain
<1>3. ASSUME NEW x \in rows, DeleteMilestone(r, x) PROVE Replayed'
  <2> DEFINE cleared == IF backend = "postgres"
                        THEN {i \in Issues : There(i) /\ issues[i].milestone = x.id} ELSE {}
             f == [i \in cleared |-> [issues[i] EXCEPT !.milestone = 0]]
             fx == [NoEffect EXCEPT !.cut = {x}, !.held = {x}, !.evicted = {x}, !.issues = f]
  <2>1. Finish(r, fx)
    BY <1>3 DEF DeleteMilestone
  <2>2. /\ fx.added = {} /\ fx.told = {} /\ fx.cut = {x} /\ fx.evicted = {x}
        /\ fx.issues = f /\ DOMAIN fx.shown = {} /\ fx.tagged = {} /\ fx.untagged = {}
        /\ DOMAIN f = {}
    BY NoEffectIs DEF NoEffect
  <2> HIDE DEF fx, f
  <2>3. QED
    BY <1>1, <2>1, <2>2, StalePlain
<1>4. ASSUME NEW x \in rows, DeleteLabel(r, x) PROVE Replayed'
  <2> DEFINE naming == {t \in tags : t[2] = x.id}
             fx == [NoEffect EXCEPT !.cut = {x}, !.held = {x}, !.evicted = {x}, !.untagged = naming]
  <2>1. Finish(r, fx) /\ x.kind = "label"
    BY <1>4 DEF DeleteLabel, OfKind
  <2>2. /\ fx.added = {} /\ fx.told = {} /\ fx.cut = {x} /\ fx.evicted = {x}
        /\ DOMAIN fx.issues = {} /\ DOMAIN fx.shown = {} /\ fx.tagged = {} /\ fx.untagged = naming
    BY NoEffectIs DEF NoEffect
  <2> HIDE DEF fx
  <2>3. QED
    BY <1>1, <2>1, <2>2, StalePlain
<1>5. ASSUME NEW p \in Projects, RemoveMember(r, p) PROVE Replayed'
  <2> DEFINE x == Member(p)
             fx == [NoEffect EXCEPT !.cut = {x}, !.held = {x}, !.evicted = {x}]
  <2>1. /\ Finish(r, fx) /\ fx.added = {} /\ fx.told = {} /\ fx.cut = {x} /\ fx.evicted = {x}
        /\ DOMAIN fx.issues = {} /\ DOMAIN fx.shown = {} /\ fx.tagged = {} /\ fx.untagged = {}
    BY <1>5, NoEffectIs DEF NoEffect, RemoveMember
  <2> HIDE DEF fx, x
  <2>2. QED
    BY <1>1, <2>1, StalePlain
<1>6. ASSUME NEW t \in Projects \cup Issues, AddFavorite(r, t) PROVE Replayed'
  <2>1. CASE InsertNew(r, "favorite", t)
    BY <1>1, <2>1, StaleInsertNew
  <2>2. CASE Finish(r, [NoEffect EXCEPT !.told = FavoritesOf(t)])
    <3> DEFINE fx == [NoEffect EXCEPT !.told = FavoritesOf(t)]
    <3>1. /\ Finish(r, fx) /\ fx.added = {} /\ fx.told \subseteq rows /\ fx.cut = {} /\ fx.evicted = {}
          /\ DOMAIN fx.issues = {} /\ DOMAIN fx.shown = {} /\ fx.tagged = {} /\ fx.untagged = {}
      BY <2>2, NoEffectIs DEF NoEffect, FavoritesOf, OfKind
    <3> HIDE DEF fx
    <3>2. QED
      BY <1>1, <3>1, StalePlain
  <2>3. QED
    BY <1>6, <2>1, <2>2 DEF AddFavorite
<1>7. ASSUME RemoveFavorite(r) PROVE Replayed'
  <2> DEFINE seen == reqs[r].seen
             fx == [NoEffect EXCEPT !.cut = seen, !.held = seen, !.evicted = seen]
  <2>1. CASE reqs' = [reqs EXCEPT ![r] = Idle] /\ DatabaseOnly
    BY <2>1, StaleRead DEF Idle, Open
  <2>2. CASE Finish(r, fx)
    <3>1. /\ fx.added = {} /\ fx.told = {} /\ fx.cut = seen /\ fx.evicted = seen
          /\ DOMAIN fx.issues = {} /\ DOMAIN fx.shown = {} /\ fx.tagged = {} /\ fx.untagged = {}
      BY NoEffectIs DEF NoEffect
    <3> HIDE DEF fx
    <3>2. QED
      BY <1>1, <2>2, <3>1, StalePlain
  <2>3. QED
    BY <1>7, <2>1, <2>2 DEF RemoveFavorite
<1>8. QED
  BY <1>2, <1>3, <1>4, <1>5, <1>6, <1>7 DEF UpdateProject, UpdateMilestone, UpdateLabel

\* The project, all its parts and favorites are told gone, and the issues that
\* were in it are shown outside.
LEMMA StaleDestroyProject ==
  ASSUME Inv, Inv', Replayed, backend = "sqlite", NEW r \in Requests, DestroyProject(r)
  PROVE  Replayed'
<1> DEFINE p == reqs[r].of
           seen == reqs[r].seen
           ids == reqs[r].ids
           doomed == {x \in seen : x.kind = "favorite"} \cap rows
           gone == ({Project(p)} \cap rows) \cup PartsOf(p)
           changed == {i \in Attached(p) : Detached(p, i) # issues[i]}
           f == [i \in changed |-> Detached(p, i)]
           s == [i \in ids |-> Payload(i, Detached(p, i), tags)]
           fx == [NoEffect EXCEPT !.cut = gone \cup doomed, !.held = gone \cup doomed,
                    !.evicted = {Project(p)} \cup seen, !.issues = f, !.shown = s]
<1>1. /\ p \in Projects /\ reqs[r].at = "destroy" /\ Others(r) = {}
      /\ \/ reqs' = [reqs EXCEPT ![r] = Idle] /\ DatabaseOnly
         \/ Finish(r, fx)
  BY DEF DestroyProject, At
<1>2. CASE reqs' = [reqs EXCEPT ![r] = Idle] /\ DatabaseOnly
  BY <1>2, StaleRead DEF Idle, Open
<1>3. CASE Finish(r, fx)
  <2>1. /\ fx.added = {} /\ fx.told = {} /\ fx.cut = gone \cup doomed
        /\ fx.evicted = {Project(p)} \cup seen
        /\ fx.issues = f /\ fx.shown = s /\ fx.tagged = {} /\ fx.untagged = {} /\ fx.hidden = {}
    BY NoEffectIs DEF NoEffect
  <2>2. Finish(r, fx)
    BY <1>3
  <2>3. /\ DOMAIN f = changed /\ \A i \in changed : f[i] = Detached(p, i)
        /\ DOMAIN s = ids /\ \A i \in ids : s[i] = Payload(i, Detached(p, i), tags)
    OBVIOUS
  <2> HIDE DEF fx, f, s
  <2>4. seen = PartsOf(p) \cup FavoritesOf(p) /\ ids = Attached(p)
    BY <1>1 DEF Replayed, Collected
  <2>5. fx.cut \subseteq fx.evicted
    BY <2>1, <2>4
  <2>6. \A i \in ids : After(fx, i) = Detached(p, i)
    BY <2>1, <2>3, <2>4 DEF After
  <2>7. \A i \in ids : Detached(p, i).at = "there"
    BY <2>4 DEF Attached, Detached, There, Inv, Types, Issue
  <2>8. TagsAfter(fx) = tags
    BY <2>1 DEF TagsAfter
  <2> HIDE DEF seen, ids, p, gone, doomed
  <2>9. Exact(fx)
    BY <2>1, <2>3, <2>4, <2>5, <2>6, <2>7, <2>8 DEF Exact
  <2>10. QED
    BY <1>1, <2>1, <2>2, <2>9, StaleFinish
<1>4. QED
  BY <1>1, <1>2, <1>3

LEMMA StaleUpdateIssue ==
  ASSUME Inv, Inv', Replayed, backend = "sqlite", NEW r \in Requests, NEW i \in Issues,
         Others(r) = {}, NEW w \in Issue, w.at = "there", UpdateIssue(r, i, w)
  PROVE  Replayed'
<1> DEFINE v == [w EXCEPT !.archived = FALSE]
           f == [j \in {i} |-> v]
           s == [j \in {i} |-> Payload(i, v, tags)]
           fx == [NoEffect EXCEPT !.issues = f, !.shown = s]
<1>1. v.at = "there" /\ Finish(r, fx)
  BY DEF Issue, UpdateIssue, Write
<1>2. /\ DOMAIN f = {i} /\ f[i] = v /\ DOMAIN s = {i} /\ s[i] = Payload(i, v, tags)
      /\ fx.added = {} /\ fx.told = {} /\ fx.cut = {} /\ fx.tagged = {} /\ fx.untagged = {}
      /\ fx.issues = f /\ fx.shown = s
  BY NoEffectIs DEF NoEffect
<1> HIDE DEF fx, f, s, v
<1>3. After(fx, i) = v /\ TagsAfter(fx) = tags
  BY <1>2 DEF After, TagsAfter
<1>4. Exact(fx)
  BY <1>1, <1>2, <1>3 DEF Exact
<1>5. QED
  BY <1>1, <1>2, <1>4, StaleFinish

LEMMA StaleFields ==
  ASSUME Inv, Inv', Replayed, backend = "sqlite", NEW r \in Requests, NEW i \in Issues,
         \/ \E p \in Projects \cup {None} : AssignProject(r, i, p)
         \/ \E m \in Ids("milestone") \cup {0} : AssignMilestone(r, i, m)
         \/ \E done \in BOOLEAN : SetStatus(r, i, done)
         \/ SetSortOrder(r, i)
  PROVE  Replayed'
<1>1. issues[i] \in Issue /\ 0 \in 0..MaxRows /\ Ids("milestone") \subseteq 0..MaxRows
  BY RecordsAssumption DEF Inv, Types, Ids, OfKind, Row
<1>2. ASSUME NEW w, UpdateIssue(r, i, w), Others(r) = {},
             \/ \E p \in Projects \cup {None} : w = [issues[i] EXCEPT !.project = p]
             \/ \E m \in Ids("milestone") \cup {0} : w = [issues[i] EXCEPT !.milestone = m]
             \/ \E done \in BOOLEAN : w = [issues[i] EXCEPT !.done = done]
             \/ w = issues[i]
      PROVE  Replayed'
  <2>1. issues[i].at = "there"
    BY <1>2 DEF UpdateIssue, There
  <2>2. w \in Issue /\ w.at = "there"
    BY <1>1, <1>2, <2>1 DEF Issue
  <2>3. QED
    BY <1>2, <2>2, StaleUpdateIssue
<1>3. QED
  BY <1>2 DEF AssignProject, AssignMilestone, SetStatus, SetSortOrder, Asked, At

LEMMA StaleCreateIssue ==
  ASSUME Inv, KeysInv, Inv', Replayed, backend = "sqlite", NEW r \in Requests, NEW i \in Issues,
         NEW p, NEW m, NEW L, CreateIssue(r, i, p, m, L)
  PROVE  Replayed'
<1> DEFINE v == [Unborn EXCEPT !.at = "there", !.project = p, !.milestone = m]
           T == {i} \X L
           f == [j \in {i} |-> v]
           s == [j \in {i} |-> Payload(i, v, T)]
           fx == [NoEffect EXCEPT !.issues = f, !.tagged = T, !.shown = s]
<1>1. Finish(r, fx) /\ issues[i].at = "unborn" /\ Others(r) = {}
  BY DEF CreateIssue, Asked, At
<1>2. v.at = "there" /\ \A t \in T : t[1] = i
  BY DEF Unborn
<1>3. /\ DOMAIN f = {i} /\ f[i] = v /\ DOMAIN s = {i} /\ s[i] = Payload(i, v, T)
      /\ fx.added = {} /\ fx.told = {} /\ fx.cut = {} /\ fx.tagged = T /\ fx.untagged = {}
      /\ fx.issues = f /\ fx.shown = s
  BY NoEffectIs DEF NoEffect
<1>4. \A t \in tags : t[1] # i
  BY <1>1 DEF KeysInv, Keys, There
<1> HIDE DEF fx, f, s, v, T
<1>5. After(fx, i) = v
  BY <1>3 DEF After
<1>6. Payload(i, v, TagsAfter(fx)) = Payload(i, v, T)
  <2>1. {u \in TagsAfter(fx) : u[1] = i} = {u \in T : u[1] = i}
    BY <1>3, <1>4 DEF TagsAfter
  <2>2. QED
    BY <2>1 DEF Payload
<1>7. Exact(fx)
  BY <1>2, <1>3, <1>5, <1>6 DEF Exact
<1>8. QED
  BY <1>1, <1>3, <1>7, StaleFinish

LEMMA StaleSetIssueLabels ==
  ASSUME Inv, Inv', Replayed, backend = "sqlite", NEW r \in Requests, NEW i \in Issues, NEW L,
         SetIssueLabels(r, i, L)
  PROVE  Replayed'
<1> DEFINE new == {i} \X L
           old == TagsOf(i) \ new
           S == IF L = {} THEN {} ELSE {i}
           s == [j \in {i} |-> Payload(i, issues[i], new)]
           fx == [NoEffect EXCEPT !.untagged = old, !.tagged = new, !.shares = S, !.shown = s]
<1>1. There(i) /\ Finish(r, fx) /\ Others(r) = {}
  BY DEF SetIssueLabels, Asked, At
<1>2. \A t \in new \cup old : t[1] = i
  BY DEF TagsOf
<1>3. /\ DOMAIN s = {i} /\ s[i] = Payload(i, issues[i], new)
      /\ DOMAIN fx.issues = {} /\ fx.added = {} /\ fx.told = {} /\ fx.cut = {}
      /\ fx.tagged = new /\ fx.untagged = old /\ fx.shown = s
  BY NoEffectIs DEF NoEffect
<1>4. \A t \in tags : t[1] = i /\ t \notin new => t \in old
  BY DEF TagsOf
<1> HIDE DEF fx, s, new, old, S
<1>5. After(fx, i) = issues[i]
  BY <1>3 DEF After
<1>6. Payload(i, issues[i], TagsAfter(fx)) = Payload(i, issues[i], new)
  <2>1. {u \in TagsAfter(fx) : u[1] = i} = {u \in new : u[1] = i}
    BY <1>3, <1>4 DEF TagsAfter
  <2>2. QED
    BY <2>1 DEF Payload
<1>7. Exact(fx)
  BY <1>1, <1>2, <1>3, <1>5, <1>6 DEF Exact, There
<1>8. QED
  BY <1>1, <1>3, <1>7, StaleFinish

LEMMA StaleCreateRelease ==
  ASSUME Inv, Inv', Replayed, backend = "sqlite", NEW r \in Requests, NEW I \in SUBSET Issues,
         CreateRelease(r, I)
  PROVE  Replayed'
<1> DEFINE n == used.rows + 1
           x == [kind |-> "release", of |-> None, id |-> n]
           stamped == {i \in I : ~issues[i].released}
           f == [i \in stamped |-> [issues[i] EXCEPT !.released = TRUE]]
           s == [i \in I |-> Payload(i, [issues[i] EXCEPT !.released = TRUE], tags)]
           fx == [NoEffect EXCEPT !.added = {x}, !.held = {x}, !.told = {x}, !.shares = I,
                    !.issues = f, !.shown = s]
<1>1. /\ used' = [used EXCEPT !.rows = @ + 1] /\ Others(r) = {}
      /\ \A i \in I : There(i)
      /\ Stage(r, fx, {})
  BY DEF CreateRelease, Asked, At
<1>2. used.rows <= used'.rows /\ x.kind = "release"
  BY <1>1, UsedRows DEF Inv, Types, UsedType
<1>3. /\ DOMAIN f = stamped /\ \A i \in stamped : f[i] = [issues[i] EXCEPT !.released = TRUE]
      /\ DOMAIN s = I /\ \A i \in I : s[i] = Payload(i, [issues[i] EXCEPT !.released = TRUE], tags)
  OBVIOUS
<1>4. /\ fx.added = {x} /\ fx.told = {x} /\ fx.cut = {} /\ fx.tagged = {} /\ fx.untagged = {}
      /\ fx.issues = f /\ fx.shown = s
  BY NoEffectIs DEF NoEffect
<1>5. \A i \in I : ~issues[i].released \/ [issues[i] EXCEPT !.released = TRUE] = issues[i]
  BY DEF Inv, Types, Issue
<1>6. \A i \in I : [issues[i] EXCEPT !.released = TRUE].at = "there"
  BY <1>1 DEF Inv, Types, Issue, There
<1> HIDE DEF fx, f, s, x, n
<1>7. \A i \in I : After(fx, i) = [issues[i] EXCEPT !.released = TRUE]
  BY <1>3, <1>4, <1>5 DEF After
<1>8. TagsAfter(fx) = tags
  BY <1>4 DEF TagsAfter
<1>9. \A i \in DOMAIN fx.shown :
        After(fx, i).at = "there" /\ fx.shown[i] = Payload(i, After(fx, i), TagsAfter(fx))
  <2>1. ASSUME NEW i \in DOMAIN fx.shown
        PROVE  After(fx, i).at = "there" /\ fx.shown[i] = Payload(i, After(fx, i), TagsAfter(fx))
    <3>1. i \in I /\ fx.shown[i] = Payload(i, [issues[i] EXCEPT !.released = TRUE], tags)
      BY <1>3, <1>4, <2>1
    <3>2. After(fx, i) = [issues[i] EXCEPT !.released = TRUE]
      BY <1>7, <3>1
    <3>3. After(fx, i).at = "there"
      BY <1>6, <3>1, <3>2
    <3>4. QED
      BY <1>8, <3>1, <3>2, <3>3
  <2>2. QED
    BY <2>1
<1>10. Exact(fx) /\ Unseen(fx)
  BY <1>2, <1>3, <1>4, <1>9 DEF Exact, Unseen
<1>11. QED
  BY <1>1, <1>2, <1>10, StaleStage

LEMMA StaleArchiveIssue ==
  ASSUME Inv, Inv', Replayed, backend = "sqlite", NEW r \in Requests, NEW i \in Issues,
         ArchiveIssue(r, i)
  PROVE  Replayed'
<1> DEFINE v == [issues[i] EXCEPT !.archived = TRUE]
           hit == IF There(i) THEN {i} ELSE {}
           f == [j \in hit |-> v]
           left == reqs[r].ids \ {i}
           fx == [NoEffect EXCEPT !.issues = f, !.hidden = {i}]
<1>1. Stage(r, fx, left) /\ UNCHANGED used /\ Others(r) = {}
  BY DEF ArchiveIssue, At
<1>2. /\ fx.added = {} /\ fx.told = {} /\ fx.cut = {} /\ fx.tagged = {} /\ fx.untagged = {}
      /\ fx.issues = f /\ DOMAIN fx.shown = {} /\ fx.hidden = {i} /\ DOMAIN f \subseteq {i}
  BY NoEffectIs DEF NoEffect
<1> HIDE DEF fx, f, left
<1>3. Exact(fx) /\ Unseen(fx)
  BY <1>2 DEF Exact, Unseen
<1>4. QED
  BY <1>1, <1>3, UsedRows, StaleStage

LEMMA StaleDestroyIssue ==
  ASSUME Inv, Inv', Replayed, backend = "sqlite", NEW r \in Requests, DestroyIssue(r)
  PROVE  Replayed'
<1> DEFINE i == reqs[r].of
           seen == reqs[r].seen
           doomed == seen \cap rows
           v == [Unborn EXCEPT !.at = "gone"]
           f == [j \in {i} |-> v]
           old == TagsOf(i)
           fx == [NoEffect EXCEPT !.cut = doomed, !.held = doomed, !.evicted = seen,
                    !.untagged = old, !.hidden = {i}, !.issues = f]
<1>1. Finish(r, fx) /\ Others(r) = {}
  BY DEF DestroyIssue, At
<1>2. /\ fx.added = {} /\ fx.told = {} /\ fx.cut = doomed /\ fx.evicted = seen /\ fx.tagged = {}
      /\ fx.untagged = old /\ fx.issues = f /\ DOMAIN fx.shown = {} /\ fx.hidden = {i}
      /\ DOMAIN f = {i} /\ \A t \in old : t[1] = i
  BY NoEffectIs DEF NoEffect, TagsOf
<1> HIDE DEF fx, f, old, i, seen
<1>3. Exact(fx)
  BY <1>2 DEF Exact
<1>4. QED
  BY <1>1, <1>2, <1>3, StaleFinish

LEMMA StaleReads ==
  ASSUME Inv, Replayed, backend = "sqlite", NEW r \in Requests,
         \/ \E x \in rows : FindFavorite(r, x)
         \/ \E p \in Projects : CollectProject(r, p)
         \/ \E i \in Issues : CollectIssue(r, i)
         \/ \E I \in SUBSET Issues : SelectOld(r, I)
         \/ Abandon(r)
  PROVE  Replayed'
<1>1. PICK w : /\ w.fx = NoEffect /\ reqs' = [reqs EXCEPT ![r] = w] /\ DatabaseOnly
               /\ Open(w) => Others(r) = {} /\ Collected(w)
  <2>1. ASSUME NEW x \in rows, FindFavorite(r, x)
        PROVE  \E w : /\ w.fx = NoEffect /\ reqs' = [reqs EXCEPT ![r] = w] /\ DatabaseOnly
                      /\ Open(w) => Others(r) = {} /\ Collected(w)
    <3> DEFINE w == [Idle EXCEPT !.at = "unpin", !.seen = {x}]
    <3>1. reqs' = [reqs EXCEPT ![r] = w] /\ DatabaseOnly
      BY <2>1 DEF FindFavorite
    <3>2. w.fx = NoEffect /\ ~Open(w)
      BY DEF Open, Idle
    <3> HIDE DEF w
    <3>3. QED
      BY <3>1, <3>2
  <2>2. ASSUME NEW p \in Projects, CollectProject(r, p)
        PROVE  \E w : /\ w.fx = NoEffect /\ reqs' = [reqs EXCEPT ![r] = w] /\ DatabaseOnly
                      /\ Open(w) => Others(r) = {} /\ Collected(w)
    <3> DEFINE w == [Idle EXCEPT !.at = "destroy", !.of = p,
                       !.seen = PartsOf(p) \cup FavoritesOf(p), !.ids = Attached(p)]
    <3>1. reqs' = [reqs EXCEPT ![r] = w] /\ DatabaseOnly /\ Others(r) = {}
      BY <2>2 DEF CollectProject, Asked, At
    <3>2. w.fx = NoEffect /\ Collected(w)
      BY DEF Collected, Idle
    <3> HIDE DEF w
    <3>3. QED
      BY <3>1, <3>2
  <2>3. ASSUME NEW i \in Issues, CollectIssue(r, i)
        PROVE  \E w : /\ w.fx = NoEffect /\ reqs' = [reqs EXCEPT ![r] = w] /\ DatabaseOnly
                      /\ Open(w) => Others(r) = {} /\ Collected(w)
    <3> DEFINE w == [Idle EXCEPT !.at = "destroy", !.of = i, !.seen = FavoritesOf(i)]
    <3>1. reqs' = [reqs EXCEPT ![r] = w] /\ DatabaseOnly /\ Others(r) = {}
      BY <2>3 DEF CollectIssue, Asked, At
    <3>2. w.fx = NoEffect /\ Collected(w)
      BY RecordsAssumption DEF Collected, Idle
    <3> HIDE DEF w
    <3>3. QED
      BY <3>1, <3>2
  <2>4. ASSUME NEW I \in SUBSET Issues, SelectOld(r, I)
        PROVE  \E w : /\ w.fx = NoEffect /\ reqs' = [reqs EXCEPT ![r] = w] /\ DatabaseOnly
                      /\ Open(w) => Others(r) = {} /\ Collected(w)
    <3> DEFINE w == [Idle EXCEPT !.at = "sweep", !.ids = I]
    <3>1. reqs' = [reqs EXCEPT ![r] = w] /\ DatabaseOnly
      BY <2>4 DEF SelectOld
    <3>2. w.fx = NoEffect /\ ~Open(w)
      BY DEF Open, Idle
    <3> HIDE DEF w
    <3>3. QED
      BY <3>1, <3>2
  <2>5. CASE Abandon(r)
    <3>1. Idle.fx = NoEffect /\ ~Open(Idle)
      BY DEF Open, Idle
    <3>2. QED
      BY <2>5, <3>1 DEF Abandon
  <2>6. QED
    BY <2>1, <2>2, <2>3, <2>4, <2>5
<1>2. QED
  BY <1>1, StaleRead

LEMMA SameBackend == [Next]_vars => backend' = backend
<1>1. ASSUME NEW r, NEW fx, NEW left, Stage(r, fx, left) PROVE backend' = backend
  BY <1>1 DEF Stage
<1>2. ASSUME DatabaseOnly PROVE backend' = backend
  BY <1>2 DEF DatabaseOnly
<1>3. ASSUME NEW r, NEW fx, Finish(r, fx) PROVE backend' = backend
  BY <1>3, <1>1 DEF Finish
<1>4. ASSUME NEW r, NEW x, Insert(r, x) \/ Rewrite(r, x) PROVE backend' = backend
  BY <1>4, <1>1, <1>3 DEF Insert, Rewrite
<1>5. ASSUME NEW r, NEW k, NEW o, InsertNew(r, k, o) PROVE backend' = backend
  BY <1>5, <1>4 DEF InsertNew
<1>6. ASSUME NEW r, NEW i, NEW v, UpdateIssue(r, i, v) PROVE backend' = backend
  BY <1>6, <1>3 DEF UpdateIssue, Write
<1>7. ASSUME NEW r, NEW p,
             \/ CreateProject(r, p) \/ AddMember(r, p) \/ RemoveMember(r, p)
             \/ CreateMilestone(r, p) \/ CreateUpdate(r, p) \/ CollectProject(r, p)
      PROVE  backend' = backend
  BY <1>7, <1>2, <1>3, <1>4, <1>5 DEF CreateProject, AddMember, RemoveMember, CreateMilestone,
     CreateUpdate, CollectProject
<1>8. ASSUME NEW r, NEW x,
             \/ UpdateProject(r, x) \/ UpdateMilestone(r, x) \/ UpdateLabel(r, x)
             \/ DeleteMilestone(r, x) \/ DeleteLabel(r, x) \/ FindFavorite(r, x)
      PROVE  backend' = backend
  BY <1>8, <1>2, <1>3, <1>4 DEF UpdateProject, UpdateMilestone, UpdateLabel, DeleteMilestone,
     DeleteLabel, FindFavorite
<1>9. ASSUME NEW r, NEW t, AddFavorite(r, t) PROVE backend' = backend
  BY <1>9, <1>3, <1>5 DEF AddFavorite
<1>10. ASSUME NEW r, CreateLabel(r) \/ RemoveFavorite(r) \/ DestroyProject(r) \/ DestroyIssue(r)
       PROVE  backend' = backend
  BY <1>10, <1>2, <1>3, <1>5 DEF CreateLabel, RemoveFavorite, DestroyProject, DestroyIssue
<1>11. ASSUME NEW r, RowStep(r) PROVE backend' = backend
  BY <1>11, <1>7, <1>8, <1>9, <1>10 DEF RowStep
<1>12. ASSUME NEW r, NEW i, NEW p,
              AssignProject(r, i, p) \/ AssignMilestone(r, i, p) \/ SetStatus(r, i, p)
              \/ SetSortOrder(r, i) \/ SetIssueLabels(r, i, p)
       PROVE  backend' = backend
  BY <1>12, <1>3, <1>6 DEF AssignProject, AssignMilestone, SetStatus, SetSortOrder, SetIssueLabels
<1>13. ASSUME NEW r, NEW i, NEW p, NEW m, NEW L, CreateIssue(r, i, p, m, L) PROVE backend' = backend
  BY <1>13, <1>3 DEF CreateIssue
<1>14. ASSUME NEW r, NEW i, CollectIssue(r, i) \/ ArchiveIssue(r, i) PROVE backend' = backend
  BY <1>14, <1>1, <1>2 DEF CollectIssue, ArchiveIssue
<1>15. ASSUME NEW r, NEW I, CreateRelease(r, I) \/ SelectOld(r, I) PROVE backend' = backend
  BY <1>15, <1>1, <1>2 DEF CreateRelease, SelectOld
<1>16. ASSUME NEW r, IssueStep(r) PROVE backend' = backend
  BY <1>16, <1>10, <1>12, <1>13, <1>14, <1>15 DEF IssueStep
<1>17. ASSUME NEW r, Commit(r) \/ Abandon(r) PROVE backend' = backend
  BY <1>17, <1>2 DEF Commit, Abandon
<1>18. QED
  BY <1>11, <1>16, <1>17 DEF Next, vars

LEMMA StaleNext == Inv /\ KeysInv /\ StaleInv /\ [Next]_vars => StaleInv'
<1>1. SUFFICES ASSUME Inv, KeysInv, StaleInv, [Next]_vars, backend' = "sqlite" PROVE Replayed'
  BY DEF StaleInv
<1>2. Inv' /\ KeysInv'
  BY <1>1, NextOK, KeysNext
<1>3. backend' = backend
  BY <1>1, SameBackend
<1>4. backend = "sqlite" /\ Replayed
  BY <1>1, <1>3 DEF StaleInv
<1>5. ASSUME NEW r \in Requests, RowStep(r) PROVE Replayed'
  BY <1>1, <1>2, <1>4, <1>5, StaleInserts, StaleRows, StaleReads, StaleDestroyProject DEF RowStep
<1>6. ASSUME NEW r \in Requests, IssueStep(r) PROVE Replayed'
  BY <1>1, <1>2, <1>4, <1>6, StaleFields, StaleCreateIssue, StaleSetIssueLabels,
     StaleCreateRelease, StaleArchiveIssue, StaleDestroyIssue, StaleReads DEF IssueStep
<1>7. CASE UNCHANGED vars
  <2>1. UNCHANGED <<backend, calls, rows, used, issues, tags, picture, reqs>>
    BY <1>7 DEF vars
  <2>2. NothingStale'
    BY <1>4, <2>1 DEF Replayed, NothingStale, There, Ids, OfKind, TagsOf
  <2>3. \A r \in Requests : Exact(F(r))' /\ Unseen(F(r))'
    BY <1>4, <2>1 DEF Replayed, Exact, Unseen, After, TagsAfter, F
  <2>4. \A r \in Requests : Collected(reqs[r])'
    BY <1>4, <2>1 DEF Replayed, Collected, PartsOf, FavoritesOf, OfKind, Attached, There
  <2>5. QED
    BY <1>4, <2>1, <2>2, <2>3, <2>4 DEF Replayed, Open
<1>8. QED
  BY <1>1, <1>2, <1>4, <1>5, <1>6, <1>7, StaleCommit, StaleReads DEF Next

\* On SQLite clients are left with nothing that is gone, and with no issue other
\* than it is: every row that a delete takes is evicted, and every issue that a
\* call changes is shown as the commit leaves it, or hidden (project_service.rs,
\* delete_project: "nor left without the row that replays one that was not").
THEOREM NothingStaleAlways == Spec => []NothingStale
<1>1. Init => Inv /\ KeysInv /\ StaleInv
  BY InitOK, KeysInit, StaleInit
<1>2. Inv /\ KeysInv /\ StaleInv /\ [Next]_vars => Inv' /\ KeysInv' /\ StaleInv'
  BY NextOK, KeysNext, StaleNext
<1>3. StaleInv => NothingStale
  BY DEF StaleInv, Replayed, NothingStale
<1>4. QED
  BY <1>1, <1>2, <1>3, PTL DEF Spec
=============================================================================
